------------------------------- MODULE BoomGame -------------------------------
(***************************************************************************)
(* What server_game_loop() promises its players: one game of boom, with no *)
(* threads, no event and no messages.  Right moves count the number up, a  *)
(* wrong move ends the game, and then each player that is still there is   *)
(* told the winner, all of them the same one.  Who makes a move is left    *)
(* open: the code does not always take turns.                              *)
(***************************************************************************)
EXTENDS BoomRules

CONSTANTS Players, Names, Moves, NULL

VARIABLES
  number,      (* the last number that was reached                        *)
  last,        (* the last move, or NULL                                  *)
  over,        (* whether it was a wrong one                              *)
  announced    (* the winner each player has been told, or NULL           *)

vars == <<number, last, over, announced>>

Init ==
  /\ number = 0
  /\ last = NULL
  /\ over = FALSE
  /\ announced = [p \in Players |-> NULL]

Move ==
  /\ ~over
  /\ last' \in Moves
  /\ UNCHANGED <<number, over, announced>>

RightMove ==
  /\ ~over
  /\ ~MoveLoses(last, number + 1)
  /\ number' = number + 1
  /\ UNCHANGED <<last, over, announced>>

WrongMove ==
  /\ ~over
  /\ MoveLoses(last, number + 1)
  /\ over' = TRUE
  /\ UNCHANGED <<number, last, announced>>

Announce(p) ==
  /\ over
  /\ announced[p] = NULL
  /\ \E name \in Names :
       /\ \A q \in Players : announced[q] \in {NULL, name}
       /\ announced' = [announced EXCEPT ![p] = name]
  /\ UNCHANGED <<number, last, over>>

(* The connection of a player is lost. *)
Leave(p) ==
  /\ announced' = [announced EXCEPT ![p] = NULL]
  /\ UNCHANGED <<number, last, over>>

Next ==
  \/ Move \/ RightMove \/ WrongMove
  \/ \E p \in Players : Announce(p) \/ Leave(p)

Spec == Init /\ [][Next]_vars
=============================================================================
