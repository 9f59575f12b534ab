------------------------------ MODULE MCProtocol ------------------------------
(* Two clients on the whole server, with the histories that the properties  *)
(* need.                                                                    *)
EXTENDS Protocol, SequencesExt

CONSTANTS t1, t2, alice, bob

MCThreads == {t1, t2}
MCMoves == {Boom, 1}
MCUserName == (t1 :> alice) @@ (t2 :> bob)

VARIABLES
  departed,   (* history: how the last game has departed from its promise       *)
  shown       (* history: the moves and the winner each user was shown in the   *)
              (* last game                                                      *)

MCInit ==
  /\ PInit
  /\ departed = {}
  /\ shown = [t \in Threads |-> <<>>]

(* The contract of server_game_loop(): where GameLoop starts. *)
StartsAsGameLoop ==
  /\ \A t, u \in Threads : t # u => num_of_player[t] # num_of_player[u]
  /\ game_number = 0
  /\ ~game_has_ended
  /\ current_player_move = NULL
  /\ event = NULL

(* "start": a game starts outside of that contract (matchmaking_roles).
   "signal": a thread consumes its own signal.
   "reset": the resources are set to zero while the other thread is still to
   read the verdict (service_threads_ends). *)
Departures ==
  {d \in {"start", "signal", "reset"} :
    \/ d = "start" /\ MeetAtBarrier /\ ~StartsAsGameLoop
    \/ \E t \in Threads :
         \/ /\ d = "signal" /\ InLoop(t) /\ event = t
            /\ game_pc[t] = "wait" /\ game_pc'[t] = "read_move"
         \/ /\ d = "reset" /\ pc[t] = "reinit" /\ pc'[t] = "menu"
            /\ \E u \in Threads : InLoop(u) /\ ~game_has_finished[u]}

(* What GAME_VIEW and GAME_ENDED make the client print. *)
ShownNow(t) ==
  CASE place[t] \in {"own_view", "other_view"} -> <<Front(C!Received(t).parameters)>>
    [] place[t] = "ended" -> <<C!Received(t).parameters>>
    [] OTHER -> <<>>

(* No game so far has started outside of the contract. *)
InContract == "start" \notin departed

(* Bound: the first game that starts outside of its contract is played to its
   end, and no thread goes back to the menu after it. *)
ServerGoesOn(t) == InContract \/ pc[t] \in {"game_started", "game_loop"}

MCNext ==
  \/ \E t \in Threads :
       /\ \/ /\ \/ ThreadStep(t) /\ ServerGoesOn(t)
                \/ UserStep(t) \/ Leaves(t)
             /\ UNCHANGED shown
          \/ ClientTakes(t) /\ shown' = [shown EXCEPT ![t] = @ \o ShownNow(t)]
          \/ Connects(t) /\ InContract /\ shown' = [shown EXCEPT ![t] = <<>>]
       /\ departed' = departed \cup Departures
  \/ /\ MeetsAtBarrier /\ InContract
     /\ shown' = [t \in Threads |-> <<>>]
     /\ departed' = Departures

MCSpec == MCInit /\ [][MCNext]_<<allvars, departed, shown>>

-----------------------------------------------------------------------------
(***************************************************************************)
(* Properties.  All of them are about clients of different names, whose    *)
(* games have started as server_game_loop() takes them to.  A game that    *)
(* starts otherwise (two players number 1, or resources of a former game   *)
(* that are not clean; MeetAtBarrier lets both happen) is an exception to  *)
(* each of them, and a real one: two players number 1 are both asked for   *)
(* the first move, and are both sent player_2_name as the opponent's,      *)
(* which may be their own name.                                            *)
(***************************************************************************)

(* In contract, the server never runs ahead of a client by more than five
   messages, and a client never has more than one on its way. *)
WireTypeOK ==
  /\ place \in [Threads -> C!Places]
  /\ InContract =>
       \A t \in Threads : Len(to_client[t]) <= 5 /\ Len(to_server[t]) <= 1

(* What a thread takes the next message for, where it waits for one. *)
ServerAwaits ==
  [request   |-> {"CLIENT_REQUEST"},
   choose    |-> {"CLIENT_VERSUS", "CLIENT_DISCONNECT"},
   recv_move |-> {"CLIENT_PLAYER_MOVE"}]

ServerPlace(t) == IF pc[t] = "game_loop" THEN game_pc[t] ELSE pc[t]

(* Neither side looks at most of the types, so each must be sent what it
   waits for, in every order of the threads' steps and however far the other
   side is behind: in contract, the next message for a client that waits for
   one is the one it takes it for, and a message comes to a thread only where
   the thread waits for it. *)
InStep ==
  InContract =>
    \A t \in Threads :
      /\ place[t] \in DOMAIN C!Awaits /\ to_client[t] # <<>>
           => C!Received(t).type \in C!Awaits[place[t]]
      /\ connected[t] /\ pc[t] # "down" /\ to_server[t] # <<>>
           => /\ ServerPlace(t) \in DOMAIN ServerAwaits
              /\ Received(t).type \in ServerAwaits[ServerPlace(t)]

(* In contract, a client and its thread never wait for each other: where the
   thread waits for a message, it is on its way, the user is asked for it, or
   the client has been sent what makes it ask. *)
NeverBothWaiting ==
  InContract =>
    \A t \in Threads :
      connected[t] /\ ServerPlace(t) \in DOMAIN ServerAwaits
        => \/ to_server[t] # <<>>
           \/ place[t] \in C!UserPlaces
           \/ to_client[t] # <<>>

(* "check if it's this player's turn" (client/main.c:396): in contract, the
   two clients never both take it for their own turn, whether they wait for
   SERVER_MOVE_REQUEST or ask the user already.  Each decides that from a name
   in a message it reads late, so with one name for both it does not hold. *)
OwnTurn == {"move_request", "enter_move"}

OneUserMoves ==
  InContract =>
    \A t, u \in Threads : t # u => ~(place[t] \in OwnTurn /\ place[u] \in OwnTurn)

(* Both users see one game: what one of them has been shown, moves, who made
   them and the winner, is the beginning of what the other one has been
   shown.  Each of the departures breaks this: a thread that consumes its own
   signal shows its client its own move as the opponent's. *)
SameGameShown ==
  departed = {} =>
    \A t, u \in Threads : IsPrefix(shown[t], shown[u]) \/ IsPrefix(shown[u], shown[t])
=============================================================================
