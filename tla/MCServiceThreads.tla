--------------------------- MODULE MCServiceThreads ---------------------------
(* The whole server on small instances: with BOOM_NUMBER = 2 the second     *)
(* number is already a boom, and each player gets to move.                  *)
EXTENDS ServiceThreads, TLC

Symmetry == Permutations(Threads) \cup Permutations(Names)

MCMoves == {Boom, 1}

(* History of what the two properties below except.  "left": some thread    *)
(* has ended in the middle of a game; otherwise "apart": a thread has ended *)
(* instead of starting its game, the two players of a game had the same     *)
(* number, or a thread has set the resources to zero before the other one   *)
(* knew that the game was over.                                             *)
VARIABLE spoilt

InGame(t) == pc[t] \in {"game_started", "game_loop"}

Exits(t) == pc[t] # "exited" /\ pc'[t] = "exited"

Apart ==
  \/ \E t \in Threads : pc[t] = "game_started" /\ Exits(t)
  \/ \E t, u \in Threads :
       /\ t # u /\ InGame(u) /\ ~game_has_finished[u]
       /\ pc[t] = "reinit" /\ pc'[t] = "menu"
  \/ \A t, u \in Threads : pc[t] = "barrier" /\ num_of_player[t] = num_of_player[u]

MCInit == ServerInit /\ spoilt = "no"

MCNext ==
  /\ ServerNext
  /\ spoilt' =
       IF spoilt = "left" \/ \E t \in Threads : InLoop(t) /\ Exits(t) THEN "left"
       ELSE IF Apart THEN "apart"
       ELSE spoilt

MCSpec == MCInit /\ [][MCNext]_<<server_vars, spoilt>>

AtStart ==
  \A t \in Threads : pc[t] \in {"barrier", "game_started", "game_loop"} /\ ~InLoop(t)

(* A game starts with the resources of a new game, as long as no thread has
   ended in the middle of one: whoever comes late out of the former game has
   not written to them since they were set to zero. *)
GameStartsClean ==
  AtStart /\ spoilt # "left" =>
    /\ game_number = 0
    /\ ~game_has_ended
    /\ current_player_move = NULL

(* The event is not among the resources that are set to zero, and yet no
   signal of a former game is left in it when the next one starts: every
   signal has been consumed by the opponent it was meant for.  This needs
   players with different numbers, who both see their game from its start to
   its end. *)
EventStartsClear ==
  AtStart /\ spoilt = "no" => event = NULL
=============================================================================
