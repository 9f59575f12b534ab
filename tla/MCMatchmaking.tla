---------------------------- MODULE MCMatchmaking ----------------------------
(* Matchmaking with a history of its count, which the code keeps by hand.   *)
EXTENDS Matchmaking

Counted(t) == pc[t] \in OnTheWay \cup {"no_opponents", "decrease"}

InGame(t) == pc[t] \in {"game_started", "game_loop", "reinit"}

(* History: a game has left the count wrong.  A thread that ends in a game  *)
(* from which the other one has not come out stays counted.  One that comes *)
(* out sets the count to zero, which is right again unless the other one    *)
(* has registered for the next game.                                        *)
VARIABLE miscounted

EndsInGame(t) == InGame(t) /\ pc'[t] = "exited"

ComesOut(t) == pc[t] = "reinit" /\ pc'[t] = "menu"

MiscountedNext ==
  \/ \E t, u \in Threads : t # u /\ EndsInGame(t) /\ InGame(u)
  \/ IF \E t \in Threads : ComesOut(t) THEN \E u \in Threads : Counted(u)
     ELSE miscounted

MCInit == Init /\ miscounted = FALSE

MCNext == Next /\ miscounted' = MiscountedNext

MCSpec == MCInit /\ [][MCNext]_<<vars, miscounted>>

MCFairSpec == MCSpec /\ Fairness

(* "this function checks if two threads are ready to play" (service_thread.c:430):
   a thread that looks at the count while the other one has arrived, too, and
   waits, reads two, and not less (it would refuse a client that has an
   opponent) nor more.  Arrivals, give-ups and failing sends of both threads
   keep the count so, and so does coming out of a game before the other one;
   the exceptions are the two ways named above.  With no thread left in a game
   the count does not recover from them: it is set right by games only, and
   none starts. *)
ReadyAreSeen ==
  ~miscounted =>
    \A t, u \in Threads :
      t # u /\ pc[t] = "check" /\ SyncIsFree /\ pc[u] \in OnTheWay
        => num_of_players_ready_to_play = NUM_OF_WORKER_THREADS
=============================================================================
