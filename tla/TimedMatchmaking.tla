--------------------------- MODULE TimedMatchmaking ---------------------------
(***************************************************************************)
(* Matchmaking with the time it takes.  A client that has sent             *)
(* CLIENT_VERSUS gives up after twice WAIT_FOR_RESPONSE (client/main.c     *)
(* 317-322), and its thread may sleep, wait for the mutex and wait at the  *)
(* barrier before it answers.                                              *)
(*                                                                         *)
(* Time passes, one unit at a time, only while every thread waits: what a  *)
(* thread does between two waits takes no time that matters here.          *)
(***************************************************************************)
EXTENDS Matchmaking

CONSTANT WAIT_FOR_RESPONSE   (* in units of time *)

ASSUME WaitAssumption == WAIT_FOR_RESPONSE \in Nat \ {0}

VARIABLE waited   (* how long each client has been waiting for its answer *)

(* From CLIENT_VERSUS to SERVER_NO_OPPONENTS or GAME_STARTED. *)
Unanswered == {"arrive", "read_ready", "sleep", "check", "no_opponents", "barrier", "game_started"}

(* mutant: the sleep is as long as the client's patience, and a bit *)
SleepsLonger == 2 * WAIT_FOR_RESPONSE + 1

SleepTime == WAIT_FOR_RESPONSE

(* The sleep of ReadReady(t) begins with the VERSUS. *)
Sleeps(t) == pc[t] = "sleep" /\ waited[t] < SleepTime

Waits(t) ==
  \/ pc[t] \in {"request", "choose", "game_loop", "exited", "down"}
  \/ Sleeps(t)
  \/ pc[t] = "check" /\ ~SyncIsFree /\ ~sync_abandoned
  \/ pc[t] = "barrier" /\ \E u \in Threads : pc[u] # "barrier"

(* The time of a client that has run out of patience is not counted on. *)
Tick ==
  /\ \A t \in Threads : Waits(t)
  /\ waited' = [t \in Threads |->
       IF pc[t] \in Unanswered /\ waited[t] <= 2 * WAIT_FOR_RESPONSE
         THEN waited[t] + 1 ELSE waited[t]]
  /\ UNCHANGED vars

TimedStep ==
  /\ Next
  /\ \A t \in Threads : Sleeps(t) => pc'[t] \in {"sleep", "down"}
  /\ waited' = [t \in Threads |-> IF pc'[t] \in Unanswered THEN waited[t] ELSE 0]

TimedInit == Init /\ waited = [t \in Threads |-> 0]

TimedSpec ==
  /\ TimedInit
  /\ [][TimedStep \/ Tick]_<<vars, waited>>

-----------------------------------------------------------------------------
(* No client gives up on a server that is about to answer: whatever the
   other client does, and whatever has happened before, an answer comes, or
   the thread ends (as it does on an abandoned mutex, without an answer),
   within the time of one sleep, which leaves the client's patience as much
   again for the network. *)
AnsweredInTime == \A t \in Threads : waited[t] <= WAIT_FOR_RESPONSE
=============================================================================
