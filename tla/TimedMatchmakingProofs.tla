------------------------ MODULE TimedMatchmakingProofs ------------------------
(***************************************************************************)
(* AnsweredInTime of TimedMatchmaking, for every WAIT_FOR_RESPONSE.        *)
(*                                                                         *)
(* A client may have waited for the sleep of its thread; what is to be     *)
(* shown is that no other wait comes on top of it.  Nobody waits for the   *)
(* mutex while time passes, as its owner is busy; and who waits at the     *)
(* barrier waits for a thread that was asleep before it: two threads that  *)
(* have both slept never go there together.                                *)
(***************************************************************************)
EXTENDS TimedMatchmaking, MatchmakingProofs

(* The mutex is held only where its owner is busy. *)
OwnerInv == \A t \in Threads : sync_owner = t => Holding(t) \/ pc[t] = "down"

Slept(t) == pc[t] = "sleep" \/ (pc[t] = "check" /\ waited[t] = WAIT_FOR_RESPONSE)

TimeInv ==
  /\ waited \in [Threads -> Nat]
  /\ \A t \in Threads :
       /\ waited[t] <= WAIT_FOR_RESPONSE
       /\ pc[t] \notin {"sleep", "check", "no_opponents", "barrier", "game_started"}
            => waited[t] = 0
       /\ pc[t] = "check" => waited[t] \in {0, WAIT_FOR_RESPONSE}
  /\ \A t, u \in Threads : t # u =>
       /\ Slept(t) /\ Slept(u) => num_of_players_ready_to_play # 2
       /\ pc[t] = "barrier" /\ pc[u] = "sleep" => waited[t] <= waited[u]

-----------------------------------------------------------------------------
(* The mutex.                                                              *)

LEMMA OwnerInit == Init => OwnerInv
BY NullAssumption DEF Init, OwnerInv

LEMMA OwnerStep == TypeOK /\ OwnerInv /\ [Next]_vars => OwnerInv'
<1> SUFFICES ASSUME TypeOK, OwnerInv, [Next]_vars PROVE OwnerInv'
  OBVIOUS
<1> USE NullAssumption DEF TypeOK, OwnerInv, Holding, Goto, session, queue, sync
<1>1. ASSUME NEW t \in Threads, ServerStep(t) PROVE OwnerInv'
  BY <1>1 DEF ServerStep, SendMenu, Arrive, ReadReady, WakeUp, FailAbandoned,
         SendNoOpponents, NoOpponentsFails, DecreaseReady, ResetFirstArrived,
         StartGame, SocketFails, ConnectionError, SocketPlaces
<1>2. ASSUME NEW t \in Threads, CheckReady(t) PROVE OwnerInv'
  BY <1>2 DEF CheckReady
<1>3. ASSUME NEW t \in Threads, ClientStep(t) PROVE OwnerInv'
  BY <1>3 DEF ClientStep, NewClient, Approve, RequestFails, RecvVersus,
         RecvDisconnect, ClientLeaves
<1>4. ASSUME NEW t \in Threads, Reinit(t) \/ PlayGame(t) \/ GameFails(t)
      PROVE  OwnerInv'
  BY <1>4 DEF Reinit, PlayGame, GameFails, ConnectionError
<1>5. ASSUME LeaveBarrier \/ ServerStops PROVE OwnerInv'
  BY <1>5 DEF LeaveBarrier, ServerStops
<1>6. ASSUME UNCHANGED vars PROVE OwnerInv'
  BY <1>6 DEF vars
<1> QED
  BY <1>1, <1>2, <1>3, <1>4, <1>5, <1>6 DEF Next

-----------------------------------------------------------------------------
(* Time.                                                                   *)

LEMMA TimeInit == Init /\ waited = [t \in Threads |-> 0] => TimeInv
BY WaitAssumption DEF Init, TimeInv, Slept

(* Time passes only if nobody is about to look at the count, or to start a
   game, and each thread at the barrier waits for one that sleeps. *)
LEMMA WhoWaits ==
  ASSUME TypeOK, OwnerInv, DownInv, BarrierNeverStranded, Tick, NEW t \in Threads
  PROVE  \/ pc[t] \notin Unanswered
         \/ Sleeps(t)
         \/ pc[t] = "barrier" /\ \E u \in Threads \ {t} : Sleeps(u)
<1>1. Waits(t)
  BY DEF Tick
<1>2. pc[t] # "check"
  <2> SUFFICES ASSUME pc[t] = "check" PROVE FALSE
    OBVIOUS
  <2>1. sync_owner \in Threads
    BY <1>1 DEF Waits, Sleeps, SyncIsFree, TypeOK
  <2>2. PICK u \in Threads : sync_owner = u
    BY <2>1
  <2>3. Holding(u) \/ pc[u] = "down"
    BY <2>2 DEF OwnerInv
  <2>4. ~Waits(u)
    BY <2>3 DEF Holding, Waits, Sleeps, DownInv
  <2> QED
    BY <2>4 DEF Tick
<1>3. CASE pc[t] = "barrier"
  <2>1. PICK u \in Threads : pc[u] # "barrier"
    BY <1>1, <1>3 DEF Waits, Sleeps
  <2>2. Waits(u) /\ pc[u] \in OnTheWay /\ SyncIsFree
    BY <1>3 DEF Tick, BarrierNeverStranded, SyncIsFree
  <2>3. Sleeps(u)
    BY <2>1, <2>2 DEF Waits, OnTheWay
  <2> QED
    BY <1>3, <2>1, <2>3
<1> QED
  BY <1>1, <1>2, <1>3 DEF Waits, Unanswered

LEMMA TickKeepsTime ==
  ASSUME TypeOK, OwnerInv, DownInv, BarrierNeverStranded, TimeInv, Tick
  PROVE  TimeInv'
<1>1. /\ UNCHANGED vars
      /\ waited' \in [Threads -> Nat]
      /\ \A t \in Threads : waited'[t] = IF pc[t] \in Unanswered THEN waited[t] + 1
                                                                 ELSE waited[t]
  BY WaitAssumption DEF Tick, TimeInv
<1>2. UNCHANGED <<pc, num_of_players_ready_to_play>>
  BY <1>1 DEF vars, queue
<1>3. ASSUME NEW t \in Threads
      PROVE  /\ waited'[t] <= WAIT_FOR_RESPONSE
             /\ pc[t] # "check"
             /\ pc[t] \notin {"sleep", "check", "no_opponents", "barrier", "game_started"}
                  => waited'[t] = 0
  <2>1. CASE pc[t] \notin Unanswered
    BY <1>1, <2>1 DEF TimeInv, Unanswered
  <2>2. CASE Sleeps(t)
    BY <1>1, <2>2, WaitAssumption DEF TimeInv, Sleeps, SleepTime
  <2>3. CASE pc[t] = "barrier" /\ \E u \in Threads \ {t} : Sleeps(u)
    BY <1>1, <2>3, WaitAssumption DEF TimeInv, Sleeps, SleepTime
  <2> QED
    BY <2>1, <2>2, <2>3, WhoWaits
<1>4. ASSUME NEW t \in Threads, NEW u \in Threads, t # u
      PROVE  /\ Slept(t)' /\ Slept(u)' => num_of_players_ready_to_play # 2
             /\ pc[t] = "barrier" /\ pc[u] = "sleep" => waited'[t] <= waited'[u]
  BY <1>1, <1>2, <1>3, <1>4 DEF TimeInv, Slept, Unanswered
<1> QED
  BY <1>1, <1>2, <1>3, <1>4 DEF TimeInv

LEMMA StepKeepsTime ==
  ASSUME TypeOK, BarrierNeverStranded, TimeInv, TimedStep
  PROVE  TimeInv'
<1>1. /\ waited' \in [Threads -> Nat]
      /\ \A t \in Threads : waited'[t] = IF pc'[t] \in Unanswered THEN waited[t] ELSE 0
      /\ \A t \in Threads : Sleeps(t) => pc'[t] \in {"sleep", "down"}
      /\ \A t, u, v \in Threads : t # u => v = t \/ v = u
  BY ThreadsAssumption DEF TimedStep, TimeInv
<1> USE <1>1, WaitAssumption
        DEF TypeOK, TimeInv, Slept, Sleeps, SleepTime, Unanswered, Goto, session, queue, sync
<1>2. ASSUME NEW v \in Threads, SendMenu(v) \/ StartGame(v) \/ SocketFails(v)
      PROVE  TimeInv'
  BY <1>2 DEF SendMenu, StartGame, SocketFails, ConnectionError, SocketPlaces
<1>3. ASSUME NEW v \in Threads, Arrive(v) PROVE TimeInv'
  BY <1>3 DEF Arrive
<1>4. ASSUME NEW v \in Threads, ReadReady(v) PROVE TimeInv'
  BY <1>4 DEF ReadReady, BarrierNeverStranded, NUM_OF_WORKER_THREADS
<1>5. ASSUME NEW v \in Threads, WakeUp(v) PROVE TimeInv'
  BY <1>5 DEF WakeUp
<1>6. ASSUME NEW v \in Threads, FailAbandoned(v) PROVE TimeInv'
  BY <1>6 DEF FailAbandoned
<1>7. ASSUME NEW v \in Threads, SendNoOpponents(v) PROVE TimeInv'
  BY <1>7 DEF SendNoOpponents
<1>8. ASSUME NEW v \in Threads, NoOpponentsFails(v) \/ DecreaseReady(v) PROVE TimeInv'
  BY <1>8 DEF NoOpponentsFails, DecreaseReady, ReadyCountAfter
<1>9. ASSUME NEW v \in Threads, ResetFirstArrived(v) PROVE TimeInv'
  BY <1>9 DEF ResetFirstArrived
<1>10. ASSUME NEW v \in Threads, CheckReady(v) PROVE TimeInv'
  BY <1>10 DEF CheckReady, NUM_OF_WORKER_THREADS
<1>11. ASSUME NEW v \in Threads, ClientStep(v) PROVE TimeInv'
  BY <1>11 DEF ClientStep, NewClient, Approve, RequestFails, RecvVersus,
         RecvDisconnect, ClientLeaves
<1>12. ASSUME NEW v \in Threads, PlayGame(v) \/ GameFails(v) \/ Reinit(v) PROVE TimeInv'
  BY <1>12 DEF PlayGame, GameFails, ConnectionError, Reinit
<1>13. ASSUME LeaveBarrier \/ ServerStops PROVE TimeInv'
  BY <1>13 DEF LeaveBarrier, ServerStops
<1> QED
  BY <1>2, <1>3, <1>4, <1>5, <1>6, <1>7, <1>8, <1>9, <1>10, <1>11, <1>12, <1>13
     DEF TimedStep, Next, ServerStep

-----------------------------------------------------------------------------
(* The invariants of Matchmaking hold whatever time passes. *)
LEMMA TimedInductive == TimedSpec => [](IInv /\ OwnerInv /\ TimeInv)
<1>1. TimedInit => IInv /\ OwnerInv /\ TimeInv
  BY TypeInit, MutexInit, DownInit, CountInit, BarrierInit, FirstInit, NamesInit,
     FirstMoverInit, OwnerInit, TimeInit DEF IInv, TimedInit
<1>2. IInv /\ OwnerInv /\ TimeInv /\ [TimedStep \/ Tick]_<<vars, waited>>
        => (IInv /\ OwnerInv /\ TimeInv)'
  <2> SUFFICES ASSUME IInv, OwnerInv, TimeInv, [TimedStep \/ Tick]_<<vars, waited>>
               PROVE  (IInv /\ OwnerInv /\ TimeInv)'
    OBVIOUS
  <2>1. [Next]_vars
    BY DEF TimedStep, Tick
  <2>2. IInv' /\ OwnerInv'
    BY <2>1, TypeStep, MutexStep, DownStep, CountStep, BarrierStep, FirstStep,
       NamesStep, FirstMoverStep, OwnerStep DEF IInv
  <2>3. CASE TimedStep
    BY <2>2, <2>3, StepKeepsTime DEF IInv
  <2>4. CASE Tick
    BY <2>2, <2>4, TickKeepsTime DEF IInv
  <2>5. CASE UNCHANGED <<vars, waited>>
    BY <2>2, <2>5 DEF TimeInv, Slept, vars, queue
  <2> QED
    BY <2>3, <2>4, <2>5
<1> QED
  BY <1>1, <1>2, PTL DEF TimedSpec

(* AnsweredInTime of TimedMatchmaking: no thread keeps a client waiting for
   longer than one sleep, whatever WAIT_FOR_RESPONSE is. *)
THEOREM AnswersComeInTime == TimedSpec => []AnsweredInTime
<1>1. TimeInv => AnsweredInTime
  BY DEF TimeInv, AnsweredInTime
<1> QED
  BY <1>1, TimedInductive, PTL
=============================================================================
