-------------------------- MODULE MatchmakingProofs --------------------------
(***************************************************************************)
(* BarrierNeverStranded, SomeoneMovesFirst and NamesPosted of Matchmaking, *)
(* for every set of names and with any clients leaving at any time.        *)
(*                                                                         *)
(* num_of_players_ready_to_play is not the number of waiting players: a    *)
(* thread that ends in a game stays counted, and one that is late out of   *)
(* a game may take the other one out of the count.  What saves the         *)
(* barrier is that the difference, Surplus, is never 1: the count says two *)
(* only when both threads are counted, or when both are in a game.         *)
(***************************************************************************)
EXTENDS Matchmaking, TLAPS

(* Threads that have arrived and not yet left the count. *)
Counted(t) == pc[t] \in {"read_ready", "sleep", "check", "no_opponents", "decrease",
        "barrier"}

Share(t) == IF Counted(t) THEN 1 ELSE 0

AfterBarrier(t) == pc[t] \in {"game_started", "game_loop", "reinit"}

Holding(t) == pc[t] \in {"no_opponents", "decrease", "reset_first"}

(* The server runs and its mutex is sound: only then can a game start. *)
Working == ~sync_abandoned /\ \A t \in Threads : pc[t] # "down"

(* What the count is off by, for the two threads t and u. *)
Surplus(t, u) == num_of_players_ready_to_play - Share(t) - Share(u)

MutexInv == \A t \in Threads : Holding(t) => sync_owner = t

(* The process ends as a whole. *)
DownInv == \A t, u \in Threads : pc[t] = "down" => pc[u] = "down"

CountInv ==
  Working => \A t, u \in Threads : t # u =>
    /\ AfterBarrier(t) /\ AfterBarrier(u) => num_of_players_ready_to_play = 2
    /\ AfterBarrier(t) /\ ~AfterBarrier(u) => Surplus(t, u) \in {0, 2}
    /\ ~AfterBarrier(t) /\ ~AfterBarrier(u) => Surplus(t, u) \in {-1, 0, 2}

(* While the count is exact, first_arrived = 1 has an owner, and a counted
   second player that is alone finds it at 0: the next to come is first. *)
Owns(t) == Counted(t) \/ pc[t] = "reset_first"

FirstInv ==
  /\ \A t \in Threads : Counted(t) => num_of_player[t] # 0
  /\ Working => \A t, u \in Threads : t # u /\ Surplus(t, u) = 0 =>
       /\ first_arrived = 1 => Owns(t) \/ Owns(u)
       /\ Counted(t) /\ num_of_player[t] = 2 /\ first_arrived = 1 => Owns(u)
       /\ Counted(t) /\ Counted(u) => num_of_player[t] = 1 \/ num_of_player[u] = 1

(* A counted player finds its own name in the shared resources, or the other
   thread has written over it as another first player; that one is not gone
   from first_arrived, or will be the first again. *)
NamesInv ==
  Working => \A t, u \in Threads : t # u /\ Surplus(t, u) = 0 /\ Counted(t) =>
    \/ player_name[num_of_player[t]] = client_name[t]
    \/ /\ num_of_player[t] = 1
       /\ IF Owns(u) THEN num_of_player[u] = 1 ELSE first_arrived = 0

-----------------------------------------------------------------------------
(* Type correctness. *)

LEMMA TypeInit == Init => TypeOK
<1> SUFFICES ASSUME Init PROVE TypeOK
  OBVIOUS
<1>1. player_name \in [1..2 -> Names \cup {NULL}]
  BY DEF Init
<1>2. /\ pc \in [Threads -> Places]
      /\ connected \in [Threads -> BOOLEAN]
      /\ num_of_player \in [Threads -> 0..2]
  BY DEF Init, Places
<1>3. client_name \in [Threads -> Names]
  BY DEF Init
<1>4. first_arrived \in 0..1
  BY DEF Init
<1>5. num_of_players_ready_to_play \in Int
  BY DEF Init
<1>6. sync_owner \in Threads \cup {NULL}
  BY DEF Init
<1>7. sync_abandoned \in BOOLEAN
  BY DEF Init
<1> QED
  BY <1>1, <1>2, <1>3, <1>4, <1>5, <1>6, <1>7 DEF TypeOK

LEMMA TypeStep == TypeOK /\ [Next]_vars => TypeOK'
<1> SUFFICES ASSUME TypeOK, [Next]_vars PROVE TypeOK'
  OBVIOUS
<1> USE ThreadsAssumption, NullAssumption
        DEF TypeOK, Places, Goto, session, queue, sync
<1>1. ASSUME NEW t \in Threads, NewClient(t) PROVE TypeOK'
  BY <1>1 DEF NewClient
<1>2. ASSUME NEW t \in Threads, Approve(t) PROVE TypeOK'
  BY <1>2 DEF Approve
<1>3. ASSUME NEW t \in Threads, RequestFails(t) PROVE TypeOK'
  BY <1>3 DEF RequestFails
<1>4. ASSUME NEW t \in Threads, SendMenu(t) PROVE TypeOK'
  BY <1>4 DEF SendMenu
<1>5. ASSUME NEW t \in Threads, RecvVersus(t) PROVE TypeOK'
  BY <1>5 DEF RecvVersus
<1>6. ASSUME NEW t \in Threads, RecvDisconnect(t) PROVE TypeOK'
  BY <1>6 DEF RecvDisconnect
<1>7. ASSUME NEW t \in Threads, Arrive(t) PROVE TypeOK'
  BY <1>7 DEF Arrive, PlayerFor, PostName
<1>8. ASSUME NEW t \in Threads, ReadReady(t) PROVE TypeOK'
  BY <1>8 DEF ReadReady
<1>9. ASSUME NEW t \in Threads, WakeUp(t) PROVE TypeOK'
  BY <1>9 DEF WakeUp
<1>10. ASSUME NEW t \in Threads, CheckReady(t) PROVE TypeOK'
  BY <1>10 DEF CheckReady, SyncIsFree
<1>11. ASSUME NEW t \in Threads, FailAbandoned(t) PROVE TypeOK'
  BY <1>11 DEF FailAbandoned
<1>12. ASSUME NEW t \in Threads, SendNoOpponents(t) PROVE TypeOK'
  BY <1>12 DEF SendNoOpponents
<1>13. ASSUME NEW t \in Threads, NoOpponentsFails(t) PROVE TypeOK'
  BY <1>13 DEF NoOpponentsFails, ReadyCountAfter
<1>14. ASSUME NEW t \in Threads, DecreaseReady(t) PROVE TypeOK'
  BY <1>14 DEF DecreaseReady, ReadyCountAfter
<1>15. ASSUME NEW t \in Threads, ResetFirstArrived(t) PROVE TypeOK'
  BY <1>15 DEF ResetFirstArrived
<1>16. ASSUME NEW t \in Threads, StartGame(t) PROVE TypeOK'
  BY <1>16 DEF StartGame
<1>17. ASSUME NEW t \in Threads, PlayGame(t) PROVE TypeOK'
  BY <1>17 DEF PlayGame
<1>18. ASSUME NEW t \in Threads, GameFails(t) PROVE TypeOK'
  BY <1>18 DEF GameFails, ConnectionError
<1>19. ASSUME NEW t \in Threads, Reinit(t) PROVE TypeOK'
  BY <1>19 DEF Reinit
<1>20. ASSUME NEW t \in Threads, SocketFails(t) PROVE TypeOK'
  BY <1>20 DEF SocketFails, ConnectionError, SocketPlaces
<1>21. ASSUME NEW t \in Threads, ClientLeaves(t) /\ UNCHANGED <<pc, queue, sync>>
      PROVE TypeOK'
  BY <1>21 DEF ClientLeaves
<1>22. ASSUME LeaveBarrier PROVE TypeOK'
  BY <1>22 DEF LeaveBarrier
<1>23. ASSUME ServerStops PROVE TypeOK'
  BY <1>23 DEF ServerStops
<1>24. ASSUME UNCHANGED vars PROVE TypeOK'
  BY <1>24 DEF vars
<1> QED
  BY <1>1, <1>2, <1>3, <1>4, <1>5, <1>6, <1>7, <1>8, <1>9, <1>10, <1>11, <1>12,
     <1>13, <1>14, <1>15, <1>16, <1>17, <1>18, <1>19, <1>20, <1>21, <1>22, <1>23,
     <1>24
     DEF Next, ServerStep, ClientStep

(* TypeOK of Matchmaking. *)
THEOREM TypeCorrect == Spec => []TypeOK
BY TypeInit, TypeStep, PTL DEF Spec

-----------------------------------------------------------------------------
(* The mutex is held from the look at the count to the return to the menu. *)

LEMMA MutexInit == Init => MutexInv
BY DEF Init, TypeOK, MutexInv, Holding

LEMMA MutexStep == TypeOK /\ MutexInv /\ [Next]_vars => MutexInv'
<1> SUFFICES ASSUME TypeOK, MutexInv, [Next]_vars PROVE MutexInv'
  OBVIOUS
<1> USE ThreadsAssumption, NullAssumption
        DEF TypeOK, MutexInv, Holding, Goto, session, queue, sync
<1>1. ASSUME NEW t \in Threads, NewClient(t) PROVE MutexInv'
  BY <1>1 DEF NewClient
<1>2. ASSUME NEW t \in Threads, Approve(t) PROVE MutexInv'
  BY <1>2 DEF Approve
<1>3. ASSUME NEW t \in Threads, RequestFails(t) PROVE MutexInv'
  BY <1>3 DEF RequestFails
<1>4. ASSUME NEW t \in Threads, SendMenu(t) PROVE MutexInv'
  BY <1>4 DEF SendMenu
<1>5. ASSUME NEW t \in Threads, RecvVersus(t) PROVE MutexInv'
  BY <1>5 DEF RecvVersus
<1>6. ASSUME NEW t \in Threads, RecvDisconnect(t) PROVE MutexInv'
  BY <1>6 DEF RecvDisconnect
<1>7. ASSUME NEW t \in Threads, Arrive(t) PROVE MutexInv'
  BY <1>7 DEF Arrive, PlayerFor, PostName
<1>8. ASSUME NEW t \in Threads, ReadReady(t) PROVE MutexInv'
  BY <1>8 DEF ReadReady
<1>9. ASSUME NEW t \in Threads, WakeUp(t) PROVE MutexInv'
  BY <1>9 DEF WakeUp
<1>10. ASSUME NEW t \in Threads, CheckReady(t) PROVE MutexInv'
  BY <1>10 DEF CheckReady, SyncIsFree
<1>11. ASSUME NEW t \in Threads, FailAbandoned(t) PROVE MutexInv'
  BY <1>11 DEF FailAbandoned
<1>12. ASSUME NEW t \in Threads, SendNoOpponents(t) PROVE MutexInv'
  BY <1>12 DEF SendNoOpponents
<1>13. ASSUME NEW t \in Threads, NoOpponentsFails(t) PROVE MutexInv'
  BY <1>13 DEF NoOpponentsFails, ReadyCountAfter
<1>14. ASSUME NEW t \in Threads, DecreaseReady(t) PROVE MutexInv'
  BY <1>14 DEF DecreaseReady, ReadyCountAfter
<1>15. ASSUME NEW t \in Threads, ResetFirstArrived(t) PROVE MutexInv'
  BY <1>15 DEF ResetFirstArrived
<1>16. ASSUME NEW t \in Threads, StartGame(t) PROVE MutexInv'
  BY <1>16 DEF StartGame
<1>17. ASSUME NEW t \in Threads, PlayGame(t) PROVE MutexInv'
  BY <1>17 DEF PlayGame
<1>18. ASSUME NEW t \in Threads, GameFails(t) PROVE MutexInv'
  BY <1>18 DEF GameFails, ConnectionError
<1>19. ASSUME NEW t \in Threads, Reinit(t) PROVE MutexInv'
  BY <1>19 DEF Reinit
<1>20. ASSUME NEW t \in Threads, SocketFails(t) PROVE MutexInv'
  BY <1>20 DEF SocketFails, ConnectionError, SocketPlaces
<1>21. ASSUME NEW t \in Threads, ClientLeaves(t) /\ UNCHANGED <<pc, queue, sync>>
      PROVE MutexInv'
  BY <1>21 DEF ClientLeaves
<1>22. ASSUME LeaveBarrier PROVE MutexInv'
  BY <1>22 DEF LeaveBarrier
<1>23. ASSUME ServerStops PROVE MutexInv'
  BY <1>23 DEF ServerStops
<1>24. ASSUME UNCHANGED vars PROVE MutexInv'
  BY <1>24 DEF vars
<1> QED
  BY <1>1, <1>2, <1>3, <1>4, <1>5, <1>6, <1>7, <1>8, <1>9, <1>10, <1>11, <1>12,
     <1>13, <1>14, <1>15, <1>16, <1>17, <1>18, <1>19, <1>20, <1>21, <1>22, <1>23,
     <1>24
     DEF Next, ServerStep, ClientStep

LEMMA DownInit == Init => DownInv
BY DEF Init, TypeOK, DownInv

LEMMA DownStep == TypeOK /\ DownInv /\ [Next]_vars => DownInv'
<1> SUFFICES ASSUME TypeOK, DownInv, [Next]_vars PROVE DownInv'
  OBVIOUS
<1> USE ThreadsAssumption, NullAssumption
        DEF TypeOK, DownInv, Goto, session, queue, sync
<1>1. ASSUME NEW t \in Threads, NewClient(t) PROVE DownInv'
  BY <1>1 DEF NewClient
<1>2. ASSUME NEW t \in Threads, Approve(t) PROVE DownInv'
  BY <1>2 DEF Approve
<1>3. ASSUME NEW t \in Threads, RequestFails(t) PROVE DownInv'
  BY <1>3 DEF RequestFails
<1>4. ASSUME NEW t \in Threads, SendMenu(t) PROVE DownInv'
  BY <1>4 DEF SendMenu
<1>5. ASSUME NEW t \in Threads, RecvVersus(t) PROVE DownInv'
  BY <1>5 DEF RecvVersus
<1>6. ASSUME NEW t \in Threads, RecvDisconnect(t) PROVE DownInv'
  BY <1>6 DEF RecvDisconnect
<1>7. ASSUME NEW t \in Threads, Arrive(t) PROVE DownInv'
  BY <1>7 DEF Arrive, PlayerFor, PostName
<1>8. ASSUME NEW t \in Threads, ReadReady(t) PROVE DownInv'
  BY <1>8 DEF ReadReady
<1>9. ASSUME NEW t \in Threads, WakeUp(t) PROVE DownInv'
  BY <1>9 DEF WakeUp
<1>10. ASSUME NEW t \in Threads, CheckReady(t) PROVE DownInv'
  BY <1>10 DEF CheckReady, SyncIsFree
<1>11. ASSUME NEW t \in Threads, FailAbandoned(t) PROVE DownInv'
  BY <1>11 DEF FailAbandoned
<1>12. ASSUME NEW t \in Threads, SendNoOpponents(t) PROVE DownInv'
  BY <1>12 DEF SendNoOpponents
<1>13. ASSUME NEW t \in Threads, NoOpponentsFails(t) PROVE DownInv'
  BY <1>13 DEF NoOpponentsFails, ReadyCountAfter
<1>14. ASSUME NEW t \in Threads, DecreaseReady(t) PROVE DownInv'
  BY <1>14 DEF DecreaseReady, ReadyCountAfter
<1>15. ASSUME NEW t \in Threads, ResetFirstArrived(t) PROVE DownInv'
  BY <1>15 DEF ResetFirstArrived
<1>16. ASSUME NEW t \in Threads, StartGame(t) PROVE DownInv'
  BY <1>16 DEF StartGame
<1>17. ASSUME NEW t \in Threads, PlayGame(t) PROVE DownInv'
  BY <1>17 DEF PlayGame
<1>18. ASSUME NEW t \in Threads, GameFails(t) PROVE DownInv'
  BY <1>18 DEF GameFails, ConnectionError
<1>19. ASSUME NEW t \in Threads, Reinit(t) PROVE DownInv'
  BY <1>19 DEF Reinit
<1>20. ASSUME NEW t \in Threads, SocketFails(t) PROVE DownInv'
  BY <1>20 DEF SocketFails, ConnectionError, SocketPlaces
<1>21. ASSUME NEW t \in Threads, ClientLeaves(t) /\ UNCHANGED <<pc, queue, sync>>
      PROVE DownInv'
  BY <1>21 DEF ClientLeaves
<1>22. ASSUME LeaveBarrier PROVE DownInv'
  BY <1>22 DEF LeaveBarrier
<1>23. ASSUME ServerStops PROVE DownInv'
  BY <1>23 DEF ServerStops
<1>24. ASSUME UNCHANGED vars PROVE DownInv'
  BY <1>24 DEF vars
<1> QED
  BY <1>1, <1>2, <1>3, <1>4, <1>5, <1>6, <1>7, <1>8, <1>9, <1>10, <1>11, <1>12,
     <1>13, <1>14, <1>15, <1>16, <1>17, <1>18, <1>19, <1>20, <1>21, <1>22, <1>23,
     <1>24
     DEF Next, ServerStep, ClientStep

-----------------------------------------------------------------------------
(* The count. *)

LEMMA CountInit == Init => CountInv
BY DEF Init, TypeOK, CountInv, BarrierNeverStranded, OnTheWay, Working, Surplus,
   Share, Counted, AfterBarrier, NUM_OF_WORKER_THREADS

LEMMA CountStep ==
  TypeOK /\ CountInv /\ BarrierNeverStranded /\ [Next]_vars => CountInv'
<1> SUFFICES ASSUME TypeOK, CountInv, BarrierNeverStranded, [Next]_vars
      PROVE CountInv'
  OBVIOUS
<1> USE ThreadsAssumption, NullAssumption
        DEF TypeOK, CountInv, BarrierNeverStranded, OnTheWay, Working, Surplus,
            Share, Counted, AfterBarrier, NUM_OF_WORKER_THREADS, Goto, session, queue,
            sync
<1>1. ASSUME NEW t \in Threads, NewClient(t) PROVE CountInv'
  BY <1>1 DEF NewClient
<1>2. ASSUME NEW t \in Threads, Approve(t) PROVE CountInv'
  BY <1>2 DEF Approve
<1>3. ASSUME NEW t \in Threads, RequestFails(t) PROVE CountInv'
  BY <1>3 DEF RequestFails
<1>4. ASSUME NEW t \in Threads, SendMenu(t) PROVE CountInv'
  BY <1>4 DEF SendMenu
<1>5. ASSUME NEW t \in Threads, RecvVersus(t) PROVE CountInv'
  BY <1>5 DEF RecvVersus
<1>6. ASSUME NEW t \in Threads, RecvDisconnect(t) PROVE CountInv'
  BY <1>6 DEF RecvDisconnect
<1>7. ASSUME NEW t \in Threads, Arrive(t) PROVE CountInv'
  BY <1>7 DEF Arrive, PlayerFor, PostName
<1>8. ASSUME NEW t \in Threads, ReadReady(t) PROVE CountInv'
  BY <1>8 DEF ReadReady
<1>9. ASSUME NEW t \in Threads, WakeUp(t) PROVE CountInv'
  BY <1>9 DEF WakeUp
<1>10. ASSUME NEW t \in Threads, CheckReady(t) PROVE CountInv'
  BY <1>10 DEF CheckReady, SyncIsFree
<1>11. ASSUME NEW t \in Threads, FailAbandoned(t) PROVE CountInv'
  BY <1>11 DEF FailAbandoned
<1>12. ASSUME NEW t \in Threads, SendNoOpponents(t) PROVE CountInv'
  BY <1>12 DEF SendNoOpponents
<1>13. ASSUME NEW t \in Threads, NoOpponentsFails(t) PROVE CountInv'
  BY <1>13 DEF NoOpponentsFails, ReadyCountAfter
<1>14. ASSUME NEW t \in Threads, DecreaseReady(t) PROVE CountInv'
  BY <1>14 DEF DecreaseReady, ReadyCountAfter
<1>15. ASSUME NEW t \in Threads, ResetFirstArrived(t) PROVE CountInv'
  BY <1>15 DEF ResetFirstArrived
<1>16. ASSUME NEW t \in Threads, StartGame(t) PROVE CountInv'
  BY <1>16 DEF StartGame
<1>17. ASSUME NEW t \in Threads, PlayGame(t) PROVE CountInv'
  BY <1>17 DEF PlayGame
<1>18. ASSUME NEW t \in Threads, GameFails(t) PROVE CountInv'
  BY <1>18 DEF GameFails, ConnectionError
<1>19. ASSUME NEW t \in Threads, Reinit(t) PROVE CountInv'
  BY <1>19 DEF Reinit
<1>20. ASSUME NEW t \in Threads, SocketFails(t) PROVE CountInv'
  BY <1>20 DEF SocketFails, ConnectionError, SocketPlaces
<1>21. ASSUME NEW t \in Threads, ClientLeaves(t) /\ UNCHANGED <<pc, queue, sync>>
      PROVE CountInv'
  BY <1>21 DEF ClientLeaves
<1>22. ASSUME LeaveBarrier PROVE CountInv'
  BY <1>22 DEF LeaveBarrier
<1>23. ASSUME ServerStops PROVE CountInv'
  BY <1>23 DEF ServerStops
<1>24. ASSUME UNCHANGED vars PROVE CountInv'
  BY <1>24 DEF vars
<1> QED
  BY <1>1, <1>2, <1>3, <1>4, <1>5, <1>6, <1>7, <1>8, <1>9, <1>10, <1>11, <1>12,
     <1>13, <1>14, <1>15, <1>16, <1>17, <1>18, <1>19, <1>20, <1>21, <1>22, <1>23,
     <1>24
     DEF Next, ServerStep, ClientStep

-----------------------------------------------------------------------------
(* The barrier. *)

LEMMA BarrierInit == Init => BarrierNeverStranded
BY DEF Init, BarrierNeverStranded, OnTheWay, Working, Surplus, Share, Counted,
   AfterBarrier, NUM_OF_WORKER_THREADS

LEMMA BarrierStep ==
TypeOK /\ MutexInv /\ DownInv /\ CountInv /\ BarrierNeverStranded /\ [Next]_vars
    => BarrierNeverStranded'
<1> SUFFICES ASSUME TypeOK, MutexInv, DownInv, CountInv, BarrierNeverStranded,
                    [Next]_vars
             PROVE BarrierNeverStranded'
  OBVIOUS
<1> USE ThreadsAssumption, NullAssumption
        DEF TypeOK, MutexInv, DownInv, Holding, CountInv, BarrierNeverStranded,
            OnTheWay, Working, Surplus, Share, Counted, AfterBarrier,
            NUM_OF_WORKER_THREADS, Goto, session, queue, sync
<1>1. ASSUME NEW t \in Threads, NewClient(t) PROVE BarrierNeverStranded'
  BY <1>1 DEF NewClient
<1>2. ASSUME NEW t \in Threads, Approve(t) PROVE BarrierNeverStranded'
  BY <1>2 DEF Approve
<1>3. ASSUME NEW t \in Threads, RequestFails(t) PROVE BarrierNeverStranded'
  BY <1>3 DEF RequestFails
<1>4. ASSUME NEW t \in Threads, SendMenu(t) PROVE BarrierNeverStranded'
  BY <1>4 DEF SendMenu
<1>5. ASSUME NEW t \in Threads, RecvVersus(t) PROVE BarrierNeverStranded'
  BY <1>5 DEF RecvVersus
<1>6. ASSUME NEW t \in Threads, RecvDisconnect(t) PROVE BarrierNeverStranded'
  BY <1>6 DEF RecvDisconnect
<1>7. ASSUME NEW t \in Threads, Arrive(t) PROVE BarrierNeverStranded'
  BY <1>7 DEF Arrive, PlayerFor, PostName
<1>8. ASSUME NEW t \in Threads, ReadReady(t) PROVE BarrierNeverStranded'
  BY <1>8 DEF ReadReady
<1>9. ASSUME NEW t \in Threads, WakeUp(t) PROVE BarrierNeverStranded'
  BY <1>9 DEF WakeUp
<1>10. ASSUME NEW t \in Threads, CheckReady(t) PROVE BarrierNeverStranded'
  <2>1. CASE num_of_players_ready_to_play = NUM_OF_WORKER_THREADS
    <3>1. /\ pc[t] = "check" /\ pc' = [pc EXCEPT ![t] = "barrier"]
          /\ sync_owner = NULL /\ ~sync_abandoned
          /\ UNCHANGED <<num_of_players_ready_to_play, sync_owner, sync_abandoned>>
      BY <1>10, <2>1 DEF CheckReady, SyncIsFree
    <3>2. \A v \in Threads : ~Holding(v)
      BY <3>1
    <3>3. ASSUME NEW v \in Threads, v # t PROVE Counted(v)
      <4>1. Working
        BY <3>1
      <4>2. Surplus(t, v) = 1 - Share(v)
        BY <2>1, <3>1
      <4> QED
        BY <3>1, <3>3, <4>1, <4>2
    <3> QED
      BY <2>1, <3>1, <3>2, <3>3
  <2>2. CASE num_of_players_ready_to_play # NUM_OF_WORKER_THREADS
    BY <1>10, <2>2 DEF CheckReady, SyncIsFree
  <2> QED
    BY <2>1, <2>2
<1>11. ASSUME NEW t \in Threads, FailAbandoned(t) PROVE BarrierNeverStranded'
  BY <1>11 DEF FailAbandoned
<1>12. ASSUME NEW t \in Threads, SendNoOpponents(t) PROVE BarrierNeverStranded'
  BY <1>12 DEF SendNoOpponents
<1>13. ASSUME NEW t \in Threads, NoOpponentsFails(t) PROVE BarrierNeverStranded'
  BY <1>13 DEF NoOpponentsFails, ReadyCountAfter
<1>14. ASSUME NEW t \in Threads, DecreaseReady(t) PROVE BarrierNeverStranded'
  BY <1>14 DEF DecreaseReady, ReadyCountAfter
<1>15. ASSUME NEW t \in Threads, ResetFirstArrived(t) PROVE BarrierNeverStranded'
  BY <1>15 DEF ResetFirstArrived
<1>16. ASSUME NEW t \in Threads, StartGame(t) PROVE BarrierNeverStranded'
  BY <1>16 DEF StartGame
<1>17. ASSUME NEW t \in Threads, PlayGame(t) PROVE BarrierNeverStranded'
  BY <1>17 DEF PlayGame
<1>18. ASSUME NEW t \in Threads, GameFails(t) PROVE BarrierNeverStranded'
  BY <1>18 DEF GameFails, ConnectionError
<1>19. ASSUME NEW t \in Threads, Reinit(t) PROVE BarrierNeverStranded'
  BY <1>19 DEF Reinit
<1>20. ASSUME NEW t \in Threads, SocketFails(t) PROVE BarrierNeverStranded'
  BY <1>20 DEF SocketFails, ConnectionError, SocketPlaces
<1>21. ASSUME NEW t \in Threads, ClientLeaves(t) /\ UNCHANGED <<pc, queue, sync>>
      PROVE BarrierNeverStranded'
  BY <1>21 DEF ClientLeaves
<1>22. ASSUME LeaveBarrier PROVE BarrierNeverStranded'
  BY <1>22 DEF LeaveBarrier
<1>23. ASSUME ServerStops PROVE BarrierNeverStranded'
  BY <1>23 DEF ServerStops
<1>24. ASSUME UNCHANGED vars PROVE BarrierNeverStranded'
  BY <1>24 DEF vars
<1> QED
  BY <1>1, <1>2, <1>3, <1>4, <1>5, <1>6, <1>7, <1>8, <1>9, <1>10, <1>11, <1>12,
     <1>13, <1>14, <1>15, <1>16, <1>17, <1>18, <1>19, <1>20, <1>21, <1>22, <1>23,
     <1>24
     DEF Next, ServerStep, ClientStep

-----------------------------------------------------------------------------
(* The first player. *)

LEMMA FirstInit == Init => FirstInv
BY DEF Init, TypeOK, MutexInv, DownInv, Holding, CountInv, BarrierNeverStranded,
   OnTheWay, FirstInv, Owns, Working, Surplus, Share, Counted, AfterBarrier,
   NUM_OF_WORKER_THREADS

LEMMA FirstStep ==
TypeOK /\ MutexInv /\ DownInv /\ CountInv /\ BarrierNeverStranded /\ FirstInv
    /\ [Next]_vars => FirstInv'
<1> SUFFICES ASSUME TypeOK, MutexInv, DownInv, CountInv, BarrierNeverStranded,
                    FirstInv, [Next]_vars
             PROVE FirstInv'
  OBVIOUS
<1> USE ThreadsAssumption, NullAssumption
        DEF TypeOK, MutexInv, DownInv, Holding, CountInv, BarrierNeverStranded,
            OnTheWay, FirstInv, Owns, Working, Surplus, Share, Counted, AfterBarrier,
            NUM_OF_WORKER_THREADS, Goto, session, queue, sync
<1>1. ASSUME NEW t \in Threads, NewClient(t) PROVE FirstInv'
  BY <1>1 DEF NewClient
<1>2. ASSUME NEW t \in Threads, Approve(t) PROVE FirstInv'
  BY <1>2 DEF Approve
<1>3. ASSUME NEW t \in Threads, RequestFails(t) PROVE FirstInv'
  BY <1>3 DEF RequestFails
<1>4. ASSUME NEW t \in Threads, SendMenu(t) PROVE FirstInv'
  BY <1>4 DEF SendMenu
<1>5. ASSUME NEW t \in Threads, RecvVersus(t) PROVE FirstInv'
  BY <1>5 DEF RecvVersus
<1>6. ASSUME NEW t \in Threads, RecvDisconnect(t) PROVE FirstInv'
  BY <1>6 DEF RecvDisconnect
<1>7. ASSUME NEW t \in Threads, Arrive(t) PROVE FirstInv'
  <2>1. /\ pc[t] = "arrive" /\ pc' = [pc EXCEPT ![t] = "read_ready"]
        /\ num_of_player' =
             [num_of_player EXCEPT ![t] = IF first_arrived = 0 THEN 1 ELSE 2]
        /\ num_of_players_ready_to_play' = num_of_players_ready_to_play + 1
        /\ first_arrived' = 1 /\ UNCHANGED sync_abandoned
    BY <1>7 DEF Arrive, PlayerFor, PostName
  <2>2. /\ ~Owns(t) /\ Owns(t)' /\ Counted(t)'
        /\ num_of_player'[t] = 2 <=> first_arrived = 1
        /\ num_of_player'[t] \in {1, 2}
    BY <2>1
  <2>3. \A u \in Threads \ {t} :
          /\ Owns(u)' <=> Owns(u)
          /\ Counted(u)' <=> Counted(u)
          /\ num_of_player'[u] = num_of_player[u]
          /\ Surplus(t, u)' = Surplus(t, u)
          /\ Surplus(u, t)' = Surplus(u, t)
    BY <2>1
  <2>4. Working' => Working
    BY <2>1
  <2>5. \A u \in Threads : Counted(u)' => num_of_player'[u] # 0
    BY <2>2, <2>3
  <2>6. ASSUME Working', NEW u \in Threads, NEW v \in Threads, u # v,
               Surplus(u, v)' = 0
        PROVE /\ first_arrived' = 1 => Owns(u)' \/ Owns(v)'
              /\ Counted(u)' /\ num_of_player'[u] = 2 /\ first_arrived' = 1 => Owns(v)'
              /\ Counted(u)' /\ Counted(v)'
                   => num_of_player'[u] = 1 \/ num_of_player'[v] = 1
    <3>1. u = t \/ v = t
      BY <2>6, ThreadsAssumption
    <3>2. Working /\ Surplus(u, v) = 0 /\ Surplus(v, u) = 0
      BY <2>3, <2>4, <2>6, <3>1
    <3>3. \A x \in Threads : Counted(x) => Owns(x) /\ num_of_player[x] \in {1, 2}
      OBVIOUS
    <3> HIDE DEF Owns, Counted, Surplus, Working
    <3>4. CASE u = t
      BY <2>1, <2>2, <2>3, <2>6, <3>2, <3>3, <3>4
    <3>5. CASE v = t
      BY <2>1, <2>2, <2>3, <2>6, <3>2, <3>3, <3>5
    <3> QED
      BY <3>1, <3>4, <3>5
  <2> HIDE DEF Owns, Counted, Surplus, Working
  <2> QED
    BY <2>5, <2>6
<1>8. ASSUME NEW t \in Threads, ReadReady(t) PROVE FirstInv'
  BY <1>8 DEF ReadReady
<1>9. ASSUME NEW t \in Threads, WakeUp(t) PROVE FirstInv'
  BY <1>9 DEF WakeUp
<1>10. ASSUME NEW t \in Threads, CheckReady(t) PROVE FirstInv'
  BY <1>10 DEF CheckReady, SyncIsFree
<1>11. ASSUME NEW t \in Threads, FailAbandoned(t) PROVE FirstInv'
  BY <1>11 DEF FailAbandoned
<1>12. ASSUME NEW t \in Threads, SendNoOpponents(t) PROVE FirstInv'
  BY <1>12 DEF SendNoOpponents
<1>13. ASSUME NEW t \in Threads, NoOpponentsFails(t) PROVE FirstInv'
  BY <1>13 DEF NoOpponentsFails, ReadyCountAfter
<1>14. ASSUME NEW t \in Threads, DecreaseReady(t) PROVE FirstInv'
  BY <1>14 DEF DecreaseReady, ReadyCountAfter
<1>15. ASSUME NEW t \in Threads, ResetFirstArrived(t) PROVE FirstInv'
  BY <1>15 DEF ResetFirstArrived
<1>16. ASSUME NEW t \in Threads, StartGame(t) PROVE FirstInv'
  BY <1>16 DEF StartGame
<1>17. ASSUME NEW t \in Threads, PlayGame(t) PROVE FirstInv'
  BY <1>17 DEF PlayGame
<1>18. ASSUME NEW t \in Threads, GameFails(t) PROVE FirstInv'
  BY <1>18 DEF GameFails, ConnectionError
<1>19. ASSUME NEW t \in Threads, Reinit(t) PROVE FirstInv'
  BY <1>19 DEF Reinit
<1>20. ASSUME NEW t \in Threads, SocketFails(t) PROVE FirstInv'
  BY <1>20 DEF SocketFails, ConnectionError, SocketPlaces
<1>21. ASSUME NEW t \in Threads, ClientLeaves(t) /\ UNCHANGED <<pc, queue, sync>>
      PROVE FirstInv'
  BY <1>21 DEF ClientLeaves
<1>22. ASSUME LeaveBarrier PROVE FirstInv'
  BY <1>22 DEF LeaveBarrier
<1>23. ASSUME ServerStops PROVE FirstInv'
  BY <1>23 DEF ServerStops
<1>24. ASSUME UNCHANGED vars PROVE FirstInv'
  BY <1>24 DEF vars
<1> QED
  BY <1>1, <1>2, <1>3, <1>4, <1>5, <1>6, <1>7, <1>8, <1>9, <1>10, <1>11, <1>12,
     <1>13, <1>14, <1>15, <1>16, <1>17, <1>18, <1>19, <1>20, <1>21, <1>22, <1>23,
     <1>24
     DEF Next, ServerStep, ClientStep

LEMMA NamesInit == Init => NamesInv
BY DEF Init, NamesInv, Counted

LEMMA NamesStep ==
TypeOK /\ MutexInv /\ DownInv /\ CountInv /\ BarrierNeverStranded /\ FirstInv
    /\ NamesInv /\ [Next]_vars => NamesInv'
<1> SUFFICES ASSUME TypeOK, MutexInv, DownInv, CountInv, BarrierNeverStranded,
                    FirstInv, NamesInv, [Next]_vars
             PROVE NamesInv'
  OBVIOUS
<1> USE ThreadsAssumption, NullAssumption
        DEF TypeOK, MutexInv, DownInv, Holding, CountInv, BarrierNeverStranded,
            OnTheWay, FirstInv, NamesInv, Owns, Working, Surplus, Share, Counted, AfterBarrier,
            NUM_OF_WORKER_THREADS, Goto, session, queue, sync
<1>1. ASSUME NEW t \in Threads, NewClient(t) PROVE NamesInv'
  BY <1>1 DEF NewClient
<1>2. ASSUME NEW t \in Threads, Approve(t) PROVE NamesInv'
  BY <1>2 DEF Approve
<1>3. ASSUME NEW t \in Threads, RequestFails(t) PROVE NamesInv'
  BY <1>3 DEF RequestFails
<1>4. ASSUME NEW t \in Threads, SendMenu(t) PROVE NamesInv'
  BY <1>4 DEF SendMenu
<1>5. ASSUME NEW t \in Threads, RecvVersus(t) PROVE NamesInv'
  BY <1>5 DEF RecvVersus
<1>6. ASSUME NEW t \in Threads, RecvDisconnect(t) PROVE NamesInv'
  BY <1>6 DEF RecvDisconnect
<1>7. ASSUME NEW t \in Threads, Arrive(t) PROVE NamesInv'
  BY <1>7 DEF Arrive, PlayerFor, PostName
<1>8. ASSUME NEW t \in Threads, ReadReady(t) PROVE NamesInv'
  BY <1>8 DEF ReadReady
<1>9. ASSUME NEW t \in Threads, WakeUp(t) PROVE NamesInv'
  BY <1>9 DEF WakeUp
<1>10. ASSUME NEW t \in Threads, CheckReady(t) PROVE NamesInv'
  BY <1>10 DEF CheckReady, SyncIsFree
<1>11. ASSUME NEW t \in Threads, FailAbandoned(t) PROVE NamesInv'
  BY <1>11 DEF FailAbandoned
<1>12. ASSUME NEW t \in Threads, SendNoOpponents(t) PROVE NamesInv'
  BY <1>12 DEF SendNoOpponents
<1>13. ASSUME NEW t \in Threads, NoOpponentsFails(t) PROVE NamesInv'
  BY <1>13 DEF NoOpponentsFails, ReadyCountAfter
<1>14. ASSUME NEW t \in Threads, DecreaseReady(t) PROVE NamesInv'
  BY <1>14 DEF DecreaseReady, ReadyCountAfter
<1>15. ASSUME NEW t \in Threads, ResetFirstArrived(t) PROVE NamesInv'
  BY <1>15 DEF ResetFirstArrived
<1>16. ASSUME NEW t \in Threads, StartGame(t) PROVE NamesInv'
  BY <1>16 DEF StartGame
<1>17. ASSUME NEW t \in Threads, PlayGame(t) PROVE NamesInv'
  BY <1>17 DEF PlayGame
<1>18. ASSUME NEW t \in Threads, GameFails(t) PROVE NamesInv'
  BY <1>18 DEF GameFails, ConnectionError
<1>19. ASSUME NEW t \in Threads, Reinit(t) PROVE NamesInv'
  BY <1>19 DEF Reinit
<1>20. ASSUME NEW t \in Threads, SocketFails(t) PROVE NamesInv'
  BY <1>20 DEF SocketFails, ConnectionError, SocketPlaces
<1>21. ASSUME NEW t \in Threads, ClientLeaves(t) /\ UNCHANGED <<pc, queue, sync>>
      PROVE NamesInv'
  BY <1>21 DEF ClientLeaves
<1>22. ASSUME LeaveBarrier PROVE NamesInv'
  BY <1>22 DEF LeaveBarrier
<1>23. ASSUME ServerStops PROVE NamesInv'
  BY <1>23 DEF ServerStops
<1>24. ASSUME UNCHANGED vars PROVE NamesInv'
  BY <1>24 DEF vars
<1> QED
  BY <1>1, <1>2, <1>3, <1>4, <1>5, <1>6, <1>7, <1>8, <1>9, <1>10, <1>11, <1>12,
     <1>13, <1>14, <1>15, <1>16, <1>17, <1>18, <1>19, <1>20, <1>21, <1>22, <1>23,
     <1>24
     DEF Next, ServerStep, ClientStep

LEMMA FirstMoverInit == Init => SomeoneMovesFirst
BY ThreadsAssumption DEF Init, TypeOK, DownInv, CountInv, BarrierNeverStranded,
   OnTheWay, FirstInv, SomeoneMovesFirst, Owns, Working, Surplus, Share, Counted,
   AfterBarrier, NUM_OF_WORKER_THREADS

LEMMA FirstMoverStep ==
TypeOK /\ DownInv /\ CountInv /\ BarrierNeverStranded /\ FirstInv
    /\ SomeoneMovesFirst /\ [Next]_vars => SomeoneMovesFirst'
<1> SUFFICES ASSUME TypeOK, DownInv, CountInv, BarrierNeverStranded, FirstInv,
                    SomeoneMovesFirst, [Next]_vars
             PROVE SomeoneMovesFirst'
  OBVIOUS
<1> USE ThreadsAssumption, NullAssumption
        DEF TypeOK, DownInv, CountInv, BarrierNeverStranded, OnTheWay, FirstInv,
            SomeoneMovesFirst, Owns, Working, Surplus, Share, Counted, AfterBarrier,
            NUM_OF_WORKER_THREADS, Goto, session, queue, sync
<1>1. ASSUME NEW t \in Threads, NewClient(t) PROVE SomeoneMovesFirst'
  BY <1>1 DEF NewClient
<1>2. ASSUME NEW t \in Threads, Approve(t) PROVE SomeoneMovesFirst'
  BY <1>2 DEF Approve
<1>3. ASSUME NEW t \in Threads, RequestFails(t) PROVE SomeoneMovesFirst'
  BY <1>3 DEF RequestFails
<1>4. ASSUME NEW t \in Threads, SendMenu(t) PROVE SomeoneMovesFirst'
  BY <1>4 DEF SendMenu
<1>5. ASSUME NEW t \in Threads, RecvVersus(t) PROVE SomeoneMovesFirst'
  BY <1>5 DEF RecvVersus
<1>6. ASSUME NEW t \in Threads, RecvDisconnect(t) PROVE SomeoneMovesFirst'
  BY <1>6 DEF RecvDisconnect
<1>7. ASSUME NEW t \in Threads, Arrive(t) PROVE SomeoneMovesFirst'
  BY <1>7 DEF Arrive, PlayerFor, PostName
<1>8. ASSUME NEW t \in Threads, ReadReady(t) PROVE SomeoneMovesFirst'
  BY <1>8 DEF ReadReady
<1>9. ASSUME NEW t \in Threads, WakeUp(t) PROVE SomeoneMovesFirst'
  BY <1>9 DEF WakeUp
<1>10. ASSUME NEW t \in Threads, CheckReady(t) PROVE SomeoneMovesFirst'
  BY <1>10 DEF CheckReady, SyncIsFree
<1>11. ASSUME NEW t \in Threads, FailAbandoned(t) PROVE SomeoneMovesFirst'
  BY <1>11 DEF FailAbandoned
<1>12. ASSUME NEW t \in Threads, SendNoOpponents(t) PROVE SomeoneMovesFirst'
  BY <1>12 DEF SendNoOpponents
<1>13. ASSUME NEW t \in Threads, NoOpponentsFails(t) PROVE SomeoneMovesFirst'
  BY <1>13 DEF NoOpponentsFails, ReadyCountAfter
<1>14. ASSUME NEW t \in Threads, DecreaseReady(t) PROVE SomeoneMovesFirst'
  BY <1>14 DEF DecreaseReady, ReadyCountAfter
<1>15. ASSUME NEW t \in Threads, ResetFirstArrived(t) PROVE SomeoneMovesFirst'
  BY <1>15 DEF ResetFirstArrived
<1>16. ASSUME NEW t \in Threads, StartGame(t) PROVE SomeoneMovesFirst'
  BY <1>16 DEF StartGame
<1>17. ASSUME NEW t \in Threads, PlayGame(t) PROVE SomeoneMovesFirst'
  BY <1>17 DEF PlayGame
<1>18. ASSUME NEW t \in Threads, GameFails(t) PROVE SomeoneMovesFirst'
  BY <1>18 DEF GameFails, ConnectionError
<1>19. ASSUME NEW t \in Threads, Reinit(t) PROVE SomeoneMovesFirst'
  BY <1>19 DEF Reinit
<1>20. ASSUME NEW t \in Threads, SocketFails(t) PROVE SomeoneMovesFirst'
  BY <1>20 DEF SocketFails, ConnectionError, SocketPlaces
<1>21. ASSUME NEW t \in Threads, ClientLeaves(t) /\ UNCHANGED <<pc, queue, sync>>
      PROVE SomeoneMovesFirst'
  BY <1>21 DEF ClientLeaves
<1>22. ASSUME LeaveBarrier PROVE SomeoneMovesFirst'
  BY <1>22 DEF LeaveBarrier
<1>23. ASSUME ServerStops PROVE SomeoneMovesFirst'
  BY <1>23 DEF ServerStops
<1>24. ASSUME UNCHANGED vars PROVE SomeoneMovesFirst'
  BY <1>24 DEF vars
<1> QED
  BY <1>1, <1>2, <1>3, <1>4, <1>5, <1>6, <1>7, <1>8, <1>9, <1>10, <1>11, <1>12,
     <1>13, <1>14, <1>15, <1>16, <1>17, <1>18, <1>19, <1>20, <1>21, <1>22, <1>23,
     <1>24
     DEF Next, ServerStep, ClientStep

-----------------------------------------------------------------------------
(* The inductive invariant, and what follows from it. *)

IInv == TypeOK /\ MutexInv /\ DownInv /\ CountInv /\ BarrierNeverStranded
        /\ FirstInv /\ NamesInv /\ SomeoneMovesFirst

LEMMA Inductive == Spec => []IInv
<1>1. Init => IInv
  BY TypeInit, MutexInit, DownInit, CountInit, BarrierInit, FirstInit,
     NamesInit, FirstMoverInit DEF IInv
<1>2. IInv /\ [Next]_vars => IInv'
  BY TypeStep, MutexStep, DownStep, CountStep, BarrierStep, FirstStep,
     NamesStep, FirstMoverStep DEF IInv
<1> QED
  BY <1>1, <1>2, PTL DEF Spec

(* BarrierNeverStranded of Matchmaking: a thread at the barrier is always
   joined by the other one. *)
THEOREM BarrierIsNeverStranded == Spec => []BarrierNeverStranded
BY Inductive, PTL DEF IInv

(* SomeoneMovesFirst of Matchmaking: no game starts with two waiters. *)
THEOREM SomeoneAlwaysMovesFirst == Spec => []SomeoneMovesFirst
BY Inductive, PTL DEF IInv

(* Both players at the barrier are counted, so that NamesInv applies. *)
LEMMA NamesFollow == IInv => NamesPosted
<1> SUFFICES ASSUME IInv, NEW t \in Threads, NEW u \in Threads,
                    pc[t] = "barrier", pc[u] = "barrier",
                    num_of_player[t] # num_of_player[u]
             PROVE player_name[num_of_player[u]] = client_name[u]
  BY DEF NamesPosted
<1>1. t # u
  OBVIOUS
<1>2. Working
  BY <1>1, ThreadsAssumption DEF IInv, BarrierNeverStranded, Working
<1>3. Surplus(u, t) = 0 /\ Counted(u) /\ Owns(t)
  BY DEF IInv, BarrierNeverStranded, Surplus, Share, Counted, Owns,
         NUM_OF_WORKER_THREADS
<1> QED
  BY <1>1, <1>2, <1>3 DEF IInv, NamesInv

(* NamesPosted of Matchmaking: a player reads its opponent's name. *)
THEOREM NamesAreAlwaysPosted == Spec => []NamesPosted
BY NamesFollow, Inductive, PTL
=============================================================================
