----------------------------- MODULE Matchmaking -----------------------------
(***************************************************************************)
(* How two service threads find each other (server/service_thread.c).      *)
(*                                                                         *)
(* A thread approves its client, sends it the main menu and, on            *)
(* CLIENT_VERSUS, counts itself in num_of_players_ready_to_play.  The      *)
(* first one sleeps for WAIT_FOR_RESPONSE; then each looks at the count    *)
(* under mutex_to_sync_threads_when_waiting_for_players.  At two it goes   *)
(* to the barrier, otherwise it answers SERVER_NO_OPPONENTS, takes itself  *)
(* out of the count and returns to the menu.  A game starts when both      *)
(* threads are at the barrier.                                             *)
(*                                                                         *)
(* Here a whole game is the one step PlayGame, and anything may happen in  *)
(* it; ServiceThreads refines it to the steps of GameLoop.                 *)
(***************************************************************************)
EXTENDS WorkerThread

CONSTANT MaxReady   (* bound: above this count no new client connects *)

ASSUME MaxReadyAssumption == MaxReady \in Nat

NUM_OF_WORKER_THREADS == 2

VARIABLES
  pc,                             (* where each thread is in ServiceThread() *)
  first_arrived,                  (* resources_struct.first_arrived       *)
  num_of_players_ready_to_play,   (* resources_struct.num_of_...          *)
  sync_owner,       (* owner of mutex_to_sync_threads_when_waiting_for_players *)
  sync_abandoned    (* its last owner ended without releasing it         *)

queue == <<first_arrived, num_of_players_ready_to_play>>
sync == <<sync_owner, sync_abandoned>>
vars == <<pc, session, queue, sync>>

Places == {"request", "menu", "choose", "arrive", "read_ready", "sleep",
           "check", "no_opponents", "decrease", "reset_first", "barrier",
           "game_started", "game_loop", "reinit", "exited", "down"}

(* Places at which the thread sends or receives (NO_OPPONENTS: see below). *)
SocketPlaces == {"menu", "choose", "game_started"}

Init ==
  /\ pc = [t \in Threads |-> "exited"]
  /\ connected = [t \in Threads |-> FALSE]
  /\ client_name \in [Threads -> Names]
  /\ num_of_player = [t \in Threads |-> 0]
  /\ player_name = <<NULL, NULL>>
  /\ first_arrived = 0
  /\ num_of_players_ready_to_play = 0
  /\ sync_owner = NULL
  /\ sync_abandoned = FALSE

Goto(t, place) == pc' = [pc EXCEPT ![t] = place]

-----------------------------------------------------------------------------
(* main() accepts a connection and starts a thread in a slot whose thread,  *)
(* if there ever was one, has ended.                                        *)
NewClient(t) ==
  /\ pc[t] = "exited"
  /\ num_of_players_ready_to_play <= MaxReady
  /\ connected' = [connected EXCEPT ![t] = TRUE]
  /\ num_of_player' = [num_of_player EXCEPT ![t] = 0]
  /\ Goto(t, "request")
  /\ UNCHANGED <<client_name, player_name, queue, sync>>

(* CLIENT_REQUEST brings the client's name, SERVER_APPROVED answers it. *)
Approve(t) ==
  /\ pc[t] = "request"
  /\ connected[t]
  /\ \E name \in Names : client_name' = [client_name EXCEPT ![t] = name]
  /\ Goto(t, "menu")
  /\ UNCHANGED <<connected, num_of_player, player_name, queue, sync>>

(* No request within WAIT_FOR_RESPONSE, or no connection any more. *)
RequestFails(t) ==
  /\ pc[t] = "request"
  /\ Goto(t, "exited")
  /\ UNCHANGED <<session, queue, sync>>

SendMenu(t) ==
  /\ pc[t] = "menu"
  /\ Goto(t, "choose")
  /\ UNCHANGED <<session, queue, sync>>

(* The user may take any time to choose: the receive has no timeout. *)
RecvVersus(t) ==
  /\ pc[t] = "choose"
  /\ connected[t]
  /\ Goto(t, "arrive")
  /\ UNCHANGED <<session, queue, sync>>

RecvDisconnect(t) ==
  /\ pc[t] = "choose"
  /\ connected[t]
  /\ connected' = [connected EXCEPT ![t] = FALSE]
  /\ Goto(t, "exited")
  /\ UNCHANGED <<client_name, num_of_player, player_name, queue, sync>>

-----------------------------------------------------------------------------
(* Variants marked "mutant" are plausible mistakes in the definition that
   follows them, which the properties are checked to notice. *)

(* mutant: the count of ready players gives the number *)
PlayerByCount == num_of_players_ready_to_play + 1

(* mutant: the numbers are swapped *)
PlayerSwapped == IF first_arrived = 0 THEN 2 ELSE 1

PlayerFor == IF first_arrived = 0 THEN 1 ELSE 2

(* mutant: every player's name goes to player_1_name *)
PostNameFirst(t, player) == [player_name EXCEPT ![1] = client_name[t]]

PostName(t, player) == [player_name EXCEPT ![player] = client_name[t]]

(* check_if_player_connected_first_and_update_num_of_players(): one        *)
(* critical section of ghMutex.                                            *)
Arrive(t) ==
  /\ pc[t] = "arrive"
  /\ num_of_player' = [num_of_player EXCEPT ![t] = PlayerFor]
  /\ player_name' = PostName(t, PlayerFor)
  /\ first_arrived' = 1
  /\ num_of_players_ready_to_play' = num_of_players_ready_to_play + 1
  /\ Goto(t, "read_ready")
  /\ UNCHANGED <<connected, client_name, sync>>

(* Whoever finds itself alone sleeps; the count is not read again until the
   sleep is over. *)
ReadReady(t) ==
  /\ pc[t] = "read_ready"
  /\ Goto(t, IF num_of_players_ready_to_play = 1 THEN "sleep" ELSE "check")
  /\ UNCHANGED <<session, queue, sync>>

WakeUp(t) ==
  /\ pc[t] = "sleep"
  /\ Goto(t, "check")
  /\ UNCHANGED <<session, queue, sync>>

-----------------------------------------------------------------------------
(* mutant: the mutex is not waited for *)
SyncIsIgnored == ~sync_abandoned

SyncIsFree == sync_owner = NULL /\ ~sync_abandoned

(* check_if_two_players_are_ready_to_play_protected(): the mutex is taken  *)
(* and the count read.  At two the mutex is released at once; otherwise it *)
(* is kept until the thread is out of the count again.                     *)
CheckReady(t) ==
  /\ pc[t] = "check"
  /\ SyncIsFree
  /\ IF num_of_players_ready_to_play = NUM_OF_WORKER_THREADS
       THEN Goto(t, "barrier") /\ UNCHANGED sync_owner
       ELSE Goto(t, "no_opponents") /\ sync_owner' = t
  /\ UNCHANGED <<session, queue, sync_abandoned>>

(* WAIT_ABANDONED is not WAIT_OBJECT_0: the thread returns ERROR_CODE, and
   ends as the owner of the mutex, which is so abandoned again. *)
FailAbandoned(t) ==
  /\ pc[t] = "check"
  /\ sync_abandoned
  /\ Goto(t, "exited")
  /\ UNCHANGED <<session, queue, sync>>

(* mutant: as the comment says (service_thread.c:217), 0 decreases it *)
ReadyCountByComment(increase_or_decrease_by_one) ==
  IF increase_or_decrease_by_one = 0
    THEN num_of_players_ready_to_play - 1
    ELSE num_of_players_ready_to_play + 1

(* The last argument of read_write_common_resources_protected(3, 1, ...):
   0 increases num_of_players_ready_to_play, any other value decreases it. *)
ReadyCountAfter(increase_or_decrease_by_one) ==
  IF increase_or_decrease_by_one = 0
    THEN num_of_players_ready_to_play + 1
    ELSE num_of_players_ready_to_play - 1

SendNoOpponents(t) ==
  /\ pc[t] = "no_opponents"
  /\ Goto(t, "decrease")
  /\ UNCHANGED <<session, queue, sync>>

(* The send fails: the thread leaves the count, but not the mutex, and
   first_arrived stays as it is. *)
NoOpponentsFails(t) ==
  /\ pc[t] = "no_opponents"
  /\ ~connected[t]
  /\ num_of_players_ready_to_play' = ReadyCountAfter(1)
  /\ sync_owner' = NULL
  /\ sync_abandoned' = TRUE
  /\ Goto(t, "exited")
  /\ UNCHANGED <<session, first_arrived>>

DecreaseReady(t) ==
  /\ pc[t] = "decrease"
  /\ num_of_players_ready_to_play' = ReadyCountAfter(1)
  /\ Goto(t, "reset_first")
  /\ UNCHANGED <<session, first_arrived, sync>>

(* mutant: the mutex is kept *)
ResetWithoutRelease(t) ==
  /\ pc[t] = "reset_first"
  /\ first_arrived' = 0
  /\ Goto(t, "menu")
  /\ UNCHANGED <<session, num_of_players_ready_to_play, sync>>

ResetFirstArrived(t) ==
  /\ pc[t] = "reset_first"
  /\ first_arrived' = 0
  /\ sync_owner' = NULL
  /\ Goto(t, "menu")
  /\ UNCHANGED <<session, num_of_players_ready_to_play, sync_abandoned>>

-----------------------------------------------------------------------------
(* EnterSynchronizationBarrier(): the last thread to come releases all. *)
LeaveBarrier ==
  /\ \A t \in Threads : pc[t] = "barrier"
  /\ pc' = [t \in Threads |-> "game_started"]
  /\ UNCHANGED <<session, queue, sync>>

(* GAME_STARTED. *)
StartGame(t) ==
  /\ pc[t] = "game_started"
  /\ Goto(t, "game_loop")
  /\ UNCHANGED <<session, queue, sync>>

(* server_game_loop() returns SUCCESS_CODE. *)
PlayGame(t) ==
  /\ pc[t] = "game_loop"
  /\ Goto(t, "reinit")
  /\ UNCHANGED <<session, queue, sync>>

(* server_game_loop() returns ERROR_CODE, and the thread ends. *)
GameFails(t) ==
  /\ pc[t] = "game_loop"
  /\ ConnectionError(t)
  /\ Goto(t, "exited")
  /\ UNCHANGED <<queue, sync>>

(* initialize_share_resources_to_zero(). *)
Reinit(t) ==
  /\ pc[t] = "reinit"
  /\ first_arrived' = 0
  /\ num_of_players_ready_to_play' = 0
  /\ Goto(t, "menu")
  /\ UNCHANGED <<session, sync>>

SocketFails(t) ==
  /\ pc[t] \in SocketPlaces
  /\ ConnectionError(t)
  /\ Goto(t, "exited")
  /\ UNCHANGED <<queue, sync>>

(* "exit" is typed, accept() fails, or a fault ends the process. *)
ServerStops ==
  /\ pc' = [t \in Threads |-> "down"]
  /\ UNCHANGED <<session, queue, sync>>

-----------------------------------------------------------------------------
(* What a thread does without waiting for its user or for the mutex. *)
ServerStep(t) ==
  \/ SendMenu(t)
  \/ Arrive(t)
  \/ ReadReady(t)
  \/ WakeUp(t)
  \/ FailAbandoned(t)
  \/ SendNoOpponents(t)
  \/ NoOpponentsFails(t)
  \/ DecreaseReady(t)
  \/ ResetFirstArrived(t)
  \/ StartGame(t)
  \/ SocketFails(t)

ClientStep(t) ==
  \/ NewClient(t)
  \/ Approve(t)
  \/ RequestFails(t)
  \/ RecvVersus(t)
  \/ RecvDisconnect(t)
  \/ ClientLeaves(t) /\ UNCHANGED <<pc, queue, sync>>

Next ==
  \/ \E t \in Threads :
       \/ ServerStep(t) \/ CheckReady(t) \/ Reinit(t)
       \/ ClientStep(t)
       \/ PlayGame(t) \/ GameFails(t)
  \/ LeaveBarrier
  \/ ServerStops

Spec == Init /\ [][Next]_vars

(* Threads that can run do run, and a thread waiting for the mutex is served
   in its turn (Windows queues the waiters), so that one that finds it free
   again and again gets it.  Users and games are under no obligation. *)
Fairness ==
  /\ \A t \in Threads : WF_vars(ServerStep(t)) /\ SF_vars(CheckReady(t))
  /\ WF_vars(LeaveBarrier)

-----------------------------------------------------------------------------
(***************************************************************************)
(* Properties.                                                             *)
(***************************************************************************)

TypeOK ==
  /\ pc \in [Threads -> Places]
  /\ connected \in [Threads -> BOOLEAN]
  /\ client_name \in [Threads -> Names]
  /\ num_of_player \in [Threads -> 0..2]
  /\ player_name \in [1..2 -> Names \cup {NULL}]
  /\ first_arrived \in 0..1
  /\ num_of_players_ready_to_play \in Int
  /\ sync_owner \in Threads \cup {NULL}
  /\ sync_abandoned \in BOOLEAN

(* A thread that has gone to the barrier, from which only the other one can
   release it, is never left there alone: the other one is at the barrier or
   on its way to a look at the count, which still says two, with the mutex
   free for it.  In particular the other thread is not answering
   NO_OPPONENTS, did not end, and is not in an earlier game. *)
OnTheWay == {"read_ready", "sleep", "check", "barrier"}

BarrierNeverStranded ==
  \A t, u \in Threads :
    pc[t] = "barrier" =>
      /\ pc[u] \in OnTheWay
      /\ num_of_players_ready_to_play = NUM_OF_WORKER_THREADS
      /\ sync_owner = NULL
      /\ ~sync_abandoned

(* Two threads that meet never both have the second player's number: at
   least one of them makes a first move, so they cannot both start by
   waiting for the event. *)
SomeoneMovesFirst ==
  (\A t \in Threads : pc[t] \in {"barrier", "game_started", "game_loop"})
    => \E t \in Threads : num_of_player[t] = 1

(* The name a thread will read as its opponent's is the opponent's, when the
   two have different numbers: neither a later arrival nor a former session
   has written over it by the time the barrier opens. *)
NamesPosted ==
  \A t, u \in Threads :
    pc[t] = "barrier" /\ pc[u] = "barrier" /\ num_of_player[t] # num_of_player[u]
      => player_name[num_of_player[u]] = client_name[u]

(* Every VERSUS is answered: the thread comes back to the menu, starts a game
   or ends, whatever the other client does meanwhile. *)
VersusAnswered ==
  \A t \in Threads :
    pc[t] = "arrive" ~> pc[t] \in {"menu", "game_started", "exited", "down"}

(* "Also writes the name of the client to player_1_name if arrived first,
   otherwise to player_2_name" (service_thread.c:382): one of the two players
   of a game arrived first.  The code does not keep this: a thread that gives
   up resets first_arrived although the other one has arrived meanwhile. *)
RolesDistinct ==
  \A t, u \in Threads :
    t # u /\ pc[t] = "game_started" /\ pc[u] = "game_started"
      => num_of_player[t] # num_of_player[u]
=============================================================================
