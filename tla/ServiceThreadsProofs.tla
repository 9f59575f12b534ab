------------------------- MODULE ServiceThreadsProofs -------------------------
(***************************************************************************)
(* ServiceThreads implements Matchmaking, for every set of names and moves *)
(* and every bound, and so has the invariants of Matchmaking; from these   *)
(* follows OpponentNamed.                                                  *)
(***************************************************************************)
EXTENDS ServiceThreads, MatchmakingProofs, GameLoopProofs

(* A thread outside of a call of server_game_loop() is where it begins. *)
CallInv ==
  \A t \in Threads :
    /\ pc[t] \notin {"game_loop", "reinit", "exited", "down"}
         => game_pc[t] = "game_loop"
    /\ pc[t] = "game_loop" => game_pc[t] \notin {"reinit", "exited"}

(* While both players are in a game, nobody writes over their names, and who
   has looked for the other one's has found it. *)
Playing(t) == pc[t] \in {"game_started", "game_loop"}

OpponentInv ==
  \A t, u \in Threads :
    Playing(t) /\ Playing(u) /\ num_of_player[t] # num_of_player[u] =>
      /\ num_of_player[t] \in 1..2
      /\ player_name[num_of_player[t]] = client_name[t]
      /\ InLoop(t) => other_client_name[t] = client_name[u]

-----------------------------------------------------------------------------
(* What a step in server_game_loop() does to its own place, to the other
   thread's and to the names. *)
LEMMA GameStepMoves ==
  ASSUME ServerTypeOK, NEW t \in Threads, GameStep(t)
  PROVE  /\ UNCHANGED session
         /\ game_pc'[t] # "game_loop"
         /\ game_pc'[t] = "exited" => GameSocketFails(t)
         /\ \A u \in Threads \ {t} :
              /\ other_client_name'[u] = other_client_name[u]
              /\ my_client_turn'[u] = my_client_turn[u]
              /\ \/ game_pc'[u] = game_pc[u]
                 \/ game_pc[u] = "blocked" /\ game_pc'[u] = "read_move"
         /\ game_pc'[t] # "exited" =>
              other_client_name'[t] = IF game_pc[t] = "game_loop"
                                        THEN player_name[OtherPlayer(t)]
                                        ELSE other_client_name[t]
<1> USE DEF ServerTypeOK, GameGoto, session, shared, locals
<1>1. CASE EnterLoop(t)
  BY <1>1 DEF EnterLoop
<1>2. CASE AskForMove(t) \/ RecvMove(t) \/ ReadNumber(t)
  BY <1>2 DEF AskForMove, RecvMove, ReadNumber
<1>3. CASE PublishMove(t) \/ JudgeMove(t) \/ RecordVerdict(t) \/ AdvanceNumber(t)
  BY <1>3 DEF PublishMove, JudgeMove, RecordVerdict, AfterVerdict, AdvanceNumber
<1>4. CASE SignalTurn(t)
  BY <1>4 DEF SignalTurn, Waiters
<1>5. CASE SendView(t)
  BY <1>5 DEF SendView
<1>6. CASE AnnounceOther(t) \/ WaitForEvent(t)
  BY <1>6 DEF AnnounceOther, WaitForEvent
<1>7. CASE ReadMove(t) \/ ReadEnded(t)
  BY <1>7 DEF ReadMove, ReadEnded
<1>8. CASE SendOtherView(t)
  BY <1>8 DEF SendOtherView
<1>9. CASE SendGameEnded(t)
  BY <1>9 DEF SendGameEnded
<1>10. CASE GameSocketFails(t)
  BY <1>10 DEF GameSocketFails, ConnectionError, ForgetLocals
<1> QED
  BY <1>1, <1>2, <1>3, <1>4, <1>5, <1>6, <1>7, <1>8, <1>9, <1>10
     DEF GameStep, MoverStep, WaiterStep

(* A step of server_game_loop() that does not return is a stutter of
   Matchmaking, SUCCESS_CODE is PlayGame, and ERROR_CODE is GameFails. *)
LEMMA LoopStepRefines ==
  ASSUME ServerTypeOK, NEW t \in Threads, LoopStep(t)
  PROVE  PlayGame(t) \/ GameFails(t) \/ UNCHANGED vars
<1>1. UNCHANGED session /\ (game_pc'[t] = "exited" => GameSocketFails(t))
  BY GameStepMoves DEF LoopStep
<1> USE DEF LoopStep, InCall, match, Goto, vars, queue, sync
<1>2. CASE game_pc'[t] \notin {"reinit", "exited"}
  <2>1. pc' = pc
    BY <1>2 DEF ServerTypeOK, TypeOK
  <2> QED
    BY <1>1, <2>1
<1>3. CASE game_pc'[t] = "reinit"
  BY <1>1, <1>3 DEF PlayGame
<1>4. CASE game_pc'[t] = "exited"
  BY <1>1, <1>4 DEF GameFails, GameSocketFails, ConnectionError
<1> QED
  BY <1>2, <1>3, <1>4

LEMMA ServerStepRefines ==
  ASSUME ServerTypeOK, [ServerNext]_server_vars PROVE [Next]_vars
<1>1. ASSUME NEW t \in Threads, MatchStep(t) PROVE Next
  BY <1>1 DEF MatchStep, Next
<1>2. ASSUME NEW t \in Threads, LoopStep(t) PROVE [Next]_vars
  BY <1>2, LoopStepRefines DEF Next
<1>3. ASSUME NEW t \in Threads, ReadNullMove(t) PROVE Next
  BY <1>3 DEF ReadNullMove, ServerStops, match, Next
<1>4. ASSUME NEW t \in Threads, ReturnToMenu(t) PROVE Next
  BY <1>4 DEF ReturnToMenu, Next
<1>5. ASSUME MeetAtBarrier PROVE Next
  BY <1>5 DEF MeetAtBarrier, Next
<1>6. ASSUME UNCHANGED server_vars PROVE UNCHANGED vars
  BY <1>6 DEF server_vars, match, vars
<1> QED
  BY <1>1, <1>2, <1>3, <1>4, <1>5, <1>6 DEF ServerNext

(* What a thread does up to GAME_STARTED. *)
LEMMA MatchStepMoves ==
  ASSUME ServerTypeOK, NEW t \in Threads, MatchStep(t)
  PROVE  /\ \A u \in Threads \ {t} :
              /\ pc'[u] = pc[u] /\ client_name'[u] = client_name[u]
              /\ num_of_player'[u] = num_of_player[u]
         /\ pc[t] \in {"game_loop", "reinit", "down"} => pc'[t] = pc[t]
         /\ Playing(t)' => Playing(t)
         /\ pc'[t] \in {"reinit", "down"} => pc'[t] = pc[t]
         /\ Playing(t) => UNCHANGED <<client_name, num_of_player, player_name>>
<1> USE DEF MatchStep, Playing, Goto, session, ServerTypeOK, TypeOK
<1>1. CASE ServerStep(t)
  BY <1>1 DEF ServerStep, SendMenu, Arrive, ReadReady, WakeUp, FailAbandoned,
         SendNoOpponents, NoOpponentsFails, DecreaseReady, ResetFirstArrived,
         StartGame, SocketFails, ConnectionError, SocketPlaces
<1>2. CASE CheckReady(t)
  BY <1>2 DEF CheckReady
<1>3. CASE ClientStep(t)
  BY <1>3 DEF ClientStep, NewClient, Approve, RequestFails, RecvVersus,
         RecvDisconnect, ClientLeaves
<1> QED
  BY <1>1, <1>2, <1>3

-----------------------------------------------------------------------------
(* Type correctness.                                                       *)

LEMMA ServerTypeInit == ServerInit => ServerTypeOK
<1> SUFFICES ASSUME ServerInit PROVE ServerTypeOK
  OBVIOUS
<1>1. TypeOK
  BY TypeInit DEF ServerInit
<1>2. game_pc \in [Threads -> GamePlaces]
  BY DEF ServerInit, GamePlaces
<1> QED
  BY <1>1, <1>2 DEF ServerInit, ServerTypeOK

LEMMA ServerTypeStep == ServerTypeOK /\ [ServerNext]_server_vars => ServerTypeOK'
<1> SUFFICES ASSUME ServerTypeOK, [ServerNext]_server_vars PROVE ServerTypeOK'
  OBVIOUS
<1>a. TypeOK'
  BY ServerStepRefines, TypeStep DEF ServerTypeOK
<1>b. CallTypeOK
  BY DEF ServerTypeOK, TypeOK, CallTypeOK
<1> USE <1>a DEF ServerTypeOK, GamePlaces, shared, locals, game
<1>1. ASSUME NEW t \in Threads, MatchStep(t) PROVE ServerTypeOK'
  BY <1>1 DEF MatchStep, GamePlaceOf
<1>2. ASSUME NEW t \in Threads, LoopStep(t) PROVE ServerTypeOK'
  <2>1. CallTypeOK'
    BY <1>2, <1>b, CallTypeStep DEF LoopStep, GameNext
  <2> QED
    BY <2>1 DEF CallTypeOK
<1>3. ASSUME NEW t \in Threads, ReadNullMove(t) PROVE ServerTypeOK'
  BY <1>3 DEF ReadNullMove
<1>4. ASSUME NEW t \in Threads, ReturnToMenu(t) PROVE ServerTypeOK'
  BY <1>4 DEF ReturnToMenu, FirstNumber, LeaveCall, ForgetLocals
<1>5. ASSUME MeetAtBarrier PROVE ServerTypeOK'
  BY <1>5 DEF MeetAtBarrier
<1>6. ASSUME UNCHANGED server_vars PROVE ServerTypeOK'
  BY <1>6 DEF server_vars
<1> QED
  BY <1>1, <1>2, <1>3, <1>4, <1>5, <1>6 DEF ServerNext

-----------------------------------------------------------------------------
(* Calls of server_game_loop().                                            *)

LEMMA CallInit == ServerInit => CallInv
BY DEF ServerInit, CallInv

LEMMA CallStep == ServerTypeOK /\ CallInv /\ [ServerNext]_server_vars => CallInv'
<1> SUFFICES ASSUME ServerTypeOK, CallInv, [ServerNext]_server_vars PROVE CallInv'
  OBVIOUS
<1> USE DEF CallInv, ServerTypeOK, TypeOK
<1>1. ASSUME NEW t \in Threads, MatchStep(t) PROVE CallInv'
  BY <1>1, MatchStepMoves DEF MatchStep, GamePlaceOf, Playing
<1>2. ASSUME NEW t \in Threads, LoopStep(t) PROVE CallInv'
  BY <1>2, GameStepMoves DEF LoopStep, InCall, Goto
<1>3. ASSUME NEW t \in Threads, ReadNullMove(t) PROVE CallInv'
  BY <1>3 DEF ReadNullMove
<1>4. ASSUME NEW t \in Threads, ReturnToMenu(t) PROVE CallInv'
  BY <1>4 DEF ReturnToMenu, LeaveCall, Reinit, Goto
<1>5. ASSUME MeetAtBarrier PROVE CallInv'
  BY <1>5 DEF MeetAtBarrier, LeaveBarrier
<1>6. ASSUME UNCHANGED server_vars PROVE CallInv'
  BY <1>6 DEF server_vars
<1> QED
  BY <1>1, <1>2, <1>3, <1>4, <1>5, <1>6 DEF ServerNext

-----------------------------------------------------------------------------
(* The names of two players.                                               *)

LEMMA OpponentInit == ServerInit => OpponentInv
BY DEF ServerInit, Init, OpponentInv, Playing

LEMMA OpponentStep ==
  ServerTypeOK /\ CallInv /\ NamesPosted /\ OpponentInv /\ FirstInv
    /\ [ServerNext]_server_vars => OpponentInv'
<1> SUFFICES ASSUME ServerTypeOK, CallInv, NamesPosted, OpponentInv, FirstInv,
                    [ServerNext]_server_vars,
                    NEW t \in Threads, NEW u \in Threads,
                    Playing(t)', Playing(u)', num_of_player'[t] # num_of_player'[u]
             PROVE  /\ num_of_player'[t] \in 1..2
                    /\ player_name'[num_of_player'[t]] = client_name'[t]
                    /\ InLoop(t)' => other_client_name'[t] = client_name'[u]
  BY DEF OpponentInv
<1> USE DEF ServerTypeOK, TypeOK, session
<1>a. t # u /\ Threads = {t, u}
  BY ThreadsAssumption
<1>1. ASSUME NEW v \in Threads, MatchStep(v)
      PROVE  /\ Playing(t) /\ Playing(u)
             /\ UNCHANGED <<client_name, num_of_player, player_name, other_client_name>>
             /\ InLoop(t)' => InLoop(t)
  <2>1. Playing(t) /\ Playing(u)
    BY <1>1, MatchStepMoves DEF Playing
  <2>2. UNCHANGED <<client_name, num_of_player, player_name>>
    BY <1>1, <1>a, <2>1, MatchStepMoves
  <2>3. UNCHANGED game_pc
    BY <1>1, <1>a, <2>1 DEF MatchStep, GamePlaceOf, Playing
  <2>4. InLoop(t)' => InLoop(t)
    BY <2>1, <2>3 DEF InLoop, Playing, CallInv
  <2> QED
    BY <1>1, <2>1, <2>2, <2>4 DEF MatchStep, game, locals
<1>2. CASE \E v \in Threads : MatchStep(v)
  BY <1>1, <1>2 DEF OpponentInv
<1>3. CASE \E v \in Threads : LoopStep(v)
  <2>1. PICK v \in Threads : LoopStep(v)
    BY <1>3
  <2>2. /\ UNCHANGED <<client_name, num_of_player, player_name>>
        /\ Playing(t) /\ Playing(u)
    BY <2>1, GameStepMoves DEF LoopStep, InCall, Goto, Playing
  <2>3. /\ num_of_player[t] \in 1..2 /\ num_of_player[u] \in 1..2
        /\ player_name[num_of_player[t]] = client_name[t]
        /\ player_name[num_of_player[u]] = client_name[u]
        /\ InLoop(t) => other_client_name[t] = client_name[u]
    BY <2>2 DEF OpponentInv
  <2>4. OtherPlayer(t) = num_of_player[u]
    BY <2>2, <2>3 DEF OtherPlayer
  <2>5. pc'[t] = "game_loop" => pc[t] = "game_loop"
    BY <2>1 DEF LoopStep, InCall, Goto
  <2>6. InLoop(t)' => other_client_name'[t] = client_name[u]
    BY <2>1, <2>3, <2>4, <2>5, GameStepMoves DEF InLoop, LoopStep, InCall, Goto
  <2> QED
    BY <2>2, <2>3, <2>6
<1>4. CASE \E v \in Threads : ReadNullMove(v)
  BY <1>4 DEF ReadNullMove, Playing
<1>5. CASE \E v \in Threads : ReturnToMenu(v)
  BY <1>5, <1>a DEF ReturnToMenu, Reinit, Goto, Playing
<1>6. CASE MeetAtBarrier
  <2>1. /\ \A v \in Threads : pc[v] = "barrier" /\ pc'[v] = "game_started"
        /\ UNCHANGED <<client_name, num_of_player, player_name>>
    BY <1>6 DEF MeetAtBarrier, LeaveBarrier
  <2>2. num_of_player[t] \in 1..2
    BY <2>1 DEF FirstInv, Counted
  <2> QED
    BY <2>1, <2>2 DEF NamesPosted, InLoop
<1>7. CASE UNCHANGED server_vars
  BY <1>7 DEF server_vars, game, locals, InLoop, Playing, OpponentInv
<1> QED
  BY <1>2, <1>3, <1>4, <1>5, <1>6, <1>7 DEF ServerNext

-----------------------------------------------------------------------------
(* The inductive invariant, and what follows from it. *)

ServerInv == IInv /\ ServerTypeOK /\ CallInv /\ OpponentInv

LEMMA ServerInitHolds == ServerInit => ServerInv
BY TypeInit, MutexInit, DownInit, CountInit, BarrierInit, FirstInit, NamesInit,
   FirstMoverInit, ServerTypeInit, CallInit, OpponentInit
   DEF ServerInit, ServerInv, IInv

LEMMA ServerStepHolds == ServerInv /\ [ServerNext]_server_vars => ServerInv'
<1> SUFFICES ASSUME ServerInv, [ServerNext]_server_vars PROVE ServerInv'
  OBVIOUS
<1>1. [Next]_vars
  BY ServerStepRefines DEF ServerInv
<1>2. IInv'
  BY <1>1, TypeStep, MutexStep, DownStep, CountStep, BarrierStep, FirstStep,
     NamesStep, FirstMoverStep DEF ServerInv, IInv
<1>3. NamesPosted
  BY NamesFollow DEF ServerInv
<1> QED
  BY <1>2, <1>3, ServerTypeStep, CallStep, OpponentStep DEF ServerInv, IInv

LEMMA ServerInductive == ServerSpec => []ServerInv
BY ServerInitHolds, ServerStepHolds, PTL DEF ServerSpec

(* ServerTypeOK of ServiceThreads. *)
THEOREM ServerTypeCorrect == ServerSpec => []ServerTypeOK
<1>1. ServerInv => ServerTypeOK
  BY DEF ServerInv
<1> QED
  BY <1>1, ServerInductive, PTL

(* ImplementsMatchmaking of ServiceThreads: whatever two threads do in a
   game, they meet, wait and give up as Matchmaking says. *)
THEOREM ServerImplementsMatchmaking == ServerSpec => ImplementsMatchmaking
<1>1. ServerInit => Init
  BY DEF ServerInit
<1>2. ServerTypeOK /\ [ServerNext]_server_vars => [Next]_vars
  BY ServerStepRefines
<1> QED
  BY <1>1, <1>2, ServerTypeCorrect, PTL DEF ServerSpec, Spec, ImplementsMatchmaking

(* BarrierNeverStranded of Matchmaking, of the whole server: every theorem of
   Matchmaking is one of the server. *)
THEOREM ServerNeverStrandsABarrier == ServerSpec => []BarrierNeverStranded
BY ServerImplementsMatchmaking, BarrierIsNeverStranded, PTL DEF ImplementsMatchmaking

(* OpponentNamed of ServiceThreads: a player is shown the right opponent. *)
THEOREM OpponentIsNamed == ServerSpec => []OpponentNamed
<1>1. ServerInv => OpponentNamed
  BY DEF ServerInv, OpponentInv, Playing, InLoop, OpponentNamed
<1> QED
  BY <1>1, ServerInductive, PTL
=============================================================================
