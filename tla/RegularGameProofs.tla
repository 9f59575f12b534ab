--------------------------- MODULE RegularGameProofs ---------------------------
(***************************************************************************)
(* The games of the whole server, for every set of names and moves: they   *)
(* start with clean resources and a clear event, and a game of two players *)
(* with different numbers who stay is one of GameLoop, even though the     *)
(* threads come out of the former game in their own time.                  *)
(***************************************************************************)
EXTENDS MCServiceThreads, GameLoopProofs

(* The two threads play one game, or are just out of it. *)
Together == \A t \in Threads : pc[t] \in {"game_started", "game_loop", "reinit"}

(* Where a thread is in server_game_loop(), and in ServiceThread(). *)
PlaceInv ==
  /\ CallTypeOK
  /\ pc \in [Threads -> Places]
  /\ \A t \in Threads :
       /\ pc[t] \notin {"game_loop", "reinit", "exited", "down"}
            => game_pc[t] = "game_loop"
       /\ pc[t] = "game_loop" => game_pc[t] \notin {"reinit", "exited"}
       /\ pc[t] = "reinit" => game_pc[t] = "reinit"
       /\ pc[t] = "exited" => game_pc[t] \in {"game_loop", "exited"}
  /\ \A t, u \in Threads : pc[t] = "down" => pc[u] = "down"
  /\ spoilt \in {"no", "apart", "left"}

(* The resources are those of a new game unless somebody is in a game, or has
   yet to set them to zero. *)
Clean == game_number = 0 /\ ~game_has_ended /\ current_player_move = NULL

CleanInv ==
  spoilt # "left" =>
    Clean \/ \E t \in Threads : InLoop(t) \/ pc[t] \in {"reinit", "down"}

(* Two threads in one game obey the invariants of GameLoop, and signal only
   when they have begun ... *)
BegunInv == event # NULL => \E t \in Threads : game_pc[t] # "game_loop"

GameInv == TurnInv /\ NextTurnInv /\ BoardInv /\ EndInv /\ BegunInv

TogetherInv == spoilt = "no" /\ Together => GameInv

(* ... and once one of them has left it, the event is clear, and the other
   one has only to tell its client. *)
Late(t) ==
  game_pc[t] \in {"send_view", "send_other_view", "send_ended"} /\ game_has_finished[t]

ApartInv ==
  spoilt = "no"
    /\ (\E t \in Threads : pc[t] \notin {"game_started", "game_loop", "reinit", "down"})
  => /\ event = NULL
     /\ \A t \in Threads :
          pc[t] # "game_started" /\ (pc[t] = "game_loop" => Late(t))

-----------------------------------------------------------------------------
(* Steps of the server as steps of GameLoop.                               *)

LEMMA LoopStepGoes ==
  ASSUME NEW t \in Threads, LoopStep(t)
  PROVE  /\ GameStep(t)
         /\ pc[t] = "game_loop"
         /\ pc' = [pc EXCEPT ![t] = IF game_pc'[t] \in {"reinit", "exited"}
                                     THEN game_pc'[t] ELSE "game_loop"]
BY DEF LoopStep, InCall, Goto

(* Where a step of server_game_loop() begins and ends. *)
LEMMA GameStepPlaces ==
  ASSUME PlaceInv, NEW t \in Threads, LoopStep(t)
  PROVE  /\ game_pc'[t] # "game_loop"
         /\ game_pc'[t] = "exited" => InLoop(t)
         /\ Late(t) =>
              /\ UNCHANGED event
              /\ \A u \in Threads \ {t} :
                   game_pc'[u] = game_pc[u] /\ game_has_finished'[u] = game_has_finished[u]
              /\ game_pc'[t] \in {"reinit", "exited"} \/ Late(t)'
<1>1. GameStep(t) /\ pc[t] = "game_loop"
  BY LoopStepGoes
<1> USE <1>1 DEF PlaceInv, CallTypeOK, Late, InLoop, GameGoto, session, shared, locals
<1>2. CASE EnterLoop(t)
  BY <1>2 DEF EnterLoop
<1>3. CASE AskForMove(t) \/ RecvMove(t) \/ ReadNumber(t)
  BY <1>3 DEF AskForMove, RecvMove, ReadNumber
<1>4. CASE PublishMove(t) \/ JudgeMove(t) \/ RecordVerdict(t) \/ AdvanceNumber(t)
  BY <1>4 DEF PublishMove, JudgeMove, RecordVerdict, AfterVerdict, AdvanceNumber
<1>5. CASE SignalTurn(t)
  BY <1>5 DEF SignalTurn, Waiters
<1>6. CASE SendView(t)
  BY <1>6 DEF SendView
<1>7. CASE AnnounceOther(t) \/ WaitForEvent(t)
  BY <1>7 DEF AnnounceOther, WaitForEvent
<1>8. CASE ReadMove(t) \/ ReadEnded(t)
  BY <1>8 DEF ReadMove, ReadEnded
<1>9. CASE SendOtherView(t)
  BY <1>9 DEF SendOtherView
<1>10. CASE SendGameEnded(t)
  BY <1>10 DEF SendGameEnded
<1>11. CASE GameSocketFails(t)
  BY <1>11 DEF GameSocketFails, ConnectionError, ForgetLocals, GameSocketPlaces
<1> QED
  BY <1>2, <1>3, <1>4, <1>5, <1>6, <1>7, <1>8, <1>9, <1>10, <1>11
     DEF GameStep, MoverStep, WaiterStep

(* What a thread does up to GAME_STARTED is nothing to the games. *)
LEMMA MatchStepPlaces ==
  ASSUME PlaceInv, NEW t \in Threads, MatchStep(t)
  PROVE  /\ UNCHANGED game
         /\ pc' \in [Threads -> Places]
         /\ \A u \in Threads \ {t} : pc'[u] = pc[u]
         /\ IF pc[t] = "exited" THEN game_pc' = [game_pc EXCEPT ![t] = "game_loop"]
                                ELSE UNCHANGED game_pc
         /\ pc[t] \in {"game_loop", "reinit", "down"} => pc'[t] = pc[t]
         /\ pc'[t] \in {"game_started", "reinit", "down"} => pc'[t] = pc[t]
         /\ pc'[t] = "game_loop" => pc[t] \in {"game_started", "game_loop"}
         /\ pc[t] = "game_started" =>
              pc'[t] \in {"game_started", "game_loop", "exited"}
         /\ pc[t] = "exited" => pc'[t] \in {"exited", "request"}
         /\ connected' \in [Threads -> BOOLEAN]
         /\ client_name' \in [Threads -> Names]
         /\ num_of_player' \in [Threads -> 0..2]
         /\ player_name' \in [1..2 -> Names \cup {NULL}]
         /\ pc[t] \in {"game_started", "game_loop", "reinit"} =>
              UNCHANGED <<client_name, num_of_player, player_name>>
<1> USE DEF PlaceInv, CallTypeOK, MatchStep, GamePlaceOf, Places, Goto,
            session, queue, sync
<1>1. CASE ServerStep(t)
  <2>1. CASE SendMenu(t) \/ ReadReady(t) \/ WakeUp(t) \/ StartGame(t)
    BY <2>1 DEF SendMenu, ReadReady, WakeUp, StartGame
  <2>2. CASE Arrive(t)
    BY <2>2 DEF Arrive, PlayerFor, PostName
  <2>3. CASE FailAbandoned(t) \/ SendNoOpponents(t) \/ NoOpponentsFails(t)
    BY <2>3 DEF FailAbandoned, SendNoOpponents, NoOpponentsFails
  <2>4. CASE DecreaseReady(t) \/ ResetFirstArrived(t)
    BY <2>4 DEF DecreaseReady, ResetFirstArrived
  <2>5. CASE SocketFails(t)
    BY <2>5 DEF SocketFails, ConnectionError, SocketPlaces
  <2> QED
    BY <1>1, <2>1, <2>2, <2>3, <2>4, <2>5 DEF ServerStep
<1>2. CASE CheckReady(t)
  BY <1>2 DEF CheckReady
<1>3. CASE ClientStep(t)
  <2>1. CASE NewClient(t)
    BY <2>1 DEF NewClient
  <2>2. CASE Approve(t)
    BY <2>2 DEF Approve
  <2>3. CASE RequestFails(t) \/ RecvVersus(t) \/ RecvDisconnect(t)
    BY <2>3 DEF RequestFails, RecvVersus, RecvDisconnect
  <2>4. CASE ClientLeaves(t) /\ UNCHANGED <<pc, queue, sync>>
    BY <2>4 DEF ClientLeaves
  <2> QED
    BY <1>3, <2>1, <2>2, <2>3, <2>4 DEF ClientStep
<1> QED
  BY <1>1, <1>2, <1>3

-----------------------------------------------------------------------------
(* Places and types.                                                       *)

LEMMA PlaceInit == MCInit => PlaceInv
<1> SUFFICES ASSUME MCInit PROVE PlaceInv
  OBVIOUS
<1>1. player_name \in [1..2 -> Names \cup {NULL}]
  BY DEF MCInit, ServerInit, Init
<1>2. CallTypeOK
  <2>1. game_pc \in [Threads -> GamePlaces]
    BY DEF MCInit, ServerInit, GamePlaces
  <2>2. connected \in [Threads -> BOOLEAN] /\ client_name \in [Threads -> Names]
    BY DEF MCInit, ServerInit, Init
  <2>3. num_of_player \in [Threads -> 0..2]
    BY DEF MCInit, ServerInit, Init
  <2> QED
    BY <1>1, <2>1, <2>2, <2>3 DEF MCInit, ServerInit, CallTypeOK
<1>3. /\ pc = [t \in Threads |-> "exited"] /\ game_pc = [t \in Threads |-> "game_loop"]
      /\ spoilt = "no"
  BY DEF MCInit, ServerInit, Init
<1> QED
  BY <1>2, <1>3 DEF PlaceInv, Places

LEMMA PlaceStep == PlaceInv /\ [MCNext]_<<server_vars, spoilt>> => PlaceInv'
<1> SUFFICES ASSUME PlaceInv, [MCNext]_<<server_vars, spoilt>> PROVE PlaceInv'
  OBVIOUS
<1>1. spoilt' \in {"no", "apart", "left"}
  BY DEF PlaceInv, MCNext
<1>2. ASSUME NEW t \in Threads, MatchStep(t) PROVE PlaceInv'
  <2>1. /\ UNCHANGED game
        /\ pc' \in [Threads -> Places]
        /\ connected' \in [Threads -> BOOLEAN]
        /\ client_name' \in [Threads -> Names]
        /\ num_of_player' \in [Threads -> 0..2]
        /\ player_name' \in [1..2 -> Names \cup {NULL}]
        /\ IF pc[t] = "exited" THEN game_pc' = [game_pc EXCEPT ![t] = "game_loop"]
                                 ELSE UNCHANGED game_pc
    BY <1>2, MatchStepPlaces
  <2>2. CallTypeOK'
    BY <2>1 DEF PlaceInv, CallTypeOK, GamePlaces, game, shared, locals
  <2>3. /\ \A u \in Threads \ {t} : pc'[u] = pc[u]
        /\ pc[t] \in {"game_loop", "reinit", "down"} => pc'[t] = pc[t]
        /\ pc'[t] \in {"game_started", "reinit", "down"} => pc'[t] = pc[t]
        /\ pc'[t] = "game_loop" => pc[t] \in {"game_started", "game_loop"}
        /\ pc[t] = "exited" => pc'[t] \in {"exited", "request"}
    BY <1>2, MatchStepPlaces
  <2>4. ASSUME NEW u \in Threads
        PROVE  /\ pc'[u] \notin {"game_loop", "reinit", "exited", "down"}
                    => game_pc'[u] = "game_loop"
               /\ pc'[u] = "game_loop" => game_pc'[u] \notin {"reinit", "exited"}
               /\ pc'[u] = "reinit" => game_pc'[u] = "reinit"
               /\ pc'[u] = "exited" => game_pc'[u] \in {"game_loop", "exited"}
    BY <2>1, <2>3 DEF PlaceInv, CallTypeOK
  <2>5. \A u \in Threads : pc'[u] = "down" => pc' = pc
    BY <2>1, <2>3 DEF PlaceInv
  <2> QED
    BY <1>1, <2>1, <2>2, <2>4, <2>5 DEF PlaceInv
<1>3. ASSUME NEW t \in Threads, LoopStep(t) PROVE PlaceInv'
  <2>1. GameStep(t) /\ pc[t] = "game_loop"
    BY <1>3, LoopStepGoes
  <2>2. CallTypeOK'
    BY <2>1, CallTypeStep DEF PlaceInv, GameNext
  <2>3. \A u \in Threads \ {t} :
          \/ game_pc'[u] = game_pc[u]
          \/ game_pc[u] = "blocked" /\ game_pc'[u] = "read_move"
    <3> USE DEF PlaceInv, CallTypeOK, GameGoto
    <3>1. CASE MoverStep(t)
      BY <3>1 DEF MoverStep, AskForMove, RecvMove, ReadNumber, PublishMove, JudgeMove,
             RecordVerdict, AdvanceNumber, SignalTurn, Waiters, SendView
    <3>2. CASE WaiterStep(t)
      BY <3>2 DEF WaiterStep, AnnounceOther, WaitForEvent, ReadMove, ReadEnded,
             SendOtherView
    <3>3. CASE EnterLoop(t) \/ SendGameEnded(t) \/ GameSocketFails(t)
      BY <3>3 DEF EnterLoop, SendGameEnded, GameSocketFails, ConnectionError
    <3> QED
      BY <2>1, <3>1, <3>2, <3>3 DEF GameStep
  <2> QED
    BY <1>1, <1>3, <2>1, <2>2, <2>3, LoopStepGoes DEF PlaceInv, Places
<1>4. ASSUME NEW t \in Threads, ReadNullMove(t) PROVE PlaceInv'
  BY <1>1, <1>4 DEF PlaceInv, CallTypeOK, ReadNullMove, session, game, shared, locals, Places
<1>5. ASSUME NEW t \in Threads, ReturnToMenu(t) PROVE PlaceInv'
  BY <1>1, <1>5 DEF PlaceInv, CallTypeOK, GamePlaces, ReturnToMenu, FirstNumber,
         LeaveCall, ForgetLocals, Reinit, Goto, session, Places
<1>6. ASSUME MeetAtBarrier PROVE PlaceInv'
  BY <1>1, <1>6 DEF PlaceInv, CallTypeOK, MeetAtBarrier, game, shared, locals, LeaveBarrier,
         session, Places
<1>7. ASSUME UNCHANGED <<server_vars, spoilt>> PROVE PlaceInv'
  BY <1>7 DEF PlaceInv, CallTypeOK, server_vars, session, game, shared, locals
<1> QED
  BY <1>2, <1>3, <1>4, <1>5, <1>6, <1>7 DEF MCNext, ServerNext

-----------------------------------------------------------------------------
(* Who knows that the game is over.                                        *)

LEMMA FinishedInit == MCInit => FinishedInv
BY DEF MCInit, ServerInit, FinishedInv

LEMMA FinishedStep ==
  PlaceInv /\ FinishedInv /\ [MCNext]_<<server_vars, spoilt>> => FinishedInv'
<1> SUFFICES ASSUME PlaceInv, FinishedInv, [MCNext]_<<server_vars, spoilt>>
             PROVE FinishedInv'
  OBVIOUS
<1>1. ASSUME NEW t \in Threads, MatchStep(t) PROVE FinishedInv'
  <2>1. /\ UNCHANGED game_has_finished
        /\ IF pc[t] = "exited" THEN game_pc' = [game_pc EXCEPT ![t] = "game_loop"]
                                 ELSE UNCHANGED game_pc
    BY <1>1, MatchStepPlaces DEF game, shared, locals
  <2>2. pc[t] = "exited" => ~game_has_finished[t]
    BY DEF PlaceInv, CallTypeOK, FinishedInv
  <2> QED
    BY <2>1, <2>2 DEF PlaceInv, CallTypeOK, FinishedInv
<1>2. ASSUME NEW t \in Threads, LoopStep(t) PROVE FinishedInv'
  BY <1>2, LoopStepGoes, FinishedGameStep DEF PlaceInv
<1>3. ASSUME NEW t \in Threads, ReadNullMove(t) PROVE FinishedInv'
  BY <1>3 DEF ReadNullMove, game, shared, locals, FinishedInv
<1>4. ASSUME NEW t \in Threads, ReturnToMenu(t) PROVE FinishedInv'
  BY <1>4 DEF ReturnToMenu, LeaveCall, ForgetLocals, PlaceInv, CallTypeOK,
         FinishedInv
<1>5. ASSUME MeetAtBarrier PROVE FinishedInv'
  BY <1>5 DEF MeetAtBarrier, game, shared, locals, FinishedInv
<1>6. ASSUME UNCHANGED <<server_vars, spoilt>> PROVE FinishedInv'
  BY <1>6 DEF server_vars, game, shared, locals, FinishedInv
<1> QED
  BY <1>1, <1>2, <1>3, <1>4, <1>5, <1>6 DEF MCNext, ServerNext

-----------------------------------------------------------------------------
(* The resources are clean when nobody is in a game.                       *)

LEMMA CleanInit == MCInit => CleanInv
BY DEF MCInit, ServerInit, CleanInv, Clean

LEMMA CleanStep ==
  PlaceInv /\ CleanInv /\ [MCNext]_<<server_vars, spoilt>> => CleanInv'
<1> SUFFICES ASSUME PlaceInv, CleanInv, [MCNext]_<<server_vars, spoilt>>, spoilt' # "left"
             PROVE  Clean' \/ \E t \in Threads :
                                InLoop(t)' \/ pc'[t] \in {"reinit", "down"}
  BY DEF CleanInv
<1>a. PICK t0 \in Threads : TRUE
  BY ThreadsAssumption
<1> DEFINE Busy(t) == InLoop(t) \/ pc[t] \in {"reinit", "down"}
<1>b. spoilt # "left" /\ (Clean \/ \E t \in Threads : Busy(t))
  BY DEF CleanInv, MCNext
<1>1. ASSUME NEW t \in Threads, MatchStep(t) PROVE Clean' \/ \E u \in Threads : Busy(u)'
  <2>1. /\ UNCHANGED game
        /\ \A u \in Threads : Busy(u) => Busy(u)'
    BY <1>1, MatchStepPlaces DEF InLoop, PlaceInv, CallTypeOK
  <2> QED
    BY <1>b, <2>1 DEF Clean, game, shared, locals
<1>2. ASSUME NEW t \in Threads, LoopStep(t), MCNext PROVE Busy(t)'
  <2>1. /\ game_pc'[t] # "game_loop"
        /\ game_pc'[t] = "exited" => InLoop(t)
        /\ pc[t] = "game_loop"
        /\ pc'[t] = IF game_pc'[t] \in {"reinit", "exited"} THEN game_pc'[t] ELSE "game_loop"
    BY <1>2, GameStepPlaces, LoopStepGoes DEF PlaceInv
  <2>2. game_pc'[t] # "exited"
    BY <1>2, <2>1 DEF MCNext, Exits
  <2> QED
    BY <2>1, <2>2 DEF InLoop
<1>3. ASSUME NEW t \in Threads, ReadNullMove(t) PROVE Busy(t)'
  BY <1>3 DEF ReadNullMove
<1>4. ASSUME NEW t \in Threads, ReturnToMenu(t) PROVE Clean'
  BY <1>4 DEF ReturnToMenu, FirstNumber, Clean
<1>5. ASSUME MeetAtBarrier PROVE Clean'
  <2>1. \A u \in Threads : pc[u] = "barrier"
    BY <1>5 DEF MeetAtBarrier, LeaveBarrier
  <2> QED
    BY <1>5, <1>b, <2>1 DEF MeetAtBarrier, game, shared, locals, InLoop, Clean
<1>6. ASSUME UNCHANGED <<server_vars, spoilt>> PROVE Clean' \/ \E u \in Threads : Busy(u)'
  BY <1>6, <1>b DEF server_vars, game, shared, locals, InLoop, Clean
<1> QED
  BY <1>1, <1>2, <1>3, <1>4, <1>5, <1>6 DEF MCNext, ServerNext

-----------------------------------------------------------------------------
(* Two threads in one game.                                                *)

LEMMA GameInvStays ==
  ASSUME GameInv, UNCHANGED <<game_pc, client_name, num_of_player>>, UNCHANGED game
  PROVE  GameInv'
<1> USE DEF game, shared, locals
<1>1. TurnInv' /\ NextTurnInv'
  BY DEF GameInv, TurnInv, NextTurnInv, HasTurn
<1>2. BoardInv'
  BY DEF GameInv, BoardInv, Knows, VerdictOf
<1>3. EndInv'
  BY DEF GameInv, EndInv, NoMoreMoves, Lost, Won, Returned, HasTurn
<1> QED
  BY <1>1, <1>2, <1>3 DEF GameInv, BegunInv

(* The game that two players begin with different numbers. *)
LEMMA GameBegins ==
  ASSUME PlaceInv, \A t \in Threads : game_pc[t] = "game_loop",
         \A t, u \in Threads : t # u => num_of_player[t] # num_of_player[u],
         Clean, event = NULL
  PROVE  GameInv
<1>1. TurnInv /\ NextTurnInv
  BY DEF TurnInv, NextTurnInv, HasTurn, WaiterPlaces
<1>2. BoardInv
  BY DEF BoardInv, Knows
<1>3. EndInv
  BY DEF EndInv, Clean, NoMoreMoves, Lost, Won, Returned, HasTurn
<1> QED
  BY <1>1, <1>2, <1>3 DEF GameInv, BegunInv

LEMMA TogetherInit == MCInit => TogetherInv
<1> SUFFICES ASSUME MCInit, Together PROVE FALSE
  BY DEF TogetherInv
<1>1. PICK t \in Threads : pc[t] = "exited"
  BY ThreadsAssumption DEF MCInit, ServerInit, Init
<1> QED
  BY <1>1 DEF Together

LEMMA TogetherStep ==
  PlaceInv /\ CleanInv /\ TogetherInv /\ ApartInv /\ [MCNext]_<<server_vars, spoilt>>
    => TogetherInv'
<1> SUFFICES ASSUME PlaceInv, CleanInv, TogetherInv, ApartInv,
                    [MCNext]_<<server_vars, spoilt>>, spoilt' = "no", Together'
             PROVE  GameInv'
  BY DEF TogetherInv
<1>a. PICK t0 \in Threads : TRUE
  BY ThreadsAssumption
<1>b. spoilt = "no"
  BY DEF PlaceInv, MCNext
<1>1. ASSUME NEW t \in Threads, MatchStep(t) PROVE GameInv'
  <2>1. /\ UNCHANGED game
        /\ \A u \in Threads \ {t} : pc'[u] = pc[u]
        /\ IF pc[t] = "exited" THEN game_pc' = [game_pc EXCEPT ![t] = "game_loop"]
                                 ELSE UNCHANGED game_pc
        /\ pc'[t] \in {"game_started", "reinit", "down"} => pc'[t] = pc[t]
        /\ pc'[t] = "game_loop" => pc[t] \in {"game_started", "game_loop"}
        /\ pc[t] \in {"game_started", "game_loop", "reinit"} =>
             UNCHANGED <<client_name, num_of_player, player_name>>
    BY <1>1, MatchStepPlaces
  <2>2. Together
    BY <2>1 DEF Together
  <2>3. UNCHANGED <<game_pc, client_name, num_of_player>>
    BY <2>1, <2>2 DEF Together
  <2> QED
    BY <1>b, <2>1, <2>2, <2>3, GameInvStays DEF TogetherInv
<1>2. ASSUME NEW t \in Threads, LoopStep(t) PROVE GameInv'
  <2>1. /\ GameStep(t)
        /\ pc[t] = "game_loop"
        /\ \A u \in Threads \ {t} : pc'[u] = pc[u]
        /\ game_pc'[t] # "game_loop"
    BY <1>2, LoopStepGoes, GameStepPlaces DEF PlaceInv
  <2>2. Together
    BY <2>1 DEF Together
  <2>3. [GameNext]_game_vars
    BY <2>1 DEF GameNext
  <2> QED
    BY <1>b, <2>1, <2>2, <2>3, TurnStep, NextTurnStep, BoardStep, EndStep
       DEF PlaceInv, TogetherInv, GameInv, BegunInv
<1>3. ASSUME NEW t \in Threads, ReadNullMove(t) PROVE FALSE
  BY <1>3 DEF ReadNullMove, Together
<1>4. ASSUME NEW t \in Threads, ReturnToMenu(t) PROVE FALSE
  BY <1>4 DEF ReturnToMenu, Reinit, Goto, Together, PlaceInv
<1>5. ASSUME MeetAtBarrier, MCNext PROVE GameInv'
  <2>1. /\ \A t \in Threads : pc[t] = "barrier"
        /\ UNCHANGED <<game_pc, client_name, num_of_player>>
        /\ UNCHANGED game
    BY <1>5 DEF MeetAtBarrier, LeaveBarrier, session
  <2>2. \A t \in Threads : game_pc[t] = "game_loop"
    BY <2>1 DEF PlaceInv
  <2>3. Clean
    BY <1>b, <2>1 DEF CleanInv, InLoop
  <2>4. event = NULL
    BY <1>a, <1>b, <2>1 DEF ApartInv
  <2>5. ~Apart
    BY <1>5 DEF MCNext
  <2>6. \A t, u \in Threads : t # u => num_of_player[t] # num_of_player[u]
    BY <2>1, <2>5, ThreadsAssumption DEF Apart
  <2> QED
    BY <2>1, <2>2, <2>3, <2>4, <2>6, GameBegins, GameInvStays
<1>6. ASSUME UNCHANGED <<server_vars, spoilt>> PROVE GameInv'
  <2>1. Together /\ UNCHANGED <<game_pc, client_name, num_of_player>> /\ UNCHANGED game
    BY <1>6 DEF server_vars, session, Together
  <2> QED
    BY <1>b, <2>1, GameInvStays DEF TogetherInv
<1> QED
  BY <1>1, <1>2, <1>3, <1>4, <1>5, <1>6 DEF MCNext, ServerNext

-----------------------------------------------------------------------------
(* After one of them has left it.                                          *)

LEMMA ApartInit == MCInit => ApartInv
BY DEF MCInit, ServerInit, Init, ApartInv

LEMMA WinnerHasSignal ==
  ASSUME GameInv, NEW t \in Threads, Won(t)
  PROVE  event = NULL /\ \A u \in Threads : HasTurn(u) => u = t
BY DEF GameInv, EndInv

(* The first to leave: the last signal has been consumed by the winner. *)
LEMMA FirstLeaves ==
  ASSUME PlaceInv, FinishedInv, Together, GameInv, NEW t \in Threads, pc[t] = "reinit",
         NEW u \in Threads \ {t},
         pc[u] \in {"game_started", "game_loop"} => game_has_finished[u]
  PROVE  event = NULL /\ (pc[u] = "reinit" \/ (pc[u] = "game_loop" /\ Late(u)))
<1>1. Returned(t) /\ (Lost(t) \/ Won(t))
  BY DEF PlaceInv, CallTypeOK, Returned, Lost, Won
<1>2. game_has_ended /\ NoMoreMoves
  BY <1>1 DEF GameInv, EndInv
<1>3. CASE pc[u] = "reinit"
  <2>1. Lost(u) \/ Won(u)
    BY <1>3 DEF PlaceInv, CallTypeOK, Returned, Lost, Won
  <2>2. Won(t) \/ Won(u)
    BY <1>1, <2>1 DEF GameInv, EndInv
  <2>3. event = NULL
    BY <2>2, WinnerHasSignal
  <2> QED
    BY <1>3, <2>3
<1>4. CASE pc[u] # "reinit"
  <2>1. pc[u] = "game_loop" /\ game_has_finished[u]
    BY <1>4 DEF Together, PlaceInv, FinishedInv
  <2>2. game_pc[u] \in {"signal", "send_view", "send_other_view", "send_ended"}
    BY <1>2, <2>1 DEF FinishedInv, NoMoreMoves, PlaceInv
  <2>3. Lost(u) \/ Won(u)
    BY <2>1, <2>2 DEF PlaceInv, CallTypeOK, Returned, Lost, Won
  <2>4. Won(t) \/ Won(u)
    BY <1>1, <2>3 DEF GameInv, EndInv
  <2>5. event = NULL
    BY <2>4, WinnerHasSignal
  <2>6. game_pc[u] # "signal"
    <3> SUFFICES ASSUME game_pc[u] = "signal" PROVE FALSE
      OBVIOUS
    <3>1. Won(t) /\ HasTurn(u)
      BY <2>4 DEF Won, Returned, HasTurn
    <3> QED
      BY <3>1, WinnerHasSignal
  <2> QED
    BY <2>1, <2>2, <2>5, <2>6 DEF Late
<1> QED
  BY <1>3, <1>4

LEMMA ApartStep ==
  PlaceInv /\ FinishedInv /\ TogetherInv /\ ApartInv /\ [MCNext]_<<server_vars, spoilt>>
    => ApartInv'
<1> DEFINE Outside(t) == pc[t] \notin {"game_started", "game_loop", "reinit", "down"}
           Clear(t) == /\ event = NULL
                       /\ pc[t] # "game_started"
                       /\ pc[t] = "game_loop" => Late(t)
<1> SUFFICES ASSUME PlaceInv, FinishedInv, TogetherInv, ApartInv,
                    [MCNext]_<<server_vars, spoilt>>, spoilt' = "no",
                    NEW w \in Threads, Outside(w)',
                    NEW v \in Threads
             PROVE  Clear(v)'
  BY DEF ApartInv
<1>b. spoilt = "no"
  BY DEF PlaceInv, MCNext
<1>c. ~Together => (\A t \in Threads : Clear(t)) \/ (\A t \in Threads : pc[t] = "down")
  BY <1>b DEF Together, ApartInv, PlaceInv
<1>1. ASSUME NEW t \in Threads, MatchStep(t), MCNext PROVE Clear(v)'
  <2>1. /\ UNCHANGED game
        /\ \A u \in Threads \ {t} : pc'[u] = pc[u]
        /\ IF pc[t] = "exited" THEN game_pc' = [game_pc EXCEPT ![t] = "game_loop"]
                                 ELSE UNCHANGED game_pc
        /\ pc[t] \in {"game_loop", "reinit", "down"} => pc'[t] = pc[t]
        /\ pc'[t] \in {"game_started", "reinit", "down"} => pc'[t] = pc[t]
        /\ pc'[t] = "game_loop" => pc[t] \in {"game_started", "game_loop"}
        /\ pc[t] = "game_started" =>
             pc'[t] \in {"game_started", "game_loop", "exited"}
        /\ pc[t] = "exited" => pc'[t] \in {"exited", "request"}
    BY <1>1, MatchStepPlaces
  <2>2. ~Together
    <3> SUFFICES ASSUME Together PROVE FALSE
      OBVIOUS
    <3>1. pc[t] = "game_started" /\ pc'[t] = "exited"
      BY <2>1 DEF Together
    <3> QED
      BY <1>1, <3>1 DEF MCNext, Apart, Exits
  <2>3. \A u \in Threads : Clear(u)
    BY <1>c, <2>1, <2>2
  <2> QED
    BY <2>1, <2>3 DEF Late, game, shared, locals, PlaceInv, CallTypeOK
<1>2. ASSUME NEW t \in Threads, LoopStep(t), MCNext PROVE Clear(v)'
  <2>1. /\ game_pc'[t] = "exited" => InLoop(t)
        /\ Late(t) =>
             /\ UNCHANGED event
             /\ \A u \in Threads \ {t} :
                  game_pc'[u] = game_pc[u] /\ game_has_finished'[u] = game_has_finished[u]
             /\ game_pc'[t] \in {"reinit", "exited"} \/ Late(t)'
        /\ pc[t] = "game_loop"
        /\ \A u \in Threads \ {t} : pc'[u] = pc[u]
        /\ pc'[t] = IF game_pc'[t] \in {"reinit", "exited"} THEN game_pc'[t] ELSE "game_loop"
    BY <1>2, GameStepPlaces, LoopStepGoes DEF PlaceInv
  <2>2. pc'[t] # "exited"
    BY <1>2, <2>1 DEF MCNext, Exits
  <2>3. ~Together
    BY <2>1, <2>2 DEF Together
  <2>4. \A u \in Threads : Clear(u)
    BY <1>c, <2>1, <2>3
  <2> QED
    BY <2>1, <2>4 DEF Late
<1>3. ASSUME NEW t \in Threads, ReadNullMove(t) PROVE FALSE
  BY <1>3 DEF ReadNullMove
<1>4. ASSUME NEW t \in Threads, ReturnToMenu(t), MCNext PROVE Clear(v)'
  <2>1. /\ pc[t] = "reinit" /\ pc' = [pc EXCEPT ![t] = "menu"]
        /\ UNCHANGED event
        /\ \A u \in Threads \ {t} :
             game_pc'[u] = game_pc[u] /\ game_has_finished'[u] = game_has_finished[u]
    BY <1>4 DEF ReturnToMenu, Reinit, Goto, LeaveCall, ForgetLocals,
           PlaceInv, CallTypeOK
  <2>2. CASE Together
    <3>1. ~Apart
      BY <1>4 DEF MCNext
    <3>2. \A u \in Threads \ {t} :
            pc[u] \in {"game_started", "game_loop"} => game_has_finished[u]
      BY <2>1, <3>1 DEF Apart, InGame, PlaceInv
    <3>3. \A u \in Threads \ {t} :
            event = NULL /\ (pc[u] = "reinit" \/ (pc[u] = "game_loop" /\ Late(u)))
      BY <1>b, <2>1, <2>2, <3>2, FirstLeaves DEF TogetherInv
    <3>4. event = NULL
      BY <3>3, ThreadsAssumption
    <3> QED
      BY <2>1, <3>3, <3>4 DEF Late, PlaceInv
  <2>3. CASE ~Together
    <3>1. \A u \in Threads : Clear(u)
      BY <1>c, <2>1, <2>3
    <3> QED
      BY <2>1, <3>1 DEF Late, PlaceInv
  <2> QED
    BY <2>2, <2>3
<1>5. ASSUME MeetAtBarrier PROVE FALSE
  BY <1>5 DEF MeetAtBarrier, LeaveBarrier
<1>6. ASSUME UNCHANGED <<server_vars, spoilt>> PROVE Clear(v)'
  <2>1. UNCHANGED <<pc, game_pc, event, game_has_finished>>
    BY <1>6 DEF server_vars, game, shared, locals
  <2> QED
    BY <1>c, <2>1 DEF Together, Late
<1> QED
  BY <1>1, <1>2, <1>3, <1>4, <1>5, <1>6 DEF MCNext, ServerNext

-----------------------------------------------------------------------------
(* The inductive invariant, and what follows from it. *)

RegularInv == PlaceInv /\ FinishedInv /\ CleanInv /\ TogetherInv /\ ApartInv

LEMMA RegularInductive == MCSpec => []RegularInv
<1>1. MCInit => RegularInv
  BY PlaceInit, FinishedInit, CleanInit, TogetherInit, ApartInit DEF RegularInv
<1>2. RegularInv /\ [MCNext]_<<server_vars, spoilt>> => RegularInv'
  BY PlaceStep, FinishedStep, CleanStep, TogetherStep, ApartStep DEF RegularInv
<1> QED
  BY <1>1, <1>2, PTL DEF MCSpec

(* GameStartsClean of MCServiceThreads: no game begins with what a former one
   has left in the shared resources. *)
THEOREM GamesStartClean == MCSpec => []GameStartsClean
<1>1. RegularInv => GameStartsClean
  BY DEF RegularInv, CleanInv, Clean, InLoop, AtStart, GameStartsClean
<1> QED
  BY <1>1, RegularInductive, PTL

(* EventStartsClear of MCServiceThreads: no signal of a former game is left in
   the event, which nobody resets. *)
THEOREM EventsStartClear == MCSpec => []EventStartsClear
<1>1. RegularInv => EventStartsClear
  <2> SUFFICES ASSUME RegularInv, AtStart, spoilt = "no" PROVE event = NULL
    BY DEF EventStartsClear
  <2>1. CASE Together
    <3>1. \A t \in Threads : game_pc[t] = "game_loop"
      BY <2>1 DEF RegularInv, PlaceInv, Together, AtStart, InLoop
    <3> QED
      BY <2>1, <3>1 DEF RegularInv, TogetherInv, GameInv, BegunInv
  <2>2. CASE ~Together
    BY <2>2 DEF RegularInv, ApartInv, Together, AtStart
  <2> QED
    BY <2>1, <2>2
<1> QED
  BY <1>1, RegularInductive, PTL

(* What GameLoop says of one game holds of every game of the server, up to the
   first one that spoilt tells of: the threads do not work on the game state
   at the same time, no update of the number is lost, and what a waiter picks
   up belongs together. *)
THEOREM RegularGamesAreExclusive ==
  MCSpec => [](spoilt = "no" /\ Together =>
                   BoardExclusive /\ NumberNotStale /\ ViewTruthful)
<1>1. RegularInv => (spoilt = "no" /\ Together =>
                      BoardExclusive /\ NumberNotStale /\ ViewTruthful)
  <2> SUFFICES ASSUME GameInv PROVE BoardExclusive /\ NumberNotStale /\ ViewTruthful
    BY DEF RegularInv, TogetherInv
  <2>1. BoardExclusive
    BY DEF GameInv, TurnInv, HasTurn, BoardExclusive, AtTheBoard
  <2> QED
    BY <2>1 DEF GameInv, BoardInv, Knows, VerdictOf, NumberNotStale, ViewTruthful
<1> QED
  BY <1>1, RegularInductive, PTL
=============================================================================
