---------------------------- MODULE GameLoopProofs ----------------------------
(***************************************************************************)
(* The safety properties of GameLoop for every set of names and moves and  *)
(* every Limit, that it implements BoomGame, and that it judges by the     *)
(* rules.                                                                  *)
(*                                                                         *)
(* None of the first is inductive by itself: the threads are kept apart by *)
(* a turn that is handed over through the event, so the invariant has to   *)
(* say where the turn is in every state, and what the thread that has it   *)
(* knows about the shared resources.                                       *)
(***************************************************************************)
EXTENDS GameLoop, TLAPS

(* GameTypeOK, but for a caller of server_game_loop() that has no number: what
   follows about turns does not need the numbers of a game.  (CallTypeOK is
   GameTypeOK when it is called for two players.) *)
CallTypeOK ==
  /\ game_pc \in [Threads -> GamePlaces]
  /\ connected \in [Threads -> BOOLEAN]
  /\ client_name \in [Threads -> Names]
  /\ num_of_player \in [Threads -> 0..2]
  /\ player_name \in [1..2 -> Names \cup {NULL}]
  /\ game_number \in Nat
  /\ game_has_ended \in BOOLEAN
  /\ current_player_move \in Moves \cup {NULL}
  /\ event \in Threads \cup {NULL}
  /\ my_client_turn \in [Threads -> BOOLEAN]
  /\ other_client_name \in [Threads -> Names \cup {NULL}]
  /\ next_number \in [Threads -> Nat]
  /\ move \in [Threads -> Moves \cup {NULL}]
  /\ game_has_finished \in [Threads -> BOOLEAN]
  /\ winner_name \in [Threads -> Names \cup {NULL}]

(* The thread that may work on the game state, or will be the next to. *)
HasTurn(t) ==
  \/ game_pc[t] = "game_loop" /\ num_of_player[t] = 1
  \/ game_pc[t] = "turn" /\ my_client_turn[t]
  \/ game_pc[t] \in {"recv_move", "next_number", "publish", "judge", "record",
                "advance", "signal", "read_move", "read_ended", "send_other_view"}

(* At most one thread has the turn; none has while the event is signalled. *)
TurnInv ==
  /\ \A t, u \in Threads : HasTurn(t) /\ HasTurn(u) => t = u
  /\ \A t \in Threads : event # NULL => ~HasTurn(t)

(* my_client_turn is that of the next turn from the moment a waiter waits
   and from the moment a mover has signalled. *)
NextTurnInv ==
  \A t \in Threads :
    /\ game_pc[t] \in WaiterPlaces => my_client_turn[t]
    /\ game_pc[t] = "send_view" => ~my_client_turn[t]

(* What was published and recorded belongs together. *)
VerdictOf(lost, m) == lost = MoveLoses(m,
        IF lost THEN game_number + 1 ELSE game_number)

(* What a thread that has the turn knows of the shared resources. *)
Knows(t) ==
  /\ game_pc[t] \in {"publish", "judge", "record", "advance"}
       => next_number[t] = game_number + 1
  /\ game_pc[t] \in {"judge", "record", "advance", "signal", "read_ended"}
       => move[t] = current_player_move
  /\ game_pc[t] = "record"
       => game_has_finished[t] = MoveLoses(move[t], game_number + 1)
  /\ game_pc[t] = "advance"
       => ~game_has_ended /\ ~game_has_finished[t] /\ ~MoveLoses(move[t],
        game_number + 1)
  /\ game_pc[t] \in {"signal", "read_move", "read_ended"}
       => VerdictOf(game_has_ended, current_player_move)
  /\ game_pc[t] = "signal" => game_has_finished[t] = game_has_ended
  /\ game_pc[t] = "send_other_view" => VerdictOf(game_has_finished[t], move[t])

BoardInv ==
  /\ event # NULL => VerdictOf(game_has_ended, current_player_move)
  /\ \A t \in Threads : Knows(t)

(* The players have different numbers and know each other's names. *)
PlayersInv ==
  /\ \A t \in Threads : player_name[num_of_player[t]] = client_name[t]
  /\ \A t, u \in Threads : t # u =>
       /\ num_of_player[t] # num_of_player[u]
       /\ game_pc[t] \notin {"game_loop", "exited"}
            => other_client_name[t] = client_name[u]

(* How a thread leaves the game: as the mover of a losing move, or as the
   waiter that learns of it. *)
Returned(t) == game_pc[t] \in {"send_ended", "reinit"}

Lost(t) ==
  \/ game_pc[t] \in {"signal", "send_view"} /\ game_has_finished[t]
  \/ Returned(t) /\ ~my_client_turn[t]

Won(t) ==
  \/ game_pc[t] = "send_other_view" /\ game_has_finished[t]
  \/ Returned(t) /\ my_client_turn[t]

(* Nobody can still make a move. *)
NoMoreMoves ==
  \A t \in Threads :
    /\ game_pc[t] \notin {"recv_move", "next_number", "publish", "judge", "record",
        "advance"}
    /\ game_pc[t] = "game_loop" => num_of_player[t] # 1
    /\ game_pc[t] = "turn" => ~my_client_turn[t]
    /\ game_pc[t] \in {"signal", "send_other_view"} => game_has_finished[t]

(* A game is lost once and won once, and its winner takes the last turn. *)
EndInv ==
  /\ game_has_ended => NoMoreMoves
  /\ \A t \in Threads :
       /\ Lost(t) \/ Won(t) => game_has_ended
       /\ Won(t) => event = NULL /\ \A u \in Threads : HasTurn(u) => u = t
       /\ Returned(t) => winner_name[t] = IF my_client_turn[t] THEN client_name[t]
                                                             ELSE other_client_name[t]
  /\ \A t, u \in Threads : t # u => ~(Lost(t) /\ Lost(u)) /\ ~(Won(t) /\ Won(u))

(* Whoever knows that the game is over will not come back to it. *)
FinishedInv ==
  \A t \in Threads : game_has_finished[t] =>
    game_pc[t] \in {"record", "signal", "send_view", "send_other_view", "send_ended",
                    "reinit"}

-----------------------------------------------------------------------------
(* A judgement is a Boolean whatever the numbers. *)
LEMMA VerdictIsBoolean == ASSUME NEW m, NEW n PROVE MoveLoses(m, n) \in BOOLEAN
BY DEF MoveLoses, ShouldGuessBoom

-----------------------------------------------------------------------------
(* Type correctness. *)

LEMMA GameTypeInit == GameInit => GameTypeOK
<1> SUFFICES ASSUME GameInit PROVE GameTypeOK
  OBVIOUS
<1>1. PICK first \in Threads, second \in Threads :
        /\ num_of_player = [t \in Threads |-> IF t = first THEN 1 ELSE 2]
        /\ player_name = <<client_name[first], client_name[second]>>
  BY DEF GameInit
<1>2. num_of_player \in [Threads -> 1..2] /\ player_name \in [1..2 -> Names]
  BY <1>1 DEF GameInit
<1> QED
  BY <1>2 DEF GameInit, GameTypeOK, GamePlaces

LEMMA CallTypeStep == CallTypeOK /\ [GameNext]_game_vars => CallTypeOK'
<1> SUFFICES ASSUME CallTypeOK, [GameNext]_game_vars PROVE CallTypeOK'
  OBVIOUS
<1> USE DEF CallTypeOK, GamePlaces, MoverPlaces, WaiterPlaces, GameGoto, session, shared, locals
<1>1. ASSUME NEW t \in Threads, EnterLoop(t) PROVE CallTypeOK'
  BY <1>1 DEF EnterLoop, OtherPlayer, MovesFirst
<1>2. ASSUME NEW t \in Threads, AskForMove(t) PROVE CallTypeOK'
  BY <1>2 DEF AskForMove
<1>3. ASSUME NEW t \in Threads, RecvMove(t) PROVE CallTypeOK'
  BY <1>3 DEF RecvMove
<1>4. ASSUME NEW t \in Threads, ReadNumber(t) PROVE CallTypeOK'
  BY <1>4 DEF ReadNumber, NumberAfter
<1>5. ASSUME NEW t \in Threads, PublishMove(t) PROVE CallTypeOK'
  BY <1>5 DEF PublishMove
<1>6. ASSUME NEW t \in Threads, JudgeMove(t) PROVE CallTypeOK'
  BY <1>6, VerdictIsBoolean DEF JudgeMove, Loses
<1>7. ASSUME NEW t \in Threads, RecordVerdict(t) PROVE CallTypeOK'
  BY <1>7 DEF RecordVerdict, AfterVerdict
<1>8. ASSUME NEW t \in Threads, AdvanceNumber(t) PROVE CallTypeOK'
  BY <1>8 DEF AdvanceNumber
<1>9. ASSUME NEW t \in Threads, SignalTurn(t) PROVE CallTypeOK'
  BY <1>9 DEF SignalTurn, Waiters
<1>10. ASSUME NEW t \in Threads, SendView(t) PROVE CallTypeOK'
  BY <1>10 DEF SendView
<1>11. ASSUME NEW t \in Threads, AnnounceOther(t) PROVE CallTypeOK'
  BY <1>11 DEF AnnounceOther
<1>12. ASSUME NEW t \in Threads, WaitForEvent(t) PROVE CallTypeOK'
  BY <1>12 DEF WaitForEvent, EventAfterWait, EventIsSet
<1>13. ASSUME NEW t \in Threads, ReadMove(t) PROVE CallTypeOK'
  BY <1>13 DEF ReadMove
<1>14. ASSUME NEW t \in Threads, ReadEnded(t) PROVE CallTypeOK'
  BY <1>14 DEF ReadEnded
<1>15. ASSUME NEW t \in Threads, SendOtherView(t) PROVE CallTypeOK'
  BY <1>15 DEF SendOtherView, WinnerIsMine
<1>16. ASSUME NEW t \in Threads, SendGameEnded(t) PROVE CallTypeOK'
  BY <1>16 DEF SendGameEnded
<1>17. ASSUME NEW t \in Threads, GameSocketFails(t) PROVE CallTypeOK'
  BY <1>17 DEF GameSocketFails, ForgetLocals, ConnectionError
<1>18. ASSUME NEW t \in Threads, ClientLeaves(t),
                    UNCHANGED <<game_pc, shared, event, locals>>
             PROVE CallTypeOK'
  BY <1>18 DEF ClientLeaves
<1>19. ASSUME UNCHANGED game_vars PROVE CallTypeOK'
  BY <1>19 DEF game_vars
<1> QED
  BY <1>1, <1>2, <1>3, <1>4, <1>5, <1>6, <1>7, <1>8, <1>9, <1>10, <1>11, <1>12,
     <1>13, <1>14, <1>15, <1>16, <1>17, <1>18, <1>19
     DEF GameNext, GameStep, MoverStep, WaiterStep, GameOver

LEMMA TypesOfCall == GameTypeOK => CallTypeOK
BY DEF GameTypeOK, CallTypeOK

LEMMA NumbersStay == [GameNext]_game_vars => UNCHANGED num_of_player
BY DEF GameNext, game_vars, session, GameStep, MoverStep, WaiterStep, GameOver, EnterLoop,
       AskForMove, RecvMove, ReadNumber, PublishMove, JudgeMove, RecordVerdict,
       AdvanceNumber, SignalTurn, SendView, AnnounceOther, WaitForEvent, ReadMove,
       ReadEnded, SendOtherView, SendGameEnded, GameSocketFails, ConnectionError,
       ClientLeaves

LEMMA GameTypeStep == GameTypeOK /\ [GameNext]_game_vars => GameTypeOK'
BY TypesOfCall, NumbersStay, CallTypeStep DEF GameTypeOK, CallTypeOK

(* GameTypeOK of GameLoop. *)
THEOREM GameTypeCorrect == GameSpec => []GameTypeOK
BY GameTypeInit, GameTypeStep, PTL DEF GameSpec

-----------------------------------------------------------------------------
(* The turn: it is handed over through the event and never duplicated. *)

LEMMA TurnInit == GameInit => TurnInv /\ NextTurnInv
<1> SUFFICES ASSUME GameInit PROVE TurnInv /\ NextTurnInv
  OBVIOUS
<1>1. PICK first \in Threads :
        num_of_player = [t \in Threads |-> IF t = first THEN 1 ELSE 2]
  BY DEF GameInit
<1> QED
  BY <1>1 DEF GameInit, TurnInv, NextTurnInv, HasTurn, WaiterPlaces

LEMMA NextTurnStep == CallTypeOK /\ NextTurnInv /\ [GameNext]_game_vars => NextTurnInv'
<1> SUFFICES ASSUME CallTypeOK, NextTurnInv, [GameNext]_game_vars PROVE NextTurnInv'
  OBVIOUS
<1> USE DEF CallTypeOK, NextTurnInv, WaiterPlaces, GameGoto, session, shared, locals
<1>1. ASSUME NEW t \in Threads, EnterLoop(t) PROVE NextTurnInv'
  BY <1>1 DEF EnterLoop, MovesFirst
<1>2. ASSUME NEW t \in Threads, AskForMove(t) PROVE NextTurnInv'
  BY <1>2 DEF AskForMove
<1>3. ASSUME NEW t \in Threads, RecvMove(t) PROVE NextTurnInv'
  BY <1>3 DEF RecvMove
<1>4. ASSUME NEW t \in Threads, ReadNumber(t) PROVE NextTurnInv'
  BY <1>4 DEF ReadNumber, NumberAfter
<1>5. ASSUME NEW t \in Threads, PublishMove(t) PROVE NextTurnInv'
  BY <1>5 DEF PublishMove
<1>6. ASSUME NEW t \in Threads, JudgeMove(t) PROVE NextTurnInv'
  BY <1>6 DEF JudgeMove, Loses
<1>7. ASSUME NEW t \in Threads, RecordVerdict(t) PROVE NextTurnInv'
  BY <1>7 DEF RecordVerdict, AfterVerdict
<1>8. ASSUME NEW t \in Threads, AdvanceNumber(t) PROVE NextTurnInv'
  BY <1>8 DEF AdvanceNumber
<1>9. ASSUME NEW t \in Threads, SignalTurn(t) PROVE NextTurnInv'
  BY <1>9 DEF SignalTurn, Waiters
<1>10. ASSUME NEW t \in Threads, SendView(t) PROVE NextTurnInv'
  BY <1>10 DEF SendView
<1>11. ASSUME NEW t \in Threads, AnnounceOther(t) PROVE NextTurnInv'
  BY <1>11 DEF AnnounceOther
<1>12. ASSUME NEW t \in Threads, WaitForEvent(t) PROVE NextTurnInv'
  BY <1>12 DEF WaitForEvent, EventAfterWait, EventIsSet
<1>13. ASSUME NEW t \in Threads, ReadMove(t) PROVE NextTurnInv'
  BY <1>13 DEF ReadMove
<1>14. ASSUME NEW t \in Threads, ReadEnded(t) PROVE NextTurnInv'
  BY <1>14 DEF ReadEnded
<1>15. ASSUME NEW t \in Threads, SendOtherView(t) PROVE NextTurnInv'
  BY <1>15 DEF SendOtherView, WinnerIsMine
<1>16. ASSUME NEW t \in Threads, SendGameEnded(t) PROVE NextTurnInv'
  BY <1>16 DEF SendGameEnded
<1>17. ASSUME NEW t \in Threads, GameSocketFails(t) PROVE NextTurnInv'
  BY <1>17 DEF GameSocketFails, ForgetLocals, ConnectionError
<1>18. ASSUME NEW t \in Threads, ClientLeaves(t),
                    UNCHANGED <<game_pc, shared, event, locals>>
             PROVE NextTurnInv'
  BY <1>18 DEF ClientLeaves
<1>19. ASSUME UNCHANGED game_vars PROVE NextTurnInv'
  BY <1>19 DEF game_vars
<1> QED
  BY <1>1, <1>2, <1>3, <1>4, <1>5, <1>6, <1>7, <1>8, <1>9, <1>10, <1>11, <1>12,
     <1>13, <1>14, <1>15, <1>16, <1>17, <1>18, <1>19
     DEF GameNext, GameStep, MoverStep, WaiterStep, GameOver

LEMMA TurnStep ==
  CallTypeOK /\ TurnInv /\ NextTurnInv /\ [GameNext]_game_vars => TurnInv'
<1> SUFFICES ASSUME CallTypeOK, TurnInv, NextTurnInv, [GameNext]_game_vars
             PROVE TurnInv'
  OBVIOUS
<1> USE NullAssumption DEF CallTypeOK, TurnInv, NextTurnInv, HasTurn, WaiterPlaces,
        GameGoto, session,
            shared, locals
<1>1. ASSUME NEW t \in Threads, EnterLoop(t) PROVE TurnInv'
  <2>1. /\ game_pc[t] = "game_loop" /\ game_pc' = [game_pc EXCEPT ![t] = "turn"]
        /\ my_client_turn' = [my_client_turn EXCEPT ![t] = (num_of_player[t] = 1)]
        /\ UNCHANGED <<num_of_player, event>>
    BY <1>1 DEF EnterLoop, OtherPlayer, MovesFirst
  <2>2. \A u \in Threads : HasTurn(u)' <=> HasTurn(u)
    BY <2>1
  <2> QED
    BY <2>1, <2>2
<1>2. ASSUME NEW t \in Threads, AskForMove(t) PROVE TurnInv'
  BY <1>2 DEF AskForMove
<1>3. ASSUME NEW t \in Threads, RecvMove(t) PROVE TurnInv'
  BY <1>3 DEF RecvMove
<1>4. ASSUME NEW t \in Threads, ReadNumber(t) PROVE TurnInv'
  BY <1>4 DEF ReadNumber, NumberAfter
<1>5. ASSUME NEW t \in Threads, PublishMove(t) PROVE TurnInv'
  BY <1>5 DEF PublishMove
<1>6. ASSUME NEW t \in Threads, JudgeMove(t) PROVE TurnInv'
  BY <1>6 DEF JudgeMove, Loses
<1>7. ASSUME NEW t \in Threads, RecordVerdict(t) PROVE TurnInv'
  BY <1>7 DEF RecordVerdict, AfterVerdict
<1>8. ASSUME NEW t \in Threads, AdvanceNumber(t) PROVE TurnInv'
  BY <1>8 DEF AdvanceNumber
<1>9. ASSUME NEW t \in Threads, SignalTurn(t) PROVE TurnInv'
  BY <1>9 DEF SignalTurn, Waiters
<1>10. ASSUME NEW t \in Threads, SendView(t) PROVE TurnInv'
  BY <1>10 DEF SendView
<1>11. ASSUME NEW t \in Threads, AnnounceOther(t) PROVE TurnInv'
  BY <1>11 DEF AnnounceOther
<1>12. ASSUME NEW t \in Threads, WaitForEvent(t) PROVE TurnInv'
  BY <1>12 DEF WaitForEvent, EventAfterWait, EventIsSet
<1>13. ASSUME NEW t \in Threads, ReadMove(t) PROVE TurnInv'
  BY <1>13 DEF ReadMove
<1>14. ASSUME NEW t \in Threads, ReadEnded(t) PROVE TurnInv'
  BY <1>14 DEF ReadEnded
<1>15. ASSUME NEW t \in Threads, SendOtherView(t) PROVE TurnInv'
  BY <1>15 DEF SendOtherView, WinnerIsMine
<1>16. ASSUME NEW t \in Threads, SendGameEnded(t) PROVE TurnInv'
  BY <1>16 DEF SendGameEnded
<1>17. ASSUME NEW t \in Threads, GameSocketFails(t) PROVE TurnInv'
  BY <1>17 DEF GameSocketFails, ForgetLocals, ConnectionError
<1>18. ASSUME NEW t \in Threads, ClientLeaves(t),
                    UNCHANGED <<game_pc, shared, event, locals>>
             PROVE TurnInv'
  BY <1>18 DEF ClientLeaves
<1>19. ASSUME UNCHANGED game_vars PROVE TurnInv'
  BY <1>19 DEF game_vars
<1> QED
  BY <1>1, <1>2, <1>3, <1>4, <1>5, <1>6, <1>7, <1>8, <1>9, <1>10, <1>11, <1>12,
     <1>13, <1>14, <1>15, <1>16, <1>17, <1>18, <1>19
     DEF GameNext, GameStep, MoverStep, WaiterStep, GameOver

(* What the thread that has the turn knows. *)
LEMMA BoardInit == GameInit => BoardInv
BY DEF GameInit, BoardInv, Knows

LEMMA BoardStep ==
  CallTypeOK /\ TurnInv /\ BoardInv /\ [GameNext]_game_vars => BoardInv'
<1> SUFFICES ASSUME CallTypeOK, TurnInv, BoardInv, [GameNext]_game_vars PROVE BoardInv'
  OBVIOUS
<1> USE NullAssumption DEF CallTypeOK, TurnInv, BoardInv, Knows, HasTurn, VerdictOf, GameGoto,
        session, shared, locals
<1>1. ASSUME NEW t \in Threads, EnterLoop(t) PROVE BoardInv'
  BY <1>1 DEF EnterLoop, OtherPlayer, MovesFirst
<1>2. ASSUME NEW t \in Threads, AskForMove(t) PROVE BoardInv'
  BY <1>2 DEF AskForMove
<1>3. ASSUME NEW t \in Threads, RecvMove(t) PROVE BoardInv'
  BY <1>3 DEF RecvMove
<1>4. ASSUME NEW t \in Threads, ReadNumber(t) PROVE BoardInv'
  BY <1>4 DEF ReadNumber, NumberAfter
<1>5. ASSUME NEW t \in Threads, PublishMove(t) PROVE BoardInv'
  BY <1>5 DEF PublishMove
<1>6. ASSUME NEW t \in Threads, JudgeMove(t) PROVE BoardInv'
  BY <1>6 DEF JudgeMove, Loses
<1>7. ASSUME NEW t \in Threads, RecordVerdict(t) PROVE BoardInv'
  BY <1>7 DEF RecordVerdict, AfterVerdict
<1>8. ASSUME NEW t \in Threads, AdvanceNumber(t) PROVE BoardInv'
  <2>1. /\ game_pc[t] = "advance" /\ game_pc' = [game_pc EXCEPT ![t] = "signal"]
        /\ game_number' = game_number + 1
        /\ ~game_has_ended /\ event = NULL
    BY <1>8 DEF AdvanceNumber
  <2>2. UNCHANGED <<game_has_ended, current_player_move, event, next_number,
                    move, game_has_finished>>
    BY <1>8 DEF AdvanceNumber
  <2>3. \A u \in Threads \ {t} : ~HasTurn(u) /\ game_pc'[u] = game_pc[u]
    BY <2>1
  <2>4. VerdictOf(game_has_ended, current_player_move)'
    BY <2>1, <2>2, VerdictIsBoolean
  <2> QED
    <3> SUFFICES ASSUME NEW u \in Threads PROVE Knows(u)'
      BY <2>1, <2>2
    <3>1. CASE u = t
      BY <3>1, <2>1, <2>2, <2>4
    <3>2. CASE u # t
      BY <3>2, <2>1, <2>2, <2>3
    <3> QED
      BY <3>1, <3>2
<1>9. ASSUME NEW t \in Threads, SignalTurn(t) PROVE BoardInv'
  BY <1>9 DEF SignalTurn, Waiters
<1>10. ASSUME NEW t \in Threads, SendView(t) PROVE BoardInv'
  BY <1>10 DEF SendView
<1>11. ASSUME NEW t \in Threads, AnnounceOther(t) PROVE BoardInv'
  BY <1>11 DEF AnnounceOther
<1>12. ASSUME NEW t \in Threads, WaitForEvent(t) PROVE BoardInv'
  BY <1>12 DEF WaitForEvent, EventAfterWait, EventIsSet
<1>13. ASSUME NEW t \in Threads, ReadMove(t) PROVE BoardInv'
  BY <1>13 DEF ReadMove
<1>14. ASSUME NEW t \in Threads, ReadEnded(t) PROVE BoardInv'
  BY <1>14 DEF ReadEnded
<1>15. ASSUME NEW t \in Threads, SendOtherView(t) PROVE BoardInv'
  BY <1>15 DEF SendOtherView, WinnerIsMine
<1>16. ASSUME NEW t \in Threads, SendGameEnded(t) PROVE BoardInv'
  BY <1>16 DEF SendGameEnded
<1>17. ASSUME NEW t \in Threads, GameSocketFails(t) PROVE BoardInv'
  BY <1>17 DEF GameSocketFails, ForgetLocals, ConnectionError
<1>18. ASSUME NEW t \in Threads, ClientLeaves(t),
                    UNCHANGED <<game_pc, shared, event, locals>>
             PROVE BoardInv'
  BY <1>18 DEF ClientLeaves
<1>19. ASSUME UNCHANGED game_vars PROVE BoardInv'
  BY <1>19 DEF game_vars
<1> QED
  BY <1>1, <1>2, <1>3, <1>4, <1>5, <1>6, <1>7, <1>8, <1>9, <1>10, <1>11, <1>12,
     <1>13, <1>14, <1>15, <1>16, <1>17, <1>18, <1>19
     DEF GameNext, GameStep, MoverStep, WaiterStep, GameOver

(* The players of the game, and who has won it. *)
LEMMA PlayersInit == GameInit => PlayersInv
<1> SUFFICES ASSUME GameInit PROVE PlayersInv
  OBVIOUS
<1>1. PICK first \in Threads, second \in Threads :
        /\ first # second
        /\ num_of_player = [t \in Threads |-> IF t = first THEN 1 ELSE 2]
        /\ player_name = <<client_name[first], client_name[second]>>
  BY DEF GameInit
<1>2. Threads = {first, second} /\ first # second
  BY <1>1, ThreadsAssumption
<1>3. num_of_player[first] = 1 /\ num_of_player[second] = 2
  BY <1>1, <1>2
<1>4. player_name[1] = client_name[first] /\ player_name[2] = client_name[second]
  BY <1>1
<1>5. \A t \in Threads : game_pc[t] = "game_loop"
  BY DEF GameInit
<1> QED
  BY <1>2, <1>3, <1>4, <1>5 DEF PlayersInv

LEMMA PlayersStep == GameTypeOK /\ PlayersInv /\ [GameNext]_game_vars => PlayersInv'
<1> SUFFICES ASSUME GameTypeOK, PlayersInv, [GameNext]_game_vars PROVE PlayersInv'
  OBVIOUS
<1> USE DEF GameTypeOK, PlayersInv, GameGoto, session, shared, locals
<1>1. ASSUME NEW t \in Threads, EnterLoop(t) PROVE PlayersInv'
  BY <1>1 DEF EnterLoop, OtherPlayer, MovesFirst
<1>2. ASSUME NEW t \in Threads, AskForMove(t) PROVE PlayersInv'
  BY <1>2 DEF AskForMove
<1>3. ASSUME NEW t \in Threads, RecvMove(t) PROVE PlayersInv'
  BY <1>3 DEF RecvMove
<1>4. ASSUME NEW t \in Threads, ReadNumber(t) PROVE PlayersInv'
  BY <1>4 DEF ReadNumber, NumberAfter
<1>5. ASSUME NEW t \in Threads, PublishMove(t) PROVE PlayersInv'
  BY <1>5 DEF PublishMove
<1>6. ASSUME NEW t \in Threads, JudgeMove(t) PROVE PlayersInv'
  BY <1>6 DEF JudgeMove, Loses
<1>7. ASSUME NEW t \in Threads, RecordVerdict(t) PROVE PlayersInv'
  BY <1>7 DEF RecordVerdict, AfterVerdict
<1>8. ASSUME NEW t \in Threads, AdvanceNumber(t) PROVE PlayersInv'
  BY <1>8 DEF AdvanceNumber
<1>9. ASSUME NEW t \in Threads, SignalTurn(t) PROVE PlayersInv'
  BY <1>9 DEF SignalTurn, Waiters
<1>10. ASSUME NEW t \in Threads, SendView(t) PROVE PlayersInv'
  BY <1>10 DEF SendView
<1>11. ASSUME NEW t \in Threads, AnnounceOther(t) PROVE PlayersInv'
  BY <1>11 DEF AnnounceOther
<1>12. ASSUME NEW t \in Threads, WaitForEvent(t) PROVE PlayersInv'
  BY <1>12 DEF WaitForEvent, EventAfterWait, EventIsSet
<1>13. ASSUME NEW t \in Threads, ReadMove(t) PROVE PlayersInv'
  BY <1>13 DEF ReadMove
<1>14. ASSUME NEW t \in Threads, ReadEnded(t) PROVE PlayersInv'
  BY <1>14 DEF ReadEnded
<1>15. ASSUME NEW t \in Threads, SendOtherView(t) PROVE PlayersInv'
  BY <1>15 DEF SendOtherView, WinnerIsMine
<1>16. ASSUME NEW t \in Threads, SendGameEnded(t) PROVE PlayersInv'
  BY <1>16 DEF SendGameEnded
<1>17. ASSUME NEW t \in Threads, GameSocketFails(t) PROVE PlayersInv'
  BY <1>17 DEF GameSocketFails, ForgetLocals, ConnectionError
<1>18. ASSUME NEW t \in Threads, ClientLeaves(t),
                    UNCHANGED <<game_pc, shared, event, locals>>
             PROVE PlayersInv'
  BY <1>18 DEF ClientLeaves
<1>19. ASSUME UNCHANGED game_vars PROVE PlayersInv'
  BY <1>19 DEF game_vars
<1> QED
  BY <1>1, <1>2, <1>3, <1>4, <1>5, <1>6, <1>7, <1>8, <1>9, <1>10, <1>11, <1>12,
     <1>13, <1>14, <1>15, <1>16, <1>17, <1>18, <1>19
     DEF GameNext, GameStep, MoverStep, WaiterStep, GameOver

LEMMA EndInit == GameInit => EndInv
BY DEF GameInit, EndInv, Returned, Lost, Won, HasTurn, NoMoreMoves

LEMMA EndStep ==
  CallTypeOK /\ TurnInv /\ NextTurnInv /\ BoardInv /\ EndInv /\ [GameNext]_game_vars => EndInv'
<1> SUFFICES ASSUME CallTypeOK, TurnInv, NextTurnInv, BoardInv, EndInv, [GameNext]_game_vars
             PROVE EndInv'
  OBVIOUS
<1> USE NullAssumption DEF CallTypeOK, TurnInv, NextTurnInv, BoardInv, Knows, EndInv,
        NoMoreMoves,
            Lost, Won, Returned, HasTurn, WaiterPlaces, GameGoto, session, shared,
        locals
<1>1. ASSUME NEW t \in Threads, EnterLoop(t) PROVE EndInv'
  <2>1. /\ game_pc[t] = "game_loop" /\ game_pc' = [game_pc EXCEPT ![t] = "turn"]
        /\ my_client_turn' = [my_client_turn EXCEPT ![t] = (num_of_player[t] = 1)]
        /\ UNCHANGED <<num_of_player, client_name, event, game_has_ended>>
    BY <1>1 DEF EnterLoop, OtherPlayer, MovesFirst
  <2>2. \A u \in Threads \ {t} :
          /\ game_pc'[u] = game_pc[u] /\ my_client_turn'[u] = my_client_turn[u]
          /\ game_has_finished'[u] = game_has_finished[u]
          /\ winner_name'[u] = winner_name[u]
          /\ other_client_name'[u] = other_client_name[u]
    BY <1>1 DEF EnterLoop, OtherPlayer, MovesFirst
  <2>3. \A u \in Threads :
          /\ HasTurn(u)' <=> HasTurn(u)
          /\ Lost(u)' <=> Lost(u)
          /\ Won(u)' <=> Won(u)
          /\ Returned(u)' <=> Returned(u)
    <3>1. game_pc'[t] = "turn" /\ (my_client_turn'[t] <=> num_of_player[t] = 1)
      BY <2>1
    <3> SUFFICES ASSUME NEW u \in Threads
                 PROVE /\ HasTurn(u)' <=> HasTurn(u)
                       /\ Lost(u)' <=> Lost(u)
                       /\ Won(u)' <=> Won(u)
                       /\ Returned(u)' <=> Returned(u)
      OBVIOUS
    <3>2. CASE u = t
      BY <3>1, <3>2, <2>1
    <3>3. CASE u # t
      BY <3>3, <2>1, <2>2
    <3> QED
      BY <3>2, <3>3
  <2>4. NoMoreMoves => NoMoreMoves'
    <3>1. game_pc'[t] = "turn" /\ (my_client_turn'[t] <=> num_of_player[t] = 1)
      BY <2>1
    <3> QED
      BY <3>1, <2>1, <2>2
  <2>5. ~Returned(t)
    BY <2>1
  <2> HIDE DEF HasTurn, Lost, Won, Returned, NoMoreMoves
  <2> QED
    BY <2>1, <2>2, <2>3, <2>4, <2>5
<1>2. ASSUME NEW t \in Threads, AskForMove(t) PROVE EndInv'
  BY <1>2 DEF AskForMove
<1>3. ASSUME NEW t \in Threads, RecvMove(t) PROVE EndInv'
  BY <1>3 DEF RecvMove
<1>4. ASSUME NEW t \in Threads, ReadNumber(t) PROVE EndInv'
  BY <1>4 DEF ReadNumber, NumberAfter
<1>5. ASSUME NEW t \in Threads, PublishMove(t) PROVE EndInv'
  BY <1>5 DEF PublishMove
<1>6. ASSUME NEW t \in Threads, JudgeMove(t) PROVE EndInv'
  BY <1>6 DEF JudgeMove, Loses
<1>7. ASSUME NEW t \in Threads, RecordVerdict(t) PROVE EndInv'
  BY <1>7 DEF RecordVerdict, AfterVerdict
<1>8. ASSUME NEW t \in Threads, AdvanceNumber(t) PROVE EndInv'
  BY <1>8 DEF AdvanceNumber
<1>9. ASSUME NEW t \in Threads, SignalTurn(t) PROVE EndInv'
  BY <1>9 DEF SignalTurn, Waiters
<1>10. ASSUME NEW t \in Threads, SendView(t) PROVE EndInv'
  BY <1>10 DEF SendView
<1>11. ASSUME NEW t \in Threads, AnnounceOther(t) PROVE EndInv'
  BY <1>11 DEF AnnounceOther
<1>12. ASSUME NEW t \in Threads, WaitForEvent(t) PROVE EndInv'
  BY <1>12 DEF WaitForEvent, EventAfterWait, EventIsSet
<1>13. ASSUME NEW t \in Threads, ReadMove(t) PROVE EndInv'
  BY <1>13 DEF ReadMove
<1>14. ASSUME NEW t \in Threads, ReadEnded(t) PROVE EndInv'
  BY <1>14 DEF ReadEnded
<1>15. ASSUME NEW t \in Threads, SendOtherView(t) PROVE EndInv'
  BY <1>15 DEF SendOtherView, WinnerIsMine
<1>16. ASSUME NEW t \in Threads, SendGameEnded(t) PROVE EndInv'
  BY <1>16 DEF SendGameEnded
<1>17. ASSUME NEW t \in Threads, GameSocketFails(t) PROVE EndInv'
  BY <1>17 DEF GameSocketFails, ForgetLocals, ConnectionError
<1>18. ASSUME NEW t \in Threads, ClientLeaves(t),
                    UNCHANGED <<game_pc, shared, event, locals>>
             PROVE EndInv'
  BY <1>18 DEF ClientLeaves
<1>19. ASSUME UNCHANGED game_vars PROVE EndInv'
  BY <1>19 DEF game_vars
<1> QED
  BY <1>1, <1>2, <1>3, <1>4, <1>5, <1>6, <1>7, <1>8, <1>9, <1>10, <1>11, <1>12,
     <1>13, <1>14, <1>15, <1>16, <1>17, <1>18, <1>19
     DEF GameNext, GameStep, MoverStep, WaiterStep, GameOver

(* Who knows that the game is over. *)
LEMMA FinishedGameStep ==
  ASSUME CallTypeOK, FinishedInv, NEW t \in Threads, GameStep(t)
  PROVE  FinishedInv'
<1> USE DEF CallTypeOK, FinishedInv, GameGoto, shared, locals
<1>1. CASE EnterLoop(t)
  BY <1>1 DEF EnterLoop
<1>2. CASE AskForMove(t) \/ RecvMove(t) \/ ReadNumber(t) \/ PublishMove(t)
  BY <1>2 DEF AskForMove, RecvMove, ReadNumber, PublishMove
<1>3. CASE JudgeMove(t) \/ RecordVerdict(t) \/ AdvanceNumber(t)
  BY <1>3 DEF JudgeMove, RecordVerdict, AfterVerdict, AdvanceNumber
<1>4. CASE SignalTurn(t)
  BY <1>4 DEF SignalTurn, Waiters
<1>5. CASE SendView(t)
  BY <1>5 DEF SendView
<1>6. CASE AnnounceOther(t) \/ WaitForEvent(t)
  BY <1>6 DEF AnnounceOther, WaitForEvent
<1>7. CASE ReadMove(t) \/ ReadEnded(t)
  BY <1>7 DEF ReadMove, ReadEnded
<1>8. CASE SendOtherView(t)
  BY <1>8 DEF SendOtherView
<1>9. CASE SendGameEnded(t)
  BY <1>9 DEF SendGameEnded
<1>10. CASE GameSocketFails(t)
  BY <1>10 DEF GameSocketFails, ConnectionError, ForgetLocals
<1> QED
  BY <1>1, <1>2, <1>3, <1>4, <1>5, <1>6, <1>7, <1>8, <1>9, <1>10
     DEF GameStep, MoverStep, WaiterStep

-----------------------------------------------------------------------------
(* The inductive invariant, and what follows from it. *)

LoopInv == GameTypeOK /\ TurnInv /\ NextTurnInv /\ BoardInv /\ PlayersInv /\ EndInv

LEMMA GameInductive == GameSpec => []LoopInv
<1>1. GameInit => LoopInv
  BY GameTypeInit, TurnInit, BoardInit, PlayersInit, EndInit DEF LoopInv
<1>2. LoopInv /\ [GameNext]_game_vars => LoopInv'
  BY TypesOfCall, GameTypeStep, TurnStep, NextTurnStep, BoardStep, PlayersStep, EndStep
     DEF LoopInv
<1> QED
  BY <1>1, <1>2, PTL DEF GameSpec

(* BoardExclusive of GameLoop: at most one thread works on the game state. *)
THEOREM BoardIsExclusive == GameSpec => []BoardExclusive
<1>1. LoopInv => BoardExclusive
  BY DEF LoopInv, TurnInv, HasTurn, BoardExclusive, AtTheBoard
<1> QED
  BY GameInductive, <1>1, PTL

(* NumberNotStale of GameLoop: no update of game_number is lost. *)
THEOREM NumberIsNeverStale == GameSpec => []NumberNotStale
<1>1. LoopInv => NumberNotStale
  BY DEF LoopInv, BoardInv, Knows, NumberNotStale
<1> QED
  BY GameInductive, <1>1, PTL

(* ViewTruthful of GameLoop: a waiter's move and verdict belong together. *)
THEOREM ViewIsTruthful == GameSpec => []ViewTruthful
<1>1. LoopInv => ViewTruthful
  BY DEF LoopInv, BoardInv, Knows, VerdictOf, ViewTruthful
<1> QED
  BY GameInductive, <1>1, PTL

(* WinnerAgreement of GameLoop: one of two threads that have returned lost
   and the other one won, and both name the one that won. *)
THEOREM WinnersAgree == GameSpec => []WinnerAgreement
<1>1. LoopInv => WinnerAgreement
  <2> SUFFICES ASSUME LoopInv, NEW t \in Threads, NEW u \in Threads,
                      t # u, Returned(t), Returned(u)
               PROVE winner_name[t] = winner_name[u]
    BY DEF WinnerAgreement, Returned
  <2>1. my_client_turn[t] # my_client_turn[u]
    BY DEF LoopInv, GameTypeOK, EndInv, Lost, Won
  <2>2. other_client_name[t] = client_name[u]
        /\ other_client_name[u] = client_name[t]
    BY DEF LoopInv, PlayersInv, Returned
  <2> QED
    BY <2>1, <2>2 DEF LoopInv, GameTypeOK, EndInv
<1> QED
  BY GameInductive, <1>1, PTL

(* HandsBackClean of GameLoop: the winner has consumed the last signal. *)
THEOREM EventIsHandedBackClean == GameSpec => []HandsBackClean
<1>1. LoopInv => HandsBackClean
  <2> SUFFICES ASSUME LoopInv, \A t \in Threads : game_pc[t] = "reinit"
               PROVE event = NULL
    BY DEF HandsBackClean
  <2>1. PICK t \in Threads, u \in Threads : t # u
    BY ThreadsAssumption
  <2>2. Won(t) \/ Won(u)
    BY <2>1 DEF LoopInv, GameTypeOK, EndInv, Lost, Won, Returned
  <2> QED
    BY <2>2 DEF LoopInv, EndInv
<1> QED
  BY GameInductive, <1>1, PTL

(* NumberFollowsMoves of GameLoop: the number counts the right moves. *)
THEOREM NumberCountsRightMoves == GameSpec => NumberFollowsMoves
<1> DEFINE Follows == game_number' # game_number =>
                        /\ game_number' = game_number + 1
                        /\ ~game_has_ended
                        /\ ~MoveLoses(current_player_move, game_number + 1)
<1>1. LoopInv /\ [GameNext]_game_vars => Follows
  <2> SUFFICES ASSUME LoopInv, [GameNext]_game_vars, game_number' # game_number PROVE Follows
    OBVIOUS
  <2>1. PICK t \in Threads : AdvanceNumber(t)
    BY DEF GameNext, GameStep, MoverStep, WaiterStep, GameOver, EnterLoop, AskForMove,
       RecvMove,
           ReadNumber, PublishMove, JudgeMove, RecordVerdict, SignalTurn, SendView,
           AnnounceOther, WaitForEvent, ReadMove, ReadEnded, SendOtherView,
           SendGameEnded, GameSocketFails, shared, game_vars
  <2> QED
    BY <2>1 DEF LoopInv, BoardInv, Knows, AdvanceNumber
<1> QED
  BY GameInductive, <1>1, PTL DEF GameSpec, NumberFollowsMoves

-----------------------------------------------------------------------------
(***************************************************************************)
(* GameLoop implements BoomGame.                                           *)
(*                                                                         *)
(* The mapping is the identity on the shared resources and on winner_name, *)
(* so the proof goes through the steps that write to one of these: each is *)
(* a step of BoomGame by what LoopInv says of the thread that takes it,    *)
(* and all the other ones leave the game as it is.                         *)
(***************************************************************************)

(* A winner is named when the thread has left its loop, not before; and a
   move that a mover is about to publish is one a client has made. *)
OutcomeInv ==
  \A t \in Threads :
    /\ ~Returned(t) => winner_name[t] = NULL
    /\ game_pc[t] \in {"next_number", "publish"} => move[t] \in Moves

LEMMA OutcomeInit == GameInit => OutcomeInv
BY DEF GameInit, OutcomeInv, Returned

LEMMA OutcomeStep == GameTypeOK /\ OutcomeInv /\ [GameNext]_game_vars => OutcomeInv'
<1> SUFFICES ASSUME GameTypeOK, OutcomeInv, [GameNext]_game_vars PROVE OutcomeInv'
  OBVIOUS
<1> USE DEF GameTypeOK, OutcomeInv, Returned, GameGoto, session, shared, locals
<1>1. ASSUME NEW t \in Threads, EnterLoop(t) PROVE OutcomeInv'
  BY <1>1 DEF EnterLoop
<1>2. ASSUME NEW t \in Threads, AskForMove(t) PROVE OutcomeInv'
  BY <1>2 DEF AskForMove
<1>3. ASSUME NEW t \in Threads, RecvMove(t) PROVE OutcomeInv'
  BY <1>3 DEF RecvMove
<1>4. ASSUME NEW t \in Threads, ReadNumber(t) PROVE OutcomeInv'
  BY <1>4 DEF ReadNumber
<1>5. ASSUME NEW t \in Threads, PublishMove(t) PROVE OutcomeInv'
  BY <1>5 DEF PublishMove
<1>6. ASSUME NEW t \in Threads, JudgeMove(t) PROVE OutcomeInv'
  BY <1>6 DEF JudgeMove
<1>7. ASSUME NEW t \in Threads, RecordVerdict(t) PROVE OutcomeInv'
  BY <1>7 DEF RecordVerdict, AfterVerdict
<1>8. ASSUME NEW t \in Threads, AdvanceNumber(t) PROVE OutcomeInv'
  BY <1>8 DEF AdvanceNumber
<1>9. ASSUME NEW t \in Threads, SignalTurn(t) PROVE OutcomeInv'
  BY <1>9 DEF SignalTurn, Waiters
<1>10. ASSUME NEW t \in Threads, SendView(t) PROVE OutcomeInv'
  BY <1>10 DEF SendView
<1>11. ASSUME NEW t \in Threads, AnnounceOther(t) PROVE OutcomeInv'
  BY <1>11 DEF AnnounceOther
<1>12. ASSUME NEW t \in Threads, WaitForEvent(t) PROVE OutcomeInv'
  BY <1>12 DEF WaitForEvent, EventIsSet
<1>13. ASSUME NEW t \in Threads, ReadMove(t) PROVE OutcomeInv'
  BY <1>13 DEF ReadMove
<1>14. ASSUME NEW t \in Threads, ReadEnded(t) PROVE OutcomeInv'
  BY <1>14 DEF ReadEnded
<1>15. ASSUME NEW t \in Threads, SendOtherView(t) PROVE OutcomeInv'
  BY <1>15 DEF SendOtherView
<1>16. ASSUME NEW t \in Threads, SendGameEnded(t) PROVE OutcomeInv'
  BY <1>16 DEF SendGameEnded
<1>17. ASSUME NEW t \in Threads, GameSocketFails(t) PROVE OutcomeInv'
  BY <1>17 DEF GameSocketFails, ForgetLocals, ConnectionError
<1>18. ASSUME NEW t \in Threads, ClientLeaves(t),
                    UNCHANGED <<game_pc, shared, event, locals>>
             PROVE OutcomeInv'
  BY <1>18 DEF ClientLeaves
<1>19. ASSUME UNCHANGED game_vars PROVE OutcomeInv'
  BY <1>19 DEF game_vars
<1> QED
  BY <1>1, <1>2, <1>3, <1>4, <1>5, <1>6, <1>7, <1>8, <1>9, <1>10, <1>11, <1>12,
     <1>13, <1>14, <1>15, <1>16, <1>17, <1>18, <1>19
     DEF GameNext, GameStep, MoverStep, WaiterStep, GameOver

-----------------------------------------------------------------------------
(* When a thread names a winner no other thread has named, or will name,
   another one. *)
LEMMA OneWinner ==
  LoopInv /\ LoopInv' /\ OutcomeInv =>
    \A t \in Threads, name \in Names :
      /\ game_pc[t] \in {"send_view", "send_other_view"}
      /\ game_pc' = [game_pc EXCEPT ![t] = "send_ended"]
      /\ winner_name' = [winner_name EXCEPT ![t] = name]
      => \A q \in Threads : winner_name[q] \in {NULL, name}
<1> SUFFICES ASSUME LoopInv, LoopInv', OutcomeInv, NEW t \in Threads, NEW name \in Names,
                    game_pc[t] \in {"send_view", "send_other_view"},
                    game_pc' = [game_pc EXCEPT ![t] = "send_ended"],
                    winner_name' = [winner_name EXCEPT ![t] = name]
             PROVE \A q \in Threads : winner_name[q] \in {NULL, name}
  OBVIOUS
<1> SUFFICES ASSUME NEW q \in Threads, winner_name[q] # NULL
             PROVE winner_name[q] = name
  OBVIOUS
<1>1. Returned(q) /\ q # t
  BY DEF OutcomeInv, Returned
<1>2. /\ Returned(q)' /\ Returned(t)'
      /\ winner_name'[q] = winner_name[q] /\ winner_name'[t] = name
  BY <1>1 DEF Returned, LoopInv, GameTypeOK
<1>3. my_client_turn'[t] # my_client_turn'[q]
  BY <1>1, <1>2 DEF LoopInv, GameTypeOK, EndInv, Lost, Won
<1>4. other_client_name'[t] = client_name'[q] /\ other_client_name'[q] = client_name'[t]
  BY <1>1, <1>2 DEF LoopInv, PlayersInv, Returned
<1> QED
  BY <1>2, <1>3, <1>4 DEF LoopInv, GameTypeOK, EndInv

(* Both games are judged by the same rules. *)
LEMMA SameRules ==
  ASSUME NEW m, NEW n PROVE Game!MoveLoses(m, n) = MoveLoses(m, n)
<1>1. Game!containsDigit(n, BOOM_NUMBER) = containsDigit(n, BOOM_NUMBER)
  BY DEF Game!containsDigit, containsDigit
<1> QED
  BY <1>1 DEF Game!MoveLoses, MoveLoses, Game!ShouldGuessBoom, ShouldGuessBoom

(* The steps that write to the game. *)
LEMMA GameInitRefines == GameInit => Game!Init
BY DEF GameInit, Game!Init

LEMMA GameNextRefines ==
  LoopInv /\ OutcomeInv /\ [GameNext]_game_vars /\ LoopInv' => [Game!Next]_(Game!vars)
<1> SUFFICES ASSUME LoopInv, OutcomeInv, LoopInv', [GameNext]_game_vars
             PROVE [Game!Next]_(Game!vars)
  OBVIOUS
<1> USE DEF GameGoto, session, shared, locals
<1>1. ASSUME NEW t \in Threads, EnterLoop(t) PROVE Game!Leave(t)
  BY <1>1 DEF EnterLoop, Game!Leave
<1>2. ASSUME NEW t \in Threads, PublishMove(t) PROVE Game!Move
  <2>1. move[t] \in Moves
    BY <1>2 DEF PublishMove, OutcomeInv
  <2>2. ~game_has_ended
    BY <1>2 DEF PublishMove, LoopInv, EndInv, NoMoreMoves
  <2> QED
    BY <1>2, <2>1, <2>2 DEF PublishMove, Game!Move
<1>3. ASSUME NEW t \in Threads, RecordVerdict(t)
      PROVE Game!WrongMove \/ UNCHANGED Game!vars
  <2>1. ~game_has_ended
    BY <1>3 DEF RecordVerdict, LoopInv, EndInv, NoMoreMoves
  <2>2. game_has_ended' = MoveLoses(current_player_move, game_number + 1)
    BY <1>3 DEF RecordVerdict, LoopInv, BoardInv, Knows
  <2>3. UNCHANGED <<game_number, current_player_move, winner_name>>
    BY <1>3 DEF RecordVerdict
  <2>4. game_has_ended \in BOOLEAN /\ game_has_ended' \in BOOLEAN
    BY DEF LoopInv, GameTypeOK
  <2>5. CASE game_has_ended'
    BY <2>1, <2>2, <2>3, <2>4, <2>5, SameRules DEF Game!WrongMove
  <2>6. CASE ~game_has_ended'
    BY <2>1, <2>3, <2>4, <2>6 DEF Game!vars
  <2> QED
    BY <2>5, <2>6
<1>4. ASSUME NEW t \in Threads, AdvanceNumber(t) PROVE Game!RightMove
  BY <1>4, SameRules DEF AdvanceNumber, LoopInv, BoardInv, Knows, Game!RightMove
<1>5. ASSUME NEW t \in Threads, SendView(t)
      PROVE Game!Announce(t) \/ UNCHANGED Game!vars
  <2>1. CASE ~game_has_finished[t]
    BY <1>5, <2>1 DEF SendView, Game!vars
  <2>2. CASE game_has_finished[t]
    <3>0. PICK name : name = other_client_name[t]
      OBVIOUS
    <3>1. /\ game_pc[t] = "send_view" /\ game_pc' = [game_pc EXCEPT ![t] = "send_ended"]
          /\ winner_name' = [winner_name EXCEPT ![t] = name]
          /\ UNCHANGED <<game_number, current_player_move, game_has_ended>>
      BY <1>5, <2>2, <3>0 DEF SendView
    <3>2. name \in Names
      <4>1. PICK u \in Threads : u # t
        BY ThreadsAssumption
      <4> QED
        BY <3>0, <3>1, <4>1 DEF LoopInv, GameTypeOK, PlayersInv
    <3>3. game_has_ended /\ winner_name[t] = NULL
      BY <2>2, <3>1 DEF LoopInv, EndInv, Lost, OutcomeInv, Returned
    <3>4. \A q \in Threads : winner_name[q] \in {NULL, name}
      BY <3>1, <3>2, OneWinner
    <3> QED
      BY <3>1, <3>2, <3>3, <3>4 DEF Game!Announce
  <2> QED
    BY <2>1, <2>2
<1>6. ASSUME NEW t \in Threads, SendOtherView(t)
      PROVE Game!Announce(t) \/ UNCHANGED Game!vars
  <2>1. CASE ~game_has_finished[t]
    BY <1>6, <2>1 DEF SendOtherView, Game!vars
  <2>2. CASE game_has_finished[t]
    <3>0. PICK name : name = client_name[t]
      OBVIOUS
    <3>1. /\ game_pc[t] = "send_other_view" /\ game_pc' = [game_pc EXCEPT ![t] = "send_ended"]
          /\ winner_name' = [winner_name EXCEPT ![t] = name]
          /\ UNCHANGED <<game_number, current_player_move, game_has_ended>>
      BY <1>6, <2>2, <3>0 DEF SendOtherView, WinnerIsMine
    <3>2. name \in Names
      BY <3>0 DEF LoopInv, GameTypeOK
    <3>3. game_has_ended /\ winner_name[t] = NULL
      BY <2>2, <3>1 DEF LoopInv, EndInv, Won, OutcomeInv, Returned
    <3>4. \A q \in Threads : winner_name[q] \in {NULL, name}
      BY <3>1, <3>2, OneWinner
    <3> QED
      BY <3>1, <3>2, <3>3, <3>4 DEF Game!Announce
  <2> QED
    BY <2>1, <2>2
<1>7. ASSUME NEW t \in Threads, GameSocketFails(t) PROVE Game!Leave(t)
  BY <1>7 DEF GameSocketFails, ForgetLocals, Game!Leave
<1>8. ASSUME NEW t \in Threads,
             \/ AskForMove(t) \/ RecvMove(t) \/ ReadNumber(t) \/ JudgeMove(t)
             \/ SignalTurn(t) \/ AnnounceOther(t) \/ WaitForEvent(t)
             \/ ReadMove(t) \/ ReadEnded(t) \/ SendGameEnded(t)
             \/ ClientLeaves(t) /\ UNCHANGED <<game_pc, shared, event, locals>>
      PROVE UNCHANGED Game!vars
  BY <1>8 DEF AskForMove, RecvMove, ReadNumber, JudgeMove, SignalTurn, AnnounceOther,
              WaitForEvent, ReadMove, ReadEnded, SendGameEnded, Game!vars
<1>9. ASSUME UNCHANGED game_vars PROVE UNCHANGED Game!vars
  BY <1>9 DEF game_vars, Game!vars
<1> QED
  BY <1>1, <1>2, <1>3, <1>4, <1>5, <1>6, <1>7, <1>8, <1>9
     DEF GameNext, GameStep, MoverStep, WaiterStep, GameOver, Game!Next

(* ImplementsBoomGame of GameLoop: two threads and an event play one game. *)
THEOREM GameLoopImplementsBoomGame == GameSpec => ImplementsBoomGame
<1>1. GameInit => OutcomeInv
  BY OutcomeInit
<1>2. LoopInv /\ OutcomeInv /\ [GameNext]_game_vars => OutcomeInv'
  BY OutcomeStep DEF LoopInv
<1> QED
  BY <1>1, <1>2, GameInductive, GameInitRefines, GameNextRefines, PTL DEF GameSpec, ImplementsBoomGame, Game!Spec

-----------------------------------------------------------------------------
(***************************************************************************)
(* The judgement.  The loop of containsDigit() is a recursive function,    *)
(* and has the value that its definition says since the numbers it finds   *)
(* are the least set that is closed under one round of it.                 *)
(***************************************************************************)

(* game_number is an int of 32 bits. *)
INT_MAX == 2147483647

(* One round of the loop of containsDigit(). *)
LEMMA OneMoreDigit ==
  ASSUME NEW digit \in Nat, NEW number \in Nat
  PROVE  /\ containsDigit(number, digit) \in BOOLEAN
         /\ containsDigit(number, digit) <=>
              number # 0 /\ (number % 10 = digit \/ containsDigit(number \div 10, digit))
<1> DEFINE Round(S) == {n \in Nat : n # 0 /\ (n % 10 = digit \/ n \div 10 \in S)}
           Found == {n \in Nat : \A S \in SUBSET Nat : Round(S) \subseteq S => n \in S}
           scan == CHOOSE f : f = [n \in Nat |-> n # 0 /\ (n % 10 = digit \/ f[n \div 10])]
<1>1. \A n \in Nat : n \div 10 \in Nat
  OBVIOUS
<1>2. Round(Found) = Found
  <2>1. \A S \in SUBSET Nat : Round(S) \in SUBSET Nat
    OBVIOUS
  <2>2. Found \in SUBSET Nat
    OBVIOUS
  <2>3. ASSUME NEW S \in SUBSET Nat, Round(S) \subseteq S PROVE Found \subseteq S
    BY <2>3
  <2>4. \A S, T \in SUBSET Nat : S \subseteq T => Round(S) \subseteq Round(T)
    OBVIOUS
  <2> HIDE DEF Round
  <2>5. Round(Found) \subseteq Found
    <3>1. ASSUME NEW S \in SUBSET Nat, Round(S) \subseteq S PROVE Round(Found) \subseteq S
      BY <2>2, <2>3, <2>4, <3>1
    <3> QED
      BY <3>1, <2>1, <2>2
  <2>6. Round(Round(Found)) \subseteq Round(Found)
    BY <2>1, <2>2, <2>4, <2>5
  <2> QED
    BY <2>1, <2>2, <2>3, <2>5, <2>6
<1>3. \E f : f = [n \in Nat |-> n # 0 /\ (n % 10 = digit \/ f[n \div 10])]
  <2> DEFINE g == [n \in Nat |-> n \in Found]
  <2> HIDE DEF Found
  <2>1. ASSUME NEW n \in Nat
        PROVE  (n \in Found) = (n # 0 /\ (n % 10 = digit \/ g[n \div 10]))
    <3>1. g[n \div 10] = (n \div 10 \in Found)
      BY <1>1
    <3>2. n \in Found <=> n # 0 /\ (n % 10 = digit \/ n \div 10 \in Found)
      BY <1>2
    <3>3. n \in Found <=> (n # 0 /\ (n % 10 = digit \/ g[n \div 10]))
      BY <3>1, <3>2, Zenon
    <3>4. CASE n \in Found
      BY <3>3, <3>4
    <3>5. CASE n \notin Found
      BY <3>3, <3>5
    <3> QED
      BY <3>4, <3>5
  <2>2. g = [n \in Nat |-> n # 0 /\ (n % 10 = digit \/ g[n \div 10])]
    BY <2>1, Zenon
  <2> QED
    BY <2>2, Zenon
<1>4. scan = [n \in Nat |-> n # 0 /\ (n % 10 = digit \/ scan[n \div 10])]
  BY <1>3, Zenon
<1>5. \A n : containsDigit(n, digit) = scan[n]
  BY Zenon DEF containsDigit
<1> HIDE DEF scan
<1>6. scan[number] = (number # 0 /\ (number % 10 = digit \/ scan[number \div 10]))
  BY <1>4, Zenon
<1>7. scan[number] \in BOOLEAN
  BY <1>6
<1> QED
  BY <1>5, <1>6, <1>7, Zenon

(* The digit at a place is compared, and then those before it. *)
LEMMA DigitAtPlace ==
  ASSUME NEW digit \in 1..9, NEW number \in Nat, NEW place \in Nat, place > 0
  PROVE  containsDigit(number \div place, digit) <=>
           \/ (number \div place) % 10 = digit
           \/ containsDigit(number \div (10 * place), digit)
<1>1. number \div place \in Nat /\ digit \in Nat
  OBVIOUS
<1>2. (number \div place) \div 10 = number \div (10 * place)
  <2> DEFINE q == number \div place
             s == q \div 10
  <2>1. number = place * q + (number % place) /\ number % place \in 0..(place - 1)
    OBVIOUS
  <2>2. q = 10 * s + (q % 10) /\ q % 10 \in 0..9 /\ s \in Nat
    OBVIOUS
  <2>3. number = (10 * place) * s + (place * (q % 10) + (number % place))
    BY <2>1, <2>2
  <2>4. place * (q % 10) + (number % place) \in 0..(10 * place - 1)
    BY <2>1, <2>2
  <2> QED
    BY <2>2, <2>3, <2>4
<1>3. ~containsDigit(0, digit)
  BY OneMoreDigit, <1>1
<1>4. CASE number \div place = 0
  BY <1>1, <1>2, <1>3, <1>4
<1>5. CASE number \div place # 0
  BY <1>1, <1>2, <1>5, OneMoreDigit
<1> QED
  BY <1>4, <1>5

(* So every digit that an int has is compared. *)
LEMMA DigitAtSomePlace ==
  ASSUME NEW digit \in 1..9, NEW number \in Nat, number <= INT_MAX
  PROVE  containsDigit(number, digit) <=>
           \E place \in PlaceValues : (number \div place) % 10 = digit
<1>0. \A place \in PlaceValues : place \in Nat /\ place > 0
  BY SMT DEF PlaceValues
<1>1. \A place \in PlaceValues :
         containsDigit(number \div place, digit) <=>
           \/ (number \div place) % 10 = digit
           \/ containsDigit(number \div (10 * place), digit)
  BY <1>0, DigitAtPlace, SMT
<1>2. number \div 1 = number /\ number \div 10000000000 = 0
  BY SMT DEF INT_MAX
<1>3. ~containsDigit(0, digit)
  BY OneMoreDigit, SMT
<1> DEFINE Rest(p) == containsDigit(number \div p, digit)
           At(p) == (number \div p) % 10 = digit
<1>4. /\ Rest(1) <=> At(1) \/ Rest(10)
      /\ Rest(10) <=> At(10) \/ Rest(100)
      /\ Rest(100) <=> At(100) \/ Rest(1000)
      /\ Rest(1000) <=> At(1000) \/ Rest(10000)
      /\ Rest(10000) <=> At(10000) \/ Rest(100000)
      /\ Rest(100000) <=> At(100000) \/ Rest(1000000)
      /\ Rest(1000000) <=> At(1000000) \/ Rest(10000000)
      /\ Rest(10000000) <=> At(10000000) \/ Rest(100000000)
      /\ Rest(100000000) <=> At(100000000) \/ Rest(1000000000)
      /\ Rest(1000000000) <=> At(1000000000) \/ Rest(10000000000)
  BY <1>1, SMT DEF PlaceValues
<1>5. containsDigit(number, digit) <=> Rest(1)
  BY <1>2, SMT
<1>6. ~Rest(10000000000)
  BY <1>2, <1>3, SMT
<1> HIDE DEF Rest, At
<1>7. Rest(1) <=> \E place \in PlaceValues : At(place)
  BY <1>4, <1>6, SMTT(60) DEF PlaceValues
<1> QED
  BY <1>5, <1>7, SMT DEF At

(* The judgement of BoomRules: of all moves at a number that an int can hold,
   exactly one survives, the one that the rules name. *)
THEOREM JudgementIsRight ==
  ASSUME NEW number \in Nat \ {0}, number <= INT_MAX, NEW made \in {Boom} \cup Int
  PROVE  MoveLoses(made, number) <=> made # RightMoveFor(number)
<1>1. number % BOOM_NUMBER = 0 <=> \E q \in 0..number : number = q * BOOM_NUMBER
  <2> DEFINE quotient == number \div BOOM_NUMBER
  <2>1. /\ quotient \in 0..number
        /\ number = BOOM_NUMBER * quotient + (number % BOOM_NUMBER)
    BY BoomNumberAssumption
  <2>2. ASSUME NEW q \in 0..number, number = q * BOOM_NUMBER PROVE number % BOOM_NUMBER = 0
    BY BoomNumberAssumption, <2>2
  <2> HIDE DEF quotient
  <2>3. number % BOOM_NUMBER = 0 => number = quotient * BOOM_NUMBER
    BY <2>1, BoomNumberAssumption
  <2> QED
    BY <2>1, <2>2, <2>3
<1>2. containsDigit(number, BOOM_NUMBER) \in BOOLEAN
  BY OneMoreDigit, BoomNumberAssumption
<1>3. containsDigit(number, BOOM_NUMBER) <=>
        \E place \in PlaceValues : (number \div place) % 10 = BOOM_NUMBER
  BY DigitAtSomePlace, BoomNumberAssumption
<1>4. ShouldGuessBoom(number) <=> BoomIsDue(number)
  BY <1>1, <1>2, <1>3, Zenon DEF ShouldGuessBoom, BoomIsDue
<1> QED
  BY <1>4, BoomAssumption DEF MoveLoses, RightMoveFor

(* JudgeAgrees of GameLoop: the judgement of every game is that of the rules. *)
THEOREM JudgeAlwaysAgrees == GameSpec => []JudgeAgrees
<1>1. \A number \in 1..800 : number \in Nat \ {0} /\ number <= INT_MAX
  BY SMT DEF INT_MAX
<1>2. \A number \in 1..800 :
        \A m \in {Boom, 0, BOOM_NUMBER, number - 1, number, number + 1} :
          m \in {Boom} \cup Int
  BY BoomNumberAssumption
<1>3. JudgeAgrees
  BY <1>1, <1>2, JudgementIsRight DEF JudgeAgrees
<1> QED
  BY <1>3, PTL
=============================================================================
