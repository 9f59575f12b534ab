------------------------------- MODULE GameLoop -------------------------------
(***************************************************************************)
(* One game, as server/server_game_loop.c runs it in two service threads.  *)
(*                                                                         *)
(* Both threads run server_game_loop() over the shared resources_struct.   *)
(* The one whose turn it is (the mover) asks its client for a move, judges *)
(* it and sets event_for_syncing_threads_in_game_loop; the other one (the  *)
(* waiter) waits for that event, reads the move and the verdict from the   *)
(* shared resources and takes the next turn.  Each access to the shared    *)
(* resources holds ghMutex for one field only, so every access is a step   *)
(* of its own.                                                             *)
(*                                                                         *)
(* The module alone is the contract of server_game_loop(): it starts from  *)
(* the state in which the threads have met at the barrier with different   *)
(* player numbers, clean shared resources and an unsignalled event.        *)
(* In ServiceThreads its actions are steps of the whole server.            *)
(***************************************************************************)
EXTENDS WorkerThread, BoomRules

CONSTANTS
  Moves,   (* the moves clients make: Boom and some numbers         *)
  Limit    (* bound: at this game_number clients make a losing move *)

ASSUME MovesAssumption == Moves \subseteq Nat \cup {Boom} /\ NULL \notin Moves
ASSUME LimitAssumption == Limit \in Nat

VARIABLES
  game_pc,               (* where each thread is in server_game_loop()    *)
  game_number,           (* resources_struct.game_number                  *)
  game_has_ended,        (* resources_struct.game_has_ended               *)
  current_player_move,   (* resources_struct.current_player_move          *)
  event,                 (* the auto-reset event: NULL when unsignalled,  *)
                         (* else the thread that signalled it             *)
  my_client_turn, other_client_name, next_number, move,
  game_has_finished, winner_name   (* locals of each thread               *)

shared == <<game_number, game_has_ended, current_player_move>>
locals == <<my_client_turn, other_client_name, next_number, move,
            game_has_finished, winner_name>>
game_vars == <<game_pc, session, shared, event, locals>>

(* Places at which a thread waits for the socket and may find it failed. *)
GameSocketPlaces == {"turn", "recv_move", "send_view", "send_other_view",
                     "send_ended"}

MoverPlaces == {"recv_move", "next_number", "publish", "judge", "record",
                "advance", "signal", "send_view"}

WaiterPlaces == {"wait", "blocked", "read_move", "read_ended",
                 "send_other_view"}

GamePlaces == {"game_loop", "turn", "send_ended", "reinit", "exited"}
                \cup MoverPlaces \cup WaiterPlaces

GameInit ==
  /\ game_pc = [t \in Threads |-> "game_loop"]
  /\ connected \in [Threads -> BOOLEAN]
  /\ client_name \in [Threads -> Names]
  /\ \E first \in Threads :
       /\ num_of_player = [t \in Threads |-> IF t = first THEN 1 ELSE 2]
       /\ \E second \in Threads \ {first} :
            player_name = <<client_name[first], client_name[second]>>
  /\ game_number = 0
  /\ game_has_ended = FALSE
  /\ current_player_move = NULL
  /\ event = NULL
  /\ my_client_turn = [t \in Threads |-> FALSE]
  /\ other_client_name = [t \in Threads |-> NULL]
  /\ next_number = [t \in Threads |-> 0]
  /\ move = [t \in Threads |-> NULL]
  /\ game_has_finished = [t \in Threads |-> FALSE]
  /\ winner_name = [t \in Threads |-> NULL]

GameGoto(t, place) == game_pc' = [game_pc EXCEPT ![t] = place]

-----------------------------------------------------------------------------
(* Variants marked "mutant" are plausible mistakes in the definition that
   follows them, which the properties are checked to notice. *)

(* mutant: the two name fields are swapped *)
OtherPlayerSwapped(t) == num_of_player[t]

(* The number of the other player. *)
OtherPlayer(t) == IF num_of_player[t] = 1 THEN 2 ELSE 1

(* mutant: both threads take the first turn *)
MovesFirstAlways(t) == TRUE

MovesFirst(t) == num_of_player[t] = 1

(* server_game_loop(): the opponent's name, and who makes the first move.  *)
EnterLoop(t) ==
  /\ game_pc[t] = "game_loop"
  /\ other_client_name' =
       [other_client_name EXCEPT ![t] = player_name[OtherPlayer(t)]]
  /\ my_client_turn' = [my_client_turn EXCEPT ![t] = MovesFirst(t)]
  /\ game_has_finished' = [game_has_finished EXCEPT ![t] = FALSE]
  /\ winner_name' = [winner_name EXCEPT ![t] = NULL]
  /\ GameGoto(t, "turn")
  /\ UNCHANGED <<session, shared, event, next_number, move>>

-----------------------------------------------------------------------------
(* The mover.                                                              *)

(* TURN_SWITCH with this client's name, then SERVER_MOVE_REQUEST. *)
AskForMove(t) ==
  /\ game_pc[t] = "turn"
  /\ my_client_turn[t]
  /\ GameGoto(t, "recv_move")
  /\ UNCHANGED <<session, shared, event, locals>>

(* CLIENT_PLAYER_MOVE arrives; the receive waits for it without a timeout.
   Limit bounds the runs: at that number only losing moves are made, and past
   it (where only two movers at once can bring the game) none. *)
RecvMove(t) ==
  /\ game_pc[t] = "recv_move"
  /\ connected[t]
  /\ game_number <= Limit
  /\ \E m \in Moves :
       /\ game_number < Limit \/ MoveLoses(m, game_number + 1)
       /\ move' = [move EXCEPT ![t] = m]
  /\ GameGoto(t, "next_number")
  /\ UNCHANGED <<session, shared, event, my_client_turn, other_client_name,
                 next_number, game_has_finished, winner_name>>

(* mutant: counts down *)
NumberAfterDown(n) == n - 1

NumberAfter(n) == n + 1

(* The number is read here and written back in AdvanceNumber. *)
ReadNumber(t) ==
  /\ game_pc[t] = "next_number"
  /\ next_number' = [next_number EXCEPT ![t] = NumberAfter(game_number)]
  /\ GameGoto(t, "publish")
  /\ UNCHANGED <<session, shared, event, my_client_turn, other_client_name,
                 move, game_has_finished, winner_name>>

PublishMove(t) ==
  /\ game_pc[t] = "publish"
  /\ current_player_move' = move[t]
  /\ GameGoto(t, "judge")
  /\ UNCHANGED <<session, game_number, game_has_ended, event, locals>>

(* mutant: a number is right even when a boom is due *)
LosesWithoutBoomCheck(t) == MoveLosesWithoutBoomCheck(move[t], game_number + 1)

Loses(t) == MoveLoses(move[t], game_number + 1)

(* check_if_move_has_finished_the_game(): the number is read again ...     *)
JudgeMove(t) ==
  /\ game_pc[t] = "judge"
  /\ game_has_finished' = [game_has_finished EXCEPT ![t] = Loses(t)]
  /\ GameGoto(t, "record")
  /\ UNCHANGED <<session, shared, event, my_client_turn, other_client_name,
                 next_number, move, winner_name>>

(* mutant: the number is not advanced *)
AfterVerdictSignal(t) == "signal"

AfterVerdict(t) == IF game_has_finished[t] THEN "signal" ELSE "advance"

(* ... and every branch writes its verdict to game_has_ended. *)
RecordVerdict(t) ==
  /\ game_pc[t] = "record"
  /\ game_has_ended' = game_has_finished[t]
  /\ GameGoto(t, AfterVerdict(t))
  /\ UNCHANGED <<session, game_number, current_player_move, event, locals>>

AdvanceNumber(t) ==
  /\ game_pc[t] = "advance"
  /\ game_number' = next_number[t]
  /\ GameGoto(t, "signal")
  /\ UNCHANGED <<session, game_has_ended, current_player_move, event, locals>>

(* SetEvent(): a thread that is already blocked is released and consumes the
   signal; with none blocked the event stays signalled. *)
Waiters == {u \in Threads : game_pc[u] = "blocked"}

SignalTurn(t) ==
  /\ game_pc[t] = "signal"
  /\ my_client_turn' = [my_client_turn EXCEPT ![t] = FALSE]
  /\ \/ /\ Waiters = {}
        /\ event' = t
        /\ GameGoto(t, "send_view")
     \/ \E u \in Waiters :
        /\ game_pc' = [game_pc EXCEPT ![t] = "send_view", ![u] = "read_move"]
        /\ UNCHANGED event
  /\ UNCHANGED <<session, shared, other_client_name, next_number, move,
                 game_has_finished, winner_name>>

(* GAME_VIEW to the mover's own client; the move and the number are freed or
   go out of scope.  After a losing move the opponent is the winner. *)
SendView(t) ==
  /\ game_pc[t] = "send_view"
  /\ move' = [move EXCEPT ![t] = NULL]
  /\ next_number' = [next_number EXCEPT ![t] = 0]
  /\ IF game_has_finished[t]
       THEN /\ winner_name' = [winner_name EXCEPT ![t] = other_client_name[t]]
            /\ GameGoto(t, "send_ended")
       ELSE /\ GameGoto(t, "turn")
            /\ UNCHANGED winner_name
  /\ UNCHANGED <<session, shared, event, my_client_turn, other_client_name,
                 game_has_finished>>

-----------------------------------------------------------------------------
(* The waiter.                                                             *)

(* TURN_SWITCH with the other client's name; the next turn is this thread's
   before it waits. *)
AnnounceOther(t) ==
  /\ game_pc[t] = "turn"
  /\ ~my_client_turn[t]
  /\ my_client_turn' = [my_client_turn EXCEPT ![t] = TRUE]
  /\ GameGoto(t, "wait")
  /\ UNCHANGED <<session, shared, event, other_client_name, next_number, move,
                 game_has_finished, winner_name>>

(* mutant: a manual-reset event *)
EventAfterWaitManual == event

EventAfterWait == NULL

(* mutant: a signal that nobody waits for is lost *)
EventIsSetPulse == FALSE

EventIsSet == event # NULL

(* WaitForSingleObject(event, INFINITE): an event found signalled is reset,
   otherwise the thread blocks until SignalTurn releases it. *)
WaitForEvent(t) ==
  /\ game_pc[t] = "wait"
  /\ event' = EventAfterWait
  /\ GameGoto(t, IF EventIsSet THEN "read_move" ELSE "blocked")
  /\ UNCHANGED <<session, shared, locals>>

(* The move and the verdict are read in two critical sections.  In one game
   the waiter is woken after a move has been published; ServiceThreads has
   the case of a move that is NULL again. *)
ReadMove(t) ==
  /\ game_pc[t] = "read_move"
  /\ current_player_move # NULL
  /\ move' = [move EXCEPT ![t] = current_player_move]
  /\ GameGoto(t, "read_ended")
  /\ UNCHANGED <<session, shared, event, my_client_turn, other_client_name,
                 next_number, game_has_finished, winner_name>>

ReadEnded(t) ==
  /\ game_pc[t] = "read_ended"
  /\ game_has_finished' = [game_has_finished EXCEPT ![t] = game_has_ended]
  /\ GameGoto(t, "send_other_view")
  /\ UNCHANGED <<session, shared, event, my_client_turn, other_client_name,
                 next_number, move, winner_name>>

(* mutant: the waiter names the mover as the winner *)
WinnerIsOther(t) == other_client_name[t]

(* Who has won when the other client's move ended the game. *)
WinnerIsMine(t) == client_name[t]

(* GAME_VIEW with the other client's move; after END this client has won. *)
SendOtherView(t) ==
  /\ game_pc[t] = "send_other_view"
  /\ move' = [move EXCEPT ![t] = NULL]
  /\ IF game_has_finished[t]
       THEN /\ winner_name' = [winner_name EXCEPT ![t] = WinnerIsMine(t)]
            /\ GameGoto(t, "send_ended")
       ELSE /\ GameGoto(t, "turn")
            /\ UNCHANGED winner_name
  /\ UNCHANGED <<session, shared, event, my_client_turn, other_client_name,
                 next_number, game_has_finished>>

-----------------------------------------------------------------------------
(* GAME_ENDED with the winner's name, and back to ServiceThread(). *)
SendGameEnded(t) ==
  /\ game_pc[t] = "send_ended"
  /\ GameGoto(t, "reinit")
  /\ UNCHANGED <<session, shared, event, locals>>

(* The locals of a thread that has left the game. *)
ForgetLocals(t) ==
  /\ my_client_turn' = [my_client_turn EXCEPT ![t] = FALSE]
  /\ other_client_name' = [other_client_name EXCEPT ![t] = NULL]
  /\ next_number' = [next_number EXCEPT ![t] = 0]
  /\ move' = [move EXCEPT ![t] = NULL]
  /\ game_has_finished' = [game_has_finished EXCEPT ![t] = FALSE]
  /\ winner_name' = [winner_name EXCEPT ![t] = NULL]

GameSocketFails(t) ==
  /\ game_pc[t] \in GameSocketPlaces
  /\ ConnectionError(t)
  /\ GameGoto(t, "exited")
  /\ ForgetLocals(t)
  /\ UNCHANGED <<shared, event>>

MoverStep(t) ==
  \/ AskForMove(t)
  \/ RecvMove(t)
  \/ ReadNumber(t)
  \/ PublishMove(t)
  \/ JudgeMove(t)
  \/ RecordVerdict(t)
  \/ AdvanceNumber(t)
  \/ SignalTurn(t)
  \/ SendView(t)

WaiterStep(t) ==
  \/ AnnounceOther(t)
  \/ WaitForEvent(t)
  \/ ReadMove(t)
  \/ ReadEnded(t)
  \/ SendOtherView(t)

GameStep(t) ==
  \/ EnterLoop(t)
  \/ MoverStep(t)
  \/ WaiterStep(t)
  \/ SendGameEnded(t)
  \/ GameSocketFails(t)

(* Both calls of server_game_loop() have returned. *)
GameOver ==
  /\ \A t \in Threads : game_pc[t] \in {"reinit", "exited"}
  /\ UNCHANGED game_vars

GameNext ==
  \/ \E t \in Threads :
       \/ GameStep(t)
       \/ ClientLeaves(t) /\ UNCHANGED <<game_pc, shared, event, locals>>
  \/ GameOver

GameSpec == GameInit /\ [][GameNext]_game_vars

(* The scheduler runs every thread that can run, and a client that is asked
   for a move answers or goes away. *)
FairGameSpec == GameSpec /\ \A t \in Threads : WF_game_vars(GameStep(t))

-----------------------------------------------------------------------------
(***************************************************************************)
(* Properties.                                                             *)
(***************************************************************************)

GameTypeOK ==
  /\ game_pc \in [Threads -> GamePlaces]
  /\ connected \in [Threads -> BOOLEAN]
  /\ client_name \in [Threads -> Names]
  /\ num_of_player \in [Threads -> 1..2]
  /\ player_name \in [1..2 -> Names \cup {NULL}]
  /\ game_number \in Nat
  /\ game_has_ended \in BOOLEAN
  /\ current_player_move \in Moves \cup {NULL}
  /\ event \in Threads \cup {NULL}
  /\ my_client_turn \in [Threads -> BOOLEAN]
  /\ other_client_name \in [Threads -> Names \cup {NULL}]
  /\ next_number \in [Threads -> Nat]
  /\ move \in [Threads -> Moves \cup {NULL}]
  /\ game_has_finished \in [Threads -> BOOLEAN]
  /\ winner_name \in [Threads -> Names \cup {NULL}]

(* From asking for a move to signalling it, and from being woken to having
   read the verdict, a thread works on the shared game state. *)
AtTheBoard(t) ==
  game_pc[t] \in {"recv_move", "next_number", "publish", "judge", "record",
                 "advance", "signal", "read_move", "read_ended"}

(* The threads never work on the game state at the same time, although
   nothing but the one event orders the single-field critical sections: no
   two clients are asked for the same number, and no waiter reads while a
   mover writes. *)
BoardExclusive ==
  \A t, u \in Threads : t # u => ~(AtTheBoard(t) /\ AtTheBoard(u))

(* The number a mover read before it published and judged its move is still
   the number of the game when it writes the next one back: the unprotected
   read-modify-write of game_number loses no update. *)
NumberNotStale ==
  \A t \in Threads :
    game_pc[t] \in {"publish", "judge", "record", "advance"}
      => next_number[t] = game_number + 1

(* The move and the verdict a waiter picked up in two critical sections
   belong together: GAME_VIEW says END exactly when that move was wrong for
   the number it was made at. *)
ViewTruthful ==
  \A t \in Threads :
    game_pc[t] = "send_other_view" =>
      game_has_finished[t] =
        MoveLoses(move[t], IF game_has_finished[t] THEN game_number + 1
                                                   ELSE game_number)

(* When both threads have come to GAME_ENDED they announce the same winner. *)
WinnerAgreement ==
  \A t, u \in Threads :
    game_pc[t] \in {"send_ended", "reinit"} /\ game_pc[u] \in {"send_ended", "reinit"}
      => winner_name[t] = winner_name[u]

(* When both threads return from the game the event is unsignalled again,
   whatever signals were consumed by whom: no signal of this game can start
   a turn of the next one. *)
HandsBackClean ==
  (\A t \in Threads : game_pc[t] = "reinit") => event = NULL

(* The game number moves by one, and only for a move that is published at
   that moment, was right for it, and did not end the game. *)
NumberFollowsMoves ==
  [][game_number' # game_number =>
       /\ game_number' = game_number + 1
       /\ ~game_has_ended
       /\ ~MoveLoses(current_player_move, game_number + 1)]_game_vars

(* check_if_move_has_finished_the_game(): exactly one move survives, boom
   when it is due and the number itself otherwise; a neighbouring number,
   the digit itself and 0 (what strtol() makes of a word that is not "boom")
   lose.  It is a fact about the judgement at the first 800 numbers, and is
   evaluated once, before the first move of two players of one name. *)
JudgeAgrees ==
  (\A t \in Threads : game_pc[t] = "game_loop" /\ connected[t] /\ client_name[t] = CHOOSE n \in Names : TRUE)
    => \A number \in 1..800 :
         \A m \in {Boom, 0, BOOM_NUMBER, number - 1, number, number + 1} :
           MoveLoses(m, number) <=> m # RightMoveFor(number)

(* As long as clients stay and answer (and lose at Limit at the latest) every
   game ends for both players: no thread is left waiting for the event. *)
GameEndsForBoth ==
  [](\A t \in Threads : connected[t]) => <>(\A t \in Threads : game_pc[t] = "reinit")

(* One game, as the players see it, whatever the threads do in which order:
   each verdict and each number is that of one move, in one line of moves,
   and the winner is announced after the wrong move only. *)
Game == INSTANCE BoomGame
          WITH Players <- Threads, number <- game_number, last <- current_player_move,
               over <- game_has_ended, announced <- winner_name

ImplementsBoomGame == Game!Spec

(* SERVER_OPPONENT_QUIT is among the message types (HardCodedData.h:47): a
   thread whose opponent's thread has ended leaves the game.  Nothing in the
   server sends it, and the survivor waits for an event that nobody will
   set. *)
SurvivorLeavesGame ==
  \A t, u \in Threads :
    (t # u /\ game_pc[t] = "exited") ~> game_pc[u] \in {"reinit", "exited"}

=============================================================================
