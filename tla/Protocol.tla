------------------------------- MODULE Protocol -------------------------------
(***************************************************************************)
(* The two clients and the server: the steps of ServiceThreads with the    *)
(* messages they send and receive, and the steps of Client at the other    *)
(* end of each connection.                                                 *)
(*                                                                         *)
(* The client of a thread is named by the thread.  What the two sides      *)
(* promise each other is in MCProtocol, with the histories it needs.       *)
(***************************************************************************)
EXTENDS ServiceThreads, Sequences

CONSTANT UserName   (* the name each client is started with *)

VARIABLES place, to_client, to_server

C == INSTANCE Client WITH Clients <- Threads

wire == <<to_client, to_server>>
allvars == <<server_vars, place, wire>>

PInit ==
  /\ ServerInit
  /\ client_name = UserName
  /\ place = [t \in Threads |-> "gone"]
  /\ to_client = [t \in Threads |-> <<>>]
  /\ to_server = [t \in Threads |-> <<>>]

-----------------------------------------------------------------------------
(* The server's end of a connection.  What is sent to a client that has gone
   is lost. *)
Sends(t, messages) ==
  /\ to_client' = IF place[t] = "gone" THEN to_client
                  ELSE [to_client EXCEPT ![t] = @ \o messages]
  /\ UNCHANGED to_server

Receives(t) ==
  /\ to_server[t] # <<>>
  /\ to_server' = [to_server EXCEPT ![t] = Tail(@)]
  /\ UNCHANGED to_client

Received(t) == Head(to_server[t])

Quiet == UNCHANGED wire

Plain(type) == <<C!Message(type, <<>>)>>

(* ServiceThread() takes any message but CLIENT_DISCONNECT for CLIENT_VERSUS. *)
ReceivesChoice(t) ==
  /\ Receives(t)
  /\ IF Received(t).type = "CLIENT_DISCONNECT" THEN RecvDisconnect(t)
                                               ELSE RecvVersus(t)

(* CLIENT_REQUEST, and SERVER_APPROVED in the same step. *)
Approves(t) ==
  /\ to_server[t] # <<>>
  /\ Approve(t)
  /\ client_name'[t] = Received(t).parameters[1]
  /\ to_server' = [to_server EXCEPT ![t] = Tail(@)]
  /\ to_client' = [to_client EXCEPT ![t] = @ \o Plain("SERVER_APPROVED")]

(* Up to GAME_STARTED. *)
MenuStep(t) ==
  /\ \/ Approves(t)
     \/ RequestFails(t) /\ to_server[t] = <<>> /\ Quiet
     \/ SendMenu(t) /\ Sends(t, Plain("SERVER_MAIN_MENU"))
     \/ ReceivesChoice(t)
     \/ SendNoOpponents(t) /\ Sends(t, Plain("SERVER_NO_OPPONENTS"))
     \/ StartGame(t) /\ Sends(t, Plain("GAME_STARTED"))
     \/ /\ \/ Arrive(t) \/ ReadReady(t) \/ WakeUp(t) \/ CheckReady(t)
           \/ FailAbandoned(t) \/ NoOpponentsFails(t) \/ DecreaseReady(t)
           \/ ResetFirstArrived(t) \/ SocketFails(t)
        /\ Quiet
  /\ GamePlaceOf(t)
  /\ UNCHANGED <<game, place>>

Verdict(t) == IF game_has_finished[t] THEN "END" ELSE "CONT"

(* mutant: the request is forgotten *)
TurnMessagesSwitchOnly(t) == <<C!Message("TURN_SWITCH", <<client_name[t]>>)>>

(* mutant: the request is sent twice *)
TurnMessagesTwice(t) ==
  <<C!Message("TURN_SWITCH", <<client_name[t]>>)>>
    \o Plain("SERVER_MOVE_REQUEST") \o Plain("SERVER_MOVE_REQUEST")

TurnMessages(t) ==
  <<C!Message("TURN_SWITCH", <<client_name[t]>>)>> \o Plain("SERVER_MOVE_REQUEST")

GameView(t, mover) == <<C!Message("GAME_VIEW", <<mover, move[t], Verdict(t)>>)>>

(* server_game_loop(). *)
PlayStep(t) ==
  /\ pc[t] = "game_loop"
  /\ \/ AskForMove(t) /\ Sends(t, TurnMessages(t))
     \/ RecvMove(t) /\ Receives(t) /\ move'[t] = Received(t).parameters[1]
     \/ SendView(t) /\ Sends(t, GameView(t, client_name[t]))
     \/ AnnounceOther(t) /\ Sends(t, <<C!Message("TURN_SWITCH", <<other_client_name[t]>>)>>)
     \/ SendOtherView(t) /\ Sends(t, GameView(t, other_client_name[t]))
     \/ SendGameEnded(t) /\ Sends(t, <<C!Message("GAME_ENDED", <<winner_name[t]>>)>>)
     \/ /\ \/ EnterLoop(t) \/ ReadNumber(t) \/ PublishMove(t) \/ JudgeMove(t)
           \/ RecordVerdict(t) \/ AdvanceNumber(t) \/ SignalTurn(t)
           \/ WaitForEvent(t) \/ ReadMove(t) \/ ReadEnded(t) \/ GameSocketFails(t)
        /\ Quiet
  /\ InCall(t)
  /\ UNCHANGED place

ThreadStep(t) ==
  \/ MenuStep(t)
  \/ PlayStep(t)
  \/ (ReadNullMove(t) \/ ReturnToMenu(t)) /\ Quiet /\ UNCHANGED place

MeetsAtBarrier == MeetAtBarrier /\ Quiet /\ UNCHANGED place

-----------------------------------------------------------------------------
(* A client connects once its slot is free. *)
Connects(t) ==
  /\ NewClient(t)
  /\ C!Connect(t)
  /\ GamePlaceOf(t)
  /\ UNCHANGED game

ClientTakes(t) ==
  /\ \/ C!RecvApproved(t) \/ C!RecvMainMenu(t) \/ C!RecvAnswer(t)
     \/ C!RecvTurnSwitch(t) \/ C!RecvMoveRequest(t) \/ C!RecvGameView(t)
     \/ C!RecvGameEnded(t)
  /\ UNCHANGED server_vars

UserStep(t) ==
  /\ C!ChooseVersus(t) \/ C!ChooseQuit(t) \/ C!EnterMove(t)
  /\ UNCHANGED server_vars

Leaves(t) ==
  /\ ClientLeaves(t)
  /\ C!Leave(t)
  /\ UNCHANGED <<pc, game_pc, match, game>>

PNext ==
  \/ \E t \in Threads :
       ThreadStep(t) \/ Connects(t) \/ ClientTakes(t) \/ UserStep(t) \/ Leaves(t)
  \/ MeetsAtBarrier

PSpec == PInit /\ [][PNext]_allvars
=============================================================================
