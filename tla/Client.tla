-------------------------------- MODULE Client --------------------------------
(***************************************************************************)
(* The clients (client/main.c), once they are connected: the menu and the  *)
(* game, as a player sees them.  Connecting is in Acceptor.                *)
(*                                                                         *)
(* A client is a sequential program that takes the next message for the    *)
(* one it waits for; the only types it looks at are SERVER_DENIED and      *)
(* GAME_STARTED.  Its local variables do not outlive a message, so its     *)
(* place in the program is all of its state.                               *)
(*                                                                         *)
(* A connection is two first-in first-out sequences of messages, which     *)
(* MessageTransfer shows to be what send_message() and                     *)
(* recv_and_extract_communication_message() make of it.  A message has a   *)
(* type and parameters; a parameter that a message does not have is found  *)
(* NULL in parameters_array, which is "missing" here; strcmp() faults on it, *)
(* and the client does not go on.                                          *)
(***************************************************************************)
EXTENDS Sequences

CONSTANTS
  Clients,    (* the clients                                        *)
  Moves,      (* what users enter: "boom" and some numbers          *)
  UserName    (* the name each client is started with               *)

VARIABLES
  place,      (* where each client is: see Places                   *)
  to_client,  (* messages on their way to each client               *)
  to_server   (* messages on their way to the server                *)

(* The places at which a client waits for a message, and the types of the
   messages it takes any message for. *)
Awaits ==
  [reply        |-> {"SERVER_APPROVED"},
   menu         |-> {"SERVER_MAIN_MENU"},
   answer       |-> {"GAME_STARTED", "SERVER_NO_OPPONENTS"},
   turn         |-> {"TURN_SWITCH"},
   move_request |-> {"SERVER_MOVE_REQUEST"},
   own_view     |-> {"GAME_VIEW"},
   other_view   |-> {"GAME_VIEW"},
   ended        |-> {"GAME_ENDED"}]

(* The places at which a client waits for its user. *)
UserPlaces == {"choose", "enter_move"}

(* "gone": the program has ended, and its socket is closed. *)
Places == DOMAIN Awaits \cup UserPlaces \cup {"gone"}

Message(type, parameters) == [type |-> type, parameters |-> parameters]

-----------------------------------------------------------------------------
Move(c, to) == place' = [place EXCEPT ![c] = to]

Receive(c) ==
  /\ to_client[c] # <<>>
  /\ to_client' = [to_client EXCEPT ![c] = Tail(@)]
  /\ UNCHANGED to_server

Received(c) == Head(to_client[c])

Parameter(c, i) ==
  IF i \in DOMAIN Received(c).parameters THEN Received(c).parameters[i] ELSE "missing"

Send(c, type, parameters) ==
  /\ to_server' = [to_server EXCEPT ![c] = Append(@, Message(type, parameters))]
  /\ UNCHANGED to_client

(* connect() succeeds, and CLIENT_REQUEST follows. *)
Connect(c) ==
  /\ place[c] = "gone"
  /\ Send(c, "CLIENT_REQUEST", <<UserName[c]>>)
  /\ Move(c, "reply")

RecvApproved(c) ==
  /\ place[c] = "reply"
  /\ Receive(c)
  /\ Move(c, "menu")

-----------------------------------------------------------------------------
(* server_main_menu(). *)

RecvMainMenu(c) ==
  /\ place[c] = "menu"
  /\ Receive(c)
  /\ Move(c, "choose")

(* CLIENT_VERSUS. *)
ChooseVersus(c) ==
  /\ place[c] = "choose"
  /\ Send(c, "CLIENT_VERSUS", <<>>)
  /\ Move(c, "answer")

(* The program ends and closes its socket after CLIENT_DISCONNECT. *)
ChooseQuit(c) ==
  /\ place[c] = "choose"
  /\ Send(c, "CLIENT_DISCONNECT", <<>>)
  /\ Move(c, "gone")

(* Variants marked "mutant" are plausible mistakes in the definition that
   follows them, which the properties are checked to notice. *)

(* mutant: the game loop is entered after any answer *)
AfterAnswerAlways(c) == "turn"

AfterAnswer(c) == IF Received(c).type = "GAME_STARTED" THEN "turn" ELSE "menu"

RecvAnswer(c) ==
  /\ place[c] = "answer"
  /\ Receive(c)
  /\ Move(c, AfterAnswer(c))

-----------------------------------------------------------------------------
(* game_loop() and recv_game_view_or_game_end(). *)

(* mutant: the name is not looked at *)
IsMyTurnAlways(c) == TRUE

(* Whose turn it is follows from the name alone. *)
IsMyTurn(c) == Parameter(c, 1) = UserName[c]

RecvTurnSwitch(c) ==
  /\ place[c] = "turn"
  /\ Receive(c)
  /\ Parameter(c, 1) # "missing"
  /\ Move(c, IF IsMyTurn(c) THEN "move_request" ELSE "other_view")

RecvMoveRequest(c) ==
  /\ place[c] = "move_request"
  /\ Receive(c)
  /\ Move(c, "enter_move")

(* The user is asked again until the input is a number (which the empty line
   is, too) or boom. *)
EnterMove(c) ==
  /\ place[c] = "enter_move"
  /\ \E m \in Moves : Send(c, "CLIENT_PLAYER_MOVE", <<m>>)
  /\ Move(c, "own_view")

(* mutant: END ends the game, GAME_ENDED is left unread *)
AfterViewMenu(c) == IF Parameter(c, 3) = "CONT" THEN "turn" ELSE "menu"

AfterView(c) == IF Parameter(c, 3) = "CONT" THEN "turn" ELSE "ended"

RecvGameView(c) ==
  /\ place[c] \in {"own_view", "other_view"}
  /\ Receive(c)
  /\ Parameter(c, 3) # "missing"
  /\ Move(c, AfterView(c))

RecvGameEnded(c) ==
  /\ place[c] = "ended"
  /\ Receive(c)
  /\ Move(c, "menu")

-----------------------------------------------------------------------------
(* The program ends: it is killed or cut off, a receive finds no message in
   time, or server_main_menu(m_socket, 1), after anything else than 1 or 2,
   frees pointers it was never given.  What is on its way is lost. *)
Leave(c) ==
  /\ place[c] # "gone"
  /\ Move(c, "gone")
  /\ to_client' = [to_client EXCEPT ![c] = <<>>]
  /\ to_server' = [to_server EXCEPT ![c] = <<>>]
=============================================================================
