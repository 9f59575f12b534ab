---------------------------- MODULE ServiceThreads ----------------------------
(***************************************************************************)
(* The two service threads of the server from accept() to the end of a     *)
(* session: ServiceThread() of server/service_thread.c, composed of the    *)
(* steps of Matchmaking and of GameLoop over one resources_struct.         *)
(*                                                                         *)
(* pc is the place of a thread in ServiceThread() and the functions up to  *)
(* GAME_STARTED, game_pc its place in server_game_loop(): while it is in   *)
(* that call, pc stays at "game_loop"; otherwise game_pc is where the next *)
(* call will begin.                                                        *)
(*                                                                         *)
(* A thread leaves a game on its own: it is back in the menu, and has set  *)
(* the shared resources to zero, whether or not the other one has read its *)
(* last move.  The end of the process by "exit" or by an error of main()   *)
(* leaves nothing behind and is not repeated here (see Matchmaking); a     *)
(* fault in a thread is.                                                   *)
(***************************************************************************)
EXTENDS Matchmaking, GameLoop

match == <<queue, sync>>
game == <<shared, event, locals>>
server_vars == <<pc, game_pc, session, match, game>>

ServerInit ==
  /\ Init
  /\ game_pc = [t \in Threads |-> "game_loop"]
  /\ game_number = 0
  /\ game_has_ended = FALSE
  /\ current_player_move = NULL
  /\ event = NULL
  /\ my_client_turn = [t \in Threads |-> FALSE]
  /\ other_client_name = [t \in Threads |-> NULL]
  /\ next_number = [t \in Threads |-> 0]
  /\ move = [t \in Threads |-> NULL]
  /\ game_has_finished = [t \in Threads |-> FALSE]
  /\ winner_name = [t \in Threads |-> NULL]

-----------------------------------------------------------------------------
(* A thread that takes the place of one that ended in a game is not in it. *)
GamePlaceOf(t) ==
  game_pc' = IF pc[t] = "exited" THEN [game_pc EXCEPT ![t] = "game_loop"] ELSE game_pc

(* Up to GAME_STARTED. *)
MatchStep(t) ==
  /\ ServerStep(t) \/ CheckReady(t) \/ ClientStep(t)
  /\ GamePlaceOf(t)
  /\ UNCHANGED game

MeetAtBarrier ==
  /\ LeaveBarrier
  /\ UNCHANGED <<game_pc, game>>

(* The call returns SUCCESS_CODE or ERROR_CODE, or goes on. *)
InCall(t) ==
  /\ Goto(t, IF game_pc'[t] \in {"reinit", "exited"} THEN game_pc'[t] ELSE "game_loop")
  /\ UNCHANGED match

(* server_game_loop(). *)
LoopStep(t) == pc[t] = "game_loop" /\ GameStep(t) /\ InCall(t)

(* read_write_common_resources_protected(6, 0, ...) after the other thread has
   set the move to NULL: strlen(NULL) faults, and a fault in one thread ends
   the process. *)
ReadNullMove(t) ==
  /\ pc[t] = "game_loop"
  /\ game_pc[t] = "read_move"
  /\ current_player_move = NULL
  /\ pc' = [u \in Threads |-> "down"]
  /\ UNCHANGED <<game_pc, session, match, game>>

(* The locals of the call are gone. *)
LeaveCall(t) ==
  /\ game_pc' = [game_pc EXCEPT ![t] = "game_loop"]
  /\ ForgetLocals(t)

(* Variants marked "mutant" are plausible mistakes in the definition that
   follows them, which the properties are checked to notice. *)

(* mutant: the count of ready players is kept *)
ReturnToMenuCounted(t) ==
  /\ pc[t] = "reinit"
  /\ first_arrived' = 0
  /\ game_number' = 0
  /\ game_has_ended' = FALSE
  /\ current_player_move' = NULL
  /\ Goto(t, "menu")
  /\ LeaveCall(t)
  /\ UNCHANGED <<session, num_of_players_ready_to_play, sync_owner,
                 sync_abandoned, event>>

(* mutant: the number is kept *)
NumberKept == game_number

FirstNumber == 0

(* initialize_share_resources_to_zero(): one critical section of ghMutex.
   The event is not part of the resources and is left as it is. *)
ReturnToMenu(t) ==
  /\ Reinit(t)
  /\ game_number' = FirstNumber
  /\ game_has_ended' = FALSE
  /\ current_player_move' = NULL
  /\ LeaveCall(t)
  /\ UNCHANGED event

ServerNext ==
  \/ \E t \in Threads :
       MatchStep(t) \/ LoopStep(t) \/ ReadNullMove(t) \/ ReturnToMenu(t)
  \/ MeetAtBarrier

ServerSpec == ServerInit /\ [][ServerNext]_server_vars

-----------------------------------------------------------------------------
(***************************************************************************)
(* Properties.                                                             *)
(***************************************************************************)

(* Inside server_game_loop(), after its first lines. *)
InLoop(t) == pc[t] = "game_loop" /\ game_pc[t] # "game_loop"

ServerTypeOK ==
  /\ TypeOK
  /\ game_pc \in [Threads -> GamePlaces]
  /\ game_number \in Nat
  /\ game_has_ended \in BOOLEAN
  /\ current_player_move \in Moves \cup {NULL}
  /\ event \in Threads \cup {NULL}
  /\ my_client_turn \in [Threads -> BOOLEAN]
  /\ other_client_name \in [Threads -> Names \cup {NULL}]
  /\ next_number \in [Threads -> Nat]
  /\ move \in [Threads -> Moves \cup {NULL}]
  /\ game_has_finished \in [Threads -> BOOLEAN]
  /\ winner_name \in [Threads -> Names \cup {NULL}]

(* The whole server implements Matchmaking: whatever two threads do in a
   game, and however late one of them comes out of it, they meet, wait and
   give up as that module says. *)
ImplementsMatchmaking == Spec

(* The name a thread shows its client as the opponent's is the name of the
   client it plays against, for two players with different numbers: it is
   read from the shared resources only after the barrier, when the opponent
   may have ended and someone else have arrived in its place. *)
OpponentNamed ==
  \A t, u \in Threads :
    InLoop(t) /\ InLoop(u) /\ num_of_player[t] # num_of_player[u]
      => other_client_name[t] = client_name[u]

(* "game ended for both clients!" (service_thread.c:76): a thread that has
   returned from the game and is about to set the resources to zero finds
   the other one returned, too.  The code does not keep this: the mover need
   not wait for the waiter, which then reads a NULL move, or a verdict that
   is already zero. *)
GameEndedForBoth ==
  \A t, u \in Threads :
    pc[t] = "reinit" /\ pc[u] = "game_loop" =>
      game_pc[u] \notin {"wait", "blocked", "read_move", "read_ended"}
=============================================================================
