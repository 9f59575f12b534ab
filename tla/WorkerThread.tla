---------------------------- MODULE WorkerThread ----------------------------
(***************************************************************************)
(* What every part of a service thread has: the connection to its client   *)
(* and the two values it keeps for the whole session (ServiceThread() in   *)
(* server/service_thread.c, lines 32-45).  Its place in the code is a      *)
(* variable of each part.                                                  *)
(*                                                                         *)
(* A thread is identified with its slot in ThreadHandles; there are        *)
(* NUM_OF_WORKER_THREADS = 2 of them.  num_of_player is 0 while the local  *)
(* variable of ServiceThread() has not been assigned.                      *)
(***************************************************************************)
EXTENDS Integers, FiniteSets

CONSTANTS
  Threads,   (* the two service threads                               *)
  Names,     (* the names clients give themselves                     *)
  NULL,      (* no value: an unset name, a NULL move, a free mutex     *)
  Leavers    (* the threads whose client may go away during a session *)

ASSUME ThreadsAssumption == \E a, b \in Threads : a # b /\ Threads = {a, b}
ASSUME LeaversAssumption == Leavers \subseteq Threads
ASSUME NullAssumption == NULL \notin Names /\ NULL \notin Threads

VARIABLES
  connected,       (* whether the client at the other end is still there *)
  client_name,     (* the name its client sent in CLIENT_REQUEST        *)
  num_of_player,   (* 1: arrived first and moves first, 2: second       *)
  player_name      (* resources_struct.player_1_name and .player_2_name *)

session == <<connected, client_name, num_of_player, player_name>>

(***************************************************************************)
(* The client of t goes away: it quits after an error or a timeout, it is  *)
(* killed, or the network drops it.                                        *)
(***************************************************************************)
ClientLeaves(t) ==
  /\ t \in Leavers
  /\ connected[t]
  /\ connected' = [connected EXCEPT ![t] = FALSE]
  /\ UNCHANGED <<client_name, num_of_player, player_name>>

(***************************************************************************)
(* send_message() or recv_and_extract_communication_message() of t fails,  *)
(* the caller returns ERROR_CODE, and so does every caller up to           *)
(* ServiceThread(), which ends.  A send to a client that is gone may also  *)
(* still succeed (the data is only buffered); a receive from it always     *)
(* fails.                                                                  *)
(***************************************************************************)
ConnectionError(t) == ~connected[t] /\ UNCHANGED session
=============================================================================
