------------------------------- MODULE Acceptor -------------------------------
(***************************************************************************)
(* The server's main thread (server/main.c): it accepts connections, gives *)
(* each a service thread while a slot is free and denies it otherwise,     *)
(* until the socket it listens on is closed by the thread that reads the   *)
(* console, or until anything fails.                                       *)
(*                                                                         *)
(* A service thread is here the three things main() can tell of it: it has *)
(* been created, it has copied its socket from the slot, it has ended; and *)
(* it approves its client.  What it does then is ServiceThreads.           *)
(*                                                                         *)
(* The clients are here while they connect (establish_a_connection_with_   *)
(* server() in client/main.c).  A client has one socket, so a member of    *)
(* Connections is a client as well as its connection.                      *)
(***************************************************************************)
EXTENDS Integers

CONSTANTS
  NUM_OF_WORKER_THREADS,   (* the number of slots: 2                      *)
  Connections,             (* the clients of a run, each with its socket  *)
  NULL,                    (* no handle, no connection                    *)
  UNINIT                   (* what an array holds before it is written to *)

ASSUME SlotsAssumption == NUM_OF_WORKER_THREADS \in Nat \ {0}
ASSUME ValuesAssumption ==
  /\ NULL \notin Connections \cup {"thread"}
  /\ UNINIT \notin Connections \cup {"thread"}
  /\ NULL # UNINIT

Slots == 0..(NUM_OF_WORKER_THREADS - 1)

VARIABLES
  main_pc,        (* where main() is                                       *)
  ThreadHandles,  (* NULL, UNINIT or "thread" for each slot                *)
  ThreadInputs,   (* the socket of each slot                               *)
  AcceptSocket,   (* the connection main() is dealing with                 *)
  Ind,            (* the slot main() is looking at                         *)
  MainSocket,     (* whether the listening socket is open                  *)
  has_user_entered_exit,
  worker,         (* the thread of each slot: none, created, serving, ended *)
  accept_socket,  (* the local copy of its socket in ServiceThread()       *)
  sock,           (* server side: none, pending, open or closed            *)
  answer,         (* NULL, or what the server has sent to CLIENT_REQUEST   *)
  client          (* where each client is: see ClientPlaces                *)

slots == <<ThreadHandles, ThreadInputs>>
workers == <<worker, accept_socket>>
console == <<MainSocket, has_user_entered_exit>>
net == <<sock, answer, client>>
vars == <<main_pc, slots, AcceptSocket, Ind, console, workers, net>>

(* off: not started; offline: connect() has failed; silent: connected, and
   CLIENT_REQUEST has not come; request: it has; denied: SERVER_DENIED has
   come; menu: in the main menu; gone: the program has ended. *)
ClientPlaces == {"off", "offline", "silent", "request", "denied", "menu", "gone"}

Init ==
  /\ main_pc = "startup"
  /\ ThreadHandles = [i \in Slots |-> UNINIT]
  /\ ThreadInputs = [i \in Slots |-> UNINIT]
  /\ AcceptSocket = NULL
  /\ Ind = 0
  /\ MainSocket = FALSE
  /\ has_user_entered_exit = FALSE
  /\ worker = [i \in Slots |-> "none"]
  /\ accept_socket = [i \in Slots |-> NULL]
  /\ sock = [c \in Connections |-> "none"]
  /\ answer = [c \in Connections |-> NULL]
  /\ client = [c \in Connections |-> "off"]

-----------------------------------------------------------------------------
(* main() up to the accept loop.                                           *)

(* socket(), inet_addr(), bind() or listen() fails: goto server_cleanup. *)
StartupFails ==
  /\ main_pc = "startup"
  /\ main_pc' = "cleanup"
  /\ UNCHANGED <<slots, AcceptSocket, Ind, console, workers, net>>

Listen ==
  /\ main_pc = "startup"
  /\ MainSocket' = TRUE
  /\ ThreadHandles' = [i \in Slots |-> NULL]
  /\ main_pc' = "syncing"
  /\ UNCHANGED <<ThreadInputs, AcceptSocket, Ind, has_user_entered_exit, workers, net>>

(* create_thread_syncing_objects() and the thread that reads the console. *)
CreateObjects ==
  /\ main_pc = "syncing"
  /\ main_pc' \in {"accept", "cleanup"}
  /\ UNCHANGED <<slots, AcceptSocket, Ind, console, workers, net>>

-----------------------------------------------------------------------------
(* accept_or_deny_connections().                                           *)

Accept(c) ==
  /\ main_pc = "accept"
  /\ MainSocket
  /\ sock[c] = "pending"
  /\ sock' = [sock EXCEPT ![c] = "open"]
  /\ AcceptSocket' = c
  /\ Ind' = 0
  /\ main_pc' = "find"
  /\ UNCHANGED <<slots, console, workers, answer, client>>

(* accept() is interrupted by the closing of MainSocket, or called after it. *)
AcceptFails ==
  /\ main_pc = "accept"
  /\ ~MainSocket
  /\ Ind' = 0
  /\ main_pc' = "cleanup"
  /\ UNCHANGED <<slots, AcceptSocket, console, workers, net>>

(* Variants marked "mutant" are plausible mistakes in the definition that
   follows them, which the properties are checked to notice. *)

(* mutant: any answer of WaitForSingleObject() means that the thread ended *)
SlotIsTaken == TRUE

SlotIsUnused == ThreadHandles[Ind] = NULL \/ worker[Ind] = "ended"

(* One round of find_index_of_unused_thread(): a slot without a thread, or
   with one that has ended, is taken; a thread may end right after it has
   been passed over. *)
PollSlot ==
  /\ main_pc = "find"
  /\ Ind \in Slots
  /\ IF SlotIsUnused
       THEN /\ ThreadHandles' = [ThreadHandles EXCEPT ![Ind] = NULL]
            /\ main_pc' = "create"
            /\ UNCHANGED Ind
       ELSE /\ Ind' = Ind + 1
            /\ UNCHANGED <<ThreadHandles, main_pc>>
  /\ UNCHANGED <<ThreadInputs, AcceptSocket, console, workers, net>>

(* mutant: off by one *)
AllTriedButOne == Ind = NUM_OF_WORKER_THREADS - 1

AllTried == Ind = NUM_OF_WORKER_THREADS

NoSlot ==
  /\ main_pc = "find"
  /\ AllTried
  /\ main_pc' = "deny_recv"
  /\ UNCHANGED <<slots, AcceptSocket, Ind, console, workers, net>>

(* The slot's old socket is overwritten as it is.  The thread gets a pointer
   to the slot. *)
CreateThread ==
  /\ main_pc = "create"
  /\ ThreadInputs' = [ThreadInputs EXCEPT ![Ind] = AcceptSocket]
  /\ \/ /\ ThreadHandles' = [ThreadHandles EXCEPT ![Ind] = "thread"]
        /\ worker' = [worker EXCEPT ![Ind] = "created"]
        /\ main_pc' = "accept"
        /\ AcceptSocket' = NULL
        /\ UNCHANGED Ind
     \/ /\ main_pc' = "cleanup"
        /\ Ind' = 0
        /\ UNCHANGED <<ThreadHandles, worker, AcceptSocket>>
  /\ UNCHANGED <<console, accept_socket, net>>

(* The CLIENT_REQUEST of a client to be denied is waited for by main()
   itself, for WAIT_FOR_RESPONSE at most. *)
DenyRecv ==
  /\ main_pc = "deny_recv"
  /\ client[AcceptSocket] = "request"
  /\ main_pc' = "deny_send"
  /\ UNCHANGED <<slots, AcceptSocket, Ind, console, workers, net>>

(* mutant: the answer goes into the log only *)
DenySilently ==
  /\ main_pc = "deny_send"
  /\ AcceptSocket' = NULL
  /\ main_pc' = "accept"
  /\ UNCHANGED <<slots, Ind, console, workers, net>>

DenySend ==
  /\ main_pc = "deny_send"
  /\ client[AcceptSocket] = "request"
  /\ answer' = [answer EXCEPT ![AcceptSocket] = "SERVER_DENIED"]
  /\ sock' = [sock EXCEPT ![AcceptSocket] = "closed"]
  /\ AcceptSocket' = NULL
  /\ main_pc' = "accept"
  /\ UNCHANGED <<slots, Ind, console, workers, client>>

(* The client is silent for too long, or gone: the accept loop returns
   ERROR_CODE, and main() goes to its cleanup. *)
DenyFails ==
  /\ main_pc \in {"deny_recv", "deny_send"}
  /\ client[AcceptSocket] # "request"
  /\ Ind' = 0
  /\ main_pc' = "cleanup"
  /\ UNCHANGED <<slots, AcceptSocket, console, workers, net>>

-----------------------------------------------------------------------------
(* cleanup_worker_threads_and_sockets(): only a slot with a handle has a
   socket to close.  An uninitialised handle may look like either, and an
   uninitialised socket closes none of the connections. *)
CleanUpSlot ==
  /\ main_pc = "cleanup"
  /\ Ind \in Slots
  /\ \E used \in BOOLEAN :
       /\ ThreadHandles[Ind] # UNINIT => used = (ThreadHandles[Ind] # NULL)
       /\ sock' = [c \in Connections |->
                     IF used /\ ThreadInputs[Ind] = c THEN "closed" ELSE sock[c]]
  /\ ThreadHandles' = [ThreadHandles EXCEPT ![Ind] = NULL]
  /\ Ind' = Ind + 1
  /\ UNCHANGED <<main_pc, ThreadInputs, AcceptSocket, console, workers, answer, client>>

(* main() returns, and the process ends with every thread and socket of it. *)
EndProcess ==
  /\ main_pc = "cleanup"
  /\ Ind = NUM_OF_WORKER_THREADS
  /\ main_pc' = "ended"
  /\ MainSocket' = FALSE
  /\ worker' = [i \in Slots |-> IF worker[i] = "none" THEN "none" ELSE "ended"]
  /\ sock' = [c \in Connections |-> IF sock[c] = "none" THEN "none" ELSE "closed"]
  /\ UNCHANGED <<slots, AcceptSocket, Ind, has_user_entered_exit, accept_socket,
                 answer, client>>

-----------------------------------------------------------------------------
(* mutant: MainSocket stays open *)
ClosedByExitNothing == {MainSocket}

(* The parameters of the console's thread are locals of
   accept_or_deny_connections(); once that has returned, the thread closes
   whatever its pointer finds there. *)
ClosedByExit == IF main_pc = "cleanup" THEN {MainSocket, FALSE} ELSE {FALSE}

(* check_for_exit_input(): "exit" closes MainSocket. *)
ExitEntered ==
  /\ main_pc \notin {"startup", "syncing", "ended"}
  /\ ~has_user_entered_exit
  /\ has_user_entered_exit' = TRUE
  /\ MainSocket' \in ClosedByExit
  /\ UNCHANGED <<main_pc, slots, AcceptSocket, Ind, workers, net>>

(* mutant: the thread is given the address of the wrong array *)
SocketGivenFromHandles(i) == ThreadHandles[i]

SocketGiven(i) == ThreadInputs[i]

(* SOCKET accept_socket = *t_socket, the first line of ServiceThread(). *)
ThreadStarts(i) ==
  /\ worker[i] = "created"
  /\ worker' = [worker EXCEPT ![i] = "serving"]
  /\ accept_socket' = [accept_socket EXCEPT ![i] = SocketGiven(i)]
  /\ UNCHANGED <<main_pc, slots, AcceptSocket, Ind, console, net>>

(* approve_client_request(). *)
ThreadApproves(i) ==
  /\ worker[i] = "serving"
  /\ client[accept_socket[i]] = "request"
  /\ answer[accept_socket[i]] = NULL
  /\ answer' = [answer EXCEPT ![accept_socket[i]] = "SERVER_APPROVED"]
  /\ UNCHANGED <<main_pc, slots, AcceptSocket, Ind, console, workers, sock, client>>

(* No CLIENT_REQUEST within WAIT_FOR_RESPONSE.  A client that asks later is
   not heard any more; it counts as gone. *)
ThreadTimesOut(i) ==
  /\ worker[i] = "serving"
  /\ client[accept_socket[i]] \in {"silent", "gone"}
  /\ answer[accept_socket[i]] = NULL
  /\ worker' = [worker EXCEPT ![i] = "ended"]
  /\ client' = [client EXCEPT ![accept_socket[i]] = "gone"]
  /\ UNCHANGED <<main_pc, slots, AcceptSocket, Ind, console, accept_socket, sock, answer>>

(* Some time after the approval the thread returns.  It closes its socket on
   CLIENT_DISCONNECT only. *)
ThreadEnds(i) ==
  /\ worker[i] = "serving"
  /\ answer[accept_socket[i]] # NULL
  /\ worker' = [worker EXCEPT ![i] = "ended"]
  /\ \/ sock' = [sock EXCEPT ![accept_socket[i]] = "closed"]
     \/ UNCHANGED sock
  /\ UNCHANGED <<main_pc, slots, AcceptSocket, Ind, console, accept_socket, answer, client>>

-----------------------------------------------------------------------------
(* The clients.                                                            *)

ClientGoes(c, to) == client' = [client EXCEPT ![c] = to]

(* mutant: another socket for each attempt *)
SocketIsFresh(c) == TRUE

(* connect() fails on a socket that has been connected, also when the server
   has closed its end; one on which it has failed can be used again. *)
SocketIsUnused(c) == sock[c] = "none"

(* connect(), at first or from reconnect_or_exit().  CLIENT_REQUEST is sent
   after it, but not to a server that has denied the client: there the menu
   follows. *)
Connect(c) ==
  /\ client[c] \in {"off", "offline", "denied"}
  /\ MainSocket
  /\ SocketIsUnused(c)
  /\ sock' = [sock EXCEPT ![c] = "pending"]
  /\ ClientGoes(c, IF client[c] = "denied" THEN "menu" ELSE "silent")
  /\ UNCHANGED <<main_pc, slots, AcceptSocket, Ind, console, workers, answer>>

ConnectFails(c) ==
  /\ client[c] = "off"
  /\ ~MainSocket
  /\ ClientGoes(c, "offline")
  /\ UNCHANGED <<main_pc, slots, AcceptSocket, Ind, console, workers, sock, answer>>

SendRequest(c) ==
  /\ client[c] = "silent"
  /\ ClientGoes(c, "request")
  /\ UNCHANGED <<main_pc, slots, AcceptSocket, Ind, console, workers, sock, answer>>

RecvAnswer(c) ==
  /\ client[c] = "request"
  /\ answer[c] # NULL
  /\ ClientGoes(c, IF answer[c] = "SERVER_DENIED" THEN "denied" ELSE "menu")
  /\ UNCHANGED <<main_pc, slots, AcceptSocket, Ind, console, workers, sock, answer>>

(* The server has closed the connection without an answer. *)
RecvFails(c) ==
  /\ client[c] = "request"
  /\ answer[c] = NULL
  /\ sock[c] = "closed"
  /\ ClientGoes(c, "gone")
  /\ UNCHANGED <<main_pc, slots, AcceptSocket, Ind, console, workers, sock, answer>>

(* The user exits, a receive times out, the program is killed or cut off. *)
Leave(c) ==
  /\ client[c] \notin {"off", "gone"}
  /\ ClientGoes(c, "gone")
  /\ UNCHANGED <<main_pc, slots, AcceptSocket, Ind, console, workers, sock, answer>>

MainStep ==
  \/ StartupFails \/ Listen \/ CreateObjects
  \/ (\E c \in Connections : Accept(c)) \/ AcceptFails
  \/ PollSlot \/ NoSlot \/ CreateThread
  \/ DenyRecv \/ DenySend \/ DenyFails
  \/ CleanUpSlot \/ EndProcess

Next ==
  \/ MainStep
  \/ ExitEntered
  \/ \E i \in Slots :
       ThreadStarts(i) \/ ThreadApproves(i) \/ ThreadTimesOut(i) \/ ThreadEnds(i)
  \/ \E c \in Connections :
       \/ Connect(c) \/ ConnectFails(c) \/ SendRequest(c)
       \/ RecvAnswer(c) \/ RecvFails(c) \/ Leave(c)
  \/ main_pc = "ended" /\ UNCHANGED vars

Spec == Init /\ [][Next]_vars

(* main() never waits for ever once there is a connection or an "exit": its
   receives time out.  Threads start, and approve the clients that ask; what
   has been sent arrives.  Nobody has to connect, to ask or to leave. *)
FairSpec ==
  /\ Spec
  /\ WF_vars(MainStep)
  /\ \A i \in Slots : WF_vars(ThreadStarts(i)) /\ WF_vars(ThreadApproves(i))
  /\ \A c \in Connections : WF_vars(RecvAnswer(c)) /\ WF_vars(RecvFails(c))

-----------------------------------------------------------------------------
(***************************************************************************)
(* Properties.                                                             *)
(***************************************************************************)

Running(i) == worker[i] \in {"created", "serving"}

TypeOK ==
  /\ main_pc \in {"startup", "syncing", "accept", "find", "create", "deny_recv",
                  "deny_send", "cleanup", "ended"}
  /\ ThreadHandles \in [Slots -> {NULL, UNINIT, "thread"}]
  /\ ThreadInputs \in [Slots -> Connections \cup {UNINIT}]
  /\ AcceptSocket \in Connections \cup {NULL}
  /\ Ind \in 0..NUM_OF_WORKER_THREADS
  /\ MainSocket \in BOOLEAN
  /\ has_user_entered_exit \in BOOLEAN
  /\ worker \in [Slots -> {"none", "created", "serving", "ended"}]
  /\ accept_socket \in [Slots -> Connections \cup {NULL}]
  /\ sock \in [Connections -> {"none", "pending", "open", "closed"}]
  /\ answer \in [Connections -> {NULL, "SERVER_APPROVED", "SERVER_DENIED"}]
  /\ client \in [Connections -> ClientPlaces]

(* A running thread works on the socket that was accepted for it, which no
   other running thread works on and main() is not about to give away: the
   slot a thread has a pointer to is not reused before the thread has copied
   the socket, and not while it runs. *)
SocketsAreOwned ==
  \A i \in Slots : Running(i) =>
    /\ worker[i] = "serving" => accept_socket[i] = ThreadInputs[i]
    /\ ThreadInputs[i] # AcceptSocket
    /\ \A j \in Slots : Running(j) /\ ThreadInputs[i] = ThreadInputs[j] => i = j

(* A running thread's slot has its handle until the cleanup comes to it: no
   thread is lost to the polling and none escapes the cleanup. *)
HandlesAreKept ==
  \A i \in Slots :
    Running(i) /\ ~(main_pc = "cleanup" /\ i < Ind) => ThreadHandles[i] = "thread"

(* A client is denied only when every slot has been given to a thread: a
   slot that was never used, or that was found free, is used first. *)
DeniedOnlyWhenFull ==
  main_pc \in {"deny_recv", "deny_send"} => \A i \in Slots : ThreadHandles[i] = "thread"

(* A client is in the menu only if a thread has approved it: no way through
   reconnect_or_exit() leads there, and nobody is taken for a player whom
   main() has denied. *)
MenuMeansApproved ==
  \A c \in Connections : client[c] = "menu" => answer[c] = "SERVER_APPROVED"

(* Every CLIENT_REQUEST is answered: its client comes to the menu, is told
   that it is denied, or loses the connection because the server ends, also
   when main() is busy denying somebody else, and when slots are given away
   while threads end. *)
RequestAnswered ==
  \A c \in Connections : client[c] = "request" ~> client[c] \in {"menu", "denied", "gone"}

(* "exit" ends the server, also while main() is busy denying a client. *)
ExitEndsServer == has_user_entered_exit ~> main_pc = "ended"

(* "loop to open threads and aceept connections as needed. until exit is
   entered." (main.c:132-133): once it accepts connections, the server stops
   for "exit" only, or because it is out of threads.  The code does not keep
   this: a third client that connects and says nothing stops it. *)
ServesUntilExit ==
  [][DenyFails => has_user_entered_exit]_vars
=============================================================================
