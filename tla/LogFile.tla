------------------------------- MODULE LogFile -------------------------------
(***************************************************************************)
(* The log files (WinWriteToFile() in Share/file_IO.c).                    *)
(*                                                                         *)
(* A service thread logs to Thread_log_<name>.txt, where <name> is what    *)
(* its client calls itself; a client logs to Client_log_<name>.txt.  A     *)
(* session of either keeps its own offset, from 0 on.  A log entry is      *)
(* written in pieces (whether it was sent or received, and the message),   *)
(* and each piece opens the file for itself alone, writes at the offset    *)
(* and closes it.  A file that cannot be opened ends the process by        *)
(* exit(1), and with it all its threads.                                   *)
(***************************************************************************)
EXTENDS Naturals, Sequences, FiniteSets

CONSTANTS
  ServiceThreads,   (* the threads of the server's process               *)
  Clients,          (* the clients, each a process of its own            *)
  Names,            (* the names clients give themselves                 *)
  NULL,
  MaxSessions,      (* bound: the sessions begun in a run                *)
  MaxOffset         (* bound: a longer log is not continued              *)

ASSUME WritersAssumption == ServiceThreads \cap Clients = {}
ASSUME NullAssumption == NULL \notin ServiceThreads \cup Clients
ASSUME BoundsAssumption == MaxSessions \in Nat /\ MaxOffset \in Nat

Writers == ServiceThreads \cup Clients

(* mutant: the same name in both programs *)
FileByName(w, name) == <<"Thread_log", name>>

log_file_name(w, name) == <<IF w \in ServiceThreads THEN "Thread_log" ELSE "Client_log", name>>

Files == {"Thread_log", "Client_log"} \X Names

(* The writers that end with w. *)
ProcessOf(w) == IF w \in ServiceThreads THEN ServiceThreads ELSE {w}

VARIABLES
  place,     (* off, or running a session: between two pieces, or with  *)
             (* the file opened or written to                           *)
  file,      (* the file of each session                                *)
  offset,    (* write_from_offset_to_log_file                           *)
  piece,     (* the piece of a log entry w is writing: <<kind, length>> *)
  content,   (* the files, as sequences of what was written there       *)
  openers,   (* the writers that have the file open                     *)
  begun,     (* history: the sessions begun so far                      *)
  number,    (* history: which of them each session is                  *)
  log,       (* history: what this session has written                  *)
  shared,    (* history: the writers whose session has run while        *)
             (* another one had the same file                           *)
  failed     (* history: the writers that a log has ended, until they   *)
             (* are started again                                       *)

session == <<place, file, offset, piece>>
disk == <<content, openers>>
history == <<begun, number, log, shared, failed>>
vars == <<session, disk, history>>

Running(w) == place[w] # "off"

Init ==
  /\ place = [w \in Writers |-> "off"]
  /\ file = [w \in Writers |-> NULL]
  /\ offset = [w \in Writers |-> 0]
  /\ piece = [w \in Writers |-> NULL]
  /\ content = [f \in Files |-> <<>>]
  /\ openers = [f \in Files |-> {}]
  /\ begun = 0
  /\ number = [w \in Writers |-> 0]
  /\ log = [w \in Writers |-> <<>>]
  /\ shared = {}
  /\ failed = {}

-----------------------------------------------------------------------------
(* A client starts, or a service thread has received CLIENT_REQUEST. *)
Start(w) ==
  /\ place[w] = "off"
  /\ begun < MaxSessions
  /\ \E name \in Names :
       LET f == log_file_name(w, name)
           others == {u \in Writers : Running(u) /\ file[u] = f}
       IN  /\ file' = [file EXCEPT ![w] = f]
           /\ shared' = shared \cup others \cup (IF others = {} THEN {} ELSE {w})
  /\ place' = [place EXCEPT ![w] = "between"]
  /\ offset' = [offset EXCEPT ![w] = 0]
  /\ begun' = begun + 1
  /\ number' = [number EXCEPT ![w] = begun']
  /\ log' = [log EXCEPT ![w] = <<>>]
  /\ failed' = failed \ {w}
  /\ UNCHANGED <<piece, disk>>

(* An entry for a message: "sent to ..." or "received from ..." and the
   message; or an entry of one piece, as "Player disconnected. Exiting.".
   Lines and messages differ in length. *)
Log(w) ==
  /\ place[w] = "between"
  /\ piece[w] = NULL
  /\ offset[w] < MaxOffset
  /\ \E p \in {<<"direction", 1>>, <<"line", 1>>} : piece' = [piece EXCEPT ![w] = p]
  /\ UNCHANGED <<place, file, offset, disk, history>>

(* CreateFileA() with share mode 0. *)
CreateFile(w) ==
  /\ place[w] = "between"
  /\ piece[w] # NULL
  /\ openers[file[w]] = {}
  /\ openers' = [openers EXCEPT ![file[w]] = {w}]
  /\ place' = [place EXCEPT ![w] = "opened"]
  /\ UNCHANGED <<file, offset, piece, content, history>>

(* mutant: the file is appended to *)
Appended(old, from, new) == old \o new

(* The sequence old with new from the offset on; behind the end of the file
   there is nothing. *)
Overwrite(old, from, new) ==
  [i \in 1..(IF Len(old) > from + Len(new) THEN Len(old) ELSE from + Len(new)) |->
     IF i \in (from + 1)..(from + Len(new)) THEN new[i - from]
     ELSE IF i <= Len(old) THEN old[i]
     ELSE NULL]

Written(w) == [i \in 1..piece[w][2] |-> <<number[w], piece[w][1]>>]

WriteFile(w) ==
  /\ place[w] = "opened"
  /\ content' = [content EXCEPT ![file[w]] = Overwrite(@, offset[w], Written(w))]
  /\ place' = [place EXCEPT ![w] = "written"]
  /\ log' = [log EXCEPT ![w] = @ \o Written(w)]
  /\ UNCHANGED <<file, offset, piece, openers, begun, number, shared, failed>>

(* mutant: the handle is not closed *)
OpenersKept(w) == openers

OpenersAfterClose(w) == [openers EXCEPT ![file[w]] = @ \ {w}]

(* mutant: the null terminator is counted, too *)
OffsetWithTerminator(w) == offset[w] + piece[w][2] + 1

OffsetAfter(w) == offset[w] + piece[w][2]

(* CloseHandle(); the caller advances its offset, and goes on to the message
   after the direction. *)
CloseFile(w) ==
  /\ place[w] = "written"
  /\ openers' = OpenersAfterClose(w)
  /\ offset' = [offset EXCEPT ![w] = OffsetAfter(w)]
  /\ IF piece[w][1] = "direction"
       THEN \E length \in 1..2 : piece' = [piece EXCEPT ![w] = <<"message", length>>]
       ELSE piece' = [piece EXCEPT ![w] = NULL]
  /\ place' = [place EXCEPT ![w] = "between"]
  /\ UNCHANGED <<file, content, history>>

EndSessions(ends) ==
  /\ place' = [u \in Writers |-> IF u \in ends THEN "off" ELSE place[u]]
  /\ file' = [u \in Writers |-> IF u \in ends THEN NULL ELSE file[u]]
  /\ piece' = [u \in Writers |-> IF u \in ends THEN NULL ELSE piece[u]]
  /\ offset' = [u \in Writers |-> IF u \in ends THEN 0 ELSE offset[u]]
  /\ number' = [u \in Writers |-> IF u \in ends THEN 0 ELSE number[u]]
  /\ log' = [u \in Writers |-> IF u \in ends THEN <<>> ELSE log[u]]
  /\ shared' = shared \ ends
  /\ UNCHANGED <<content, begun>>

(* A thread returns, or a client's main() does. *)
End(w) ==
  /\ place[w] = "between"
  /\ piece[w] = NULL
  /\ EndSessions({w})
  /\ UNCHANGED <<openers, failed>>

-----------------------------------------------------------------------------
(* The system closes the files of a process that has ended. *)
EndProcess(w) ==
  /\ EndSessions(ProcessOf(w))
  /\ openers' = [f \in Files |-> openers[f] \ ProcessOf(w)]

(* The file cannot be opened: exit(1). *)
CreateFileFails(w) ==
  /\ place[w] = "between"
  /\ piece[w] # NULL
  /\ openers[file[w]] # {}
  /\ failed' = failed \cup ProcessOf(w)
  /\ EndProcess(w)

(* The process is ended at any point: "exit" on the server's console, or the
   user closes the window of a client. *)
Kill(w) ==
  /\ Running(w)
  /\ UNCHANGED failed
  /\ EndProcess(w)

Next ==
  \E w \in Writers :
    \/ Start(w) \/ Log(w) \/ End(w)
    \/ CreateFile(w) \/ WriteFile(w) \/ CloseFile(w)
    \/ CreateFileFails(w) \/ Kill(w)

Spec == Init /\ [][Next]_vars

-----------------------------------------------------------------------------
(***************************************************************************)
(* Properties.                                                             *)
(***************************************************************************)
Places == {"off", "between", "opened", "written"}

(* Every file has one opener at most, which is in a call of
   WinWriteToFile(). *)
TypeOK ==
  /\ place \in [Writers -> Places]
  /\ file \in [Writers -> Files \cup {NULL}]
  /\ offset \in [Writers -> 0..(MaxOffset + 3)]
  /\ \A f \in Files :
       /\ Cardinality(openers[f]) <= 1
       /\ \A w \in openers[f] : place[w] \in {"opened", "written"} /\ file[w] = f

(* Logging ends a process only when two threads of the server, or two clients
   on one machine, have the same file at the same time: a writer is never in
   its own way, neither by an earlier call nor by an earlier session, and the
   server and a client of one name are not in each other's. *)
InEachOthersWay(u, v) ==
  /\ u # v
  /\ {u, v} \subseteq ServiceThreads \/ {u, v} \subseteq Clients
  /\ Running(u) /\ Running(v)
  /\ file[u] = file[v]

EndedBySharingOnly ==
  [][\A w \in failed' \ failed :
       \E u \in ProcessOf(w), v \in Writers : InEachOthersWay(u, v)]_vars

(* Between two pieces a session that has had its file to itself finds there
   exactly what it has logged, in order and without a gap, with its offset
   behind it; only older logs, which were longer, show behind that. *)
LogIsKept ==
  \A w \in Writers :
    place[w] = "between" /\ w \notin shared =>
      /\ offset[w] = Len(log[w])
      /\ log[w] = SubSeq(content[file[w]], 1, Len(log[w]))
=============================================================================
