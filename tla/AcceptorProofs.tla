---------------------------- MODULE AcceptorProofs ----------------------------
(***************************************************************************)
(* The safety properties of Acceptor, for any number of slots and any set  *)
(* of clients.                                                             *)
(*                                                                         *)
(* What main() is about to do with a slot or a connection rests on what it *)
(* has seen some steps before, while threads go on (MainInv); a socket     *)
(* that a thread runs on has been accepted, so that it is none that main() *)
(* has yet to accept (OwnerInv).                                           *)
(***************************************************************************)
EXTENDS Acceptor, TLAPS

(* Before the accept loop there are no threads. *)
StartInv ==
  /\ main_pc \in {"startup", "syncing"} => \A i \in Slots : worker[i] = "none"
  /\ main_pc \notin {"startup", "cleanup", "ended"} =>
       \A i \in Slots : ThreadHandles[i] # UNINIT

(* What main() knows at its places in the accept loop. *)
MainInv ==
  /\ main_pc \in {"find", "create", "deny_recv", "deny_send"} =>
       AcceptSocket \in Connections
  /\ main_pc = "create" => Ind \in Slots /\ ThreadHandles[Ind] = NULL
  /\ main_pc = "find" => \A i \in Slots : i < Ind => ThreadHandles[i] = "thread"

Accepted(c) == c \in Connections /\ sock[c] \in {"open", "closed"}

OwnerInv ==
  /\ AcceptSocket # NULL => Accepted(AcceptSocket)
  /\ \A i \in Slots : Running(i) => Accepted(ThreadInputs[i])

(* A client that has come past connect() has used its socket. *)
UsedInv ==
  \A c \in Connections :
    client[c] \in {"silent", "request", "denied", "menu"} => sock[c] # "none"

-----------------------------------------------------------------------------
(* Type correctness. *)

LEMMA TypeInit == Init => TypeOK
<1> SUFFICES ASSUME Init PROVE TypeOK
  OBVIOUS
<1>1. client \in [Connections -> ClientPlaces]
  BY DEF Init, ClientPlaces
<1>2. Ind \in 0..NUM_OF_WORKER_THREADS
  BY SlotsAssumption DEF Init
<1> QED
  BY <1>1, <1>2 DEF Init, TypeOK

(* A thread copies a socket, and main() stores one (StartInv, MainInv,
   OwnerInv). *)
LEMMA TypeStep == TypeOK /\ MainInv /\ OwnerInv /\ [Next]_vars => TypeOK'
<1> SUFFICES ASSUME TypeOK, MainInv, OwnerInv, [Next]_vars PROVE TypeOK'
  OBVIOUS
<1> USE SlotsAssumption, ValuesAssumption
        DEF TypeOK, MainInv, OwnerInv, Accepted, Running, slots, workers,
            console, net, ClientPlaces, Slots
<1>1. ASSUME StartupFails PROVE TypeOK'
  BY <1>1 DEF StartupFails
<1>2. ASSUME Listen PROVE TypeOK'
  BY <1>2 DEF Listen
<1>3. ASSUME CreateObjects PROVE TypeOK'
  BY <1>3 DEF CreateObjects
<1>4. ASSUME NEW c \in Connections, Accept(c) PROVE TypeOK'
  BY <1>4 DEF Accept
<1>5. ASSUME AcceptFails PROVE TypeOK'
  BY <1>5 DEF AcceptFails
<1>6. ASSUME PollSlot PROVE TypeOK'
  BY <1>6 DEF PollSlot, SlotIsUnused
<1>7. ASSUME NoSlot PROVE TypeOK'
  BY <1>7 DEF NoSlot, AllTried
<1>8. ASSUME CreateThread PROVE TypeOK'
  BY <1>8 DEF CreateThread
<1>9. ASSUME DenyRecv PROVE TypeOK'
  BY <1>9 DEF DenyRecv
<1>10. ASSUME DenySend PROVE TypeOK'
  BY <1>10 DEF DenySend
<1>11. ASSUME DenyFails PROVE TypeOK'
  BY <1>11 DEF DenyFails
<1>12. ASSUME CleanUpSlot PROVE TypeOK'
  BY <1>12 DEF CleanUpSlot
<1>13. ASSUME EndProcess PROVE TypeOK'
  BY <1>13 DEF EndProcess
<1>14. ASSUME ExitEntered PROVE TypeOK'
  BY <1>14 DEF ExitEntered, ClosedByExit
<1>15. ASSUME NEW i \in Slots, ThreadStarts(i) PROVE TypeOK'
  BY <1>15 DEF ThreadStarts, SocketGiven
<1>16. ASSUME NEW i \in Slots, ThreadApproves(i) PROVE TypeOK'
  BY <1>16 DEF ThreadApproves
<1>17. ASSUME NEW i \in Slots, ThreadTimesOut(i) PROVE TypeOK'
  BY <1>17 DEF ThreadTimesOut
<1>18. ASSUME NEW i \in Slots, ThreadEnds(i) PROVE TypeOK'
  BY <1>18 DEF ThreadEnds
<1>19. ASSUME NEW c \in Connections, Connect(c) PROVE TypeOK'
  BY <1>19 DEF Connect, ClientGoes, SocketIsUnused
<1>20. ASSUME NEW c \in Connections, ConnectFails(c) PROVE TypeOK'
  BY <1>20 DEF ConnectFails, ClientGoes
<1>21. ASSUME NEW c \in Connections, SendRequest(c) PROVE TypeOK'
  BY <1>21 DEF SendRequest, ClientGoes
<1>22. ASSUME NEW c \in Connections, RecvAnswer(c) PROVE TypeOK'
  BY <1>22 DEF RecvAnswer, ClientGoes
<1>23. ASSUME NEW c \in Connections, RecvFails(c) PROVE TypeOK'
  BY <1>23 DEF RecvFails, ClientGoes
<1>24. ASSUME NEW c \in Connections, Leave(c) PROVE TypeOK'
  BY <1>24 DEF Leave, ClientGoes
<1>25. ASSUME UNCHANGED vars PROVE TypeOK'
  BY <1>25 DEF vars, slots, workers, console, net
<1> QED
  BY <1>1, <1>2, <1>3, <1>4, <1>5, <1>6, <1>7, <1>8, <1>9, <1>10, <1>11,
     <1>12, <1>13, <1>14, <1>15, <1>16, <1>17, <1>18, <1>19, <1>20, <1>21,
     <1>22, <1>23, <1>24, <1>25
     DEF Next, MainStep

-----------------------------------------------------------------------------
(* The parts of the invariant. *)

LEMMA PartsInit == Init => /\ StartInv /\ MainInv /\ OwnerInv /\ UsedInv
                           /\ HandlesAreKept /\ SocketsAreOwned
                           /\ DeniedOnlyWhenFull /\ MenuMeansApproved
BY ValuesAssumption
   DEF Init, StartInv, MainInv, OwnerInv, UsedInv, HandlesAreKept,
       SocketsAreOwned, DeniedOnlyWhenFull, MenuMeansApproved, Running

(* Threads are created in the accept loop, and Listen has initialised the
   handles. *)
LEMMA StartStep == TypeOK /\ StartInv /\ [Next]_vars => StartInv'
<1> SUFFICES ASSUME TypeOK, StartInv, [Next]_vars PROVE StartInv'
  OBVIOUS
<1> USE SlotsAssumption, ValuesAssumption
        DEF slots, workers, console, net, TypeOK, StartInv, Slots
<1>1. ASSUME StartupFails PROVE StartInv'
  BY <1>1 DEF StartupFails
<1>2. ASSUME Listen PROVE StartInv'
  BY <1>2 DEF Listen
<1>3. ASSUME CreateObjects PROVE StartInv'
  BY <1>3 DEF CreateObjects
<1>4. ASSUME NEW c \in Connections, Accept(c) PROVE StartInv'
  BY <1>4 DEF Accept
<1>5. ASSUME AcceptFails PROVE StartInv'
  BY <1>5 DEF AcceptFails
<1>6. ASSUME PollSlot PROVE StartInv'
  BY <1>6 DEF PollSlot, SlotIsUnused
<1>7. ASSUME NoSlot PROVE StartInv'
  BY <1>7 DEF NoSlot, AllTried
<1>8. ASSUME CreateThread PROVE StartInv'
  BY <1>8 DEF CreateThread
<1>9. ASSUME DenyRecv PROVE StartInv'
  BY <1>9 DEF DenyRecv
<1>10. ASSUME DenySend PROVE StartInv'
  BY <1>10 DEF DenySend
<1>11. ASSUME DenyFails PROVE StartInv'
  BY <1>11 DEF DenyFails
<1>12. ASSUME CleanUpSlot PROVE StartInv'
  BY <1>12 DEF CleanUpSlot
<1>13. ASSUME EndProcess PROVE StartInv'
  BY <1>13 DEF EndProcess
<1>14. ASSUME NEW i \in Slots, ThreadStarts(i) PROVE StartInv'
  BY <1>14 DEF ThreadStarts, SocketGiven
<1>15. ASSUME NEW i \in Slots, ThreadTimesOut(i) PROVE StartInv'
  BY <1>15 DEF ThreadTimesOut
<1>16. ASSUME NEW i \in Slots, ThreadEnds(i) PROVE StartInv'
  BY <1>16 DEF ThreadEnds
<1>17. ASSUME UNCHANGED <<main_pc, ThreadHandles, worker>> PROVE StartInv'
  BY <1>17
<1>18. ASSUME \/ ExitEntered
           \/ \E i \in Slots : ThreadApproves(i)
           \/ \E c \in Connections : Connect(c) \/ ConnectFails(c)
                                     \/ SendRequest(c) \/ RecvAnswer(c)
                                     \/ RecvFails(c) \/ Leave(c)
      PROVE StartInv'
  BY <1>18, <1>17 DEF ExitEntered, ClosedByExit, ThreadApproves, Connect,
     ClientGoes, SocketIsUnused, ConnectFails, SendRequest, RecvAnswer,
     RecvFails, Leave
<1> QED
  BY <1>1, <1>2, <1>3, <1>4, <1>5, <1>6, <1>7, <1>8, <1>9, <1>10, <1>11,
     <1>12, <1>13, <1>14, <1>15, <1>16, <1>17, <1>18
     DEF Next, MainStep, vars, slots, workers, console, net

(* A slot is passed over only with a thread in it. *)
LEMMA MainStepKeepsMainInv ==
  TypeOK /\ StartInv /\ MainInv /\ [Next]_vars => MainInv'
<1> SUFFICES ASSUME TypeOK, StartInv, MainInv, [Next]_vars PROVE MainInv'
  OBVIOUS
<1> USE SlotsAssumption, ValuesAssumption
        DEF slots, workers, console, net, TypeOK, StartInv, MainInv, Slots
<1>1. ASSUME StartupFails PROVE MainInv'
  BY <1>1 DEF StartupFails
<1>2. ASSUME Listen PROVE MainInv'
  BY <1>2 DEF Listen
<1>3. ASSUME CreateObjects PROVE MainInv'
  BY <1>3 DEF CreateObjects
<1>4. ASSUME NEW c \in Connections, Accept(c) PROVE MainInv'
  BY <1>4 DEF Accept
<1>5. ASSUME AcceptFails PROVE MainInv'
  BY <1>5 DEF AcceptFails
<1>6. ASSUME PollSlot PROVE MainInv'
  BY <1>6 DEF PollSlot, SlotIsUnused
<1>7. ASSUME NoSlot PROVE MainInv'
  BY <1>7 DEF NoSlot, AllTried
<1>8. ASSUME CreateThread PROVE MainInv'
  BY <1>8 DEF CreateThread
<1>9. ASSUME DenyRecv PROVE MainInv'
  BY <1>9 DEF DenyRecv
<1>10. ASSUME DenySend PROVE MainInv'
  BY <1>10 DEF DenySend
<1>11. ASSUME DenyFails PROVE MainInv'
  BY <1>11 DEF DenyFails
<1>12. ASSUME CleanUpSlot PROVE MainInv'
  BY <1>12 DEF CleanUpSlot
<1>13. ASSUME EndProcess PROVE MainInv'
  BY <1>13 DEF EndProcess
<1>14. ASSUME UNCHANGED <<main_pc, AcceptSocket, Ind, ThreadHandles>>
      PROVE MainInv'
  BY <1>14
<1>15. ASSUME \/ ExitEntered
           \/ \E i \in Slots : ThreadStarts(i) \/ ThreadApproves(i)
                               \/ ThreadTimesOut(i) \/ ThreadEnds(i)
           \/ \E c \in Connections : Connect(c) \/ ConnectFails(c)
                                     \/ SendRequest(c) \/ RecvAnswer(c)
                                     \/ RecvFails(c) \/ Leave(c)
      PROVE MainInv'
  BY <1>15, <1>14 DEF ExitEntered, ClosedByExit, ThreadStarts, SocketGiven,
     ThreadApproves, ThreadTimesOut, ThreadEnds, Connect, ClientGoes,
     SocketIsUnused, ConnectFails, SendRequest, RecvAnswer, RecvFails, Leave
<1> QED
  BY <1>1, <1>2, <1>3, <1>4, <1>5, <1>6, <1>7, <1>8, <1>9, <1>10, <1>11,
     <1>12, <1>13, <1>14, <1>15
     DEF Next, MainStep, vars, slots, workers, console, net

(* An accepted connection stays accepted. *)
LEMMA OwnerStep == TypeOK /\ MainInv /\ OwnerInv /\ [Next]_vars => OwnerInv'
<1> SUFFICES ASSUME TypeOK, MainInv, OwnerInv, [Next]_vars PROVE OwnerInv'
  OBVIOUS
<1> USE SlotsAssumption, ValuesAssumption
        DEF slots, workers, console, net, TypeOK, MainInv, OwnerInv, Accepted,
            Running, Slots
<1>1. ASSUME NEW c \in Connections, Accept(c) PROVE OwnerInv'
  BY <1>1 DEF Accept
<1>2. ASSUME CreateThread PROVE OwnerInv'
  BY <1>2 DEF CreateThread
<1>3. ASSUME DenySend PROVE OwnerInv'
  BY <1>3 DEF DenySend
<1>4. ASSUME CleanUpSlot PROVE OwnerInv'
  BY <1>4 DEF CleanUpSlot
<1>5. ASSUME EndProcess PROVE OwnerInv'
  BY <1>5 DEF EndProcess
<1>6. ASSUME NEW i \in Slots, ThreadStarts(i) PROVE OwnerInv'
  BY <1>6 DEF ThreadStarts, SocketGiven
<1>7. ASSUME NEW i \in Slots, ThreadTimesOut(i) PROVE OwnerInv'
  BY <1>7 DEF ThreadTimesOut
<1>8. ASSUME NEW i \in Slots, ThreadEnds(i) PROVE OwnerInv'
  BY <1>8 DEF ThreadEnds
<1>9. ASSUME NEW c \in Connections, Connect(c) PROVE OwnerInv'
  BY <1>9 DEF Connect, ClientGoes, SocketIsUnused
<1>10. ASSUME UNCHANGED <<AcceptSocket, ThreadInputs, worker, sock>>
      PROVE OwnerInv'
  BY <1>10
<1>11. ASSUME \/ StartupFails \/ Listen \/ CreateObjects \/ AcceptFails
              \/ PollSlot \/ NoSlot \/ DenyRecv \/ DenyFails \/ ExitEntered
           \/ \E i \in Slots : ThreadApproves(i)
           \/ \E c \in Connections : ConnectFails(c) \/ SendRequest(c)
                                     \/ RecvAnswer(c) \/ RecvFails(c)
                                     \/ Leave(c)
      PROVE OwnerInv'
  BY <1>11, <1>10 DEF StartupFails, Listen, CreateObjects, AcceptFails,
     PollSlot, SlotIsUnused, NoSlot, AllTried, DenyRecv, DenyFails,
     ExitEntered, ClosedByExit, ThreadApproves, ConnectFails, ClientGoes,
     SendRequest, RecvAnswer, RecvFails, Leave
<1> QED
  BY <1>1, <1>2, <1>3, <1>4, <1>5, <1>6, <1>7, <1>8, <1>9, <1>10, <1>11
     DEF Next, MainStep, vars, slots, workers, console, net

(* A slot whose handle is dropped has no thread, or one that has ended. *)
LEMMA HandlesStep ==
  TypeOK /\ StartInv /\ MainInv /\ HandlesAreKept /\ [Next]_vars
    => HandlesAreKept'
<1> SUFFICES ASSUME TypeOK, StartInv, MainInv, HandlesAreKept, [Next]_vars
      PROVE HandlesAreKept'
  OBVIOUS
<1> USE SlotsAssumption, ValuesAssumption
        DEF slots, workers, console, net, TypeOK, StartInv, MainInv,
            HandlesAreKept, Running, Slots
<1>1. ASSUME StartupFails PROVE HandlesAreKept'
  BY <1>1 DEF StartupFails
<1>2. ASSUME Listen PROVE HandlesAreKept'
  BY <1>2 DEF Listen
<1>3. ASSUME CreateObjects PROVE HandlesAreKept'
  BY <1>3 DEF CreateObjects
<1>4. ASSUME NEW c \in Connections, Accept(c) PROVE HandlesAreKept'
  BY <1>4 DEF Accept
<1>5. ASSUME AcceptFails PROVE HandlesAreKept'
  BY <1>5 DEF AcceptFails
<1>6. ASSUME PollSlot PROVE HandlesAreKept'
  BY <1>6 DEF PollSlot, SlotIsUnused
<1>7. ASSUME NoSlot PROVE HandlesAreKept'
  BY <1>7 DEF NoSlot, AllTried
<1>8. ASSUME CreateThread PROVE HandlesAreKept'
  BY <1>8 DEF CreateThread
<1>9. ASSUME DenyRecv PROVE HandlesAreKept'
  BY <1>9 DEF DenyRecv
<1>10. ASSUME DenySend PROVE HandlesAreKept'
  BY <1>10 DEF DenySend
<1>11. ASSUME DenyFails PROVE HandlesAreKept'
  BY <1>11 DEF DenyFails
<1>12. ASSUME CleanUpSlot PROVE HandlesAreKept'
  BY <1>12 DEF CleanUpSlot
<1>13. ASSUME EndProcess PROVE HandlesAreKept'
  BY <1>13 DEF EndProcess
<1>14. ASSUME NEW i \in Slots, ThreadStarts(i) PROVE HandlesAreKept'
  BY <1>14 DEF ThreadStarts, SocketGiven
<1>15. ASSUME NEW i \in Slots, ThreadTimesOut(i) PROVE HandlesAreKept'
  BY <1>15 DEF ThreadTimesOut
<1>16. ASSUME NEW i \in Slots, ThreadEnds(i) PROVE HandlesAreKept'
  BY <1>16 DEF ThreadEnds
<1>17. ASSUME UNCHANGED <<main_pc, Ind, ThreadHandles, worker>>
      PROVE HandlesAreKept'
  BY <1>17
<1>18. ASSUME \/ ExitEntered
           \/ \E i \in Slots : ThreadApproves(i)
           \/ \E c \in Connections : Connect(c) \/ ConnectFails(c)
                                     \/ SendRequest(c) \/ RecvAnswer(c)
                                     \/ RecvFails(c) \/ Leave(c)
      PROVE HandlesAreKept'
  BY <1>18, <1>17 DEF ExitEntered, ClosedByExit, ThreadApproves, Connect,
     ClientGoes, SocketIsUnused, ConnectFails, SendRequest, RecvAnswer,
     RecvFails, Leave
<1> QED
  BY <1>1, <1>2, <1>3, <1>4, <1>5, <1>6, <1>7, <1>8, <1>9, <1>10, <1>11,
     <1>12, <1>13, <1>14, <1>15, <1>16, <1>17, <1>18
     DEF Next, MainStep, vars, slots, workers, console, net

(* The slot of a new thread has none, and its socket is no other thread's. *)
LEMMA SocketsStep ==
  TypeOK /\ MainInv /\ OwnerInv /\ HandlesAreKept /\ SocketsAreOwned /\ [Next]_vars
    => SocketsAreOwned'
<1> SUFFICES ASSUME TypeOK, MainInv, OwnerInv, HandlesAreKept, SocketsAreOwned, [Next]_vars
      PROVE SocketsAreOwned'
  OBVIOUS
<1> USE SlotsAssumption, ValuesAssumption
        DEF slots, workers, console, net, TypeOK, MainInv, OwnerInv, Accepted,
            HandlesAreKept, SocketsAreOwned, Running, Slots
<1>1. ASSUME NEW c \in Connections, Accept(c) PROVE SocketsAreOwned'
  BY <1>1 DEF Accept
<1>2. ASSUME CreateThread PROVE SocketsAreOwned'
  BY <1>2 DEF CreateThread
<1>3. ASSUME DenySend PROVE SocketsAreOwned'
  BY <1>3 DEF DenySend
<1>4. ASSUME EndProcess PROVE SocketsAreOwned'
  BY <1>4 DEF EndProcess
<1>5. ASSUME NEW i \in Slots, ThreadStarts(i) PROVE SocketsAreOwned'
  BY <1>5 DEF ThreadStarts, SocketGiven
<1>6. ASSUME NEW i \in Slots, ThreadTimesOut(i) PROVE SocketsAreOwned'
  BY <1>6 DEF ThreadTimesOut
<1>7. ASSUME NEW i \in Slots, ThreadEnds(i) PROVE SocketsAreOwned'
  BY <1>7 DEF ThreadEnds
<1>8. ASSUME UNCHANGED <<AcceptSocket, ThreadInputs, worker, accept_socket>>
      PROVE SocketsAreOwned'
  BY <1>8
<1>9. ASSUME \/ StartupFails \/ Listen \/ CreateObjects \/ AcceptFails
             \/ PollSlot \/ NoSlot \/ DenyRecv \/ DenyFails \/ CleanUpSlot
             \/ ExitEntered
           \/ \E i \in Slots : ThreadApproves(i)
           \/ \E c \in Connections : Connect(c) \/ ConnectFails(c)
                                     \/ SendRequest(c) \/ RecvAnswer(c)
                                     \/ RecvFails(c) \/ Leave(c)
      PROVE SocketsAreOwned'
  BY <1>9, <1>8 DEF StartupFails, Listen, CreateObjects, AcceptFails,
     PollSlot, SlotIsUnused, NoSlot, AllTried, DenyRecv, DenyFails,
     CleanUpSlot, ExitEntered, ClosedByExit, ThreadApproves, Connect,
     ClientGoes, SocketIsUnused, ConnectFails, SendRequest, RecvAnswer,
     RecvFails, Leave
<1> QED
  BY <1>1, <1>2, <1>3, <1>4, <1>5, <1>6, <1>7, <1>8, <1>9
     DEF Next, MainStep, vars, slots, workers, console, net

(* The slots are full when the last of them has been passed over, and only
   main() empties them. *)
LEMMA DeniedStep ==
  TypeOK /\ MainInv /\ DeniedOnlyWhenFull /\ [Next]_vars
    => DeniedOnlyWhenFull'
<1> SUFFICES ASSUME TypeOK, MainInv, DeniedOnlyWhenFull, [Next]_vars
      PROVE DeniedOnlyWhenFull'
  OBVIOUS
<1> USE SlotsAssumption, ValuesAssumption
        DEF slots, workers, console, net, TypeOK, MainInv, DeniedOnlyWhenFull,
            Slots
<1>1. ASSUME StartupFails PROVE DeniedOnlyWhenFull'
  BY <1>1 DEF StartupFails
<1>2. ASSUME Listen PROVE DeniedOnlyWhenFull'
  BY <1>2 DEF Listen
<1>3. ASSUME CreateObjects PROVE DeniedOnlyWhenFull'
  BY <1>3 DEF CreateObjects
<1>4. ASSUME NEW c \in Connections, Accept(c) PROVE DeniedOnlyWhenFull'
  BY <1>4 DEF Accept
<1>5. ASSUME AcceptFails PROVE DeniedOnlyWhenFull'
  BY <1>5 DEF AcceptFails
<1>6. ASSUME PollSlot PROVE DeniedOnlyWhenFull'
  BY <1>6 DEF PollSlot, SlotIsUnused
<1>7. ASSUME NoSlot PROVE DeniedOnlyWhenFull'
  BY <1>7 DEF NoSlot, AllTried
<1>8. ASSUME CreateThread PROVE DeniedOnlyWhenFull'
  BY <1>8 DEF CreateThread
<1>9. ASSUME DenyRecv PROVE DeniedOnlyWhenFull'
  BY <1>9 DEF DenyRecv
<1>10. ASSUME DenySend PROVE DeniedOnlyWhenFull'
  BY <1>10 DEF DenySend
<1>11. ASSUME DenyFails PROVE DeniedOnlyWhenFull'
  BY <1>11 DEF DenyFails
<1>12. ASSUME CleanUpSlot PROVE DeniedOnlyWhenFull'
  BY <1>12 DEF CleanUpSlot
<1>13. ASSUME EndProcess PROVE DeniedOnlyWhenFull'
  BY <1>13 DEF EndProcess
<1>14. ASSUME UNCHANGED <<main_pc, ThreadHandles>> PROVE DeniedOnlyWhenFull'
  BY <1>14
<1>15. ASSUME \/ ExitEntered
           \/ \E i \in Slots : ThreadStarts(i) \/ ThreadApproves(i)
                               \/ ThreadTimesOut(i) \/ ThreadEnds(i)
           \/ \E c \in Connections : Connect(c) \/ ConnectFails(c)
                                     \/ SendRequest(c) \/ RecvAnswer(c)
                                     \/ RecvFails(c) \/ Leave(c)
      PROVE DeniedOnlyWhenFull'
  BY <1>15, <1>14 DEF ExitEntered, ClosedByExit, ThreadStarts, SocketGiven,
     ThreadApproves, ThreadTimesOut, ThreadEnds, Connect, ClientGoes,
     SocketIsUnused, ConnectFails, SendRequest, RecvAnswer, RecvFails, Leave
<1> QED
  BY <1>1, <1>2, <1>3, <1>4, <1>5, <1>6, <1>7, <1>8, <1>9, <1>10, <1>11,
     <1>12, <1>13, <1>14, <1>15
     DEF Next, MainStep, vars, slots, workers, console, net

(* Sockets are not made new. *)
LEMMA UsedStep == TypeOK /\ UsedInv /\ [Next]_vars => UsedInv'
<1> SUFFICES ASSUME TypeOK, UsedInv, [Next]_vars PROVE UsedInv'
  OBVIOUS
<1> USE SlotsAssumption, ValuesAssumption
        DEF slots, workers, console, net, TypeOK, UsedInv, Slots
<1>1. ASSUME NEW c \in Connections, Accept(c) PROVE UsedInv'
  BY <1>1 DEF Accept
<1>2. ASSUME DenySend PROVE UsedInv'
  BY <1>2 DEF DenySend
<1>3. ASSUME CleanUpSlot PROVE UsedInv'
  BY <1>3 DEF CleanUpSlot
<1>4. ASSUME EndProcess PROVE UsedInv'
  BY <1>4 DEF EndProcess
<1>5. ASSUME NEW i \in Slots, ThreadTimesOut(i) PROVE UsedInv'
  BY <1>5 DEF ThreadTimesOut
<1>6. ASSUME NEW i \in Slots, ThreadEnds(i) PROVE UsedInv'
  BY <1>6 DEF ThreadEnds
<1>7. ASSUME NEW c \in Connections, Connect(c) PROVE UsedInv'
  BY <1>7 DEF Connect, ClientGoes, SocketIsUnused
<1>8. ASSUME NEW c \in Connections, ConnectFails(c) PROVE UsedInv'
  BY <1>8 DEF ConnectFails, ClientGoes
<1>9. ASSUME NEW c \in Connections, SendRequest(c) PROVE UsedInv'
  BY <1>9 DEF SendRequest, ClientGoes
<1>10. ASSUME NEW c \in Connections, RecvAnswer(c) PROVE UsedInv'
  BY <1>10 DEF RecvAnswer, ClientGoes
<1>11. ASSUME NEW c \in Connections, RecvFails(c) PROVE UsedInv'
  BY <1>11 DEF RecvFails, ClientGoes
<1>12. ASSUME NEW c \in Connections, Leave(c) PROVE UsedInv'
  BY <1>12 DEF Leave, ClientGoes
<1>13. ASSUME UNCHANGED <<sock, client>> PROVE UsedInv'
  BY <1>13
<1>14. ASSUME \/ StartupFails \/ Listen \/ CreateObjects \/ AcceptFails
              \/ PollSlot \/ NoSlot \/ CreateThread \/ DenyRecv \/ DenyFails
              \/ ExitEntered
           \/ \E i \in Slots : ThreadStarts(i) \/ ThreadApproves(i)
      PROVE UsedInv'
  BY <1>14, <1>13 DEF StartupFails, Listen, CreateObjects, AcceptFails,
     PollSlot, SlotIsUnused, NoSlot, AllTried, CreateThread, DenyRecv,
     DenyFails, ExitEntered, ClosedByExit, ThreadStarts, SocketGiven,
     ThreadApproves
<1> QED
  BY <1>1, <1>2, <1>3, <1>4, <1>5, <1>6, <1>7, <1>8, <1>9, <1>10, <1>11,
     <1>12, <1>13, <1>14
     DEF Next, MainStep, vars, slots, workers, console, net

(* A client that was denied cannot connect again. *)
LEMMA MenuStep ==
  TypeOK /\ UsedInv /\ MenuMeansApproved /\ [Next]_vars => MenuMeansApproved'
<1> SUFFICES ASSUME TypeOK, UsedInv, MenuMeansApproved, [Next]_vars
      PROVE MenuMeansApproved'
  OBVIOUS
<1> USE SlotsAssumption, ValuesAssumption
        DEF slots, workers, console, net, TypeOK, UsedInv, MenuMeansApproved,
            Slots
<1>1. ASSUME DenySend PROVE MenuMeansApproved'
  BY <1>1 DEF DenySend
<1>2. ASSUME NEW i \in Slots, ThreadApproves(i) PROVE MenuMeansApproved'
  BY <1>2 DEF ThreadApproves
<1>3. ASSUME NEW i \in Slots, ThreadTimesOut(i) PROVE MenuMeansApproved'
  BY <1>3 DEF ThreadTimesOut
<1>4. ASSUME NEW c \in Connections, Connect(c) PROVE MenuMeansApproved'
  BY <1>4 DEF Connect, ClientGoes, SocketIsUnused
<1>5. ASSUME NEW c \in Connections, ConnectFails(c) PROVE MenuMeansApproved'
  BY <1>5 DEF ConnectFails, ClientGoes
<1>6. ASSUME NEW c \in Connections, SendRequest(c) PROVE MenuMeansApproved'
  BY <1>6 DEF SendRequest, ClientGoes
<1>7. ASSUME NEW c \in Connections, RecvAnswer(c) PROVE MenuMeansApproved'
  BY <1>7 DEF RecvAnswer, ClientGoes
<1>8. ASSUME NEW c \in Connections, RecvFails(c) PROVE MenuMeansApproved'
  BY <1>8 DEF RecvFails, ClientGoes
<1>9. ASSUME NEW c \in Connections, Leave(c) PROVE MenuMeansApproved'
  BY <1>9 DEF Leave, ClientGoes
<1>10. ASSUME UNCHANGED <<answer, client>> PROVE MenuMeansApproved'
  BY <1>10
<1>11. ASSUME \/ StartupFails \/ Listen \/ CreateObjects \/ AcceptFails
              \/ PollSlot \/ NoSlot \/ CreateThread \/ DenyRecv \/ DenyFails
              \/ CleanUpSlot \/ EndProcess \/ ExitEntered
           \/ \E i \in Slots : ThreadStarts(i) \/ ThreadEnds(i)
           \/ \E c \in Connections : Accept(c)
      PROVE MenuMeansApproved'
  BY <1>11, <1>10 DEF StartupFails, Listen, CreateObjects, Accept,
     AcceptFails, PollSlot, SlotIsUnused, NoSlot, AllTried, CreateThread,
     DenyRecv, DenyFails, CleanUpSlot, EndProcess, ExitEntered, ClosedByExit,
     ThreadStarts, SocketGiven, ThreadEnds
<1> QED
  BY <1>1, <1>2, <1>3, <1>4, <1>5, <1>6, <1>7, <1>8, <1>9, <1>10, <1>11
     DEF Next, MainStep, vars, slots, workers, console, net

-----------------------------------------------------------------------------
(* The inductive invariant, and what follows from it. *)

IInv ==
  /\ TypeOK /\ StartInv /\ MainInv /\ OwnerInv /\ UsedInv
  /\ HandlesAreKept /\ SocketsAreOwned /\ DeniedOnlyWhenFull /\ MenuMeansApproved

LEMMA Inductive == Spec => []IInv
<1>1. Init => IInv
  BY TypeInit, PartsInit DEF IInv
<1>2. IInv /\ [Next]_vars => IInv'
  BY TypeStep, StartStep, MainStepKeepsMainInv, OwnerStep, HandlesStep,
     SocketsStep, DeniedStep, UsedStep, MenuStep DEF IInv
<1> QED
  BY <1>1, <1>2, PTL DEF Spec

(* TypeOK of Acceptor: among others, no thread copies an uninitialised socket
   from its slot. *)
THEOREM TypeCorrect == Spec => []TypeOK
BY Inductive, PTL DEF IInv

(* SocketsAreOwned of Acceptor: no two threads work on one socket, and none on
   one that main() is about to give away. *)
THEOREM SocketsAreAlwaysOwned == Spec => []SocketsAreOwned
BY Inductive, PTL DEF IInv

(* HandlesAreKept of Acceptor: the polling of the slots loses no thread. *)
THEOREM HandlesAreAlwaysKept == Spec => []HandlesAreKept
BY Inductive, PTL DEF IInv

(* DeniedOnlyWhenFull of Acceptor: a client is denied only when every slot has
   been given to a thread. *)
THEOREM OnlyDeniedWhenFull == Spec => []DeniedOnlyWhenFull
BY Inductive, PTL DEF IInv

(* MenuMeansApproved of Acceptor: reconnect_or_exit() leads no client past the
   approval. *)
THEOREM MenuAlwaysMeansApproved == Spec => []MenuMeansApproved
BY Inductive, PTL DEF IInv
=============================================================================
