---------------------------- MODULE LogFileProofs ----------------------------
(***************************************************************************)
(* The properties of LogFile, for any number of service threads, clients   *)
(* and names, and every bound.                                             *)
(***************************************************************************)
EXTENDS LogFile, Integers, FiniteSetTheorems, SequenceTheorems, TLAPS

Kinds == {"direction", "line", "message"}
Pieces == Kinds \X (1..2)
Entries == (Nat \X Kinds) \cup {NULL}

(* A session is running with a file of its kind, or it is not there. *)
SessionInv ==
  /\ place \in [Writers -> Places]
  /\ file \in [Writers -> Files \cup {NULL}]
  /\ piece \in [Writers -> Pieces \cup {NULL}]
  /\ \A w \in Writers : Running(w) => \E name \in Names : file[w] = log_file_name(w, name)

(* A line is begun below MaxOffset, and the message after its direction goes
   on from there. *)
OffsetInv ==
  /\ offset \in [Writers -> Nat]
  /\ \A w \in Writers :
       /\ offset[w] <= MaxOffset + 2
       /\ piece[w] # NULL => offset[w] <= MaxOffset
       /\ piece[w] # NULL /\ piece[w][1] # "message"
            => offset[w] < MaxOffset /\ piece[w][2] = 1

(* A file is open only to a writer in the middle of WinWriteToFile(). *)
OpenInv ==
  /\ openers \in [Files -> SUBSET Writers]
  /\ \A w \in Writers : place[w] \in {"opened", "written"} =>
       piece[w] # NULL /\ openers[file[w]] = {w}
  /\ \A f \in Files : \A w \in openers[f] :
       place[w] \in {"opened", "written"} /\ file[w] = f

(* What is in the files, and what has been logged. *)
DiskInv ==
  /\ content \in [Files -> Seq(Entries)]
  /\ log \in [Writers -> Seq(Entries)]
  /\ number \in [Writers -> Nat]
  /\ begun \in Nat

(* Whoever has not shared its file has it alone. *)
AloneInv ==
  \A u, w \in Writers :
    u # w /\ Running(u) /\ Running(w) /\ w \notin shared => file[u] # file[w]

(* It finds there what it has logged, its offset behind it or, once a piece
   has been written, behind all but that one. *)
Begins(s, t) == Len(t) <= Len(s) /\ \A i \in 1..Len(t) : s[i] = t[i]

KeptInv ==
  \A w \in Writers : Running(w) /\ w \notin shared =>
    /\ Begins(content[file[w]], log[w])
    /\ Len(log[w]) = IF place[w] = "written" THEN OffsetAfter(w) ELSE offset[w]

-----------------------------------------------------------------------------
(* What is written, and where.                                             *)

LEMMA WrittenIsSequence ==
  ASSUME NEW w, piece[w] \in Pieces, number[w] \in Nat
  PROVE  Written(w) \in Seq(Entries) /\ Len(Written(w)) = piece[w][2]
<1>1. /\ piece[w][1] \in Kinds /\ piece[w][2] \in 1..2
      /\ <<number[w], piece[w][1]>> \in Entries
  BY DEF Pieces, Entries
<1> QED
  BY <1>1 DEF Written

(* Writing keeps what is before the offset, and puts the piece behind it. *)
LEMMA OverwriteKeeps ==
  ASSUME NEW old \in Seq(Entries), NEW from \in Nat, NEW new \in Seq(Entries)
  PROVE  LET s == Overwrite(old, from, new)
         IN  /\ s \in Seq(Entries)
             /\ from + Len(new) <= Len(s)
             /\ \A i \in 1..from : i <= Len(old) => s[i] = old[i]
             /\ \A i \in 1..Len(new) : s[from + i] = new[i]
<1> DEFINE n == IF Len(old) > from + Len(new) THEN Len(old) ELSE from + Len(new)
           e(i) == IF i \in (from + 1)..(from + Len(new)) THEN new[i - from]
                   ELSE IF i <= Len(old) THEN old[i]
                   ELSE NULL
           s == [i \in 1..n |-> e(i)]
<1>1. n \in Nat /\ Len(old) \in Nat /\ Len(new) \in Nat
  OBVIOUS
<1>2. \A i \in 1..n : e(i) \in Entries
  <2> SUFFICES ASSUME NEW i \in 1..n PROVE e(i) \in Entries
    OBVIOUS
  <2>1. CASE i \in (from + 1)..(from + Len(new))
    BY <1>1, <2>1
  <2>2. CASE i \notin (from + 1)..(from + Len(new)) /\ i <= Len(old)
    BY <1>1, <2>2
  <2>3. CASE i \notin (from + 1)..(from + Len(new)) /\ ~(i <= Len(old))
    BY <2>3 DEF Entries
  <2> QED
    BY <2>1, <2>2, <2>3
<1>3. Overwrite(old, from, new) = s
  BY DEF Overwrite
<1>4. s \in [1..n -> Entries]
  BY <1>2
<1>5. s \in Seq(Entries)
  BY <1>1, <1>4, SeqDef
<1>6. Len(s) = n
  BY <1>1, <1>4, <1>5
<1>7. \A i \in 1..from : i <= Len(old) => s[i] = old[i]
  BY <1>1
<1>8. \A i \in 1..Len(new) : s[from + i] = new[i]
  <2> SUFFICES ASSUME NEW i \in 1..Len(new) PROVE s[from + i] = new[i]
    OBVIOUS
  <2>1. from + i \in 1..n /\ from + i \in (from + 1)..(from + Len(new))
        /\ (from + i) - from = i
    BY <1>1
  <2> QED
    BY <2>1
<1> HIDE DEF s
<1> QED
  BY <1>1, <1>3, <1>5, <1>6, <1>7, <1>8

-----------------------------------------------------------------------------
(* A step of a writer; the ends of sessions are alike. *)
LEMMA Steps ==
  ASSUME Next
  PROVE  \E w \in Writers :
           \/ Start(w) \/ Log(w) \/ CreateFile(w) \/ WriteFile(w) \/ CloseFile(w)
           \/ \E ends \in SUBSET Writers :
                EndSessions(ends) /\ \/ /\ ends = {w} /\ place[w] = "between"
                                        /\ UNCHANGED openers
                                     \/ openers' = [f \in Files |-> openers[f] \ ends]
<1>1. \A w \in Writers : ProcessOf(w) \subseteq Writers /\ {w} \subseteq Writers
  BY DEF ProcessOf, Writers
<1> QED
  BY <1>1 DEF Next, End, CreateFileFails, Kill, EndProcess

LEMMA RunningHasFile ==
  ASSUME SessionInv, NEW w \in Writers, Running(w) PROVE file[w] \in Files
<1>1. PICK name \in Names : file[w] = log_file_name(w, name)
  BY DEF SessionInv
<1> QED
  BY <1>1 DEF log_file_name, Files

(* The pieces that follow each other. *)
LEMMA PieceBegun ==
  ASSUME NEW w \in Writers, Log(w)
  PROVE  \E p \in Pieces : piece' = [piece EXCEPT ![w] = p] /\ p[2] = 1
<1>1. PICK p \in {<<"direction", 1>>, <<"line", 1>>} : piece' = [piece EXCEPT ![w] = p]
  BY DEF Log
<1>2. p \in Pieces /\ p[2] = 1
  BY DEF Pieces, Kinds
<1> QED
  BY <1>1, <1>2 DEF Log

LEMMA PieceFollows ==
  ASSUME NEW w \in Writers, CloseFile(w)
  PROVE  \E p \in Pieces \cup {NULL} :
           /\ piece' = [piece EXCEPT ![w] = p]
           /\ IF piece[w][1] = "direction" THEN p \in Pieces /\ p[1] = "message"
                                           ELSE p = NULL
<1>1. CASE piece[w][1] = "direction"
  <2>1. PICK length \in 1..2 : piece' = [piece EXCEPT ![w] = <<"message", length>>]
    BY <1>1 DEF CloseFile
  <2>2. <<"message", length>> \in Pieces /\ <<"message", length>>[1] = "message"
    BY DEF Pieces, Kinds
  <2> QED
    BY <1>1, <2>1, <2>2
<1>2. CASE piece[w][1] # "direction"
  BY <1>2 DEF CloseFile
<1> QED
  BY <1>1, <1>2

-----------------------------------------------------------------------------
(* Sessions and open files.                                                *)

LEMMA SessionInit == Init => SessionInv /\ OpenInv
BY DEF Init, SessionInv, OpenInv, Running, Places

LEMMA SessionStep ==
  SessionInv /\ OpenInv /\ [Next]_vars => SessionInv' /\ OpenInv'
<1> SUFFICES ASSUME SessionInv, OpenInv, [Next]_vars PROVE SessionInv' /\ OpenInv'
  OBVIOUS
<1> USE DEF SessionInv, OpenInv, Running, Places, session, disk, history
<1>1. ASSUME NEW w \in Writers, Start(w) PROVE SessionInv' /\ OpenInv'
  <2>1. PICK name \in Names : file' = [file EXCEPT ![w] = log_file_name(w, name)]
    BY <1>1 DEF Start
  <2>2. log_file_name(w, name) \in Files
    BY DEF log_file_name, Files
  <2> QED
    BY <1>1, <2>1, <2>2 DEF Start
<1>2. ASSUME NEW w \in Writers, Log(w) PROVE SessionInv' /\ OpenInv'
  <2>1. PICK p \in Pieces : piece' = [piece EXCEPT ![w] = p]
    BY <1>2, PieceBegun
  <2> QED
    BY <1>2, <2>1 DEF Log
<1>3. ASSUME NEW w \in Writers, CreateFile(w) PROVE SessionInv' /\ OpenInv'
  BY <1>3, RunningHasFile DEF CreateFile
<1>4. ASSUME NEW w \in Writers, WriteFile(w) PROVE SessionInv' /\ OpenInv'
  BY <1>4 DEF WriteFile
<1>5. ASSUME NEW w \in Writers, CloseFile(w) PROVE SessionInv' /\ OpenInv'
  <2>1. PICK p \in Pieces \cup {NULL} : piece' = [piece EXCEPT ![w] = p]
    BY <1>5, PieceFollows
  <2> QED
    BY <1>5, <2>1, RunningHasFile DEF CloseFile, OpenersAfterClose
<1>6. ASSUME NEW w \in Writers, NEW ends \in SUBSET Writers, EndSessions(ends),
             ends = {w}, place[w] = "between", UNCHANGED openers
      PROVE  SessionInv' /\ OpenInv'
  BY <1>6 DEF EndSessions
<1>7. ASSUME NEW ends \in SUBSET Writers, EndSessions(ends),
             openers' = [f \in Files |-> openers[f] \ ends]
      PROVE  SessionInv' /\ OpenInv'
  <2>1. SessionInv'
    BY <1>7 DEF EndSessions
  <2> QED
    BY <1>7, <2>1, RunningHasFile DEF EndSessions
<1>8. ASSUME UNCHANGED vars PROVE SessionInv' /\ OpenInv'
  BY <1>8 DEF vars
<1> QED
  BY <1>1, <1>2, <1>3, <1>4, <1>5, <1>6, <1>7, <1>8, Steps

-----------------------------------------------------------------------------
(* Offsets.                                                                *)

LEMMA OffsetInit == Init => OffsetInv
BY BoundsAssumption DEF Init, OffsetInv

LEMMA OffsetStep == SessionInv /\ OpenInv /\ OffsetInv /\ [Next]_vars => OffsetInv'
<1> SUFFICES ASSUME SessionInv, OpenInv, OffsetInv, [Next]_vars PROVE OffsetInv'
  OBVIOUS
<1> USE BoundsAssumption DEF SessionInv, OffsetInv, session, disk, history
<1>1. ASSUME NEW w \in Writers, Start(w) PROVE OffsetInv'
  BY <1>1 DEF Start
<1>2. ASSUME NEW w \in Writers, Log(w) PROVE OffsetInv'
  <2>1. PICK p \in Pieces : piece' = [piece EXCEPT ![w] = p] /\ p[2] = 1
    BY <1>2, PieceBegun
  <2> QED
    BY <1>2, <2>1 DEF Log
<1>3. ASSUME NEW w \in Writers, CreateFile(w) \/ WriteFile(w) PROVE OffsetInv'
  BY <1>3 DEF CreateFile, WriteFile
<1>4. ASSUME NEW w \in Writers, CloseFile(w) PROVE OffsetInv'
  <2>1. /\ piece[w] # NULL /\ piece[w] \in Pieces
        /\ piece[w][2] \in 1..2 /\ piece[w][1] \in Kinds
    BY <1>4 DEF CloseFile, OpenInv, Pieces
  <2>2. CASE piece[w][1] = "direction"
    <3>1. PICK p \in Pieces : piece' = [piece EXCEPT ![w] = p] /\ p[1] = "message"
      BY <1>4, <2>2, PieceFollows
    <3> QED
      BY <1>4, <2>1, <2>2, <3>1 DEF CloseFile, OffsetAfter
  <2>3. CASE piece[w][1] # "direction"
    BY <1>4, <2>1, <2>3 DEF CloseFile, OffsetAfter
  <2> QED
    BY <2>2, <2>3
<1>5. ASSUME NEW ends \in SUBSET Writers, EndSessions(ends) PROVE OffsetInv'
  BY <1>5 DEF EndSessions
<1>6. ASSUME UNCHANGED vars PROVE OffsetInv'
  BY <1>6 DEF vars
<1> QED
  BY <1>1, <1>2, <1>3, <1>4, <1>5, <1>6, Steps

-----------------------------------------------------------------------------
(* Files and logs are sequences of what has been written.                  *)

LEMMA DiskInit == Init => DiskInv
BY DEF Init, DiskInv

LEMMA DiskStep ==
  SessionInv /\ OpenInv /\ OffsetInv /\ DiskInv /\ [Next]_vars => DiskInv'
<1> SUFFICES ASSUME SessionInv, OpenInv, OffsetInv, DiskInv, [Next]_vars PROVE DiskInv'
  OBVIOUS
<1> USE DEF DiskInv, session, disk, history
<1>1. ASSUME NEW w \in Writers, Start(w) PROVE DiskInv'
  BY <1>1 DEF Start
<1>2. ASSUME NEW w \in Writers, Log(w) \/ CreateFile(w) \/ CloseFile(w) PROVE DiskInv'
  BY <1>2 DEF Log, CreateFile, CloseFile
<1>3. ASSUME NEW w \in Writers, WriteFile(w) PROVE DiskInv'
  <2>1. piece[w] \in Pieces /\ file[w] \in Files
    BY <1>3, RunningHasFile DEF WriteFile, SessionInv, OpenInv, Running
  <2>2. Written(w) \in Seq(Entries)
    BY <2>1, WrittenIsSequence
  <2>3. Overwrite(content[file[w]], offset[w], Written(w)) \in Seq(Entries)
    BY <2>1, <2>2, OverwriteKeeps DEF OffsetInv
  <2>4. log[w] \o Written(w) \in Seq(Entries)
    BY <2>2
  <2> QED
    BY <1>3, <2>3, <2>4 DEF WriteFile
<1>4. ASSUME NEW ends \in SUBSET Writers, EndSessions(ends) PROVE DiskInv'
  BY <1>4 DEF EndSessions
<1>5. ASSUME UNCHANGED vars PROVE DiskInv'
  BY <1>5 DEF vars
<1> QED
  BY <1>1, <1>2, <1>3, <1>4, <1>5, Steps

-----------------------------------------------------------------------------
(* A session that shares its file knows of it from the start of the second
   one on. *)

LEMMA AloneInit == Init => AloneInv
BY DEF Init, AloneInv, Running

LEMMA AloneStep == SessionInv /\ AloneInv /\ [Next]_vars => AloneInv'
<1> SUFFICES ASSUME SessionInv, AloneInv, [Next]_vars PROVE AloneInv'
  OBVIOUS
<1> USE DEF SessionInv, AloneInv, Running, session, disk, history
<1>1. ASSUME NEW w \in Writers, Start(w) PROVE AloneInv'
  <2>1. PICK name \in Names :
          LET f == log_file_name(w, name)
              others == {u \in Writers : Running(u) /\ file[u] = f}
          IN  /\ file' = [file EXCEPT ![w] = f]
              /\ shared' = shared \cup others \cup (IF others = {} THEN {} ELSE {w})
    BY <1>1 DEF Start
  <2>2. place[w] = "off" /\ place' = [place EXCEPT ![w] = "between"]
    BY <1>1 DEF Start
  <2>3. \A u \in Writers \ {w} : Running(u) /\ file[u] = file'[w] => u \in shared' /\ w \in shared'
    BY <2>1
  <2>4. \A u \in Writers \ {w} : file'[u] = file[u] /\ (Running(u)' <=> Running(u))
    BY <2>1, <2>2
  <2>5. shared \subseteq shared'
    BY <2>1
  <2> QED
    BY <2>3, <2>4, <2>5
<1>2. ASSUME NEW w \in Writers, Log(w) \/ CreateFile(w) PROVE AloneInv'
  BY <1>2 DEF Log, CreateFile
<1>3. ASSUME NEW w \in Writers, WriteFile(w) \/ CloseFile(w) PROVE AloneInv'
  BY <1>3 DEF WriteFile, CloseFile
<1>4. ASSUME NEW ends \in SUBSET Writers, EndSessions(ends) PROVE AloneInv'
  BY <1>4 DEF EndSessions
<1>5. ASSUME UNCHANGED vars PROVE AloneInv'
  BY <1>5 DEF vars
<1> QED
  BY <1>1, <1>2, <1>3, <1>4, <1>5, Steps

-----------------------------------------------------------------------------
(* A file that is not shared begins with the log of its session.           *)

LEMMA KeptInit == Init => KeptInv
BY DEF Init, KeptInv, Running

(* Writing behind the log makes the file begin with the longer log. *)
LEMMA WritingKeeps ==
  ASSUME NEW old \in Seq(Entries), NEW t \in Seq(Entries), NEW new \in Seq(Entries),
         Begins(old, t)
  PROVE  /\ Begins(Overwrite(old, Len(t), new), t \o new)
         /\ Len(t \o new) = Len(t) + Len(new)
<1> DEFINE s == Overwrite(old, Len(t), new)
<1>1. /\ s \in Seq(Entries)
      /\ Len(t) + Len(new) <= Len(s)
      /\ \A i \in 1..Len(t) : i <= Len(old) => s[i] = old[i]
      /\ \A i \in 1..Len(new) : s[Len(t) + i] = new[i]
  BY OverwriteKeeps
<1>2. /\ Len(t \o new) = Len(t) + Len(new)
      /\ \A i \in 1..(Len(t) + Len(new)) :
           (t \o new)[i] = IF i <= Len(t) THEN t[i] ELSE new[i - Len(t)]
  BY ConcatProperties
<1> HIDE DEF s
<1>3. ASSUME NEW i \in 1..(Len(t) + Len(new)) PROVE s[i] = (t \o new)[i]
  <2>1. CASE i <= Len(t)
    BY <1>1, <1>2, <2>1 DEF Begins
  <2>2. CASE ~(i <= Len(t))
    <3>1. i - Len(t) \in 1..Len(new) /\ Len(t) + (i - Len(t)) = i
      BY <2>2
    <3> QED
      BY <1>1, <1>2, <2>2, <3>1
  <2> QED
    BY <2>1, <2>2
<1> QED
  BY <1>1, <1>2, <1>3 DEF Begins, s

LEMMA KeptStep ==
  SessionInv /\ OpenInv /\ OffsetInv /\ DiskInv /\ AloneInv /\ KeptInv /\ [Next]_vars
    => KeptInv'
<1> SUFFICES ASSUME SessionInv, OpenInv, OffsetInv, DiskInv, AloneInv, KeptInv,
                    [Next]_vars
             PROVE  KeptInv'
  OBVIOUS
<1> USE DEF SessionInv, Running, session, disk, history
<1>1. ASSUME NEW w \in Writers, Start(w) PROVE KeptInv'
  <2>1. /\ place' = [place EXCEPT ![w] = "between"]
        /\ offset' = [offset EXCEPT ![w] = 0] /\ log' = [log EXCEPT ![w] = <<>>]
        /\ UNCHANGED <<content, piece>> /\ shared \subseteq shared'
        /\ \A u \in Writers \ {w} : file'[u] = file[u]
        /\ \E name \in Names : file'[w] = log_file_name(w, name)
    BY <1>1 DEF Start
  <2>2. file'[w] \in Files
    BY <2>1 DEF log_file_name, Files
  <2>3. Begins(content'[file'[w]], log'[w]) /\ Len(log'[w]) = offset'[w]
    BY <2>1, <2>2 DEF Begins, DiskInv, OffsetInv
  <2> QED
    BY <2>1, <2>3 DEF KeptInv, DiskInv, OffsetInv, OffsetAfter
<1>2. ASSUME NEW w \in Writers, Log(w) \/ CreateFile(w) PROVE KeptInv'
  <2>1. /\ UNCHANGED <<file, offset, content, log, shared>>
        /\ place[w] = "between"
        /\ place' = place \/ place' = [place EXCEPT ![w] = "opened"]
        /\ \A u \in Writers \ {w} : piece'[u] = piece[u]
    BY <1>2 DEF Log, CreateFile
  <2> QED
    BY <2>1 DEF KeptInv, OffsetAfter
<1>3. ASSUME NEW w \in Writers, WriteFile(w) PROVE KeptInv'
  <2>1. /\ place[w] = "opened" /\ place' = [place EXCEPT ![w] = "written"]
        /\ content' = [content EXCEPT ![file[w]] =
                         Overwrite(content[file[w]], offset[w], Written(w))]
        /\ log' = [log EXCEPT ![w] = log[w] \o Written(w)]
        /\ UNCHANGED <<file, offset, piece, shared>>
    BY <1>3 DEF WriteFile
  <2>2. file[w] \in Files /\ piece[w] \in Pieces
    BY <2>1, RunningHasFile DEF OpenInv
  <2>3. Written(w) \in Seq(Entries) /\ Len(Written(w)) = piece[w][2]
    BY <2>2, WrittenIsSequence DEF DiskInv
  <2>4. ASSUME w \notin shared
        PROVE  /\ Begins(content'[file'[w]], log'[w])
               /\ Len(log'[w]) = OffsetAfter(w)'
    <3>1. Begins(content[file[w]], log[w]) /\ Len(log[w]) = offset[w]
      BY <2>1, <2>4 DEF KeptInv
    <3>2. /\ content[file[w]] \in Seq(Entries) /\ log[w] \in Seq(Entries)
          /\ content'[file'[w]] = Overwrite(content[file[w]], offset[w], Written(w))
          /\ log'[w] = log[w] \o Written(w)
      BY <2>1, <2>2 DEF DiskInv
    <3>3. /\ Begins(Overwrite(content[file[w]], Len(log[w]), Written(w)),
                   log[w] \o Written(w))
          /\ Len(log[w] \o Written(w)) = Len(log[w]) + Len(Written(w))
      BY <2>3, <3>1, <3>2, WritingKeeps
    <3>4. Begins(content'[file'[w]], log'[w])
      BY <3>1, <3>2, <3>3
    <3>5. Len(log'[w]) = OffsetAfter(w)'
      BY <2>1, <2>3, <3>1, <3>2, <3>3 DEF OffsetAfter
    <3> QED
      BY <3>4, <3>5
  <2>5. ASSUME NEW u \in Writers \ {w}, Running(u), u \notin shared
        PROVE  content'[file'[u]] = content[file[u]]
    <3>1. file[u] # file[w] /\ file[u] \in Files
      BY <2>1, <2>5, RunningHasFile DEF AloneInv
    <3> QED
      BY <2>1, <3>1 DEF DiskInv
  <2> QED
    BY <2>1, <2>4, <2>5 DEF KeptInv, DiskInv, OffsetAfter
<1>4. ASSUME NEW w \in Writers, CloseFile(w) PROVE KeptInv'
  <2>1. /\ place[w] = "written" /\ place' = [place EXCEPT ![w] = "between"]
        /\ offset' = [offset EXCEPT ![w] = OffsetAfter(w)]
        /\ UNCHANGED <<file, content, log, shared>>
        /\ \A u \in Writers \ {w} : piece'[u] = piece[u]
    BY <1>4 DEF CloseFile
  <2> QED
    BY <2>1 DEF KeptInv, OffsetInv, OffsetAfter
<1>5. ASSUME NEW ends \in SUBSET Writers, EndSessions(ends) PROVE KeptInv'
  BY <1>5 DEF EndSessions, KeptInv, OffsetAfter
<1>6. ASSUME UNCHANGED vars PROVE KeptInv'
  BY <1>6 DEF vars, KeptInv, OffsetAfter
<1> QED
  BY <1>1, <1>2, <1>3, <1>4, <1>5, <1>6, Steps

-----------------------------------------------------------------------------
(* The inductive invariant, and what follows from it. *)

IInv ==
  SessionInv /\ OpenInv /\ OffsetInv /\ DiskInv /\ AloneInv /\ KeptInv

LEMMA Inductive == Spec => []IInv
<1>1. Init => IInv
  BY SessionInit, OffsetInit, DiskInit, AloneInit, KeptInit DEF IInv
<1>2. IInv /\ [Next]_vars => IInv'
  BY SessionStep, OffsetStep, DiskStep, AloneStep, KeptStep DEF IInv
<1> QED
  BY <1>1, <1>2, PTL DEF Spec

(* TypeOK of LogFile: no file is ever open twice, or after its writer has
   ended. *)
THEOREM TypeCorrect == Spec => []TypeOK
<1>1. IInv => TypeOK
  <2> SUFFICES ASSUME IInv PROVE TypeOK
    OBVIOUS
  <2>1. offset \in [Writers -> 0..(MaxOffset + 3)]
    BY BoundsAssumption DEF IInv, OffsetInv
  <2>2. ASSUME NEW f \in Files PROVE Cardinality(openers[f]) <= 1
    <3>1. CASE openers[f] = {}
      BY <3>1, FS_EmptySet
    <3>2. CASE openers[f] # {}
      <4>1. PICK w \in openers[f] : TRUE
        BY <3>2
      <4>2. openers[f] = {w}
        BY <4>1 DEF IInv, OpenInv
      <4> QED
        BY <4>2, FS_Singleton
    <3> QED
      BY <3>1, <3>2
  <2> QED
    BY <2>1, <2>2 DEF IInv, SessionInv, OpenInv, TypeOK
<1> QED
  BY <1>1, Inductive, PTL

(* LogIsKept of LogFile: a session that has its file to itself finds there
   what it has logged, whatever others write and whoever ends when. *)
THEOREM LogsAreKept == Spec => []LogIsKept
<1>1. IInv => LogIsKept
  <2> SUFFICES ASSUME IInv, NEW w \in Writers, place[w] = "between", w \notin shared
               PROVE  /\ offset[w] = Len(log[w])
                      /\ log[w] = SubSeq(content[file[w]], 1, Len(log[w]))
    BY DEF LogIsKept
  <2> DEFINE s == content[file[w]]
             n == Len(log[w])
  <2>1. Begins(s, log[w]) /\ n = offset[w]
    BY DEF IInv, KeptInv, Running
  <2>2. s \in Seq(Entries) /\ log[w] \in Seq(Entries) /\ n \in Nat
    BY RunningHasFile DEF IInv, DiskInv, Running
  <2> HIDE DEF s
  <2>3. /\ SubSeq(s, 1, n) \in Seq(Entries)
        /\ Len(SubSeq(s, 1, n)) = n
        /\ \A i \in 1..n : SubSeq(s, 1, n)[i] = s[i]
    BY <2>1, <2>2 DEF Begins
  <2>4. log[w] = SubSeq(s, 1, n)
    BY <2>1, <2>2, <2>3, SeqEqual DEF Begins
  <2> QED
    BY <2>1, <2>4 DEF s
<1> QED
  BY <1>1, Inductive, PTL

(* EndedBySharingOnly of LogFile: a log ends nobody whose file is its own. *)
THEOREM LogsEndSharersOnly == Spec => EndedBySharingOnly
<1> DEFINE BySharing == \A w \in failed' \ failed :
                          \E u \in ProcessOf(w), v \in Writers : InEachOthersWay(u, v)
<1>1. IInv /\ [Next]_vars => BySharing
  <2> SUFFICES ASSUME IInv, [Next]_vars, NEW x \in failed' \ failed
               PROVE  \E u \in ProcessOf(x), v \in Writers : InEachOthersWay(u, v)
    OBVIOUS
  <2>1. PICK w \in Writers : CreateFileFails(w)
    BY DEF Next, Start, Log, End, CreateFile, WriteFile, CloseFile, Kill, vars, history
  <2>2. x \in ProcessOf(w)
    BY <2>1 DEF CreateFileFails
  <2>3. w \in ProcessOf(x)
    BY <2>2 DEF ProcessOf
  <2>4. Running(w) /\ file[w] \in Files /\ openers[file[w]] # {}
    BY <2>1, RunningHasFile DEF CreateFileFails, Running, IInv
  <2>5. PICK v \in openers[file[w]] : TRUE
    BY <2>4
  <2>6. v \in Writers /\ v # w /\ Running(v) /\ file[v] = file[w]
    BY <2>1, <2>4, <2>5 DEF CreateFileFails, IInv, OpenInv, Running
  <2>7. PICK n \in Names, m \in Names : log_file_name(w, n) = log_file_name(v, m)
    BY <2>4, <2>6 DEF IInv, SessionInv
  <2>8. w \in ServiceThreads <=> v \in ServiceThreads
    BY <2>7 DEF log_file_name
  <2>9. InEachOthersWay(w, v)
    BY <2>4, <2>6, <2>8 DEF InEachOthersWay, Writers
  <2> QED
    BY <2>3, <2>6, <2>9
<1> QED
  BY <1>1, Inductive, PTL DEF Spec, EndedBySharingOnly
=============================================================================
