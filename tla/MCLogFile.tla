------------------------------ MODULE MCLogFile ------------------------------
(* Threads are alike, and so are clients and names.                         *)
EXTENDS LogFile, TLC

Alike == Permutations(ServiceThreads) \cup Permutations(Clients) \cup Permutations(Names)
=============================================================================
