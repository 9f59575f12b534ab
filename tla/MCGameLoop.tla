------------------------------ MODULE MCGameLoop ------------------------------
(* GameLoop on small instances: the real rules (7), the numbers up to the   *)
(* first boom and the one after it, and players whose names may coincide.   *)
EXTENDS GameLoop

MCMoves == {Boom} \cup 0..9
=============================================================================
