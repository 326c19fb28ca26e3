------------------------------- MODULE MCFiles -------------------------------
(* Files for TLC: a file of three blocks and one of one block; the locks are *)
(* interchangeable.                                                          *)
EXTENDS Files, TLC
CONSTANTS long, short
TwoFiles == {long, short}
Limits == long :> 5 @@ short :> 2
Alike == Permutations(Locks)
=============================================================================
