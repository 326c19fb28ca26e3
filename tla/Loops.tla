-------------------------------- MODULE Loops ---------------------------------
(***************************************************************************)
(* The loops of the code, as functions on the number of turns.             *)
(***************************************************************************)
EXTENDS Naturals

\* A loop of that many turns, or of fewer when a turn then changes nothing.
Repeat(Turn(_), start, turns) ==
  LET at[i \in 0..turns] == IF i = 0 THEN start ELSE Turn(at[i - 1])
  IN at[turns]
===============================================================================
