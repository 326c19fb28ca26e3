------------------------------ MODULE MCIOCache ------------------------------
(***************************************************************************)
(* Lines of eight blocks, the smallest for which a small write can touch   *)
(* two of them, on a volume of three and a quarter: one line more than the *)
(* cache has, and the last one cut short.  Of the transfers of an          *)
(* operation the first, the second, the third or none fails.               *)
(***************************************************************************)
EXTENDS IOCache

MCReads == {<<6, 4>>, <<4, 10>>}
MCWrites == {<<7, 2>>, <<6, 11>>, <<25, 1>>}
\* Writes around a gap in a line and into the gap, and a read of another line.
MCGapWrites == {<<7, 2>>, <<15, 1>>, <<10, 3>>}
MCGapReads == {<<17, 2>>}
MCWords == {5}
MCLefts == {0, 1, 2, 20}
=============================================================================
