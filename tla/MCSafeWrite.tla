---------------------------- MODULE MCSafeWrite -----------------------------
(***************************************************************************)
(* SafeWrite, with the invariant its proof rests on, on a small volume for *)
(* TLC.  The longwords of the bitmap stand for the Space blocks that may   *)
(* hold file data; the other Space blocks are always free.                 *)
(***************************************************************************)
EXTENDS SafeWriteProofs

MCInUse == [c \in Content |-> {s \in Cell : c[s] = 1}]
=============================================================================
