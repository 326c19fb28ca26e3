----------------------------- MODULE BitmapBlocks -----------------------------
(***************************************************************************)
(* The bitmap of a volume, spread over bitmap blocks of PerBitmap bits, of *)
(* which the last one may be partly used: the bits after the last block of *)
(* the volume are clear.                                                   *)
(***************************************************************************)
EXTENDS Integers

CONSTANTS Total,         \* blocks_total
          PerBitmap      \* blocks_inbitmap

ASSUME SizesAssumption == /\ Total \in Nat \ {0}
                          /\ PerBitmap \in Nat \ {0}

Volume == 0..(Total - 1)
LastBitmapBlock == (Total - 1) \div PerBitmap
Lesser(a, b) == IF a < b THEN a ELSE b
Least(S) == CHOOSE a \in S : \A b \in S : a <= b
Greatest(S) == CHOOSE a \in S : \A b \in S : b <= a
Blocks(block, n) == block..(block + n - 1)

Fragment(block, blocks) == [block |-> block, blocks |-> blocks]
NothingFound == Fragment(0, 0)
=============================================================================
