----------------------------- MODULE BlockDiffs -----------------------------
(***************************************************************************)
(* The differences the file system keeps between a block on disk and its   *)
(* changed version (compress, compressfromzero and uncompress in           *)
(* support.c, as built with LONGCOMPRESSION).                              *)
(*                                                                         *)
(* A diff is a sequence of codes, each for a run of longwords: unchanged,  *)
(* all zeroes, all ones, or given one by one.  What matters to those who   *)
(* use it is which longwords it sets and to what: a function from the      *)
(* longwords it sets to their values.  (A run of zeroes or ones may also   *)
(* set longwords that already had that value.)                             *)
(***************************************************************************)
CONSTANTS Cell,      \* the longwords of a block
          Val        \* what a longword can hold, 0 included

ASSUME ValAssumption == 0 \in Val

Content == [Cell -> Val]
Zero == [c \in Cell |-> 0]

Diff == UNION {[S -> Val] : S \in SUBSET Cell}
EmptyDiff == [c \in {} |-> 0]

Compress(org, new) ==
  [c \in {x \in Cell : org[x] # new[x]} |-> new[c]]

CompressFromZero(new) == new

Uncompress(data, diff) ==
  [c \in Cell |-> IF c \in DOMAIN diff THEN diff[c] ELSE data[c]]
=============================================================================
