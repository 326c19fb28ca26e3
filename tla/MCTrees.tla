------------------------------- MODULE MCTrees -------------------------------
(***************************************************************************)
(* The two trees of a volume and the tree of the pending operations, for   *)
(* TLC.  Those of the volume have nothing in common but the administration *)
(* spaces, and the third one nothing with them, so that each is changed    *)
(* only while the others are as they were at first.                        *)
(*                                                                         *)
(* Eleven keys are the fewest that make a B-tree of three levels with four *)
(* nodes to a container.  Of the keys up to the highest one in the tree no *)
(* more than Gaps are missing.                                             *)
(***************************************************************************)
EXTENDS NodeTree, FiniteSetsExt

CONSTANTS Keys, BRoot, AdminBlocks, LeafBranches, NodeBranches,
          Gaps, Blocks, Places

VARIABLES btree, nest, operations

B == INSTANCE BTree WITH tree <- btree, Root <- BRoot
ASSUME BTreeAssumption == B!SizesRight
R == INSTANCE OperationTree WITH tree <- operations

FewGaps == B!LeafKeys = {}
           \/ Max(B!LeafKeys) - Cardinality(B!LeafKeys) <= Gaps

NodesAsFormatted == Init /\ free = MoreAreas

AllInit == Init /\ B!Init /\ R!Init
AllNext ==
  \/ R!Init /\ B!Init /\ Next /\ UNCHANGED <<btree, nest, operations>>
  \/ R!Init /\ NodesAsFormatted /\ B!Next /\ UNCHANGED <<vars, nest, operations>>
  \/ B!Init /\ NodesAsFormatted /\ R!Next /\ UNCHANGED <<vars, btree>>
AllSpec == AllInit /\ [][AllNext]_<<vars, btree, nest, operations>>

\* The containers of the B-tree are in order, filled as they should be, and
\* each in use once; from each key the search finds the neighbours (BTree).
KeysInPlace == B!EachBlockOnce /\ B!Balanced /\ B!NeighboursFound

\* The B-tree is a set of keys (BTree).
IsKeySet == B!IsKeySet

\* The tree of the operations is a red-black tree, and what is looked for is
\* found (OperationTree).
OperationsInPlace == R!Balanced /\ R!Found

\* It is a set of operations, one for a block and a level (OperationTree).
IsOperationSet == R!IsOperationSet
=============================================================================
