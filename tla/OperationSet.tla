---------------------------- MODULE OperationSet -----------------------------
(***************************************************************************)
(* The pending operations (transactions.c) as what they are to the rest of *)
(* the file system: at most one for a block on each of two levels.  Level  *)
(* 1 is the transaction on its way.                                        *)
(***************************************************************************)
EXTENDS Naturals

CONSTANT Blocks

VARIABLES nest, operations    \* operations: pairs of a block and a level

vars == <<nest, operations>>

Init == nest = 0 /\ operations = {}

On(level) == {o \in operations : o[2] = level}

NewTransaction == nest = 0 /\ nest' = 1 /\ UNCHANGED operations

Add == /\ nest = 1
       /\ \E block \in Blocks :
            operations' = operations \cup {<<block, 1>>}
       /\ UNCHANGED nest
Remove == /\ nest = 1
          /\ \E o \in On(1) : operations' = operations \ {o}
          /\ UNCHANGED nest

\* A block that was deleted and has an older operation has none afterwards.
EndTransaction ==
  /\ nest = 1 /\ nest' = 0
  /\ \E deleted \in SUBSET Blocks :
       operations' = {<<o[1], 0>> : o \in operations}
         \ {<<block, 0>> : block \in
              {b \in deleted : {<<b, 0>>, <<b, 1>>} \subseteq operations}}

DeleteTransaction == /\ nest = 1 /\ nest' = 0
                     /\ operations' = operations \ On(1)

\* The operations are written in the order of the blocks; an error ends it.
WriteOperations ==
  /\ nest = 0 /\ UNCHANGED nest
  /\ \E written \in SUBSET Blocks :
       /\ \A b \in written, c \in Blocks \ written : b < c
       /\ operations' = {o \in operations : o[1] \notin written}

Next == \/ NewTransaction \/ Add \/ Remove \/ EndTransaction \/ DeleteTransaction
        \/ WriteOperations

Spec == Init /\ [][Next]_vars
=============================================================================
