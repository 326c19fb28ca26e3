----------------------------- MODULE BlockStore -----------------------------
(***************************************************************************)
(* What the transaction layer promises its clients (transactions.c and     *)
(* cachebuffers.c): a store of administration blocks with one level of     *)
(* transactions.  Inside a transaction the client changes its working      *)
(* copy; ending the transaction makes the working copy the saved one,      *)
(* deleting the transaction brings the saved one back, whatever happened   *)
(* in between.  There are no buffers, operations or disk here.             *)
(*                                                                         *)
(* Both copies are functions whose domain is the set of blocks in use.     *)
(***************************************************************************)
CONSTANTS Block,    \* block numbers
          Content   \* what a block can hold

VARIABLES inTransaction,  \* a transaction is open
          work,           \* what a reader sees now
          saved           \* what a reader saw when the transaction began

vars == <<inTransaction, work, saved>>

BlockMap == UNION {[B -> Content] : B \in SUBSET Block}

With(store, b, v) ==
  [x \in DOMAIN store \cup {b} |-> IF x = b THEN v ELSE store[x]]
Without(store, b) == [x \in DOMAIN store \ {b} |-> store[x]]

Init == /\ inTransaction = FALSE
        /\ work \in BlockMap
        /\ saved = work

Begin == /\ ~inTransaction
         /\ inTransaction' = TRUE
         /\ UNCHANGED <<work, saved>>

\* Stores new contents in a block, which is in use from then on.
Write(b, v) == /\ inTransaction
               /\ work' = With(work, b, v)
               /\ UNCHANGED <<inTransaction, saved>>

Free(b) == /\ inTransaction
           /\ b \in DOMAIN work
           /\ work' = Without(work, b)
           /\ UNCHANGED <<inTransaction, saved>>

\* A write that fails may cost the changes made to the block so far in this
\* transaction, but nothing older.
LoseChanges(b) == /\ inTransaction
                  /\ b \in DOMAIN work
                  /\ work' = IF b \in DOMAIN saved
                               THEN [work EXCEPT ![b] = saved[b]]
                               ELSE Without(work, b)
                  /\ UNCHANGED <<inTransaction, saved>>

Commit == /\ inTransaction
          /\ inTransaction' = FALSE
          /\ saved' = work
          /\ UNCHANGED work

Rollback == /\ inTransaction
            /\ inTransaction' = FALSE
            /\ work' = saved
            /\ UNCHANGED saved

Next == \/ Begin \/ Commit \/ Rollback
        \/ \E b \in Block : Free(b) \/ LoseChanges(b)
        \/ \E b \in Block, v \in Content : Write(b, v)

Spec == Init /\ [][Next]_vars
=============================================================================
