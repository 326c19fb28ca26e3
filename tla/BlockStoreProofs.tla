--------------------------- MODULE BlockStoreProofs ---------------------------
(***************************************************************************)
(* The proof that the transaction layer implements a store of blocks with  *)
(* one level of transactions (BlockStore), for any number of blocks and    *)
(* buffers and any contents, when no transaction fails after it reused a   *)
(* block.                                                                  *)
(*                                                                         *)
(* Coherent makes the refinement mapping simpler than it looks: what a     *)
(* reader sees of a block is what its latest operation makes of the block  *)
(* on disk, cached or not (Work), so that the buffers drop out of it, and  *)
(* a step is about operations and disk blocks only.                        *)
(***************************************************************************)
EXTENDS TransactionsProofs

\* The refinement mapping of KeepsPromise, and the same without the buffers.
Seen == [b \in live |-> IF b \in prepared THEN Image(LatestOperation(op, b), b)
                                          ELSE View(b)]
Work == [b \in live |-> Image(LatestOperation(op, b), b)]
Saved == [b \in liveSaved |-> Image(op[0][b], b)]

\* A step of BlockStore, without the buffers.
Inside == nest = 1 /\ nest' = nest /\ Saved' = Saved
Begins == nest # 1 /\ nest' = 1 /\ Work' = Work /\ Saved' = Saved
Writes(b, v) ==
  /\ Inside
  /\ Work' = [x \in live \cup {b} |-> IF x = b THEN v ELSE Work[x]]
Frees(b) == /\ Inside /\ b \in live
            /\ Work' = [x \in live \ {b} |-> Work[x]]
Loses(b) == /\ Inside /\ b \in live
            /\ Work' = IF b \in liveSaved THEN [Work EXCEPT ![b] = Saved[b]]
                       ELSE [x \in live \ {b} |-> Work[x]]
Commits == nest = 1 /\ nest' # 1 /\ Saved' = Work /\ Work' = Work
RollsBack == nest = 1 /\ nest' # 1 /\ Work' = Saved /\ Saved' = Saved
Stutters == nest' = nest /\ Work' = Work /\ Saved' = Saved
WorkStep ==
  \/ Begins \/ Commits \/ RollsBack \/ Stutters
  \/ \E b \in Block : Frees(b) \/ Loses(b)
  \/ \E b \in Block, v \in Content : Writes(b, v)

-----------------------------------------------------------------------------
(* The steps, one by one. *)

\* What Work and Saved become, as functions of the new operations and blocks.
LEMMA WorkIs ==
  /\ Work' = [a \in live' |-> Uncompress(disk'[a], LatestOperation(op', a).diff)]
  /\ Saved' = [a \in liveSaved' |-> Uncompress(disk'[a], op'[0][a].diff)]
  /\ Work = [a \in live |-> Uncompress(disk[a], LatestOperation(op, a).diff)]
  /\ Saved = [a \in liveSaved |-> Uncompress(disk[a], op[0][a].diff)]
  BY DEF Work, Saved, Image

\* A step that changes buffers only.
LEMMA Silent ==
  ASSUME UNCHANGED <<op, disk, nest, live, liveSaved>>
  PROVE  Stutters
  BY DEF Stutters, Work, Saved, Image

\* When the operation of the open transaction on one block changes, nothing
\* older does, and nothing about other blocks.
LEMMA OneChanges ==
  ASSUME Inv, NEW b \in Block, NEW o \in Operation,
         op' = [op EXCEPT ![1][b] = o], UNCHANGED <<disk, liveSaved>>
  PROVE  /\ Saved' = Saved
         /\ live' \ {b} = live \ {b} =>
              \A a \in live' \ {b} : a \in live /\ Work'[a] = Work[a]
         /\ b \in live' =>
              Work'[b] = Uncompress(disk[b], IF o # NoOperation THEN o.diff
                                                               ELSE op[0][b].diff)
         /\ DOMAIN Work' = live' /\ DOMAIN Work = live
  <1>1. /\ op'[1][b] = o
        /\ \A a \in Block : op'[0][a] = op[0][a]
        /\ \A a \in Block \ {b} : op'[1][a] = op[1][a]
    BY SetsOperation DEF Inv
  <1>2. live \subseteq Block /\ liveSaved \subseteq Block
    BY DEF Inv, OpsInv, TypeOK
  <1>3. /\ \A a \in Block \ {b} : LatestOperation(op', a) = LatestOperation(op, a)
        /\ LatestOperation(op', b) = IF o # NoOperation THEN o ELSE op[0][b]
    BY <1>1 DEF LatestOperation
  <1>4. Saved' = Saved
    BY <1>1, <1>2, WorkIs
  <1>5. DOMAIN Work' = live' /\ DOMAIN Work = live
    BY WorkIs
  <1>6. ASSUME live' \ {b} = live \ {b}, NEW a \in live' \ {b}
        PROVE  a \in live /\ Work'[a] = Work[a]
    <2>1. a \in live /\ a \in live' /\ LatestOperation(op', a) = LatestOperation(op, a)
      BY <1>2, <1>3, <1>6
    <2>2. QED
      BY <2>1, WorkIs
  <1>7. ASSUME b \in live'
        PROVE  Work'[b] = Uncompress(disk[b], IF o # NoOperation THEN o.diff
                                                               ELSE op[0][b].diff)
    BY <1>3, <1>7, WorkIs
  <1>8. QED
    BY <1>4, <1>5, <1>6, <1>7

\* Inside a transaction.
LEMMA InTransaction ==
  ASSUME Inv, NEW b \in prepared
  PROVE  nest = 1
  BY DEF Inv, OpsInv, NestOK, TypeOK, Level

\* storecachebuffer is a write of the block.
LEMMA StoreWrites ==
  ASSUME Inv, NEW b \in Block, Store(b)
  PROVE  \E v \in Content : Writes(b, v)
  <1> DEFINE x == Latest(cache, b)
             o == StoredOperation(cache, x)
             v == cache[x].data
  <1>1. /\ b \in prepared /\ live' = live \cup {b}
        /\ op' = [op EXCEPT ![1][b] = o] /\ UNCHANGED <<disk, nest, liveSaved>>
    BY DEF Store
  <1>2. /\ o \in Operation /\ o.kind # "none"
        /\ v \in Content /\ v = Uncompress(disk[b], o.diff)
    BY Stores
  <1> HIDE DEF x, o, v
  <1>3. o # NoOperation
    BY <1>2 DEF NoOperation
  <1>4. /\ Saved' = Saved
        /\ \A a \in live' \ {b} : a \in live /\ Work'[a] = Work[a]
        /\ Work'[b] = v
        /\ DOMAIN Work' = live'
    BY <1>1, <1>2, <1>3, OneChanges
  <1>5. Work' = [a \in live \cup {b} |-> IF a = b THEN v ELSE Work[a]]
    BY <1>1, <1>4, WorkIs
  <1>6. QED
    BY <1>1, <1>2, <1>4, <1>5, InTransaction DEF Writes, Inside

\* dumpcachebuffer: the operations stay, or the block loses that of this
\* transaction.
LEMMA DumpLoses ==
  ASSUME Inv, NEW b \in Block, Dump(b)
  PROVE  Stutters \/ Loses(b)
  <1>1. b \in prepared /\ UNCHANGED <<disk, nest, liveSaved>>
    BY DEF Dump
  <1>2. \/ op' = op /\ live' = live
        \/ /\ op' = [op EXCEPT ![1][b] = NoOperation]
           /\ live' = IF b \in liveSaved THEN live ELSE live \ {b}
    BY DEF Dump
  <1>3. CASE op' = op /\ live' = live
    BY <1>1, <1>3, Silent
  <1>4. CASE /\ op' = [op EXCEPT ![1][b] = NoOperation]
             /\ live' = IF b \in liveSaved THEN live ELSE live \ {b}
    <2>1. /\ Saved' = Saved
          /\ \A a \in live' \ {b} : a \in live /\ Work'[a] = Work[a]
          /\ b \in live' => Work'[b] = Uncompress(disk[b], op[0][b].diff)
          /\ DOMAIN Work' = live' /\ DOMAIN Work = live
      BY <1>1, <1>4, Operations, OneChanges
    <2>2. b \in liveSaved => Saved[b] = Uncompress(disk[b], op[0][b].diff)
      BY WorkIs
    <2>3. CASE b \notin live
      <3>1. live' = live
        BY <1>4, <2>3
      <3>2. Work' = Work
        BY <2>1, <2>3, <3>1, WorkIs
      <3>3. QED
        BY <1>1, <2>1, <3>2 DEF Stutters
    <2>4. CASE b \in live /\ b \in liveSaved
      <3>1. Work' = [Work EXCEPT ![b] = Saved[b]]
        BY <1>4, <2>1, <2>2, <2>4, WorkIs
      <3>2. QED
        BY <1>1, <2>1, <2>4, <3>1, InTransaction DEF Loses, Inside
    <2>5. CASE b \in live /\ b \notin liveSaved
      <3>1. Work' = [x \in live \ {b} |-> Work[x]]
        BY <1>4, <2>1, <2>5, WorkIs
      <3>2. QED
        BY <1>1, <2>1, <2>5, <3>1, InTransaction DEF Loses, Inside
    <2>6. QED
      BY <2>3, <2>4, <2>5
  <1>5. QED
    BY <1>2, <1>3, <1>4

\* addfreeoperation is a deletion of the block.
LEMMA FreeFrees ==
  ASSUME Inv, NEW b \in Block, Free(b)
  PROVE  Frees(b)
  <1>1. /\ b \in live /\ nest = 1 /\ live' = live \ {b}
        /\ UNCHANGED <<disk, nest, liveSaved>>
    BY DEF Free, CanChange
  <1>2. PICK o \in Operation : op' = [op EXCEPT ![1][b] = o]
    BY Operations DEF Free
  <1>3. /\ Saved' = Saved
        /\ \A a \in live' : a \in live /\ Work'[a] = Work[a]
        /\ DOMAIN Work' = live'
    BY <1>1, <1>2, OneChanges
  <1>4. Work' = [x \in live \ {b} |-> Work[x]]
    BY <1>1, <1>3, WorkIs
  <1>5. QED
    BY <1>1, <1>3, <1>4 DEF Frees, Inside

\* newtransaction: nothing was open, so that both copies are the same.
LEMMA NewBegins ==
  ASSUME Inv, NewTransaction
  PROVE  Begins
  <1>1. nest = 0 /\ nest' = 1 /\ UNCHANGED <<op, disk, live, liveSaved>>
    BY DEF NewTransaction, client
  <1>2. QED
    BY <1>1 DEF Begins, Work, Saved, Image

\* endtransaction: the operation of a block in use is its latest one.
LEMMA EndCommits ==
  ASSUME Inv, EndTransaction
  PROVE  Commits
  <1>1. nest = 1 /\ nest' = 0 /\ liveSaved' = live /\ UNCHANGED <<disk, live>>
    BY DEF EndTransaction
  <1>2. \A b \in live : /\ op'[1][b] = NoOperation
                        /\ op'[0][b] = LatestOperation(op, b)
    BY Combines DEF Inv, OpsInv, TypeOK
  <1>3. \A b \in live : LatestOperation(op', b) = LatestOperation(op, b)
    BY <1>2 DEF LatestOperation
  <1>4. Work' = Work /\ Saved' = Work
    BY <1>1, <1>2, <1>3, WorkIs
  <1>5. QED
    BY <1>1, <1>4 DEF Commits

\* deletetransaction: only the operations of the older transactions are left.
LEMMA DeleteRollsBack ==
  ASSUME Inv, DeleteTransaction
  PROVE  RollsBack
  <1>1. /\ nest = 1 /\ nest' = 0 /\ live' = liveSaved /\ UNCHANGED <<disk, liveSaved>>
        /\ op' = [op EXCEPT ![1] = [b \in Block |-> NoOperation]]
    BY DEF DeleteTransaction
  <1>2. \A b \in Block : op'[1][b] = NoOperation /\ op'[0][b] = op[0][b]
    BY <1>1 DEF Inv, OpsInv, TypeOK, Level
  <1>3. \A b \in liveSaved : /\ op'[0][b] = op[0][b]
                             /\ LatestOperation(op', b) = op[0][b]
    BY <1>2 DEF LatestOperation, Inv, OpsInv, TypeOK
  <1>4. Saved' = Saved
    BY <1>1, <1>3, WorkIs
  <1>5. Work' = Saved
    BY <1>1, <1>3, WorkIs
  <1>6. QED
    BY <1>1, <1>4, <1>5 DEF RollsBack

\* writeoperations: the block that is written is what its operation made of the
\* one on disk, and the operation is forgotten.
LEMMA WriteStutters ==
  ASSUME Inv, ~ReuseMayFail, NEW b \in Block, WriteOperation(b)
  PROVE  Stutters
  <1>1. PICK r \in Readings(b) : disk' = [disk EXCEPT ![b] = r.cache[r.cb].data]
    BY DEF WriteOperation
  <1> DEFINE g == r.cache
             x == r.cb
  <1>2. /\ op' = [op EXCEPT ![0][b] = NoOperation]
        /\ op[0][b] # NoOperation /\ nest = 0
        /\ UNCHANGED <<nest, live, liveSaved>>
    BY DEF WriteOperation, Inv, OpsInv, NestOK, client
  <1>3. /\ live = liveSaved /\ prepared = {} /\ live \subseteq Block
        /\ disk \in [Block -> Content]
        /\ \A a \in Block : op[1][a] = NoOperation
    BY <1>2, NoneIs DEF Inv, OpsInv, NestOK, TypeOK, Level
  <1>4. CacheInv(g) /\ x \in Buffer /\ g[x].blck = b /\ LatBits(g[x])
    <2>1. LatestKind(b) # "none"
      BY <1>2, LatestIs, NoneIs DEF Inv, Kind, LatestKind, Level
    <2>2. QED
      BY <1>2, <2>1, Reads DEF Inv, Readings
  <1>5. /\ op'[0][b] = NoOperation
        /\ \A a \in Block \ {b} : op'[0][a] = op[0][a]
        /\ \A a \in Block : op'[1][a] = NoOperation
    BY <1>2, <1>3 DEF Inv, OpsInv, TypeOK, Level
  <1> HIDE DEF g, x
  <1>6. disk'[b] = g[x].data /\ \A a \in Block \ {b} : disk'[a] = disk[a]
    BY <1>1, <1>3 DEF g, x
  <1>7. b \in live =>
          /\ g[x].data = Uncompress(disk[b], LatestOperation(op, b).diff)
          /\ g[x].data \in Content
    BY <1>3, <1>4 DEF CacheInv, LatestsOK, Fits, Shapes, CacheBuffer
  <1>8. ASSUME NEW a \in live
        PROVE  /\ LatestOperation(op', a) = op'[0][a]
               /\ LatestOperation(op, a) = op[0][a]
               /\ Uncompress(disk'[a], op'[0][a].diff) = Uncompress(disk[a], op[0][a].diff)
    <2>1. /\ LatestOperation(op', a) = op'[0][a]
          /\ LatestOperation(op, a) = op[0][a]
      BY <1>3, <1>5 DEF LatestOperation
    <2>2. CASE a = b
      <3>1. Uncompress(g[x].data, EmptyDiff) = g[x].data
        BY <1>7, <2>2, Diffs
      <3>2. op'[0][b].diff = EmptyDiff
        BY <1>5, Operations
      <3>3. QED
        BY <1>6, <1>7, <2>1, <2>2, <3>1, <3>2
    <2>3. CASE a # b
      BY <1>3, <1>5, <1>6, <2>1, <2>3
    <2>4. QED
      BY <2>1, <2>2, <2>3
  <1>9. Work' = Work /\ Saved' = Saved
    BY <1>2, <1>3, <1>8, WorkIs
  <1>10. QED
    BY <1>2, <1>9 DEF Stutters

\* Every step is one of the store, or changes buffers only.
LEMMA NextWorks ==
  ASSUME Inv, ~ReuseMayFail, [Next]_vars
  PROVE  WorkStep
  <1>1. CASE \/ TakeBuffer \/ InvalidateCaches \/ FlushTransaction \/ FlushDone
             \/ UNCHANGED vars
    BY <1>1, Silent DEF WorkStep, TakeBuffer, InvalidateCaches, FlushTransaction,
       FlushDone, vars, client
  <1>2. ASSUME NEW b \in Block, \/ Read(b) \/ Lock(b) \/ Unlock(b) \/ Prepare(b)
                                \/ New(b) \/ CancelFlush(b)
                                \/ \E data \in Content : Modify(b, data)
        PROVE  WorkStep
    BY <1>2, Silent DEF WorkStep, Read, Lock, Unlock, Prepare, New, CancelFlush, Modify,
       client
  <1>3. CASE NewTransaction \/ EndTransaction \/ DeleteTransaction
    BY <1>3, NewBegins, EndCommits, DeleteRollsBack DEF WorkStep
  <1>4. ASSUME NEW b \in Block, Store(b) \/ Dump(b) \/ Free(b) \/ WriteOperation(b)
        PROVE  WorkStep
    BY <1>4, StoreWrites, DumpLoses, FreeFrees, WriteStutters DEF WorkStep
  <1>5. QED
    BY <1>1, <1>2, <1>3, <1>4 DEF Next

-----------------------------------------------------------------------------
(* The refinement. *)

\* What a reader sees does not depend on what is cached.
CacheHidden == Seen = Work

LEMMA CoherentHides ==
  ASSUME Coherent
  PROVE  CacheHidden
  BY DEF CacheHidden, Seen, Work, Coherent

\* Nothing is changed in memory at first.
LEMMA InitStore ==
  ASSUME Init
  PROVE  Abstract!Init
  <1>1. /\ nest = 0 /\ live = liveSaved /\ prepared = {} /\ live \in SUBSET Block
        /\ disk \in [Block -> Content]
        /\ \A x \in Buffer : cache[x] = Unused
        /\ \A l \in Level, b \in Block : op[l][b] = NoOperation
    BY DEF Init
  <1>2. \A b \in Block : LatestOperation(op, b) = NoOperation /\ op[0][b] = NoOperation
    BY <1>1 DEF LatestOperation, Level
  <1>3. \A b \in Block : Image(NoOperation, b) = disk[b] /\ disk[b] \in Content
    BY <1>1, Operations, Diffs DEF Image
  <1>4. \A b \in Block : Latests(cache, b) = {}
    BY <1>1, NoBlockAssumption DEF Latests, Unused
  <1>5. Seen = [b \in live |-> disk[b]] /\ Saved = [b \in liveSaved |-> disk[b]]
    BY <1>1, <1>2, <1>3, <1>4 DEF Seen, Saved, View
  <1>6. [b \in live |-> disk[b]] \in Abstract!BlockMap
    BY <1>1 DEF Abstract!BlockMap
  <1>7. QED
    BY <1>1, <1>5, <1>6 DEF Abstract!Init, Seen, Saved

\* A step of the store, in its own words.
LEMMA StepStore ==
  ASSUME WorkStep, CacheHidden, CacheHidden'
  PROVE  [Abstract!Next]_Abstract!vars
  <1> USE DEF CacheHidden
  <1>1. DOMAIN Seen = live /\ DOMAIN Saved = liveSaved
    BY DEF Seen, Saved
  <1>2. CASE Begins
    BY <1>2 DEF Begins, Abstract!Begin, Abstract!Next, Seen, Saved
  <1>3. CASE Commits
    BY <1>3 DEF Commits, Abstract!Commit, Abstract!Next, Seen, Saved
  <1>4. CASE RollsBack
    BY <1>4 DEF RollsBack, Abstract!Rollback, Abstract!Next, Seen, Saved
  <1>5. CASE Stutters
    BY <1>5 DEF Stutters, Abstract!vars, Seen, Saved
  <1>6. ASSUME NEW b \in Block, Frees(b)
        PROVE  Abstract!Next
    <2>1. Abstract!Free(b)
      BY <1>1, <1>6 DEF Frees, Inside, Abstract!Free, Abstract!Without, Seen, Saved
    <2>2. QED
      BY <2>1 DEF Abstract!Next
  <1>7. ASSUME NEW b \in Block, Loses(b)
        PROVE  Abstract!Next
    <2>1. Abstract!LoseChanges(b)
      BY <1>1, <1>7 DEF Loses, Inside, Abstract!LoseChanges, Abstract!Without, Seen, Saved
    <2>2. QED
      BY <2>1 DEF Abstract!Next
  <1>8. ASSUME NEW b \in Block, NEW v \in Content, Writes(b, v)
        PROVE  Abstract!Next
    <2>1. Abstract!Write(b, v)
      BY <1>1, <1>8 DEF Writes, Inside, Abstract!Write, Abstract!With, Seen, Saved
    <2>2. QED
      BY <2>1 DEF Abstract!Next
  <1>9. QED
    BY <1>2, <1>3, <1>4, <1>5, <1>6, <1>7, <1>8 DEF WorkStep

\* The transaction layer keeps what it promises its clients: whatever is
\* evicted, restored, combined and flushed, a read gives what was last stored,
\* endtransaction keeps it and deletetransaction brings back what there was; when
\* no transaction fails after it reused a block.
THEOREM ImplementsBlockStore ==
  ASSUME ~ReuseMayFail
  PROVE  Spec => KeepsPromise
  <1>1. Init => Abstract!Init
    BY InitStore
  <1>2. Coherent => CacheHidden
    BY CoherentHides
  <1>3. Inv /\ [Next]_vars /\ CacheHidden /\ CacheHidden' => [Abstract!Next]_Abstract!vars
    BY NextWorks, StepStore
  <1>4. QED
    BY <1>1, <1>2, <1>3, SpecInv, SpecCoherent, PTL DEF Spec, KeepsPromise, Abstract!Spec
=============================================================================
