---------------------------- MODULE Transactions ----------------------------
(***************************************************************************)
(* The transaction layer of the file system (transactions.c) working on    *)
(* the buffer cache (cachebuffers.c): the file system task reads, prepares,*)
(* changes and stores blocks inside a transaction; operations (diffs with  *)
(* the block on disk) collect in memory, at level 1 those of the open      *)
(* transaction and at level 0 those of the ended ones, until a flush       *)
(* writes the blocks out and forgets the operations.                       *)
(*                                                                         *)
(* The file system is one task: an action is a call of one of its          *)
(* functions, and a flush (writeoperations) is one action per block, as    *)
(* the user may cancel it between two blocks.  The operations, a red-black *)
(* tree with at most one entry per block and level, are a function.  What  *)
(* the disk driver has really written is the subject of SafeWrite.         *)
(***************************************************************************)
EXTENDS CacheBuffers

CONSTANTS MaxLocks,          \* buffers the clients keep locked at a time
          ReuseMayFail       \* may a transaction fail after it freed a block
                             \* it had stored, or allocated one it had freed?

ASSUME MaxLocksAssumption == MaxLocks \in Nat \ {0}

VARIABLES cache,      \* the buffers
          op,         \* op[level][block], the operations in memory
          disk,       \* the blocks, as read() and write() see them
          nest,       \* transactionnestcount
          flushing,   \* inside writeoperations
          prepared,   \* blocks prepared and not yet stored or dumped
          held,       \* blocks whose buffer a client has locked
          live,       \* blocks in use (the bits of the AdminSpaces)
          liveSaved,  \* live, when the transaction began
          reused,     \* blocks this transaction stored and then freed, or
                      \* freed and then allocated
          failed      \* a call of this transaction returned an error; the
                      \* clients then only let go of what they hold

client == <<prepared, held, live, liveSaved, reused, failed>>
vars == <<cache, op, disk, nest, flushing, client>>

Level == {0, 1}

\* getlatestoperation
LatestOperation(ops, b) == IF ops[1][b] # NoOperation THEN ops[1][b]
                                                      ELSE ops[0][b]
Pending(ops) == {b \in Block : \E l \in Level : ops[l][b] # NoOperation}

Readings(b) == ReadCacheBuffer(cache, b, LatestOperation(op, b), disk)

Init == /\ cache = [x \in Buffer |-> Unused]
        /\ op = [l \in Level |-> [b \in Block |-> NoOperation]]
        /\ disk \in [Block -> Content]
        /\ nest = 0 /\ flushing = FALSE
        /\ prepared = {} /\ held = {} /\ reused = {} /\ failed = FALSE
        /\ live \in SUBSET Block /\ liveSaved = live

-----------------------------------------------------------------------------
(* Reading and locking, inside and outside transactions. *)

Read(b) == /\ ~flushing /\ b \in live
           /\ Latests(cache, b) = {}
           /\ \E r \in Readings(b) : cache' = r.cache
           /\ UNCHANGED <<op, disk, nest, flushing, client>>

\* A read error, after a buffer was taken for the block; savetransaction and
\* removetransactionfailure take a buffer the same way.
TakeBuffer == /\ ~flushing
              /\ cache' \in Evictions(cache)
              /\ UNCHANGED <<op, disk, nest, flushing, client>>

Lock(b) == /\ ~flushing /\ b \in live \ held
           /\ Cardinality(held) + Cardinality(prepared) < MaxLocks
           /\ Latests(cache, b) # {}
           /\ cache' = [cache EXCEPT ![Latest(cache, b)].locked = @ + 1]
           /\ held' = held \cup {b}
           /\ UNCHANGED <<op, disk, nest, flushing, prepared, live, liveSaved,
                          reused, failed>>

Unlock(b) == /\ ~flushing /\ b \in held
             /\ cache' = [cache EXCEPT ![Latest(cache, b)].locked = @ - 1]
             /\ held' = held \ {b}
             /\ UNCHANGED <<op, disk, nest, flushing, prepared, live,
                            liveSaved, reused, failed>>

\* invalidatecachebuffers, when a volume goes: every buffer is reset.
InvalidateCaches == /\ nest = 0 /\ ~flushing /\ held = {}
                    /\ cache' = [x \in Buffer |-> Unused]
                    /\ UNCHANGED <<op, disk, nest, flushing, client>>

-----------------------------------------------------------------------------
(* Changing blocks in a transaction. *)

CanChange == nest = 1 /\ ~failed
CanPrepare == /\ CanChange
              /\ Cardinality(held) + Cardinality(prepared) < MaxLocks

\* The transaction meets an error (a full disk, no memory, a bad block).
Fails == /\ failed' = TRUE
         /\ ReuseMayFail \/ reused' = {}

\* preparecachebuffer, on a buffer that was just read.
Prepare(b) ==
  /\ CanPrepare /\ b \in live \ prepared
  /\ Latests(cache, b) # {}
  /\ cache' \in PrepareCacheBuffer(cache, Latest(cache, b))
  /\ prepared' = prepared \cup {b}
  /\ UNCHANGED <<op, disk, nest, flushing, held, live, liveSaved, reused,
                 failed>>

\* newcachebuffer, on a block that was not in use.
New(b) ==
  /\ CanPrepare /\ b \notin live \cup prepared \cup held
  /\ cache' \in NewCacheBuffer(cache, b)
  /\ prepared' = prepared \cup {b}
  /\ reused' = IF b \in liveSaved THEN reused \cup {b} ELSE reused
  /\ UNCHANGED <<op, disk, nest, flushing, held, live, liveSaved, failed>>

\* A client writes in the buffer it has prepared.
Modify(b, data) ==
  /\ b \in prepared
  /\ cache' = [cache EXCEPT ![Latest(cache, b)].data = data]
  /\ UNCHANGED <<op, disk, nest, flushing, client>>

\* storecachebuffer: the difference with the original becomes the operation
\* of this transaction on the block, and replaces the one it had.
Store(b) ==
  LET x == Latest(cache, b)
  IN /\ b \in prepared
     /\ op' = [op EXCEPT ![1][b] = StoredOperation(cache, x)]
     /\ cache' = [cache EXCEPT ![x].locked = @ - 1]
     /\ prepared' = prepared \ {b}
     /\ live' = live \cup {b}
     /\ UNCHANGED <<disk, nest, flushing, held, liveSaved, reused, failed>>

\* dumpcachebuffer, by a client that met an error, or by storecachebuffer:
\* when the disk is too full the operations stay (ops = op), when there is
\* no memory addoperation has removed the one it was to replace.
Dump(b) ==
  LET x == Latest(cache, b)
      unlocked == [cache EXCEPT ![x].locked = @ - 1]
  IN /\ b \in prepared
     /\ \E ops \in {op, [op EXCEPT ![1][b] = NoOperation]} :
          /\ op' = ops
          /\ cache' = RestoreCacheBuffer(unlocked, x, LatestOperation(ops, b))
          /\ live' = IF b \in liveSaved \/ ops = op THEN live
                                                    ELSE live \ {b}
     /\ prepared' = prepared \ {b}
     /\ UNCHANGED <<disk, nest, flushing, held, liveSaved, reused>>
     /\ Fails

\* addfreeoperation, once the AdminSpace says that the block is not in use:
\* the operation of this transaction on the block is removed, and a deletion
\* takes its place unless there is no memory for it.
Free(b) ==
  /\ CanChange /\ b \in live \ prepared
  /\ live' = live \ {b}
  /\ reused' = IF op[1][b] # NoOperation THEN reused \cup {b} ELSE reused
  /\ \/ op' = [op EXCEPT ![1][b] = DeleteOperation] /\ UNCHANGED failed
     \/ op' = [op EXCEPT ![1][b] = NoOperation] /\ Fails
  /\ UNCHANGED <<cache, disk, nest, flushing, prepared, held, liveSaved>>

-----------------------------------------------------------------------------
(* Transactions. *)

NewTransaction == /\ nest = 0 /\ ~flushing
                  /\ nest' = 1
                  /\ UNCHANGED <<cache, op, disk, flushing, client>>

\* combineoperations, for the operations on b: the newer one is kept, and a
\* deletion goes with the operation it deletes.
Superseded(b) == op[0][b] # NoOperation /\ op[1][b].kind = "delete"

\* A wrong combineoperations, for TLC: an older operation is kept.
CombinedOperationOld(b) == IF op[0][b] = NoOperation THEN op[1][b]
                           ELSE IF Superseded(b) THEN NoOperation
                           ELSE op[0][b]

CombinedOperation(b) == IF op[1][b] = NoOperation THEN op[0][b]
                        ELSE IF Superseded(b) THEN NoOperation
                        ELSE op[1][b]

CombinedBuffer(x) ==
  LET buf == cache[x]
  IN IF buf.blck \in Block /\ Superseded(buf.blck)
       THEN IF "LATEST" \in buf.bits THEN Unused
            ELSE [buf EXCEPT !.bits = @ \cup {"LATEST"}]
       ELSE buf

\* endtransaction
EndTransaction ==
  /\ nest = 1 /\ ~failed /\ prepared = {} /\ held \subseteq live
  /\ op' = [op EXCEPT ![0] = [b \in Block |-> CombinedOperation(b)],
                      ![1] = [b \in Block |-> NoOperation]]
  /\ cache' = [x \in Buffer |-> CombinedBuffer(x)]
  /\ nest' = 0
  /\ liveSaved' = live /\ reused' = {}
  /\ UNCHANGED <<disk, flushing, prepared, held, live, failed>>

\* A wrong deletetransaction, for TLC: it forgets the blocks whose latest
\* version is not in the cache.
RolledBackLatest(b) ==
  IF op[1][b].kind \in {"none", "delete"} \/ Latests(cache, b) = {} THEN cache
  ELSE RestoreCacheBuffer(cache, Latest(cache, b), op[0][b])

\* deletetransaction, for the operations on b of this transaction.
RolledBack(b) ==
  IF op[1][b].kind \in {"none", "delete"} THEN cache
  ELSE IF Latests(cache, b) # {}
         THEN RestoreCacheBuffer(cache, Latest(cache, b), op[0][b])
  ELSE IF Originals(cache, b) # {} /\ op[0][b] = NoOperation
         THEN [cache EXCEPT ![Original(cache, b)].bits = @ \cup {"LATEST"}]
  ELSE cache

\* deletetransaction
DeleteTransaction ==
  /\ nest = 1 /\ prepared = {} /\ held \subseteq live \cap liveSaved
  /\ failed \/ ReuseMayFail \/ reused = {}
  /\ op' = [op EXCEPT ![1] = [b \in Block |-> NoOperation]]
  /\ cache' = [x \in Buffer |-> IF cache[x].blck \in Block
                                  THEN RolledBack(cache[x].blck)[x]
                                  ELSE cache[x]]
  /\ nest' = 0
  /\ live' = liveSaved /\ reused' = {} /\ failed' = FALSE
  /\ UNCHANGED <<disk, flushing, prepared, held, liveSaved>>

-----------------------------------------------------------------------------
(* Flushing: the blocks are written in the order of the tree, which may be *)
(* any order here.                                                         *)

FlushTransaction ==
  /\ nest = 0 /\ ~flushing /\ Pending(op) # {}
  /\ \E c \in Evictions(cache) : cache' \in Evictions(c)
  /\ flushing' = TRUE
  /\ UNCHANGED <<op, disk, nest, client>>

\* One turn of the loop of writeoperations: what is read is written, the
\* original is reset (it may be the buffer that was read, when the block was
\* freed unchanged) and the buffer read becomes the original.
WriteOperation(b) ==
  /\ flushing /\ op[0][b] # NoOperation
  /\ \E r \in Readings(b) :
       /\ disk' = [disk EXCEPT ![b] = r.cache[r.cb].data]
       /\ cache' = [EmptyBuffers(r.cache, Originals(r.cache, b))
                      EXCEPT ![r.cb].bits = {"ORIGINAL", "LATEST"}]
  /\ op' = [op EXCEPT ![0][b] = NoOperation]
  /\ UNCHANGED <<nest, flushing, client>>

\* The read or the write failed and the user chose Cancel.
CancelFlush(b) ==
  /\ flushing /\ op[0][b] # NoOperation
  /\ \/ \E r \in Readings(b) : cache' = r.cache
     \/ cache' \in Evictions(cache)
  /\ flushing' = FALSE
  /\ UNCHANGED <<op, disk, nest, client>>

FlushDone == /\ flushing /\ Pending(op) = {}
             /\ cache' \in Evictions(cache)
             /\ flushing' = FALSE
             /\ UNCHANGED <<op, disk, nest, client>>

-----------------------------------------------------------------------------
Next ==
  \/ NewTransaction \/ EndTransaction \/ DeleteTransaction
  \/ FlushTransaction \/ FlushDone \/ TakeBuffer \/ InvalidateCaches
  \/ \E b \in Block :
       \/ Read(b) \/ Lock(b) \/ Unlock(b)
       \/ Prepare(b) \/ New(b) \/ Store(b) \/ Dump(b) \/ Free(b)
       \/ WriteOperation(b) \/ CancelFlush(b)
       \/ \E data \in Content : Modify(b, data)

Spec == Init /\ [][Next]_vars

-----------------------------------------------------------------------------
(* What the file system relies on. *)

\* What the operation o makes of the block on disk.
Image(o, b) == Uncompress(disk[b], o.diff)

\* What readcachebuffer returns for b.
View(b) == IF Latests(cache, b) # {} THEN cache[Latest(cache, b)].data
                                     ELSE Image(LatestOperation(op, b), b)

\* The buffers, the operations and the blocks are what their declarations say;
\* no lock is given back that was not taken.
TypeOK == /\ cache \in [Buffer -> CacheBuffer]
          /\ op \in [Level -> [Block -> Operation]]
          /\ disk \in [Block -> Content]
          /\ nest \in Level /\ flushing \in BOOLEAN
          /\ prepared \subseteq Block /\ held \subseteq Block
          /\ live \subseteq Block /\ liveSaved \subseteq Block
          /\ reused \subseteq Block /\ failed \in BOOLEAN

\* "There is at maximum one CB_ORIGINAL cachebuffer of any block ... one
\* CB_LATEST cachebuffer of any block."  (transactions.c, CacheBuffer rules)
OneOfAKind == \A b \in Block : /\ Cardinality(Originals(cache, b)) <= 1
                              /\ Cardinality(Latests(cache, b)) <= 1

\* The original of a changed block is in the cache as long as the changed
\* buffer is: storing and restoring never have to read the disk.
OriginalStays ==
  \A x \in Buffer :
    LatestOnly(cache[x]) /\ "EMPTY" \notin cache[x].bits
      => Originals(cache, cache[x].blck) # {}

\* A buffer with one of the two flags belongs to a block with an operation,
\* unless the block is being changed or is not in use.
ModifiedHasOperation ==
  \A x \in Buffer :
    /\ OriginalOnly(cache[x]) \/ LatestOnly(cache[x])
    /\ cache[x].blck \in live \ prepared
    => cache[x].blck \in Pending(op)

\* The check at the end of writeoperations (CHECKCODE): no buffer is left that
\* is an original only when no operation is left.
FlushedCacheIsClean ==
  flushing /\ Pending(op) = {} => \A x \in Buffer : ~OriginalOnly(cache[x])

\* The rules for the flags of buffers ("CacheBuffer rules" in transactions.c),
\* which all of its functions depend on.
RulesKept == /\ TypeOK /\ OneOfAKind /\ OriginalStays /\ ModifiedHasOperation
             /\ FlushedCacheIsClean

\* An ORIGINAL buffer is what the disk holds.
OriginalIsDisk ==
  \A x \in Buffer : "ORIGINAL" \in cache[x].bits /\ cache[x].blck # NoBlock
                     => cache[x].data = disk[cache[x].blck]

\* What is cached for a block in use is what its latest operation makes of
\* the block on disk: losing the buffer would lose nothing.
Coherent == \A b \in live \ prepared : View(b) = Image(LatestOperation(op, b), b)

\* The locks on the buffer of a block are those its clients have taken, on
\* the LATEST buffer: no buffer is taken from under a client.
LocksKept ==
  \A x \in Buffer :
    cache[x].locked = IF "LATEST" \in cache[x].bits
                        THEN Cardinality({cache[x].blck} \cap held)
                             + Cardinality({cache[x].blck} \cap prepared)
                        ELSE 0

\* getcachebuffer finds a buffer whenever one is needed to read or to prepare.
BuffersSuffice ==
  \A b \in Block :
    /\ Readings(b) # {}
    /\ \A x \in Latests(cache, b) : PrepareCacheBuffer(cache, x) # {}

\* "All CacheBuffers which had an operation on them in the to be deleted
\* transaction will be restored to what they were at the time of
\* newtransaction()." (the comment at the head of deletetransaction)
RollbackRestores ==
  nest = 0 => \A b \in live : View(b) = Image(op[0][b], b)

\* What the clients rely on: whatever is evicted, restored, combined and
\* flushed, they see a store of blocks with transactions (BlockStore).  A read
\* gives what was last stored, ending a transaction keeps it, deleting one
\* brings back what there was before it.
Abstract == INSTANCE BlockStore WITH
  inTransaction <- nest = 1,
  work <- [b \in live |-> IF b \in prepared THEN Image(LatestOperation(op, b), b)
                                            ELSE View(b)],
  saved <- [b \in liveSaved |-> Image(op[0][b], b)]
KeepsPromise == Abstract!Spec
=============================================================================
