----------------------------- MODULE BuffersProofs ----------------------------
(***************************************************************************)
(* The proof that the buffer cache never runs out of buffers: whatever was *)
(* read, changed and restored, getcachebuffer finds one that it may reuse, *)
(* when there are at least 2 * MaxLocks + 2 of them.                       *)
(*                                                                         *)
(* A block keeps two buffers from being reused at most, the original and   *)
(* the latest, and only while a client has locked the latest: to get at    *)
(* the latest buffer of another block is to find one to reuse.  Reading a  *)
(* block and preparing it takes two more.                                  *)
(***************************************************************************)
EXTENDS TransactionsProofs

EnoughBuffers == IsFiniteSet(Buffer) /\ Cardinality(Buffer) >= 2 * MaxLocks + 2

\* The locks that clients have: the second conjunct of the inductive invariant.
LocksBounded == /\ IsFiniteSet(held) /\ IsFiniteSet(prepared)
                /\ Cardinality(held) + Cardinality(prepared) <= MaxLocks

\* Only the latest buffers of the blocks of L are locked.
LockedIn(c, L) ==
  \A z \in Buffer : c[z].locked # 0 => LatBits(c[z]) /\ c[z].blck \in L

-----------------------------------------------------------------------------
(* Counting. *)

\* Different buffers for different blocks: no more buffers than blocks.
LEMMA OnePerBlock ==
  ASSUME NEW U, NEW L, IsFiniteSet(L), NEW c,
         \A z \in U : c[z].blck \in L,
         \A y, z \in U : c[y].blck = c[z].blck => y = z
  PROVE  IsFiniteSet(U) /\ Cardinality(U) <= Cardinality(L)
  <1> DEFINE f == [z \in U |-> c[z].blck]
  <1>1. f \in Injection(U, L)
    BY DEF Injection, IsInjective
  <1>2. QED
    BY <1>1, FS_Injection

\* A block has two buffers at most.
LEMMA TwoPerBlock ==
  ASSUME NEW c, Shapes(c), Singles(c), NEW U \in SUBSET Buffer,
         NEW L \in SUBSET Block, IsFiniteSet(L), \A z \in U : c[z].blck \in L
  PROVE  IsFiniteSet(U) /\ Cardinality(U) <= 2 * Cardinality(L)
  <1> DEFINE A == {z \in U : LatBits(c[z])}
             B == {z \in U : ~LatBits(c[z])}
  <1>1. \A z \in U : c[z].blck # NoBlock
    BY NoBlockAssumption
  <1>2. \A z \in B : OrgBits(c[z])
    BY <1>1 DEF Shapes, OrgBits, LatBits
  <1>3. /\ \A y, z \in A : c[y].blck = c[z].blck => y = z
        /\ \A y, z \in B : c[y].blck = c[z].blck => y = z
    BY <1>1, <1>2 DEF Singles
  <1>4. /\ IsFiniteSet(A) /\ Cardinality(A) <= Cardinality(L)
        /\ IsFiniteSet(B) /\ Cardinality(B) <= Cardinality(L)
    <2>1. \A z \in A : c[z].blck \in L
      OBVIOUS
    <2>2. \A z \in B : c[z].blck \in L
      OBVIOUS
    <2> HIDE DEF A, B
    <2>3. QED
      BY <1>3, <2>1, <2>2, OnePerBlock
  <1>5. U = A \cup B /\ A \cap B = {}
    OBVIOUS
  <1> HIDE DEF A, B
  <1>6. IsFiniteSet(A \cup B)
        /\ Cardinality(A \cup B)
             = Cardinality(A) + Cardinality(B) - Cardinality(A \cap B)
    BY <1>4, FS_Union
  <1>7. Cardinality(A \cap B) = 0
    BY <1>5, FS_EmptySet
  <1>8. /\ Cardinality(A) \in Nat /\ Cardinality(B) \in Nat /\ Cardinality(L) \in Nat
    BY <1>4, FS_CardinalityType
  <1>9. QED
    BY <1>4, <1>5, <1>6, <1>7, <1>8

\* A buffer can be reused, and also when one that holds an original must stay.
LEMMA SomeReusable ==
  ASSUME EnoughBuffers, NEW c, Shapes(c), Singles(c),
         NEW L \in SUBSET Block, IsFiniteSet(L), Cardinality(L) <= MaxLocks,
         LockedIn(c, L)
  PROVE  /\ Reusable(c) # {}
         /\ \A x \in Buffer : OrgBits(c[x]) /\ c[x].blck # NoBlock =>
              Reusable([c EXCEPT ![x].locked = @ + 1]) # {}
  <1>1. Cardinality(L) \in Nat /\ MaxLocks \in Nat /\ Cardinality(Buffer) \in Nat
    BY FS_CardinalityType, MaxLocksAssumption DEF EnoughBuffers
  <1>2. \A z \in Buffer : OriginalOnly(c[z]) => c[z].bits = Org
    <2>1. \A z \in Buffer : c[z].bits \in {{}, Org, Clean, Changed, Fresh}
      BY DEF Shapes
    <2>2. QED
      BY <2>1, Flags DEF OriginalOnly
  <1>3. \A z, y \in Buffer : y \in Latests(c, c[z].blck) <=>
                               c[y].blck = c[z].blck /\ "LATEST" \in c[y].bits
    BY DEF Latests
  <1>4. \A y \in Buffer : c[y].blck # NoBlock => ("LATEST" \in c[y].bits <=> LatBits(c[y]))
    BY Flags DEF Shapes, LatBits
  <1>5. \A y \in Buffer : LatBits(c[y]) => ~OriginalOnly(c[y])
    BY <1>2, Flags DEF LatBits
  <1>6. \A z \in Buffer : OriginalOnly(c[z]) => OrgBits(c[z]) /\ c[z].blck # NoBlock
    BY <1>2, Flags DEF OrgBits, Shapes
  <1>7. Reusable(c) # {}
    <2>1. ASSUME Reusable(c) = {}, NEW z \in Buffer PROVE c[z].blck \in L
      <3>1. CASE c[z].locked # 0
        BY <3>1 DEF LockedIn
      <3>2. CASE c[z].locked = 0
        <4>1. OriginalOnly(c[z]) /\ Latests(c, c[z].blck) # {}
          BY <2>1, <3>2 DEF Reusable
        <4>2. PICK y \in Buffer : c[y].blck = c[z].blck /\ LatBits(c[y])
          BY <1>3, <1>4, <1>6, <4>1 DEF Latests
        <4>3. c[y].locked # 0
          BY <1>5, <2>1, <4>2 DEF Reusable
        <4>4. QED
          BY <4>2, <4>3 DEF LockedIn
      <3>3. QED
        BY <3>1, <3>2
    <2>2. ASSUME Reusable(c) = {} PROVE FALSE
      <3>1. Cardinality(Buffer) <= 2 * Cardinality(L)
        BY <2>1, <2>2, TwoPerBlock
      <3>2. QED
        BY <1>1, <3>1 DEF EnoughBuffers
    <2>3. QED
      BY <2>2
  <1>8. ASSUME NEW x \in Buffer, OrgBits(c[x]), c[x].blck # NoBlock,
               Reusable([c EXCEPT ![x].locked = @ + 1]) = {}
        PROVE  FALSE
    <2> DEFINE d == [c EXCEPT ![x].locked = @ + 1]
    <2>1. /\ \A z \in Buffer : d[z].blck = c[z].blck /\ d[z].bits = c[z].bits
          /\ \A z \in Buffer \ {x} : d[z] = c[z]
      BY DEF Shapes, CacheBuffer
    <2> HIDE DEF d
    <2>2. \A z \in Buffer : /\ Latests(d, d[z].blck) = Latests(c, c[z].blck)
                            /\ OriginalOnly(d[z]) <=> OriginalOnly(c[z])
      BY <2>1 DEF Latests, OriginalOnly
    <2>3. \A z \in Buffer \ {x} : c[z].locked # 0 \/ ( /\ OriginalOnly(c[z])
                                                      /\ Latests(c, c[z].blck) # {})
      BY <1>8, <2>1, <2>2 DEF Reusable, d
    <2>4. ASSUME NEW z \in Buffer \ {x} PROVE c[z].blck \in L
      <3>1. CASE c[z].locked # 0
        BY <3>1 DEF LockedIn
      <3>2. CASE c[z].locked = 0
        <4>1. OriginalOnly(c[z]) /\ Latests(c, c[z].blck) # {}
          BY <2>3, <3>2
        <4>2. PICK y \in Buffer : c[y].blck = c[z].blck /\ LatBits(c[y])
          BY <1>3, <1>4, <1>6, <4>1 DEF Latests
        <4>3. y # x
          BY <1>6, <1>8, <4>1, <4>2 DEF Singles
        <4>4. c[y].locked # 0
          BY <1>5, <2>3, <4>2, <4>3
        <4>5. QED
          BY <4>2, <4>4 DEF LockedIn
      <3>3. QED
        BY <3>1, <3>2
    <2>5. Cardinality(Buffer \ {x}) <= 2 * Cardinality(L)
      BY <2>4, TwoPerBlock
    <2>6. Cardinality(Buffer \ {x}) = Cardinality(Buffer) - 1
      BY FS_RemoveElement DEF EnoughBuffers
    <2>7. QED
      BY <1>1, <2>5, <2>6 DEF EnoughBuffers
  <1>9. QED
    BY <1>7, <1>8

-----------------------------------------------------------------------------
(* The operators that take buffers. *)

\* saveoriginalcachebuffer finds a buffer for the copy.
LEMMA SavesOriginal ==
  ASSUME NEW c, NEW x \in Buffer, Reusable([c EXCEPT ![x].locked = @ + 1]) # {}
  PROVE  SaveOriginalCacheBuffer(c, x) # {}
  BY DEF SaveOriginalCacheBuffer

\* The blocks that are locked, and how many they are.
LEMMA LockedBlocks ==
  ASSUME Inv, LocksBounded
  PROVE  LET L == held \cup prepared
         IN L \in SUBSET Block /\ IsFiniteSet(L) /\ Cardinality(L) <= MaxLocks
            /\ LockedIn(cache, L)
  <1>1. /\ IsFiniteSet(held \cup prepared)
        /\ Cardinality(held \cup prepared)
             = Cardinality(held) + Cardinality(prepared) - Cardinality(held \cap prepared)
    BY FS_Union DEF LocksBounded
  <1>2. IsFiniteSet(held \cap prepared)
    BY FS_Intersection DEF LocksBounded
  <1>3. /\ Cardinality(held) \in Nat /\ Cardinality(prepared) \in Nat
        /\ Cardinality(held \cap prepared) \in Nat /\ MaxLocks \in Nat
    BY <1>2, FS_CardinalityType, MaxLocksAssumption DEF LocksBounded
  <1>4. Cardinality(held \cup prepared) <= MaxLocks
    BY <1>1, <1>3 DEF LocksBounded
  <1>5. LockedIn(cache, held \cup prepared)
    BY DEF Inv, CacheInv, LocksOK, Locks, LockedIn
  <1>6. held \cup prepared \in SUBSET Block
    BY DEF Inv, OpsInv, TypeOK
  <1>7. QED
    BY <1>1, <1>4, <1>5, <1>6

\* readcachebuffer finds the buffers it needs.
LEMMA ReadsSucceed ==
  ASSUME EnoughBuffers, Inv, LocksBounded, NEW b \in Block
  PROVE  Readings(b) # {}
  <1> DEFINE o == LatestOperation(op, b)
             L == held \cup prepared
             originals == ReadOriginalCacheBuffer(cache, b, o, disk)
  <1>1. /\ L \in SUBSET Block /\ IsFiniteSet(L) /\ Cardinality(L) <= MaxLocks
        /\ LockedIn(cache, L) /\ Shapes(cache) /\ Singles(cache)
    BY LockedBlocks DEF Inv, CacheInv
  <1>2. /\ o \in Operation /\ o.kind \in {"none", "modify", "create", "delete"}
        /\ o = NoOperation <=> o.kind = "none"
        /\ disk[b] \in Content /\ b # NoBlock
    BY LatestIs, NoBlockAssumption DEF Inv, Operation, NoOperation, LatestKind
  <1> HIDE DEF o, L, originals
  <1>3. PICK y : y \in Reusable(cache)
    BY <1>1, SomeReusable
  <1>4. CASE Latests(cache, b) # {}
    BY <1>4 DEF Readings, ReadCacheBuffer
  <1>5. CASE Latests(cache, b) = {}
    <2>1. Readings(b) = ApplyOperation(cache, b, o, disk)
      BY <1>5 DEF Readings, ReadCacheBuffer, o
    <2>2. CASE o.kind = "create"
      BY <1>3, <2>1, <2>2 DEF ApplyOperation, CreateNewCacheBuffer
    <2>3. CASE o.kind = "none"
      BY <1>3, <2>1, <2>3 DEF ApplyOperation, ReadOriginalCacheBuffer
    <2>4. CASE o.kind \in {"modify", "delete"}
      <3>1. \E r \in originals : /\ r.cb \in Buffer
                                 /\ Reusable([r.cache EXCEPT ![r.cb].locked = @ + 1]) # {}
        <4>1. CASE Originals(cache, b) # {}
          <5> DEFINE x == Original(cache, b)
          <5>1. x \in Buffer /\ OrgBits(cache[x]) /\ cache[x].blck = b
            BY <4>1, Finds DEF Inv, CacheInv
          <5> HIDE DEF x
          <5>2. Reusable([cache EXCEPT ![x].locked = @ + 1]) # {}
            BY <1>1, <1>2, <5>1, SomeReusable
          <5>3. [cache |-> cache, cb |-> x] \in originals
            BY <4>1 DEF originals, ReadOriginalCacheBuffer, x
          <5>4. QED
            BY <5>1, <5>2, <5>3
        <4>2. CASE Originals(cache, b) = {}
          <5> DEFINE buf == Holding(b, {"ORIGINAL"}, disk[b])
                     c == [cache EXCEPT ![y] = buf]
          <5>1. y \in Buffer /\ [cache |-> c, cb |-> y] \in originals
            <6>1. originals = {[cache |-> [cache EXCEPT ![x] = buf], cb |-> x] :
                                 x \in Reusable(cache)}
              BY <1>2, <2>4, <4>2 DEF originals, ReadOriginalCacheBuffer
            <6> HIDE DEF buf
            <6>2. QED
              BY <1>3, <6>1 DEF Reusable
          <5>2. /\ buf.blck = b /\ buf.bits = Org /\ buf.locked = 0
                /\ buf \in CacheBuffer /\ OrgBits(buf) /\ ~LatBits(buf)
            BY <1>2, Flags DEF Holding, CacheBuffer, Org, OrgBits, LatBits
          <5> HIDE DEF buf
          <5>3. /\ c \in [Buffer -> CacheBuffer] /\ c[y] = buf
                /\ \A z \in Buffer \ {y} : c[z] = cache[z]
            BY <1>1, <5>1, <5>2 DEF Shapes
          <5> HIDE DEF c
          <5>4. \A z \in Buffer : cache[z].blck = b => ~OrgBits(cache[z]) /\ ~LatBits(cache[z])
            BY <1>5, <4>2, Finds DEF Inv, CacheInv
          <5>5. Shapes(c)
            BY <1>1, <1>2, <5>2, <5>3 DEF Shapes
          <5>6. Singles(c)
            BY <1>1, <5>2, <5>3, <5>4 DEF Singles
          <5>7. LockedIn(c, L)
            BY <1>1, <5>2, <5>3 DEF LockedIn
          <5>8. Reusable([c EXCEPT ![y].locked = @ + 1]) # {}
            BY <1>1, <1>2, <5>1, <5>2, <5>3, <5>5, <5>6, <5>7, SomeReusable
          <5>9. QED
            BY <5>1, <5>8
        <4>3. QED
          BY <4>1, <4>2
      <3>2. PICK r \in originals : SaveOriginalCacheBuffer(r.cache, r.cb) # {}
        BY <3>1, SavesOriginal
      <3> DEFINE Decoded(q) ==
                   {[cache |-> [d EXCEPT ![q.cb].data = Uncompress(@, o.diff)],
                     cb |-> q.cb] : d \in SaveOriginalCacheBuffer(q.cache, q.cb)}
      <3>3. ApplyOperation(cache, b, o, disk) = UNION {Decoded(q) : q \in originals}
        BY <2>4 DEF ApplyOperation, originals
      <3>4. Decoded(r) # {}
        BY <3>2
      <3> HIDE DEF Decoded
      <3>5. QED
        BY <2>1, <3>2, <3>3, <3>4
    <2>5. QED
      BY <1>2, <2>2, <2>3, <2>4
  <1>6. QED
    BY <1>4, <1>5

\* preparecachebuffer finds a buffer for the copy of the original.
LEMMA PreparesSucceed ==
  ASSUME EnoughBuffers, Inv, LocksBounded, NEW b \in Block, NEW x \in Latests(cache, b)
  PROVE  PrepareCacheBuffer(cache, x) # {}
  <1> DEFINE d == [cache EXCEPT ![x].locked = @ + 1]
             L == held \cup prepared
  <1>1. x \in Buffer /\ cache[x].blck = b /\ b # NoBlock /\ cache \in [Buffer -> CacheBuffer]
    BY NoBlockAssumption DEF Latests, Inv, CacheInv, Shapes
  <1>2. CASE "ORIGINAL" \notin d[x].bits
    BY <1>2 DEF PrepareCacheBuffer
  <1>3. CASE "ORIGINAL" \in d[x].bits
    <2>1. cache[x].bits = Clean
      <3>1. "ORIGINAL" \in cache[x].bits /\ "LATEST" \in cache[x].bits
        BY <1>1, <1>3 DEF CacheBuffer, Latests
      <3>2. cache[x].bits \in {Org, Clean, Changed, Fresh}
        BY <1>1 DEF Inv, CacheInv, Shapes
      <3>3. QED
        BY <3>1, <3>2, Flags
    <2>2. /\ L \in SUBSET Block /\ IsFiniteSet(L) /\ Cardinality(L) <= MaxLocks
          /\ LockedIn(cache, L) /\ Shapes(cache) /\ Singles(cache)
      BY LockedBlocks DEF Inv, CacheInv
    \* The buffer is locked twice: by preparecachebuffer, and while it is copied.
    <2>3. Reusable([d EXCEPT ![x].locked = @ + 1]) = Reusable(d)
      BY <1>1 DEF Reusable, OriginalOnly, Latests, CacheBuffer
    <2>4. Reusable(d) # {}
      <3> HIDE DEF L
      <3>1. OrgBits(cache[x])
        BY <2>1 DEF OrgBits
      <3>2. QED
        BY <1>1, <2>2, <3>1, SomeReusable
    <2>5. SaveOriginalCacheBuffer(d, x) # {}
      <3> HIDE DEF d
      <3>1. QED
        BY <1>1, <2>3, <2>4, SavesOriginal
    <2>6. QED
      BY <1>3, <2>5 DEF PrepareCacheBuffer
  <1>4. QED
    BY <1>2, <1>3

-----------------------------------------------------------------------------
(* The locks. *)

\* Whoever locks or prepares a buffer has room for one more lock.
LEMMA BoundStep ==
  ASSUME Inv, LocksBounded, [Next]_vars
  PROVE  LocksBounded'
  <1>1. /\ Cardinality(held) \in Nat /\ Cardinality(prepared) \in Nat /\ MaxLocks \in Nat
    BY FS_CardinalityType, MaxLocksAssumption DEF LocksBounded
  <1>2. CASE UNCHANGED <<held, prepared>>
    BY <1>2 DEF LocksBounded
  <1>3. ASSUME NEW b \in Block, Lock(b)
        PROVE  LocksBounded'
    <2>1. /\ held' = held \cup {b} /\ prepared' = prepared
          /\ Cardinality(held) + Cardinality(prepared) < MaxLocks
      BY <1>3 DEF Lock
    <2>2. /\ IsFiniteSet(held \cup {b})
          /\ Cardinality(held \cup {b}) = IF b \in held THEN Cardinality(held)
                                                    ELSE Cardinality(held) + 1
      BY FS_AddElement DEF LocksBounded
    <2>3. Cardinality(held \cup {b}) <= Cardinality(held) + 1
      BY <1>1, <2>2
    <2>4. QED
      BY <1>1, <2>1, <2>2, <2>3 DEF LocksBounded
  <1>4. ASSUME NEW b \in Block, Prepare(b) \/ New(b)
        PROVE  LocksBounded'
    <2>1. /\ prepared' = prepared \cup {b} /\ held' = held
          /\ Cardinality(held) + Cardinality(prepared) < MaxLocks
      BY <1>4 DEF Prepare, New, CanPrepare
    <2>2. /\ IsFiniteSet(prepared \cup {b})
          /\ Cardinality(prepared \cup {b}) = IF b \in prepared THEN Cardinality(prepared)
                                                    ELSE Cardinality(prepared) + 1
      BY FS_AddElement DEF LocksBounded
    <2>3. Cardinality(prepared \cup {b}) <= Cardinality(prepared) + 1
      BY <1>1, <2>2
    <2>4. QED
      BY <1>1, <2>1, <2>2, <2>3 DEF LocksBounded
  <1>5. ASSUME NEW b \in Block, Unlock(b) \/ Store(b) \/ Dump(b)
        PROVE  LocksBounded'
    <2>1. held' \subseteq held /\ prepared' \subseteq prepared
      BY <1>5 DEF Unlock, Store, Dump
    <2>2. /\ IsFiniteSet(held') /\ Cardinality(held') <= Cardinality(held)
          /\ IsFiniteSet(prepared') /\ Cardinality(prepared') <= Cardinality(prepared)
      BY <2>1, FS_Subset DEF LocksBounded
    <2>3. Cardinality(held') \in Nat /\ Cardinality(prepared') \in Nat
      BY <2>2, FS_CardinalityType
    <2>4. QED
      BY <1>1, <2>2, <2>3 DEF LocksBounded
  <1>6. CASE UNCHANGED vars
    BY <1>2, <1>6 DEF vars, client
  <1>7. CASE \/ NewTransaction \/ EndTransaction \/ DeleteTransaction
             \/ FlushTransaction \/ FlushDone \/ TakeBuffer \/ InvalidateCaches
    BY <1>2, <1>7 DEF NewTransaction, EndTransaction, DeleteTransaction, FlushTransaction,
       FlushDone, TakeBuffer, InvalidateCaches, client
  <1>8. ASSUME NEW b \in Block,
               \/ Read(b) \/ Free(b) \/ WriteOperation(b) \/ CancelFlush(b)
               \/ \E data \in Content : Modify(b, data)
        PROVE  LocksBounded'
    BY <1>2, <1>8 DEF Read, Free, WriteOperation, CancelFlush, Modify, client
  <1>9. QED
    BY <1>3, <1>4, <1>5, <1>6, <1>7, <1>8 DEF Next

\* getcachebuffer finds a buffer whenever one is needed to read or to prepare a
\* block, so that it never returns 0 ("No more cachebuffers available!"); when there
\* are at least 2 * MaxLocks + 2 buffers.
THEOREM SpecBuffersSuffice ==
  ASSUME EnoughBuffers
  PROVE  Spec => []BuffersSuffice
  <1>1. Init => LocksBounded
    BY FS_EmptySet, MaxLocksAssumption DEF Init, LocksBounded
  <1>2. Inv /\ LocksBounded /\ [Next]_vars => LocksBounded'
    BY BoundStep
  <1>3. Inv /\ LocksBounded => BuffersSuffice
    BY ReadsSucceed, PreparesSucceed DEF BuffersSuffice
  <1>4. QED
    BY <1>1, <1>2, <1>3, SpecInv, PTL DEF Spec
=============================================================================
