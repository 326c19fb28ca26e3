-------------------------- MODULE TransactionsProofs --------------------------
(***************************************************************************)
(* Proofs about Transactions, for any number of blocks and buffers and any *)
(* contents: what original buffers hold, whose the locks are, the rules    *)
(* for the flags of buffers, and that the cache agrees with the operations.*)
(*                                                                         *)
(* The inductive invariant (Inv) has a part about the operations and one   *)
(* about a cache (CacheInv), so that a cache that only exists between two  *)
(* calls of one action can be reasoned about too.  Some of its conjuncts   *)
(* are false once a transaction that reused a block has failed, as         *)
(* deletetransaction does not restore the block then; they are stated for  *)
(* ~ReuseMayFail, and so are the two theorems that need them.              *)
(***************************************************************************)
EXTENDS Transactions, FiniteSetTheorems, TLAPS

-----------------------------------------------------------------------------
(* The flags of a buffer that holds a block. *)

Org     == {"ORIGINAL"}
Clean   == {"ORIGINAL", "LATEST"}
Changed == {"LATEST"}
Fresh   == {"LATEST", "EMPTY"}

OrgBits(buf) == buf.bits \in {Org, Clean}
LatBits(buf) == buf.bits \in {Clean, Changed, Fresh}

\* The flags are four different sets, and what the functions make of them.
LEMMA Flags ==
  /\ Org # Clean /\ Org # Changed /\ Org # Fresh /\ Org # {}
  /\ Clean # Changed /\ Clean # Fresh /\ Clean # {}
  /\ Changed # Fresh /\ Changed # {} /\ Fresh # {}
  /\ \A s \in {{}, Org, Clean, Changed, Fresh} :
       /\ "ORIGINAL" \in s <=> s \in {Org, Clean}
       /\ "LATEST" \in s <=> s \in {Clean, Changed, Fresh}
       /\ "EMPTY" \in s <=> s = Fresh
       /\ s \cap {"ORIGINAL", "LATEST"} = {"ORIGINAL"} <=> s = Org
       /\ s \cap {"ORIGINAL", "LATEST"} = {"LATEST"} <=> s \in {Changed, Fresh}
  /\ \A s \in {Org, Clean} : (s \ {"ORIGINAL"}) \cup {"LATEST"} = Changed
  /\ \A s \in {Org, Clean, Changed} : s \cup {"ORIGINAL", "LATEST"} = Clean
  /\ Org \cup {"LATEST"} = Clean
  <1>1. "ORIGINAL" # "LATEST" /\ "ORIGINAL" # "EMPTY" /\ "LATEST" # "EMPTY"
    OBVIOUS
  <1>2. QED
    BY <1>1 DEF Org, Clean, Changed, Fresh

-----------------------------------------------------------------------------
(* The inductive invariant. *)

Kind(l, b) == op[l][b].kind
LatestKind(b) == LatestOperation(op, b).kind

OperationsOK ==
  \A l \in Level, b \in Block :
    /\ Kind(l, b) \in {"none", "delete"} => op[l][b].diff = EmptyDiff
    /\ Kind(l, b) = "create" => op[l][b].diff \in Content

NestOK ==
  /\ flushing => nest = 0
  /\ ~ReuseMayFail => (failed => reused = {})
  /\ nest = 0 => /\ \A b \in Block : Kind(1, b) = "none"
                 /\ live = liveSaved /\ prepared = {} /\ reused = {} /\ ~failed
                 /\ held \subseteq live

\* What the operations of both levels tell about a block.
LevelsOK ==
  \A b \in Block :
    /\ Kind(1, b) \in {"modify", "create"} => b \in live
    /\ Kind(1, b) = "delete" => b \notin live
    /\ Kind(0, b) = "delete" => b \notin liveSaved
    /\ b \in live \ liveSaved => Kind(1, b) # "none"
    /\ ~ReuseMayFail /\ b \notin reused =>
         /\ Kind(1, b) = "delete" => b \in liveSaved \ prepared
         /\ b \in live \cap liveSaved /\ Kind(1, b) # "none" =>
              (Kind(1, b) = "create" <=> Kind(0, b) = "create")
         /\ b \in liveSaved \ live => b \notin prepared

Shapes(c) ==
  /\ c \in [Buffer -> CacheBuffer]
  /\ \A x \in Buffer :
       IF c[x].blck = NoBlock THEN c[x].locked = 0 /\ c[x].bits \in {{}, Clean}
       ELSE c[x].bits \in {Org, Clean, Changed, Fresh}

Singles(c) ==
  \A x, y \in Buffer : x # y /\ c[x].blck = c[y].blck /\ c[x].blck # NoBlock =>
    /\ ~(OrgBits(c[x]) /\ OrgBits(c[y]))
    /\ ~(LatBits(c[x]) /\ LatBits(c[y]))

Copies(c) ==
  \A x \in Buffer : c[x].bits = Changed =>
    \E y \in Buffer : c[y].blck = c[x].blck /\ OrgBits(c[y])

DiskCopies(c) ==
  \A x \in Buffer : OrgBits(c[x]) /\ c[x].blck # NoBlock =>
    c[x].data = disk[c[x].blck]

Locks(b) == (IF b \in held THEN 1 ELSE 0) + (IF b \in prepared THEN 1 ELSE 0)
LocksOK(c) ==
  \A x \in Buffer : c[x].locked = IF LatBits(c[x]) THEN Locks(c[x].blck) ELSE 0

CachedOK(c) ==
  /\ \A b \in held \cup prepared :
       \E x \in Buffer : c[x].blck = b /\ LatBits(c[x])
  /\ \A x \in Buffer : c[x].blck \in prepared => c[x].bits # Clean

\* A block in use that nobody has changed has no operation, and one that was
\* changed or created in this transaction has no such buffer.
CleanOK(c) ==
  \A x \in Buffer : c[x].bits = Clean /\ c[x].blck # NoBlock =>
    /\ Kind(1, c[x].blck) \in {"none", "delete"}
    /\ c[x].blck \in live \cup liveSaved => Kind(0, c[x].blck) = "none"

\* An original alone belongs to a changed block; one of a block that had no
\* operation when the transaction began, to a block that was modified since.
OriginalsOK(c) ==
  ~ReuseMayFail => \A x \in Buffer : c[x].bits = Org =>
    /\ c[x].blck \notin prepared =>
         Kind(0, c[x].blck) # "none" \/ Kind(1, c[x].blck) # "none"
    /\ c[x].blck \notin reused /\ Kind(0, c[x].blck) = "none" =>
         /\ Kind(1, c[x].blck) # "create"
         /\ c[x].blck \notin prepared => Kind(1, c[x].blck) = "modify"
         /\ \A y \in Buffer : c[y].blck = c[x].blck => c[y].bits # Fresh

\* The buffer holds what the operation makes of data, the block on disk.
Fits(buf, o, data) ==
  /\ buf.bits = Clean => o.kind = "none"
  /\ buf.bits = Changed => o.kind = "modify"
  /\ buf.bits = Fresh => o.kind = "create"
  /\ buf.data = Uncompress(data, o.diff)

\* A block that was freed in this transaction can come back with it.
LatestsOK(c) ==
  ~ReuseMayFail => \A x \in Buffer : LatBits(c[x]) =>
    /\ c[x].blck \in live \ prepared =>
         Fits(c[x], LatestOperation(op, c[x].blck), disk[c[x].blck])
    /\ c[x].blck \in (liveSaved \ live) \ reused =>
         Fits(c[x], op[0][c[x].blck], disk[c[x].blck])
    /\ c[x].blck \in (prepared \cap live) \ reused =>
         /\ c[x].bits = Fresh => LatestKind(c[x].blck) = "create"
         /\ c[x].bits = Changed => LatestKind(c[x].blck) \in {"none", "modify"}

CacheInv(c) == /\ Shapes(c) /\ Singles(c) /\ Copies(c) /\ DiskCopies(c)
               /\ LocksOK(c) /\ CachedOK(c) /\ CleanOK(c) /\ OriginalsOK(c)
               /\ LatestsOK(c)

OpsInv == TypeOK /\ OperationsOK /\ NestOK /\ LevelsOK

Inv == OpsInv /\ CacheInv(cache)

-----------------------------------------------------------------------------
(* What the operators of CacheBuffers find. *)

\* The buffers of a block, by their flags.
LEMMA Finds ==
  ASSUME NEW c, Shapes(c), NEW b \in Block
  PROVE  /\ Originals(c, b) = {x \in Buffer : c[x].blck = b /\ OrgBits(c[x])}
         /\ Latests(c, b) = {x \in Buffer : c[x].blck = b /\ LatBits(c[x])}
         /\ Originals(c, b) # {} => Original(c, b) \in Originals(c, b)
         /\ Latests(c, b) # {} => Latest(c, b) \in Latests(c, b)
  <1>1. \A x \in Buffer : c[x].bits \in {{}, Org, Clean, Changed, Fresh}
    BY DEF Shapes
  <1>2. \A x \in Buffer : /\ "ORIGINAL" \in c[x].bits <=> OrgBits(c[x])
                          /\ "LATEST" \in c[x].bits <=> LatBits(c[x])
    BY <1>1, Flags DEF OrgBits, LatBits
  <1>3. QED
    BY <1>2 DEF Originals, Latests, Original, Latest

\* What getcachebuffer may take.
LEMMA ReusableIs ==
  ASSUME NEW c, Shapes(c), NEW y \in Reusable(c)
  PROVE  /\ y \in Buffer /\ c[y].locked = 0
         /\ c[y].bits = Org =>
              \A x \in Buffer : c[x].blck = c[y].blck => ~LatBits(c[x])
  <1>1. y \in Buffer /\ c[y].locked = 0
        /\ (OriginalOnly(c[y]) => Latests(c, c[y].blck) = {})
    BY DEF Reusable
  <1>2. CASE c[y].bits = Org
    <2>1. c[y].blck \in Block
      BY <1>1, <1>2, Flags DEF Shapes, CacheBuffer
    <2>2. OriginalOnly(c[y])
      BY <1>2, Flags DEF OriginalOnly
    <2>3. QED
      BY <1>1, <2>1, <2>2, Finds
  <1>3. QED
    BY <1>1, <1>2

\* Taking a buffer: nothing of it is missed.
LEMMA Evicts ==
  ASSUME OpsInv, NEW c, CacheInv(c), NEW y \in Reusable(c)
  PROVE  /\ CacheInv([c EXCEPT ![y] = Unused])
         /\ y \in Buffer
  <1> DEFINE d == [c EXCEPT ![y] = Unused]
  <1>1. /\ y \in Buffer /\ c[y].locked = 0
        /\ c[y].bits = Org =>
             \A x \in Buffer : c[x].blck = c[y].blck => ~LatBits(c[x])
    BY ReusableIs DEF CacheInv
  <1>2. /\ d[y] = Unused
        /\ \A x \in Buffer \ {y} : d[x] = c[x]
        /\ c \in [Buffer -> CacheBuffer] /\ d \in [Buffer -> CacheBuffer]
    BY <1>1, ValAssumption DEF CacheInv, Shapes, CacheBuffer, Unused, Content, Zero
  <1>3. /\ Unused.blck = NoBlock /\ Unused.locked = 0 /\ Unused.bits = {}
        /\ ~LatBits(Unused) /\ ~OrgBits(Unused) /\ NoBlock \notin Block
    BY Flags, NoBlockAssumption DEF Unused, LatBits, OrgBits
  <1> HIDE DEF d
  <1>4. Shapes(d)
    BY <1>1, <1>2, <1>3 DEF CacheInv, Shapes
  <1>5. Singles(d)
    BY <1>1, <1>2, <1>3 DEF CacheInv, Singles
  <1>6. Copies(d)
    BY <1>1, <1>2, <1>3, Flags DEF CacheInv, Copies, Singles, OrgBits, LatBits, Shapes
  <1>7. DiskCopies(d)
    BY <1>1, <1>2, <1>3 DEF CacheInv, DiskCopies
  <1>8. LocksOK(d)
    BY <1>1, <1>2, <1>3 DEF CacheInv, LocksOK
  <1>9. CachedOK(d)
    <2>1. ASSUME NEW b \in held \cup prepared
          PROVE  \E x \in Buffer : d[x].blck = b /\ LatBits(d[x])
      <3>1. PICK x \in Buffer : c[x].blck = b /\ LatBits(c[x])
        BY DEF CacheInv, CachedOK
      <3>2. c[x].locked # 0
        BY <3>1 DEF CacheInv, LocksOK, Locks
      <3>3. QED
        BY <1>1, <1>2, <3>1, <3>2
    <2>2. ASSUME NEW x \in Buffer, d[x].blck \in prepared
          PROVE  d[x].bits # Clean
      BY <1>2, <1>3, <2>2, Flags DEF CacheInv, CachedOK
    <2>3. QED
      BY <2>1, <2>2 DEF CachedOK
  <1>10. CleanOK(d)
    BY <1>1, <1>2, <1>3, Flags DEF CacheInv, CleanOK
  <1>11. OriginalsOK(d)
    BY <1>1, <1>2, <1>3, Flags DEF CacheInv, OriginalsOK
  <1>12. LatestsOK(d)
    BY <1>1, <1>2, <1>3 DEF CacheInv, LatestsOK
  <1>13. QED
    BY <1>1, <1>4, <1>5, <1>6, <1>7, <1>8, <1>9, <1>10, <1>11, <1>12
       DEF CacheInv, d

-----------------------------------------------------------------------------
(* Diffs and operations. *)

\* uncompress undoes compress and compressfromzero, and an empty diff does nothing.
LEMMA Diffs ==
  ASSUME NEW data \in Content
  PROVE  /\ Uncompress(data, EmptyDiff) = data
         /\ \A new \in Content : /\ Uncompress(data, Compress(data, new)) = new
                                /\ Uncompress(data, new) = new
                                /\ Compress(data, new) \in Diff /\ new \in Diff
         /\ \A diff \in Diff : Uncompress(data, diff) \in Content
  <1>1. Uncompress(data, EmptyDiff) = data
    BY DEF Uncompress, EmptyDiff, Content
  <1>2. ASSUME NEW new \in Content
        PROVE  /\ Uncompress(data, Compress(data, new)) = new
               /\ Uncompress(data, new) = new
               /\ Compress(data, new) \in Diff /\ new \in Diff
    <2>1. Uncompress(data, Compress(data, new)) = new
      BY DEF Uncompress, Compress, Content
    <2>2. Uncompress(data, new) = new
      BY DEF Uncompress, Content
    <2> DEFINE S == {x \in Cell : data[x] # new[x]}
    <2>3. Compress(data, new) \in [S -> Val]
      BY DEF Compress, Content
    <2>4. S \in SUBSET Cell /\ Cell \in SUBSET Cell /\ new \in [Cell -> Val]
      BY DEF Content
    <2>5. QED
      BY <2>1, <2>2, <2>3, <2>4 DEF Diff
  <1>3. ASSUME NEW diff \in Diff PROVE Uncompress(data, diff) \in Content
    <2>1. PICK S \in SUBSET Cell : diff \in [S -> Val]
      BY DEF Diff
    <2>2. QED
      BY <2>1 DEF Uncompress, Content
  <1>4. QED
    BY <1>1, <1>2, <1>3

\* getlatestoperation: the operation of this level, or else the older one.
LEMMA LatestIs ==
  ASSUME OpsInv, NEW b \in Block
  PROVE  /\ LatestOperation(op, b) = IF Kind(1, b) # "none" THEN op[1][b] ELSE op[0][b]
         /\ LatestOperation(op, b) \in Operation
         /\ LatestKind(b) \in {"none", "modify", "create", "delete"}
         /\ LatestKind(b) \in {"none", "delete"} =>
              LatestOperation(op, b).diff = EmptyDiff
         /\ LatestKind(b) = "create" => LatestOperation(op, b).diff \in Content
         /\ LatestOperation(op, b).diff \in Diff
         /\ disk[b] \in Content
  <1>1. \A l \in Level : op[l][b] \in Operation
    BY DEF OpsInv, TypeOK
  <1>2. \A l \in Level : op[l][b] # NoOperation <=> Kind(l, b) # "none"
    BY <1>1 DEF OpsInv, OperationsOK, Kind, NoOperation, Operation
  <1>3. LatestOperation(op, b) = IF Kind(1, b) # "none" THEN op[1][b] ELSE op[0][b]
    BY <1>2 DEF LatestOperation, Level
  <1>4. QED
    BY <1>1, <1>3 DEF LatestKind, OpsInv, OperationsOK, Kind, Level, Operation, TypeOK

-----------------------------------------------------------------------------
(* Reading. *)

\* To take a buffer and fill it is to take it, and then to fill it.
LEMMA Refill ==
  ASSUME NEW c \in [Buffer -> CacheBuffer], NEW y \in Buffer, NEW buf
  PROVE  /\ [c EXCEPT ![y] = buf] = [[c EXCEPT ![y] = Unused] EXCEPT ![y] = buf]
         /\ [c EXCEPT ![y] = Unused][y] = Unused
         /\ \A x \in Buffer \ {y} : [c EXCEPT ![y] = Unused][x] = c[x]
  OBVIOUS

\* What a buffer for b can be filled with: the block on disk, or, when the block
\* was created in memory, what the operation says.
Fillable(c, b, bits, data) ==
  \/ /\ bits = Clean /\ LatestKind(b) = "none" /\ data = disk[b]
     /\ \A x \in Buffer : c[x].blck = b => ~OrgBits(c[x])
  \/ /\ bits = Org /\ LatestKind(b) \in {"modify", "delete"} /\ data = disk[b]
     /\ \A x \in Buffer : c[x].blck = b => ~OrgBits(c[x])
  \/ /\ bits = Fresh /\ LatestKind(b) = "create"
     /\ data = LatestOperation(op, b).diff

NoLatest(c, b) == \A x \in Buffer : c[x].blck = b => ~LatBits(c[x])

\* An unused buffer is filled with a block that has no LATEST buffer.
LEMMA Fills ==
  ASSUME OpsInv, NEW c, CacheInv(c), NEW y \in Buffer, c[y] = Unused,
         NEW b \in Block, b \in live \/ nest = 0, NoLatest(c, b),
         NEW bits, NEW data, Fillable(c, b, bits, data),
         NEW d, d = [c EXCEPT ![y] = Holding(b, bits, data)]
  PROVE  CacheInv(d)
  <1> DEFINE h == Holding(b, bits, data)
  <1>1. /\ h.blck = b /\ h.bits = bits /\ h.locked = 0 /\ h.data = data
        /\ data \in Content /\ bits \in {Org, Clean, Fresh}
        /\ b # NoBlock /\ b \notin held /\ b \notin prepared
    BY LatestIs, NoBlockAssumption DEF Holding, CacheInv, CachedOK, Fillable, NoLatest
  <1>2. h \in CacheBuffer
    BY <1>1 DEF Holding, CacheBuffer, Org, Clean, Fresh
  <1>3. /\ d[y] = h /\ c[y] = Unused
        /\ \A x \in Buffer \ {y} : d[x] = c[x]
        /\ d \in [Buffer -> CacheBuffer]
    BY <1>2 DEF CacheInv, Shapes
  <1>4. /\ Unused.blck = NoBlock /\ Unused.bits = {}
        /\ ~LatBits(Unused) /\ ~OrgBits(Unused)
    BY Flags DEF Unused, LatBits, OrgBits
  <1>5. /\ LatestOperation(op, b) = IF Kind(1, b) # "none" THEN op[1][b] ELSE op[0][b]
        /\ Uncompress(disk[b], EmptyDiff) = disk[b]
        /\ LatestKind(b) \in {"none", "delete"} =>
             LatestOperation(op, b).diff = EmptyDiff
        /\ bits = Fresh => Uncompress(disk[b], data) = data
    BY <1>1, LatestIs, Diffs DEF Fillable
  <1> HIDE DEF h
  <1> USE DEF Fillable, NoLatest
  <1>6. Shapes(d)
    BY <1>1, <1>3 DEF CacheInv, Shapes
  <1>7. Singles(d)
    BY <1>1, <1>3, Flags DEF CacheInv, Singles, OrgBits, LatBits
  <1>8. Copies(d)
    BY <1>1, <1>3, <1>4, Flags DEF CacheInv, Copies, Shapes
  <1>9. DiskCopies(d)
    BY <1>1, <1>3, Flags DEF CacheInv, DiskCopies, OrgBits
  <1>10. LocksOK(d)
    BY <1>1, <1>3 DEF CacheInv, LocksOK, Locks
  <1>11. CachedOK(d)
    BY <1>1, <1>3, <1>4 DEF CacheInv, CachedOK
  <1>12. CleanOK(d)
    BY <1>1, <1>3, <1>5, Flags DEF CacheInv, CleanOK, LatestKind, Kind
  <1>13. OriginalsOK(d)
    BY <1>1, <1>3, <1>4, <1>5, Flags DEF CacheInv, OriginalsOK, LatBits, OpsInv, LevelsOK,
       NestOK, LatestKind, Kind
  <1>14. LatestsOK(d)
    BY <1>1, <1>3, <1>5, Flags DEF CacheInv, LatestsOK, LatBits, Fits, OpsInv, NestOK,
       LatestKind, Kind
  <1>15. QED
    BY <1>6, <1>7, <1>8, <1>9, <1>10, <1>11, <1>12, <1>13, <1>14 DEF CacheInv

\* y is taken; y becomes buf and x gets the flags bits; the diff is made on x;
\* the last two at once.
Taken(c, y) == [c EXCEPT ![y] = Unused]
Copied(c, x, y, buf, bits) == [c EXCEPT ![y] = buf, ![x].bits = bits]
Decoding(c, x, diff) == [c EXCEPT ![x].data = Uncompress(@, diff)]
Split(c, x, y, buf, diff) ==
  [c EXCEPT ![y] = buf, ![x].bits = Changed, ![x].data = Uncompress(@, diff)]

\* The original x of b is copied to the unused buffer y, and x brought up to date.
LEMMA Splits ==
  ASSUME OpsInv, NEW c, CacheInv(c), NEW b \in Block, b \in live \/ nest = 0,
         NEW x \in Buffer, c[x].blck = b, c[x].bits = Org,
         NEW y \in Buffer, c[y] = Unused,
         NoLatest(c, b),
         LatestKind(b) \in {"modify", "delete"}, NEW d,
         d = Split(c, x, y, Holding(b, Org, c[x].data), LatestOperation(op, b).diff)
  PROVE  CacheInv(d)
  <1> USE DEF Split
  <1> DEFINE data == Uncompress(disk[b], LatestOperation(op, b).diff)
  <1>1. /\ b # NoBlock /\ x # y /\ c[x].data = disk[b] /\ c[x].locked = 0
        /\ b \notin held /\ b \notin prepared
        /\ c[y].blck = NoBlock /\ ~OrgBits(c[y]) /\ ~LatBits(c[y])
        /\ c \in [Buffer -> CacheBuffer]
    BY NoBlockAssumption, Flags DEF CacheInv, DiskCopies, LocksOK, CachedOK, Unused,
       OrgBits, LatBits, Shapes, NoLatest
  <1>2. data \in Content /\ disk[b] \in Content
    BY LatestIs, Diffs
  <1>3. /\ d[y].blck = b /\ d[y].bits = Org /\ d[y].locked = 0 /\ d[y].data = disk[b]
        /\ d[x].blck = b /\ d[x].bits = Changed /\ d[x].locked = 0 /\ d[x].data = data
        /\ \A z \in Buffer \ {x, y} : d[z] = c[z]
    BY <1>1 DEF Holding, CacheBuffer
  <1>4. d \in [Buffer -> CacheBuffer]
    <2>1. Holding(b, Org, disk[b]) \in CacheBuffer
      BY <1>2 DEF Holding, CacheBuffer, Org
    <2>2. [[c[x] EXCEPT !.bits = Changed] EXCEPT !.data = data] \in CacheBuffer
      BY <1>1, <1>2 DEF CacheBuffer, Changed
    <2>3. QED
      BY <1>1, <2>1, <2>2
  <1>5. LatestOperation(op, b) = IF Kind(1, b) # "none" THEN op[1][b] ELSE op[0][b]
    BY LatestIs
  <1> HIDE DEF data
  <1> USE DEF NoLatest
  <1>6. Shapes(d)
    BY <1>1, <1>3, <1>4 DEF CacheInv, Shapes
  <1>7. Singles(d)
    BY <1>1, <1>3, Flags DEF CacheInv, Singles, OrgBits, LatBits
  <1>8. Copies(d)
    BY <1>1, <1>3, Flags DEF CacheInv, Copies, OrgBits
  <1>9. DiskCopies(d)
    BY <1>1, <1>3, Flags DEF CacheInv, DiskCopies, OrgBits
  <1>10. LocksOK(d)
    BY <1>1, <1>3, Flags DEF CacheInv, LocksOK, Locks, LatBits
  <1>11. CachedOK(d)
    BY <1>1, <1>3 DEF CacheInv, CachedOK
  <1>12. CleanOK(d)
    BY <1>1, <1>3, Flags DEF CacheInv, CleanOK, Kind
  <1>13. OriginalsOK(d)
    BY <1>1, <1>3, <1>5, Flags DEF CacheInv, OriginalsOK, LatBits, OpsInv, LevelsOK,
       NestOK, LatestKind, Kind
  <1>14. LatestsOK(d)
    BY <1>1, <1>3, <1>5, Flags DEF CacheInv, LatestsOK, LatBits, Fits, OpsInv, NestOK,
       LevelsOK, LatestKind, Kind, data
  <1>15. QED
    BY <1>6, <1>7, <1>8, <1>9, <1>10, <1>11, <1>12, <1>13, <1>14 DEF CacheInv

\* saveoriginalcachebuffer takes a buffer that is not x.
LEMMA SaveTakes ==
  ASSUME NEW c, Shapes(c), NEW x \in Buffer,
         NEW y \in Reusable([c EXCEPT ![x].locked = @ + 1])
  PROVE  y \in Reusable(c) /\ y # x
  <1> DEFINE d == [c EXCEPT ![x].locked = @ + 1]
  <1>1. /\ \A z \in Buffer : d[z].blck = c[z].blck /\ d[z].bits = c[z].bits
        /\ \A z \in Buffer \ {x} : d[z] = c[z]
        /\ d[x].locked = c[x].locked + 1 /\ c[x].locked \in Nat
    BY DEF Shapes, CacheBuffer
  <1> HIDE DEF d
  <1>2. y \in Buffer /\ d[y].locked = 0
        /\ (OriginalOnly(d[y]) => Latests(d, d[y].blck) = {})
    BY DEF Reusable, d
  <1>3. y # x
    BY <1>1, <1>2
  <1>4. QED
    BY <1>1, <1>2, <1>3 DEF Reusable, OriginalOnly, Latests

\* readoriginalcachebuffer, when b has no LATEST buffer.
LEMMA ReadsOriginal ==
  ASSUME OpsInv, NEW c, CacheInv(c), NEW b \in Block, b \in live \/ nest = 0,
         NoLatest(c, b),
         LatestKind(b) # "create",
         NEW r \in ReadOriginalCacheBuffer(c, b, LatestOperation(op, b), disk)
  PROVE  /\ CacheInv(r.cache)
         /\ r.cb \in Buffer /\ r.cache[r.cb].blck = b
         /\ LatestKind(b) # "none" => r.cache[r.cb].bits = Org /\ NoLatest(r.cache, b)
  <1> USE DEF NoLatest
  <1> DEFINE o == LatestOperation(op, b)
             bits == IF LatestKind(b) = "none" THEN Clean ELSE Org
  <1>1. /\ Originals(c, b) = {x \in Buffer : c[x].blck = b /\ OrgBits(c[x])}
        /\ Originals(c, b) # {} => Original(c, b) \in Originals(c, b)
    BY Finds DEF CacheInv
  <1>2. o = NoOperation <=> LatestKind(b) = "none"
    BY LatestIs DEF NoOperation, LatestKind, Operation
  <1>3. b \notin prepared /\ b # NoBlock
    BY NoBlockAssumption DEF CacheInv, CachedOK
  <1>4. CASE Originals(c, b) # {}
    <2>1. r = [cache |-> c, cb |-> Original(c, b)]
      BY <1>4 DEF ReadOriginalCacheBuffer
    <2>2. r.cache = c /\ r.cb \in Buffer /\ c[r.cb].blck = b /\ c[r.cb].bits = Org
      BY <1>1, <1>4, <2>1 DEF OrgBits, LatBits
    <2>3. QED
      BY <2>2
  <1>5. CASE Originals(c, b) = {}
    <2>1. PICK y \in Reusable(c) :
            r = [cache |-> [c EXCEPT ![y] = Holding(b, bits, disk[b])], cb |-> y]
      BY <1>2, <1>5 DEF ReadOriginalCacheBuffer, Clean, Org
    <2> DEFINE e == [c EXCEPT ![y] = Unused]
    <2>2. CacheInv(e) /\ y \in Buffer
      BY Evicts
    <2>3. /\ e[y] = Unused /\ \A z \in Buffer \ {y} : e[z] = c[z]
          /\ r.cache = [e EXCEPT ![y] = Holding(b, bits, disk[b])] /\ r.cb = y
          /\ c \in [Buffer -> CacheBuffer] /\ e \in [Buffer -> CacheBuffer]
      BY <2>1, <2>2, Refill DEF CacheInv, Shapes
    <2> HIDE DEF e
    <2>4. ~LatBits(Unused) /\ ~OrgBits(Unused)
      BY Flags DEF Unused, LatBits, OrgBits
    <2>5. \A z \in Buffer : e[z].blck = b => ~LatBits(e[z]) /\ ~OrgBits(e[z])
      BY <1>1, <1>5, <2>3, <2>4
    <2>6. CacheInv(r.cache)
      <3>1. CASE LatestKind(b) = "none"
        <4>1. r.cache = [e EXCEPT ![y] = Holding(b, Clean, disk[b])]
          BY <2>3, <3>1
        <4>2. QED
          <5>1. Fillable(e, b, Clean, disk[b]) /\ NoLatest(e, b)
            BY <2>5, <3>1 DEF Fillable
          <5>2. e[y] = Unused
            BY <2>3
          <5> HIDE DEF NoLatest
          <5>3. QED
            BY <2>2, <4>1, <5>1, <5>2, Fills
      <3>2. CASE LatestKind(b) \in {"modify", "delete"}
        <4>1. r.cache = [e EXCEPT ![y] = Holding(b, Org, disk[b])]
          BY <2>3, <3>2
        <4>2. QED
          <5>1. Fillable(e, b, Org, disk[b]) /\ NoLatest(e, b)
            BY <2>5, <3>2 DEF Fillable
          <5>2. e[y] = Unused
            BY <2>3
          <5> HIDE DEF NoLatest
          <5>3. QED
            BY <2>2, <4>1, <5>1, <5>2, Fills
      <3>3. QED
        BY <3>1, <3>2, LatestIs
    <2>7. /\ r.cache[y] = Holding(b, bits, disk[b])
          /\ \A z \in Buffer \ {y} : r.cache[z] = e[z]
      BY <2>2, <2>3
    <2>8. QED
      BY <2>2, <2>3, <2>5, <2>6, <2>7, Flags DEF Holding, LatBits
  <1>6. QED
    BY <1>4, <1>5

\* To copy x to a taken buffer and to decode it is to take the buffer first.
LEMMA Resplit ==
  ASSUME NEW c \in [Buffer -> CacheBuffer], NEW x \in Buffer, NEW y \in Buffer,
         x # y, NEW buf, NEW diff
  PROVE  /\ Decoding(Copied(c, x, y, buf, Changed), x, diff)
            = Split(Taken(c, y), x, y, buf, diff)
         /\ Decoding(Copied(c, x, y, buf, Changed), x, diff)[x].blck = c[x].blck
         /\ Decoding(Copied(c, x, y, buf, Changed), x, diff)[x].bits = Changed
  <1> DEFINE d == [c EXCEPT ![y] = buf, ![x].bits = Changed]
             e == [c EXCEPT ![y] = Unused]
             u == [d EXCEPT ![x].data = Uncompress(@, diff)]
             v == [e EXCEPT ![y] = buf, ![x].bits = Changed,
                            ![x].data = Uncompress(@, diff)]
             new == [[c[x] EXCEPT !.bits = Changed]
                           EXCEPT !.data = Uncompress(c[x].data, diff)]
  <1>1. DOMAIN u = Buffer /\ DOMAIN v = Buffer
    OBVIOUS
  <1>2. \A z \in Buffer \ {x, y} : u[z] = c[z] /\ v[z] = c[z]
    OBVIOUS
  <1>3. u[y] = buf /\ v[y] = buf
    OBVIOUS
  <1>4. c[x] \in CacheBuffer
    OBVIOUS
  <1>5. u[x] = new /\ v[x] = new
    <2>1. d[x] = [c[x] EXCEPT !.bits = Changed] /\ d[x].data = c[x].data
      BY <1>4 DEF CacheBuffer
    <2>2. e[x] = c[x]
      OBVIOUS
    <2>3. QED
      BY <1>4, <2>1, <2>2
  <1>6. new.blck = c[x].blck /\ new.bits = Changed
    BY <1>4 DEF CacheBuffer
  <1>7. \A z \in Buffer : u[z] = v[z]
    BY <1>2, <1>3, <1>5
  <1>8. u = [z \in Buffer |-> u[z]] /\ v = [z \in Buffer |-> v[z]]
    OBVIOUS
  <1>9. /\ u = Decoding(Copied(c, x, y, buf, Changed), x, diff)
        /\ v = Split(e, x, y, buf, diff)
    BY DEF Decoding, Copied, Split
  <1>10. e = Taken(c, y)
    BY DEF Taken
  <1> HIDE DEF u, v, new, e
  <1>11. u = v
    BY <1>7, <1>8
  <1>12. QED
    BY <1>5, <1>6, <1>9, <1>10, <1>11

\* readcachebuffer: a buffer with the latest version of b, and nothing is lost.
LEMMA Reads ==
  ASSUME OpsInv, NEW c, CacheInv(c), NEW b \in Block, b \in live \/ nest = 0,
         NEW r \in ReadCacheBuffer(c, b, LatestOperation(op, b), disk)
  PROVE  /\ CacheInv(r.cache)
         /\ r.cb \in Buffer /\ r.cache[r.cb].blck = b
         /\ LatestKind(b) # "none" => LatBits(r.cache[r.cb])
  <1> DEFINE o == LatestOperation(op, b)
  <1>1. /\ Latests(c, b) = {x \in Buffer : c[x].blck = b /\ LatBits(c[x])}
        /\ Latests(c, b) # {} => Latest(c, b) \in Latests(c, b)
    BY Finds DEF CacheInv
  <1>2. CASE Latests(c, b) # {}
    BY <1>1, <1>2 DEF ReadCacheBuffer
  <1>3. CASE Latests(c, b) = {}
    <2>1. NoLatest(c, b) /\ r \in ApplyOperation(c, b, o, disk)
      BY <1>1, <1>3 DEF NoLatest, ReadCacheBuffer
    <2>2. CASE LatestKind(b) = "none"
      <3>1. r \in ReadOriginalCacheBuffer(c, b, o, disk)
        BY <2>1, <2>2 DEF ApplyOperation, LatestKind
      <3> HIDE DEF o
      <3>2. QED
        BY <2>1, <2>2, <3>1, ReadsOriginal, Flags DEF LatBits, o
    <2>3. CASE LatestKind(b) = "create"
      <3>1. r \in CreateNewCacheBuffer(c, b, o.diff)
        BY <2>1, <2>3 DEF ApplyOperation, LatestKind
      <3>2. PICK y \in Reusable(c) :
              r = [cache |-> [c EXCEPT ![y] = Holding(b, Fresh, o.diff)], cb |-> y]
        BY <3>1 DEF CreateNewCacheBuffer, Fresh
      <3> DEFINE e == [c EXCEPT ![y] = Unused]
      <3>3. CacheInv(e) /\ y \in Buffer
        BY Evicts
      <3>4. /\ e[y] = Unused /\ \A z \in Buffer \ {y} : e[z] = c[z]
            /\ r.cache = [e EXCEPT ![y] = Holding(b, Fresh, o.diff)] /\ r.cb = y
            /\ e \in [Buffer -> CacheBuffer]
        BY <3>2, <3>3, Refill DEF CacheInv, Shapes
      <3> HIDE DEF e
      <3>5. NoLatest(e, b)
        BY <2>1, <3>4, Flags DEF NoLatest, Unused, LatBits
      <3>6. Fillable(e, b, Fresh, o.diff)
        BY <2>3 DEF Fillable
      <3>7. r.cache[y] = Holding(b, Fresh, o.diff)
        BY <3>3, <3>4
      <3>8. CacheInv(r.cache)
        <4>1. e[y] = Unused /\ r.cache = [e EXCEPT ![y] = Holding(b, Fresh, o.diff)]
          BY <3>4
        <4> HIDE DEF o
        <4>2. QED
          BY <3>3, <3>5, <3>6, <4>1, Fills
      <3>9. QED
        BY <3>3, <3>4, <3>7, <3>8 DEF Holding, LatBits
    <2>4. CASE LatestKind(b) \in {"modify", "delete"}
      <3>1. PICK s \in ReadOriginalCacheBuffer(c, b, o, disk) :
              \E d \in SaveOriginalCacheBuffer(s.cache, s.cb) :
                r = [cache |-> [d EXCEPT ![s.cb].data = Uncompress(@, o.diff)],
                     cb |-> s.cb]
        BY <2>1, <2>4 DEF ApplyOperation, LatestKind
      <3> DEFINE f == s.cache
                 x == s.cb
      <3>2. /\ CacheInv(f) /\ x \in Buffer /\ f[x].blck = b /\ f[x].bits = Org
            /\ NoLatest(f, b)
        BY <2>1, <2>4, ReadsOriginal
      <3>3. PICK d \in SaveOriginalCacheBuffer(f, x) :
              r = [cache |-> [d EXCEPT ![x].data = Uncompress(@, o.diff)], cb |-> x]
        BY <3>1
      <3> HIDE DEF f, x
      <3>4. PICK y \in Reusable([f EXCEPT ![x].locked = @ + 1]) :
              d = [f EXCEPT ![y] = Holding(f[x].blck, {"ORIGINAL"}, f[x].data),
                            ![x].bits = (@ \ {"ORIGINAL"}) \cup {"LATEST"}]
        BY <3>3 DEF SaveOriginalCacheBuffer
      <3>5. y \in Reusable(f) /\ y # x
        BY <3>2, <3>4, SaveTakes DEF CacheInv
      <3> DEFINE e == [f EXCEPT ![y] = Unused]
                 h == Holding(b, Org, f[x].data)
      <3>6. CacheInv(e) /\ y \in Buffer
        BY <3>2, <3>5, Evicts
      <3>7. /\ f \in [Buffer -> CacheBuffer]
            /\ d = [f EXCEPT ![y] = h, ![x].bits = Changed]
        <4>1. (f[x].bits \ {"ORIGINAL"}) \cup {"LATEST"} = Changed
          BY <3>2, Flags
        <4>2. QED
          BY <3>2, <3>4, <4>1 DEF CacheInv, Shapes, Org
      <3>8. /\ r.cache = Split(e, x, y, h, o.diff)
            /\ r.cache[x].blck = f[x].blck /\ r.cache[x].bits = Changed
        <4>1. r.cache = Decoding(Copied(f, x, y, h, Changed), x, o.diff)
          BY <3>3, <3>7 DEF Decoding, Copied
        <4>2. f \in [Buffer -> CacheBuffer] /\ x \in Buffer /\ y \in Buffer /\ x # y
          BY <3>2, <3>5, <3>6, <3>7
        <4>3. e = Taken(f, y)
          BY DEF Taken
        <4> HIDE DEF h, o, e
        <4>4. QED
          BY <4>1, <4>2, <4>3, Resplit
      <3>9. /\ e[y] = Unused /\ e[x] = f[x]
            /\ \A z \in Buffer \ {y} : e[z] = f[z]
        BY <3>2, <3>5, <3>6, <3>7
      <3> HIDE DEF e
      <3>10. NoLatest(e, b)
        BY <3>2, <3>9, Flags DEF NoLatest, Unused, LatBits
      <3>11. CacheInv(r.cache)
        <4>1. e[y] = Unused /\ e[x].blck = b /\ e[x].bits = Org
          BY <3>2, <3>9
        <4>2. r.cache = Split(e, x, y, Holding(b, Org, e[x].data),
                              LatestOperation(op, b).diff)
          BY <3>8, <3>9
        <4> HIDE DEF h, o
        <4>3. QED
          BY <2>4, <3>2, <3>6, <3>10, <4>1, <4>2, Splits
      <3>12. QED
        BY <3>2, <3>3, <3>8, <3>11, Flags DEF LatBits
    <2>5. QED
      BY <2>2, <2>3, <2>4, LatestIs
  <1>4. QED
    BY <1>2, <1>3

-----------------------------------------------------------------------------
(* The initial states, and the steps that only take, fill or lock buffers. *)

\* The invariant holds of the cache a step leaves, when nothing else changes.
LEMMA Frame ==
  ASSUME NEW c, CacheInv(c), cache' = c, UNCHANGED <<op, disk, client>>
  PROVE  CacheInv(cache)'
  <1> USE DEF client
  <1>1. Shapes(cache)'
    BY DEF CacheInv, Shapes
  <1>2. Singles(cache)'
    BY DEF CacheInv, Singles
  <1>3. Copies(cache)'
    BY DEF CacheInv, Copies
  <1>4. DiskCopies(cache)'
    BY DEF CacheInv, DiskCopies
  <1>5. LocksOK(cache)'
    BY DEF CacheInv, LocksOK, Locks
  <1>6. CachedOK(cache)'
    BY DEF CacheInv, CachedOK
  <1>7. CleanOK(cache)'
    BY DEF CacheInv, CleanOK, Kind
  <1>8. OriginalsOK(cache)'
    BY DEF CacheInv, OriginalsOK, Kind
  <1>9. LatestsOK(cache)'
    BY DEF CacheInv, LatestsOK, Fits, LatestKind, LatestOperation
  <1>10. QED
    BY <1>1, <1>2, <1>3, <1>4, <1>5, <1>6, <1>7, <1>8, <1>9 DEF CacheInv

\* The same for the operations and the transaction.
LEMMA FrameOps ==
  ASSUME OpsInv, Shapes(cache)', UNCHANGED <<op, disk, nest, client>>,
         flushing' \in BOOLEAN, flushing' => nest = 0
  PROVE  OpsInv'
  BY DEF OpsInv, TypeOK, OperationsOK, NestOK, LevelsOK, Kind, client, Shapes

\* The program starts with an empty cache and no operations.
LEMMA InitInv ==
  ASSUME Init
  PROVE  Inv
  <1>1. /\ \A x \in Buffer : cache[x] = Unused
        /\ Unused.blck = NoBlock /\ Unused.locked = 0 /\ Unused.bits = {}
        /\ ~LatBits(Unused) /\ ~OrgBits(Unused) /\ Unused.bits # Changed
        /\ Unused.bits # Org /\ Unused.bits # Clean
        /\ Unused \in CacheBuffer
        /\ cache \in [Buffer -> CacheBuffer]
    <2>1. Zero \in Content
      BY ValAssumption DEF Zero, Content
    <2>2. Unused \in CacheBuffer
      BY <2>1 DEF Unused, CacheBuffer
    <2>3. QED
      BY <2>2, Flags DEF Init, Unused, LatBits, OrgBits
  <1>2. /\ \A l \in Level, b \in Block : op[l][b] = NoOperation
        /\ NoOperation.kind = "none" /\ NoOperation.diff = EmptyDiff
        /\ op \in [Level -> [Block -> Operation]]
    <2>1. EmptyDiff \in [{} -> Val] /\ {} \in SUBSET Cell
      BY DEF EmptyDiff
    <2>2. NoOperation \in Operation
      BY <2>1 DEF NoOperation, Operation, Diff
    <2>3. QED
      BY <2>2 DEF Init, NoOperation
  <1>3. OpsInv
    BY <1>1, <1>2 DEF Init, OpsInv, TypeOK, OperationsOK, NestOK, LevelsOK, Kind, Level
  <1>4. CacheInv(cache)
    BY <1>1 DEF Init, CacheInv, Shapes, Singles, Copies, DiskCopies, LocksOK, CachedOK,
       CleanOK, OriginalsOK, LatestsOK
  <1>5. QED
    BY <1>3, <1>4 DEF Inv

\* Taking buffers, once or twice.
LEMMA EvictsOnce ==
  ASSUME OpsInv, NEW c, CacheInv(c), NEW d \in Evictions(c)
  PROVE  CacheInv(d)
  BY Evicts DEF Evictions

\* readcachebuffer keeps the invariant.
LEMMA ReadStep ==
  ASSUME Inv, NEW b \in Block, Read(b)
  PROVE  Inv'
  <1>1. PICK r \in Readings(b) : cache' = r.cache
    BY DEF Read
  <1>2. r \in ReadCacheBuffer(cache, b, LatestOperation(op, b), disk)
    BY DEF Readings
  <1>3. CacheInv(cache)'
    <2>1. CacheInv(r.cache)
      BY <1>2, Reads DEF Inv, Read
    <2>2. QED
      BY <1>1, <2>1, Frame DEF Read
  <1>4. OpsInv'
    BY <1>3, FrameOps DEF Read, Inv, CacheInv, OpsInv, NestOK, TypeOK
  <1>5. QED
    BY <1>3, <1>4 DEF Inv

\* So does a call that took a buffer and failed.
LEMMA TakeBufferStep ==
  ASSUME Inv, TakeBuffer
  PROVE  Inv'
  <1>1. CacheInv(cache)'
    BY EvictsOnce, Frame DEF Inv, TakeBuffer
  <1>2. OpsInv'
    BY <1>1, FrameOps DEF TakeBuffer, Inv, CacheInv, OpsInv, NestOK, TypeOK
  <1>3. QED
    BY <1>1, <1>2 DEF Inv

\* So do the beginning and the end of a flush.
LEMMA FlushSteps ==
  ASSUME Inv, FlushTransaction \/ FlushDone
  PROVE  Inv'
  <1>1. CASE FlushTransaction
    <2>1. PICK c \in Evictions(cache) : cache' \in Evictions(c)
      BY <1>1 DEF FlushTransaction
    <2>2. CacheInv(c)
      BY EvictsOnce DEF Inv
    <2>3. CacheInv(cache')
      BY <2>1, <2>2, EvictsOnce DEF Inv
    <2>4. CacheInv(cache)'
      BY <1>1, <2>3, Frame DEF FlushTransaction
    <2>5. OpsInv'
      BY <1>1, <2>4, FrameOps DEF FlushTransaction, Inv, CacheInv
    <2>6. QED
      BY <2>4, <2>5 DEF Inv
  <1>2. CASE FlushDone
    <2>1. CacheInv(cache)'
      BY <1>2, EvictsOnce, Frame DEF Inv, FlushDone
    <2>2. OpsInv'
      BY <1>2, <2>1, FrameOps DEF FlushDone, Inv, CacheInv
    <2>3. QED
      BY <2>1, <2>2 DEF Inv
  <1>3. QED
    BY <1>1, <1>2

\* So does a flush that is cancelled.
LEMMA CancelFlushStep ==
  ASSUME Inv, NEW b \in Block, CancelFlush(b)
  PROVE  Inv'
  <1>1. CacheInv(cache')
    <2>1. ASSUME NEW r \in Readings(b), cache' = r.cache
          PROVE  CacheInv(cache')
      <3>1. r \in ReadCacheBuffer(cache, b, LatestOperation(op, b), disk)
        BY DEF Readings
      <3>2. nest = 0
        BY DEF Inv, OpsInv, NestOK, CancelFlush
      <3>3. CacheInv(r.cache)
        BY <3>1, <3>2, Reads DEF Inv
      <3>4. QED
        BY <2>1, <3>3
    <2>2. ASSUME cache' \in Evictions(cache)
          PROVE  CacheInv(cache')
      BY <2>2, EvictsOnce DEF Inv
    <2>3. QED
      BY <2>1, <2>2 DEF CancelFlush
  <1>2. CacheInv(cache)'
    BY <1>1, Frame DEF CancelFlush
  <1>3. OpsInv'
    BY <1>2, FrameOps DEF CancelFlush, Inv, CacheInv
  <1>4. QED
    BY <1>2, <1>3 DEF Inv

\* A client locks or unlocks the LATEST buffer of a block.
LEMMA LockSteps ==
  ASSUME Inv, NEW b \in Block, Lock(b) \/ Unlock(b)
  PROVE  Inv'
  <1> DEFINE y == Latest(cache, b)
  <1>1. PICK k \in {1, 2} :
          /\ k = 1 => Lock(b)
          /\ k = 2 => Unlock(b)
    OBVIOUS
  <1>2. UNCHANGED <<op, disk, nest, flushing, prepared, live, liveSaved, reused, failed>>
    BY DEF Lock, Unlock
  <1>3. y \in Buffer /\ cache[y].blck = b /\ LatBits(cache[y])
    <2>1. Latests(cache, b) # {}
      <3>1. CASE Lock(b)
        BY <3>1 DEF Lock
      <3>2. CASE Unlock(b)
        <4>1. \E x \in Buffer : cache[x].blck = b /\ LatBits(cache[x])
          BY <3>2 DEF Unlock, Inv, CacheInv, CachedOK
        <4>2. QED
          BY <4>1, Finds DEF Inv, CacheInv
      <3>3. QED
        BY <3>1, <3>2
    <2>2. QED
      BY <2>1, Finds DEF Inv, CacheInv
  <1>4. /\ cache \in [Buffer -> CacheBuffer]
        /\ cache[y].locked = Locks(b)
    BY <1>3 DEF Inv, CacheInv, Shapes, LocksOK
  <1> HIDE DEF y
  <1>5. Lock(b) => b \notin held /\ b \in live /\ held' = held \cup {b}
                   /\ cache' = [cache EXCEPT ![y].locked = @ + 1]
    BY DEF Lock, y
  <1>6. Unlock(b) => b \in held /\ held' = held \ {b}
                     /\ cache' = [cache EXCEPT ![y].locked = @ - 1]
    BY DEF Unlock, y
  <1>7. /\ \A x \in Buffer \ {y} : cache'[x] = cache[x]
        /\ cache'[y].blck = b /\ cache'[y].bits = cache[y].bits
        /\ cache'[y].data = cache[y].data
        /\ cache' \in [Buffer -> CacheBuffer]
    <2>1. CASE Lock(b)
      BY <1>3, <1>4, <1>5, <2>1 DEF CacheBuffer
    <2>2. CASE Unlock(b)
      <3>1. cache[y].locked - 1 \in Nat
        BY <1>4, <1>6, <2>2 DEF Locks
      <3>2. [cache[y] EXCEPT !.locked = @ - 1] \in CacheBuffer
        BY <1>3, <1>4, <3>1 DEF CacheBuffer
      <3>3. QED
        BY <1>3, <1>4, <1>6, <2>2, <3>2 DEF CacheBuffer
    <2>3. QED
      BY <2>1, <2>2
  <1>8. cache'[y].locked = Locks(b)'
    <2>1. CASE Lock(b)
      BY <1>2, <1>3, <1>4, <1>5, <2>1 DEF CacheBuffer, Locks
    <2>2. CASE Unlock(b)
      BY <1>2, <1>3, <1>4, <1>6, <2>2 DEF CacheBuffer, Locks
    <2>3. QED
      BY <2>1, <2>2
  <1>9. \A c \in Block \ {b} : c \in held' <=> c \in held
    BY <1>5, <1>6
  <1>10. /\ \A x \in Buffer : /\ cache'[x].blck = cache[x].blck
                              /\ cache'[x].bits = cache[x].bits
                              /\ cache'[x].data = cache[x].data
         /\ \A x \in Buffer : /\ LatBits(cache'[x]) <=> LatBits(cache[x])
                              /\ OrgBits(cache'[x]) <=> OrgBits(cache[x])
    BY <1>3, <1>7 DEF LatBits, OrgBits
  <1>11. Shapes(cache)'
    BY <1>3, <1>7, NoBlockAssumption DEF Inv, CacheInv, Shapes
  <1>12. Singles(cache)'
    BY <1>10 DEF Inv, CacheInv, Singles
  <1>13. Copies(cache)'
    BY <1>10 DEF Inv, CacheInv, Copies
  <1>14. DiskCopies(cache)'
    BY <1>2, <1>10 DEF Inv, CacheInv, DiskCopies
  <1>15. LocksOK(cache)'
    <2>1. \A x \in Buffer \ {y} : LatBits(cache[x]) => cache[x].blck # b
      BY <1>3, NoBlockAssumption DEF Inv, CacheInv, Singles
    <2>2. \A x \in Buffer : cache[x].locked =
            IF LatBits(cache[x]) THEN Locks(cache[x].blck) ELSE 0
      BY DEF Inv, CacheInv, LocksOK
    <2>3. \A a : a # b => (a \in held' <=> a \in held)
      BY <1>5, <1>6
    <2>4. QED
      BY <1>2, <1>3, <1>7, <1>8, <1>10, <2>1, <2>2, <2>3 DEF LocksOK, Locks
  <1>16. CachedOK(cache)'
    BY <1>2, <1>3, <1>5, <1>6, <1>10 DEF Inv, CacheInv, CachedOK
  <1>17. CleanOK(cache)'
    BY <1>2, <1>10 DEF Inv, CacheInv, CleanOK, Kind
  <1>18. OriginalsOK(cache)'
    BY <1>2, <1>10 DEF Inv, CacheInv, OriginalsOK, Kind
  <1>19. LatestsOK(cache)'
    BY <1>2, <1>10 DEF Inv, CacheInv, LatestsOK, Fits, LatestKind, LatestOperation
  <1>20. OpsInv'
    <2>1. TypeOK'
      BY <1>2, <1>5, <1>6, <1>7 DEF Inv, OpsInv, TypeOK
    <2>2. NestOK'
      BY <1>2, <1>5, <1>6 DEF Inv, OpsInv, NestOK, Kind
    <2>3. OperationsOK' /\ LevelsOK'
      BY <1>2 DEF Inv, OpsInv, OperationsOK, LevelsOK, Kind
    <2>4. QED
      BY <2>1, <2>2, <2>3 DEF OpsInv
  <1>21. QED
    BY <1>11, <1>12, <1>13, <1>14, <1>15, <1>16, <1>17, <1>18, <1>19,
       <1>20 DEF Inv, CacheInv

\* An empty cache fits any operations, as long as nobody has locked a buffer.
LEMMA InvalidateStep ==
  ASSUME Inv, InvalidateCaches
  PROVE  Inv'
  <1>1. /\ \A x \in Buffer : cache'[x] = Unused
        /\ Unused.blck = NoBlock /\ Unused.locked = 0 /\ Unused.bits = {}
        /\ ~LatBits(Unused) /\ ~OrgBits(Unused) /\ Unused.bits # Changed
        /\ Unused.bits # Org /\ Unused.bits # Clean
        /\ cache' \in [Buffer -> CacheBuffer]
    <2>1. Zero \in Content
      BY ValAssumption DEF Zero, Content
    <2>2. Unused \in CacheBuffer
      BY <2>1 DEF Unused, CacheBuffer
    <2>3. QED
      BY <2>2, Flags DEF InvalidateCaches, Unused, LatBits, OrgBits
  <1>2. held = {} /\ prepared = {} /\ UNCHANGED <<op, disk, nest, flushing, client>>
    BY DEF InvalidateCaches, Inv, OpsInv, NestOK
  <1>3. CacheInv(cache)'
    BY <1>1, <1>2 DEF CacheInv, Shapes, Singles, Copies, DiskCopies, LocksOK, CachedOK,
       CleanOK, OriginalsOK, LatestsOK, client
  <1>4. OpsInv'
    BY <1>2, <1>3, FrameOps DEF Inv, CacheInv, OpsInv, NestOK, TypeOK
  <1>5. QED
    BY <1>3, <1>4 DEF Inv

\* newtransaction only counts.
LEMMA NewTransactionStep ==
  ASSUME Inv, NewTransaction
  PROVE  Inv'
  <1>1. CacheInv(cache)'
    BY Frame DEF Inv, NewTransaction
  <1>2. OpsInv'
    BY <1>1 DEF Inv, OpsInv, TypeOK, OperationsOK, NestOK, LevelsOK, Kind, client,
       NewTransaction, Level
  <1>3. QED
    BY <1>1, <1>2 DEF Inv

-----------------------------------------------------------------------------
(* Preparing buffers, and changing them. *)

\* What preparecachebuffer makes of the buffer x in the cache c, once a buffer y
\* was taken if x is an original: x is locked, and y holds a copy of it.
Locked(c, x, y, d) ==
  /\ d \in [Buffer -> CacheBuffer] /\ y \in Buffer
  /\ d[x].blck = c[x].blck /\ d[x].locked = c[x].locked + 1 /\ d[x].data = c[x].data
  /\ IF c[x].bits = Clean
       THEN /\ y # x /\ c[y] = Unused /\ d[x].bits = Changed
            /\ d[y] = Holding(c[x].blck, Org, c[x].data)
       ELSE y = x /\ d[x].bits = c[x].bits
  /\ \A z \in Buffer \ {x, y} : d[z] = c[z]

\* preparecachebuffer does that.
LEMMA Prepares ==
  ASSUME OpsInv, NEW c, CacheInv(c), NEW x \in Buffer, LatBits(c[x]),
         c[x].blck \in Block,
         NEW d \in PrepareCacheBuffer(c, x)
  PROVE  \E e, y : CacheInv(e) /\ e[x] = c[x] /\ Locked(e, x, y, d)
  <1> DEFINE f == [c EXCEPT ![x].locked = @ + 1]
  <1>1. /\ c \in [Buffer -> CacheBuffer] /\ c[x] \in CacheBuffer
        /\ f \in [Buffer -> CacheBuffer]
        /\ \A z \in Buffer \ {x} : f[z] = c[z]
        /\ f[x] = [c[x] EXCEPT !.locked = @ + 1]
    BY DEF CacheInv, Shapes, CacheBuffer
  <1>2. /\ f[x].blck = c[x].blck /\ f[x].bits = c[x].bits /\ f[x].data = c[x].data
        /\ f[x].locked = c[x].locked + 1 /\ c[x].locked \in Nat
    BY <1>1 DEF CacheBuffer
  <1>3. "ORIGINAL" \in f[x].bits <=> c[x].bits = Clean
    BY <1>2, Flags DEF LatBits
  <1>4. CASE c[x].bits # Clean
    <2>1. d = f
      BY <1>3, <1>4 DEF PrepareCacheBuffer
    <2> HIDE DEF f
    <2>2. Locked(c, x, x, d)
      BY <1>1, <1>2, <1>4, <2>1 DEF Locked
    <2>3. QED
      BY <2>2
  <1>5. CASE c[x].bits = Clean
    <2>1. d \in SaveOriginalCacheBuffer(f, x)
      BY <1>3, <1>5 DEF PrepareCacheBuffer
    <2> HIDE DEF f
    <2>2. PICK y \in Reusable([f EXCEPT ![x].locked = @ + 1]) :
            d = [f EXCEPT ![y] = Holding(f[x].blck, {"ORIGINAL"}, f[x].data),
                          ![x].bits = (@ \ {"ORIGINAL"}) \cup {"LATEST"}]
      BY <2>1 DEF SaveOriginalCacheBuffer
    <2>3. Shapes(f)
      <3>1. c[x].blck # NoBlock
        BY NoBlockAssumption
      <3>2. QED
        BY <1>1, <1>2, <3>1 DEF CacheInv, Shapes
    <2>4. y \in Reusable(f) /\ y # x
      BY <2>2, <2>3, SaveTakes
    <2>5. y \in Reusable(c) /\ y \in Buffer
      <3>1. y \in Reusable([c EXCEPT ![x].locked = @ + 1])
        BY <2>4 DEF f
      <3>2. QED
        BY <3>1, SaveTakes DEF CacheInv, Reusable
    <2> DEFINE e == [c EXCEPT ![y] = Unused]
               h == Holding(c[x].blck, Org, c[x].data)
    <2>6. CacheInv(e)
      BY <2>5, Evicts
    <2>7. e[y] = Unused /\ \A z \in Buffer \ {y} : e[z] = c[z]
      BY <1>1, <2>5
    <2>8. h \in CacheBuffer /\ h = Holding(f[x].blck, {"ORIGINAL"}, f[x].data)
      BY <1>1, <1>2 DEF Holding, CacheBuffer, Org
    <2>9. (f[x].bits \ {"ORIGINAL"}) \cup {"LATEST"} = Changed
      BY <1>2, <1>5, Flags
    <2>10. d = [f EXCEPT ![y] = h, ![x].bits = Changed]
      BY <1>1, <2>2, <2>4, <2>5, <2>8, <2>9
    <2> HIDE DEF e, h
    <2>11. [f[x] EXCEPT !.bits = Changed] \in CacheBuffer
      BY <1>1 DEF CacheBuffer, Changed
    <2>12. /\ d \in [Buffer -> CacheBuffer]
           /\ d[y] = h /\ d[x] = [f[x] EXCEPT !.bits = Changed]
           /\ \A z \in Buffer \ {x, y} : d[z] = f[z]
      BY <1>1, <2>4, <2>5, <2>8, <2>10, <2>11
    <2>13. \A z \in Buffer \ {x, y} : d[z] = e[z]
      BY <1>1, <2>7, <2>12
    <2>14. /\ d[x].blck = c[x].blck /\ d[x].locked = c[x].locked + 1
           /\ d[x].data = c[x].data /\ d[x].bits = Changed
      BY <1>1, <1>2, <2>12 DEF CacheBuffer
    <2>15. Locked(e, x, y, d)
      BY <1>1, <1>5, <2>4, <2>5, <2>7, <2>12, <2>13, <2>14 DEF Locked, h
    <2>16. QED
      BY <2>4, <2>6, <2>7, <2>15
  <1>6. QED
    BY <1>4, <1>5

\* A client gets the LATEST buffer x of b, locked, to fill or to change it.
LEMMA Prepared ==
  ASSUME OpsInv, NEW b \in Block, b \notin prepared,
         NEW c, CacheInv(c), NEW x \in Buffer, LatBits(c[x]), c[x].blck = b,
         NEW y, NEW d, Locked(c, x, y, d),
         cache' \in [Buffer -> CacheBuffer],
         \A z \in Buffer \ {x} : cache'[z] = d[z],
         cache'[x].blck = b, cache'[x].bits = d[x].bits, cache'[x].locked = d[x].locked,
         prepared' = prepared \cup {b},
         reused' = IF b \in liveSaved \ live THEN reused \cup {b} ELSE reused,
         UNCHANGED <<op, disk, held, live, liveSaved>>
  PROVE  CacheInv(cache)'
  <1>1. /\ y \in Buffer /\ cache'[x].blck = b /\ b # NoBlock
        /\ cache'[x].locked = Locks(b)'
        /\ \A z \in Buffer \ {x, y} : cache'[z] = c[z]
    <2>1. c[x].locked = Locks(b)
      BY DEF CacheInv, LocksOK
    <2>2. Locks(b)' = Locks(b) + 1 /\ Locks(b) \in Nat
      BY DEF Locks
    <2>3. QED
      BY <2>1, <2>2, NoBlockAssumption DEF Locked
  <1>2. \/ /\ c[x].bits = Clean /\ y # x /\ cache'[x].bits = Changed
           /\ c[y].blck = NoBlock /\ ~OrgBits(c[y]) /\ ~LatBits(c[y])
           /\ cache'[y].blck = b /\ cache'[y].bits = Org /\ cache'[y].locked = 0
           /\ cache'[y].data = disk[b]
        \/ c[x].bits \in {Changed, Fresh} /\ y = x /\ cache'[x].bits = c[x].bits
    <2>1. ~OrgBits(Unused) /\ ~LatBits(Unused) /\ Unused.blck = NoBlock
      BY Flags DEF OrgBits, LatBits, Unused
    <2>2. c[x].bits = Clean => c[x].data = disk[b]
      BY <1>1 DEF CacheInv, DiskCopies, OrgBits
    <2>3. CASE c[x].bits = Clean
      BY <2>1, <2>2, <2>3 DEF Locked, Holding
    <2>4. CASE c[x].bits # Clean
      BY <2>4 DEF Locked, LatBits
    <2>5. QED
      BY <2>3, <2>4
  <1>3. \A z \in Buffer \ {x} : c[z].blck = b => ~LatBits(c[z])
    BY <1>1 DEF CacheInv, Singles
  <1>4. b \notin held' \/ b \in held
    OBVIOUS
  <1>5. Shapes(cache)'
    BY <1>1, <1>2 DEF CacheInv, Shapes
  <1>6. Singles(cache)'
    BY <1>1, <1>2, Flags DEF CacheInv, Singles, OrgBits, LatBits
  <1>7. Copies(cache)'
    BY <1>1, <1>2, Flags DEF CacheInv, Copies, OrgBits
  <1>8. DiskCopies(cache)'
    BY <1>1, <1>2, Flags DEF CacheInv, DiskCopies, OrgBits
  <1>9. LocksOK(cache)'
    BY <1>1, <1>2, <1>3, Flags DEF CacheInv, LocksOK, Locks, LatBits
  <1>10. CachedOK(cache)'
    <2>1. \A z \in Buffer : cache'[z].blck = b => cache'[z].bits # Clean
      BY <1>1, <1>2, <1>3, Flags DEF LatBits
    <2>2. LatBits(cache'[x])
      BY <1>2 DEF LatBits
    <2>3. \A a \in held' \cup prepared' :
            \E z \in Buffer : cache'[z].blck = a /\ LatBits(cache'[z])
      <3>1. ASSUME NEW a \in held \cup prepared, a # b
            PROVE  \E z \in Buffer : cache'[z].blck = a /\ LatBits(cache'[z])
        <4>1. PICK z \in Buffer : c[z].blck = a /\ LatBits(c[z])
          BY DEF CacheInv, CachedOK
        <4>2. z # x /\ z # y
          BY <1>2, <3>1, <4>1
        <4>3. QED
          BY <1>1, <4>1, <4>2
      <3>2. QED
        BY <1>1, <2>2, <3>1
    <2>4. \A z \in Buffer : cache'[z].blck \in prepared => cache'[z].bits # Clean
      BY <1>1, <1>2, Flags DEF CacheInv, CachedOK
    <2>5. QED
      BY <2>1, <2>3, <2>4 DEF CachedOK, LatBits
  <1>11. CleanOK(cache)'
    BY <1>1, <1>2, Flags DEF CacheInv, CleanOK, Kind
  <1>12. OriginalsOK(cache)'
    <2> SUFFICES ASSUME ~ReuseMayFail PROVE OriginalsOK(cache)'
      BY DEF OriginalsOK
    <2>1. Kind(1, b) \in {"modify", "create"} => b \in live
      BY DEF OpsInv, LevelsOK
    <2>2. c[x].bits = Clean /\ b \in live => Kind(1, b) = "none"
      <3>1. LatestOperation(op, b) = IF Kind(1, b) # "none" THEN op[1][b] ELSE op[0][b]
        BY LatestIs
      <3>2. QED
        BY <3>1, Flags DEF CacheInv, LatestsOK, LatBits, Fits, Kind
    <2>3. ASSUME NEW z \in Buffer, cache'[z].bits = Org, cache'[z].blck = b,
                 b \notin reused', Kind(0, b) = "none"
          PROVE  /\ Kind(1, b) # "create"
                 /\ \A w \in Buffer : cache'[w].blck = b => cache'[w].bits # Fresh
      <3>1. CASE c[x].bits = Clean
        BY <1>1, <1>2, <1>3, <2>1, <2>2, <2>3, <3>1, Flags DEF LatBits
      <3>2. CASE c[x].bits # Clean
        <4>1. z # x /\ c[z] = cache'[z] /\ b \notin reused
          BY <1>1, <1>2, <2>3, <3>2, Flags
        <4>2. \A w \in Buffer : c[w].blck = b => c[w].bits # Fresh
          BY <2>3, <4>1 DEF CacheInv, OriginalsOK
        <4>3. QED
          BY <1>1, <1>2, <2>3, <3>2, <4>1, <4>2 DEF CacheInv, OriginalsOK
      <3>3. QED
        BY <3>1, <3>2
    <2>4. ASSUME NEW z \in Buffer, cache'[z].bits = Org
          PROVE  /\ cache'[z].blck \notin prepared' =>
                      Kind(0, cache'[z].blck) # "none" \/ Kind(1, cache'[z].blck) # "none"
                 /\ cache'[z].blck \notin reused' /\ Kind(0, cache'[z].blck) = "none" =>
                      /\ Kind(1, cache'[z].blck) # "create"
                      /\ cache'[z].blck \notin prepared' =>
                           Kind(1, cache'[z].blck) = "modify"
                      /\ \A w \in Buffer : cache'[w].blck = cache'[z].blck
                                            => cache'[w].bits # Fresh
      <3>1. CASE cache'[z].blck = b
        BY <2>3, <2>4, <3>1
      <3>2. CASE cache'[z].blck # b
        BY <1>1, <1>2, <2>4, <3>2, Flags DEF CacheInv, OriginalsOK
      <3>3. QED
        BY <3>1, <3>2
    <2>5. QED
      BY <2>4 DEF OriginalsOK, Kind
  <1>13. LatestsOK(cache)'
    BY <1>1, <1>2, <1>3, Flags DEF CacheInv, LatestsOK, LatBits, Fits, LatestKind,
       LatestOperation
  <1>14. QED
    BY <1>5, <1>6, <1>7, <1>8, <1>9, <1>10, <1>11, <1>12, <1>13 DEF CacheInv

\* preparecachebuffer, on a block in use.
LEMMA PrepareStep ==
  ASSUME Inv, NEW b \in Block, Prepare(b)
  PROVE  Inv'
  <1> DEFINE x == Latest(cache, b)
  <1>1. x \in Buffer /\ cache[x].blck = b /\ LatBits(cache[x])
    BY Finds DEF Inv, CacheInv, Prepare
  <1>2. PICK e, y : CacheInv(e) /\ e[x] = cache[x] /\ Locked(e, x, y, cache')
    BY <1>1, Prepares DEF Inv, Prepare
  <1> HIDE DEF x
  <1>3. CacheInv(cache)'
    <2>1. LatBits(e[x]) /\ e[x].blck = b /\ cache'[x].blck = b
          /\ cache' \in [Buffer -> CacheBuffer]
      BY <1>1, <1>2 DEF Locked
    <2>2. b \notin prepared /\ prepared' = prepared \cup {b}
          /\ UNCHANGED <<op, disk, held, live, liveSaved>>
          /\ reused' = IF b \in liveSaved \ live THEN reused \cup {b} ELSE reused
      BY DEF Prepare
    <2>3. QED
      BY <1>1, <1>2, <2>1, <2>2, Prepared DEF Inv
  <1>4. OpsInv'
    BY <1>3 DEF Prepare, CanPrepare, CanChange, Inv, CacheInv, Shapes, OpsInv, TypeOK,
       OperationsOK, NestOK, LevelsOK, Kind
  <1>5. QED
    BY <1>3, <1>4 DEF Inv

\* newcachebuffer, on a block that was not in use.
LEMMA NewStep ==
  ASSUME Inv, NEW b \in Block, New(b)
  PROVE  Inv'
  <1> DEFINE x == Latest(cache, b)
  <1>1. /\ b \notin live /\ b \notin prepared /\ b \notin held
        /\ nest = 1 /\ ~failed
        /\ cache' \in NewCacheBuffer(cache, b)
        /\ prepared' = prepared \cup {b}
        /\ reused' = IF b \in liveSaved \ live THEN reused \cup {b} ELSE reused
        /\ UNCHANGED <<op, disk, nest, flushing, held, live, liveSaved, failed>>
    BY DEF New, CanPrepare, CanChange
  <1>2. Kind(1, b) \notin {"modify", "create"} /\ b # NoBlock /\ Zero \in Content
    BY <1>1, NoBlockAssumption, ValAssumption DEF Inv, OpsInv, LevelsOK, Zero, Content
  <1>3. ASSUME Latests(cache, b) # {} PROVE CacheInv(cache)'
    <2>1. x \in Buffer /\ cache[x].blck = b /\ LatBits(cache[x])
      BY <1>3, Finds DEF Inv, CacheInv
    <2>2. PICK d \in PrepareCacheBuffer(cache, x) : cache' = [d EXCEPT ![x].data = Zero]
      BY <1>1, <1>3 DEF NewCacheBuffer
    <2>3. PICK e, y : CacheInv(e) /\ e[x] = cache[x] /\ Locked(e, x, y, d)
      BY <2>1, Prepares DEF Inv
    <2> HIDE DEF x
    <2>4. /\ cache' \in [Buffer -> CacheBuffer]
          /\ \A z \in Buffer \ {x} : cache'[z] = d[z]
          /\ cache'[x].blck = b /\ cache'[x].bits = d[x].bits
          /\ cache'[x].locked = d[x].locked
      <3>1. d \in [Buffer -> CacheBuffer] /\ d[x] \in CacheBuffer /\ d[x].blck = b
        BY <2>1, <2>3 DEF Locked
      <3>2. [d[x] EXCEPT !.data = Zero] \in CacheBuffer
        BY <1>2, <3>1 DEF CacheBuffer
      <3>3. QED
        BY <2>1, <2>2, <3>1, <3>2 DEF CacheBuffer
    <2>5. LatBits(e[x]) /\ e[x].blck = b
      BY <2>1, <2>3
    <2>6. CacheInv(cache)'
      BY <1>1, <2>1, <2>3, <2>4, <2>5, Prepared DEF Inv
    <2>7. QED
      BY <2>6
  <1>4. ASSUME Latests(cache, b) = {} PROVE CacheInv(cache)'
    <2>1. PICK y \in Reusable(cache) :
            cache' = [[cache EXCEPT ![y] = Holding(b, {"LATEST", "EMPTY"}, Zero)]
                        EXCEPT ![y].locked = 1]
      <3>1. PICK r \in CreateNewCacheBuffer(cache, b, Zero) :
              cache' = [r.cache EXCEPT ![r.cb].locked = 1]
        BY <1>1, <1>4 DEF NewCacheBuffer
      <3>2. PICK y \in Reusable(cache) :
              /\ r.cb = y
              /\ r.cache = [cache EXCEPT ![y] = Holding(b, {"LATEST", "EMPTY"}, Zero)]
        BY <3>1 DEF CreateNewCacheBuffer
      <3>3. QED
        BY <3>1, <3>2
    <2> DEFINE c == [cache EXCEPT ![y] = Unused]
    <2>2. CacheInv(c) /\ y \in Buffer
      BY Evicts DEF Inv
    <2>3. /\ c[y].blck = NoBlock /\ ~LatBits(c[y]) /\ ~OrgBits(c[y])
          /\ c[y].bits = {}
          /\ \A z \in Buffer \ {y} : c[z] = cache[z]
          /\ cache \in [Buffer -> CacheBuffer]
      BY <2>2, Flags DEF Unused, LatBits, OrgBits, Inv, CacheInv, Shapes
    <2>4. /\ cache'[y].blck = b /\ cache'[y].bits = Fresh
          /\ cache'[y].locked = 1
          /\ \A z \in Buffer \ {y} : cache'[z] = c[z]
          /\ cache' \in [Buffer -> CacheBuffer]
      <3> DEFINE h == Holding(b, {"LATEST", "EMPTY"}, Zero)
      <3>1. h.blck = b /\ h.bits = Fresh /\ h \in CacheBuffer
        BY <1>2 DEF Holding, Fresh, CacheBuffer
      <3>2. [h EXCEPT !.locked = 1] \in CacheBuffer
        BY <3>1 DEF CacheBuffer
      <3> HIDE DEF h
      <3>3. cache' = [[cache EXCEPT ![y] = h] EXCEPT ![y].locked = 1]
        BY <2>1 DEF h
      <3>4. QED
        BY <2>2, <2>3, <3>1, <3>2, <3>3 DEF CacheBuffer
    <2> HIDE DEF c
    <2>5. \A z \in Buffer \ {y} : c[z].blck = b => ~LatBits(c[z])
      BY <1>4, <2>3, Finds DEF Inv, CacheInv
    <2>6. Shapes(cache)'
      BY <1>2, <2>2, <2>4 DEF CacheInv, Shapes
    <2>7. Singles(cache)'
      BY <2>2, <2>4, <2>5, Flags DEF CacheInv, Singles, OrgBits, LatBits
    <2>8. Copies(cache)'
      BY <2>2, <2>3, <2>4, Flags DEF CacheInv, Copies
    <2>9. DiskCopies(cache)'
      BY <1>1, <2>2, <2>4, Flags DEF CacheInv, DiskCopies, OrgBits
    <2>10. LocksOK(cache)'
      BY <1>1, <2>2, <2>4, <2>5 DEF CacheInv, LocksOK, Locks, LatBits
    <2>11. CachedOK(cache)'
      <3>1. LatBits(cache'[y])
        BY <2>4 DEF LatBits
      <3>2. \A a \in held \cup prepared :
              \E z \in Buffer \ {y} : c[z].blck = a /\ LatBits(c[z])
        BY <2>2, <2>3 DEF CacheInv, CachedOK
      <3>3. \A a \in held' \cup prepared' :
              \E z \in Buffer : cache'[z].blck = a /\ LatBits(cache'[z])
        BY <1>1, <2>2, <2>4, <3>1, <3>2
      <3>4. \A z \in Buffer : cache'[z].blck \in prepared' => cache'[z].bits # Clean
        BY <1>1, <2>2, <2>4, <2>5, Flags DEF CacheInv, CachedOK, LatBits
      <3>5. QED
        BY <3>3, <3>4 DEF CachedOK, LatBits
    <2>12. CleanOK(cache)'
      BY <1>1, <2>2, <2>4, Flags DEF CacheInv, CleanOK, Kind
    <2>13. OriginalsOK(cache)'
      BY <1>1, <1>2, <2>2, <2>4, <2>5, Flags DEF CacheInv, OriginalsOK, Kind
    <2>14. LatestsOK(cache)'
      BY <1>1, <2>2, <2>4, Flags DEF CacheInv, LatestsOK, LatBits, Fits, LatestKind,
         LatestOperation
    <2>15. QED
      BY <2>6, <2>7, <2>8, <2>9, <2>10, <2>11, <2>12, <2>13, <2>14 DEF CacheInv
  <1>5. OpsInv'
    <2>1. TypeOK'
      BY <1>1, <1>3, <1>4 DEF Inv, OpsInv, TypeOK, CacheInv, Shapes
    <2>2. OperationsOK' /\ NestOK'
      BY <1>1 DEF Inv, OpsInv, OperationsOK, NestOK, Kind
    <2>3. LevelsOK'
      BY <1>1 DEF Inv, OpsInv, LevelsOK, Kind
    <2>4. QED
      BY <2>1, <2>2, <2>3 DEF OpsInv
  <1>6. QED
    BY <1>3, <1>4, <1>5 DEF Inv

\* A client writes in a buffer it has prepared.
LEMMA ModifyStep ==
  ASSUME Inv, NEW b \in Block, NEW data \in Content, Modify(b, data)
  PROVE  Inv'
  <1> DEFINE x == Latest(cache, b)
  <1>1. /\ b \in prepared /\ cache' = [cache EXCEPT ![x].data = data]
        /\ UNCHANGED <<op, disk, nest, flushing, client>>
    BY DEF Modify
  <1>2. x \in Buffer /\ cache[x].blck = b /\ LatBits(cache[x])
    <2>1. Latests(cache, b) # {}
      BY <1>1, Finds DEF Inv, CacheInv, CachedOK
    <2>2. QED
      BY <2>1, Finds DEF Inv, CacheInv
  <1> HIDE DEF x
  <1>3. cache[x].bits # Clean /\ ~OrgBits(cache[x])
    BY <1>1, <1>2, Flags DEF Inv, CacheInv, CachedOK, OrgBits, LatBits
  <1>4. /\ cache \in [Buffer -> CacheBuffer] /\ cache' \in [Buffer -> CacheBuffer]
        /\ cache'[x].blck = b /\ cache'[x].bits = cache[x].bits
        /\ cache'[x].locked = cache[x].locked
        /\ \A z \in Buffer \ {x} : cache'[z] = cache[z]
    <2>1. cache \in [Buffer -> CacheBuffer] /\ cache[x] \in CacheBuffer
      BY <1>2 DEF Inv, CacheInv, Shapes
    <2>2. [cache[x] EXCEPT !.data = data] \in CacheBuffer
      BY <2>1 DEF CacheBuffer
    <2>3. QED
      BY <1>1, <1>2, <2>1, <2>2 DEF CacheBuffer
  <1>5. /\ \A z \in Buffer : /\ cache'[z].blck = cache[z].blck
                             /\ cache'[z].bits = cache[z].bits
                             /\ cache'[z].locked = cache[z].locked
                             /\ LatBits(cache'[z]) <=> LatBits(cache[z])
                             /\ OrgBits(cache'[z]) <=> OrgBits(cache[z])
    BY <1>2, <1>4 DEF LatBits, OrgBits
  <1> USE DEF client
  <1>6. Shapes(cache)'
    BY <1>4, <1>5 DEF Inv, CacheInv, Shapes
  <1>7. Singles(cache)' /\ Copies(cache)'
    BY <1>5 DEF Inv, CacheInv, Singles, Copies
  <1>8. DiskCopies(cache)'
    BY <1>1, <1>3, <1>4, <1>5 DEF Inv, CacheInv, DiskCopies
  <1>9. LocksOK(cache)' /\ CachedOK(cache)'
    BY <1>1, <1>5 DEF Inv, CacheInv, LocksOK, CachedOK, Locks
  <1>10. CleanOK(cache)'
    BY <1>1, <1>5 DEF Inv, CacheInv, CleanOK, Kind
  <1>11. OriginalsOK(cache)'
    BY <1>1, <1>5 DEF Inv, CacheInv, OriginalsOK, Kind
  <1>12. LatestsOK(cache)'
    BY <1>1, <1>2, <1>4, <1>5 DEF Inv, CacheInv, LatestsOK, Fits, LatestKind,
       LatestOperation, OpsInv, LevelsOK
  <1>13. CacheInv(cache)'
    BY <1>6, <1>7, <1>8, <1>9, <1>10, <1>11, <1>12 DEF CacheInv
  <1>14. OpsInv'
    BY <1>1, <1>6, FrameOps DEF Inv, OpsInv, NestOK, TypeOK
  <1>15. QED
    BY <1>13, <1>14 DEF Inv

-----------------------------------------------------------------------------
(* Operations: storing, dumping and freeing blocks. *)

\* How one operation of level 1 changes all of them.
LEMMA SetsOperation ==
  ASSUME OpsInv, NEW b \in Block, NEW o \in Operation,
         op' = [op EXCEPT ![1][b] = o]
  PROVE  /\ op'[1][b] = o
         /\ \A a \in Block : op'[0][a] = op[0][a]
         /\ \A a \in Block \ {b} : op'[1][a] = op[1][a]
         /\ op' \in [Level -> [Block -> Operation]]
  BY DEF OpsInv, TypeOK, Level

\* The operations without a diff, and that of newcachebuffer.
LEMMA Operations ==
  /\ NoOperation \in Operation /\ DeleteOperation \in Operation
  /\ NoOperation.kind = "none" /\ NoOperation.diff = EmptyDiff
  /\ DeleteOperation.kind = "delete" /\ DeleteOperation.diff = EmptyDiff
  /\ \A diff \in Diff : /\ CreateOperation(diff) \in Operation
                        /\ CreateOperation(diff).kind = "create"
                        /\ CreateOperation(diff).diff = diff
                        /\ ModifyOperation(diff) \in Operation
                        /\ ModifyOperation(diff).kind = "modify"
                        /\ ModifyOperation(diff).diff = diff
  <1>1. EmptyDiff \in [{} -> Val] /\ {} \in SUBSET Cell
    BY DEF EmptyDiff
  <1>2. EmptyDiff \in Diff
    BY <1>1 DEF Diff
  <1> HIDE DEF EmptyDiff
  <1>3. QED
    BY <1>2 DEF NoOperation, DeleteOperation, CreateOperation, ModifyOperation, Operation

\* An operation is NoOperation when its kind is "none".
LEMMA NoneIs ==
  ASSUME OpsInv, NEW l \in Level, NEW b \in Block
  PROVE  op[l][b] = NoOperation <=> Kind(l, b) = "none"
  <1>1. op[l][b] \in Operation
    BY DEF OpsInv, TypeOK
  <1>2. QED
    BY <1>1 DEF OpsInv, OperationsOK, Kind, NoOperation, Operation

\* addfreeoperation.
LEMMA FreeStep ==
  ASSUME Inv, NEW b \in Block, Free(b)
  PROVE  Inv'
  <1> USE DEF Level
  <1>1. /\ b \in live /\ b \notin prepared /\ nest = 1 /\ ~failed
        /\ live' = live \ {b}
        /\ reused' = IF op[1][b] # NoOperation THEN reused \cup {b} ELSE reused
        /\ UNCHANGED <<cache, disk, nest, flushing, prepared, held, liveSaved>>
        /\ (failed' = failed \/ (failed' = TRUE /\ (ReuseMayFail \/ reused' = {})))
    BY DEF Free, CanChange, Fails
  <1>2. \/ op' = [op EXCEPT ![1][b] = DeleteOperation]
        \/ op' = [op EXCEPT ![1][b] = NoOperation] /\ (ReuseMayFail \/ reused' = {})
    BY DEF Free, Fails
  <1>3. PICK o \in Operation :
          /\ op' = [op EXCEPT ![1][b] = o]
          /\ o.kind \in {"none", "delete"} /\ o.diff = EmptyDiff
          /\ o.kind = "none" => ReuseMayFail \/ reused' = {}
    BY <1>2, Operations
  <1>4. /\ op'[1][b] = o
        /\ \A a \in Block : op'[0][a] = op[0][a]
        /\ \A a \in Block \ {b} : op'[1][a] = op[1][a]
        /\ op' \in [Level -> [Block -> Operation]]
    BY <1>3, SetsOperation DEF Inv
  <1>5. op[1][b] = NoOperation <=> Kind(1, b) = "none"
    BY NoneIs DEF Inv
  <1>6. /\ b \notin reused' => b \notin reused /\ Kind(1, b) = "none"
        /\ o.kind = "none" /\ ~ReuseMayFail => Kind(1, b) = "none"
    BY <1>1, <1>3, <1>5
  <1>7. b # NoBlock /\ reused' \subseteq Block
    BY <1>1, NoBlockAssumption DEF Inv, OpsInv, TypeOK
  <1>8. OpsInv'
    <2>1. TypeOK'
      <3>1. failed' \in BOOLEAN
        BY <1>1 DEF Inv, OpsInv, TypeOK
      <3>2. QED
        BY <1>1, <1>4, <1>7, <3>1 DEF Inv, OpsInv, TypeOK
    <2>2. OperationsOK'
      BY <1>3, <1>4 DEF Inv, OpsInv, OperationsOK, Kind
    <2>3. NestOK'
      BY <1>1 DEF Inv, OpsInv, NestOK
    <2>4. LevelsOK'
      BY <1>1, <1>3, <1>4, <1>6 DEF Inv, OpsInv, LevelsOK, Kind
    <2>5. QED
      BY <2>1, <2>2, <2>3, <2>4 DEF OpsInv
  <1>9. /\ Shapes(cache)' /\ Singles(cache)' /\ Copies(cache)' /\ DiskCopies(cache)'
        /\ LocksOK(cache)' /\ CachedOK(cache)'
    BY <1>1 DEF Inv, CacheInv, Shapes, Singles, Copies, DiskCopies, LocksOK, CachedOK, Locks
  <1>10. CleanOK(cache)'
    BY <1>1, <1>3, <1>4 DEF Inv, CacheInv, CleanOK, Kind, Shapes, CacheBuffer
  <1>11. OriginalsOK(cache)'
    <2> SUFFICES ASSUME ~ReuseMayFail PROVE OriginalsOK(cache)'
      BY DEF OriginalsOK
    <2>1. \A z \in Buffer : cache[z].bits = Org => cache[z].blck \in Block
      BY Flags DEF Inv, CacheInv, Shapes, CacheBuffer
    <2>2. ASSUME NEW z \in Buffer, cache[z].bits = Org, cache[z].blck # b
          PROVE  /\ op'[0][cache[z].blck] = op[0][cache[z].blck]
                 /\ op'[1][cache[z].blck] = op[1][cache[z].blck]
                 /\ cache[z].blck \notin reused' <=> cache[z].blck \notin reused
      BY <1>1, <1>4, <2>1, <2>2
    <2>3. QED
      BY <1>1, <1>3, <1>4, <1>6, <2>2 DEF Inv, CacheInv, OriginalsOK, Kind
  <1>12. LatestsOK(cache)'
    <2> SUFFICES ASSUME ~ReuseMayFail PROVE LatestsOK(cache)'
      BY DEF LatestsOK
    <2>1. \A z \in Buffer : cache[z].blck \in Block \cup {NoBlock}
      BY DEF Inv, CacheInv, Shapes, CacheBuffer
    <2>2. NoBlock \notin live \cup live' \cup liveSaved
      BY <1>1, NoBlockAssumption DEF Inv, OpsInv, TypeOK
    <2>3. \A a \in Block : LatestOperation(op, a) =
            IF Kind(1, a) # "none" THEN op[1][a] ELSE op[0][a]
      BY LatestIs DEF Inv
    <2>4. \A a \in Block \ {b} :
            /\ LatestOperation(op', a) = LatestOperation(op, a)
            /\ a \in live' <=> a \in live
            /\ a \in reused' <=> a \in reused
      BY <1>1, <1>4 DEF LatestOperation
    <2>5. ASSUME NEW z \in Buffer, LatBits(cache[z]), cache[z].blck = b,
                 b \in liveSaved, b \notin reused'
          PROVE  Fits(cache[z], op'[0][b], disk[b])
      BY <1>1, <1>4, <1>6, <2>3, <2>5 DEF Inv, CacheInv, LatestsOK
    <2>6. QED
      BY <1>1, <1>4, <2>1, <2>2, <2>4, <2>5
         DEF Inv, CacheInv, LatestsOK, Fits, LatBits, LatestKind
  <1>13. QED
    BY <1>8, <1>9, <1>10, <1>11, <1>12 DEF Inv, CacheInv

\* A block with a locked or prepared buffer has a LATEST buffer, and only one.
LEMMA HasLatest ==
  ASSUME OpsInv, NEW c, CacheInv(c), NEW b \in held \cup prepared, b \in Block
  PROVE  /\ Latest(c, b) \in Buffer /\ c[Latest(c, b)].blck = b
         /\ LatBits(c[Latest(c, b)])
         /\ \A z \in Buffer \ {Latest(c, b)} : c[z].blck = b => ~LatBits(c[z])
  <1>1. /\ Latests(c, b) = {x \in Buffer : c[x].blck = b /\ LatBits(c[x])}
        /\ Latests(c, b) # {} => Latest(c, b) \in Latests(c, b)
    BY Finds DEF CacheInv
  <1>2. Latests(c, b) # {}
    BY <1>1 DEF CacheInv, CachedOK
  <1>3. QED
    BY <1>1, <1>2, NoBlockAssumption DEF CacheInv, Singles

\* The buffer that storecachebuffer finds, and the operation it makes of it: the
\* one that makes the contents of the buffer of the block on disk.
LEMMA Stores ==
  ASSUME Inv, NEW b \in Block, Store(b)
  PROVE  LET x == Latest(cache, b)
             o == StoredOperation(cache, x)
         IN /\ x \in Buffer /\ cache[x].blck = b /\ LatBits(cache[x])
            /\ \A z \in Buffer \ {x} : cache[z].blck = b => ~LatBits(cache[z])
            /\ cache \in [Buffer -> CacheBuffer] /\ cache[x] \in CacheBuffer
            /\ cache[x].bits \in {Changed, Fresh} /\ b # NoBlock /\ disk[b] \in Content
            /\ cache[x].locked = Locks(b) /\ cache[x].data \in Content
            /\ o \in Operation
            /\ cache[x].bits = Changed => o.kind = "modify"
            /\ cache[x].bits = Fresh => o.kind = "create" /\ o.diff \in Content
            /\ cache[x].data = Uncompress(disk[b], o.diff)
  <1> DEFINE x == Latest(cache, b)
             o == StoredOperation(cache, x)
  <1>1. b \in prepared
    BY DEF Store
  <1>2. /\ x \in Buffer /\ cache[x].blck = b /\ LatBits(cache[x])
        /\ \A z \in Buffer \ {x} : cache[z].blck = b => ~LatBits(cache[z])
    BY <1>1, HasLatest DEF Inv
  <1>3. /\ cache \in [Buffer -> CacheBuffer] /\ cache[x] \in CacheBuffer
        /\ cache[x].bits \in {Changed, Fresh} /\ b # NoBlock /\ disk[b] \in Content
        /\ cache[x].locked = Locks(b) /\ cache[x].data \in Content
    BY <1>1, <1>2, NoBlockAssumption
       DEF Inv, CacheInv, Shapes, CachedOK, LatBits, LocksOK, OpsInv, TypeOK, CacheBuffer
  <1>4. /\ o \in Operation
        /\ cache[x].bits = Changed => o.kind = "modify"
        /\ cache[x].bits = Fresh => o.kind = "create" /\ o.diff \in Content
        /\ cache[x].data = Uncompress(disk[b], o.diff)
    <2>1. CASE cache[x].bits = Fresh
      <3>1. o = CreateOperation(cache[x].data)
        BY <2>1, Flags DEF StoredOperation, CompressFromZero
      <3> DEFINE diff == cache[x].data
      <3>2. diff \in Diff /\ Uncompress(disk[b], diff) = cache[x].data
        BY <1>3, Diffs
      <3>3. diff \in Content /\ Fresh # Changed
        BY <1>3, Flags
      <3> HIDE DEF x, o, diff
      <3>4. o.kind = "create" /\ o.diff = diff /\ o \in Operation
        BY <3>1, <3>2, Operations DEF diff
      <3>5. QED
        BY <2>1, <3>2, <3>3, <3>4
    <2>2. CASE cache[x].bits = Changed
      <3>1. Original(cache, b) \in Buffer /\ cache[Original(cache, b)].blck = b
            /\ OrgBits(cache[Original(cache, b)])
        <4>1. \E z \in Buffer : cache[z].blck = b /\ OrgBits(cache[z])
          BY <1>2, <2>2 DEF Inv, CacheInv, Copies
        <4>2. QED
          BY <4>1, Finds DEF Inv, CacheInv
      <3>2. cache[Original(cache, b)].data = disk[b]
        BY <1>3, <3>1 DEF Inv, CacheInv, DiskCopies
      <3>3. o = ModifyOperation(Compress(disk[b], cache[x].data))
        BY <1>2, <2>2, <3>2, Flags DEF StoredOperation
      <3> DEFINE diff == Compress(disk[b], cache[x].data)
      <3>4. diff \in Diff /\ Uncompress(disk[b], diff) = cache[x].data
        BY <1>3, Diffs
      <3>5. Fresh # Changed
        BY Flags
      <3>6. o = ModifyOperation(diff)
        BY <3>3
      <3> HIDE DEF x, o, diff
      <3>7. o.kind = "modify" /\ o.diff = diff /\ o \in Operation
        BY <3>4, <3>6, Operations
      <3>8. QED
        BY <2>2, <3>4, <3>5, <3>7
    <2>3. QED
      BY <1>3, <2>1, <2>2
  <1> HIDE DEF x, o
  <1>5. QED
    BY <1>2, <1>3, <1>4 DEF x, o

\* storecachebuffer: the operation gives back what the buffer holds.
LEMMA StoreStep ==
  ASSUME Inv, NEW b \in Block, Store(b)
  PROVE  Inv'
  <1> USE DEF Level
  <1> DEFINE x == Latest(cache, b)
             o == StoredOperation(cache, x)
  <1>1. /\ b \in prepared /\ prepared' = prepared \ {b} /\ live' = live \cup {b}
        /\ op' = [op EXCEPT ![1][b] = o]
        /\ cache' = [cache EXCEPT ![x].locked = @ - 1]
        /\ UNCHANGED <<disk, nest, flushing, held, liveSaved, reused, failed>>
    BY DEF Store
  <1>2. /\ x \in Buffer /\ cache[x].blck = b /\ LatBits(cache[x])
        /\ \A z \in Buffer \ {x} : cache[z].blck = b => ~LatBits(cache[z])
    BY Stores
  <1>3. /\ cache \in [Buffer -> CacheBuffer] /\ cache[x] \in CacheBuffer
        /\ cache[x].bits \in {Changed, Fresh} /\ b # NoBlock /\ disk[b] \in Content
        /\ cache[x].locked = Locks(b) /\ cache[x].data \in Content
    BY Stores
  <1>4. /\ o \in Operation
        /\ cache[x].bits = Changed => o.kind = "modify"
        /\ cache[x].bits = Fresh => o.kind = "create" /\ o.diff \in Content
        /\ cache[x].data = Uncompress(disk[b], o.diff)
    BY Stores
  <1> HIDE DEF x, o
  <1>5. /\ op'[1][b] = o
        /\ \A a \in Block : op'[0][a] = op[0][a]
        /\ \A a \in Block \ {b} : op'[1][a] = op[1][a]
        /\ op' \in [Level -> [Block -> Operation]]
    BY <1>1, <1>4, SetsOperation DEF Inv
  <1>6. /\ cache' \in [Buffer -> CacheBuffer]
        /\ cache'[x].blck = b /\ cache'[x].bits = cache[x].bits
        /\ cache'[x].data = cache[x].data /\ cache'[x].locked = cache[x].locked - 1
        /\ \A z \in Buffer \ {x} : cache'[z] = cache[z]
    <2>1. cache[x].locked - 1 \in Nat
      BY <1>1, <1>3 DEF Locks
    <2>2. [cache[x] EXCEPT !.locked = @ - 1] \in CacheBuffer
      BY <1>3, <2>1 DEF CacheBuffer
    <2>3. QED
      BY <1>1, <1>2, <1>3, <2>2 DEF CacheBuffer
  <1>7. \A z \in Buffer : /\ cache'[z].blck = cache[z].blck
                          /\ cache'[z].bits = cache[z].bits
                          /\ cache'[z].data = cache[z].data
                          /\ LatBits(cache'[z]) <=> LatBits(cache[z])
                          /\ OrgBits(cache'[z]) <=> OrgBits(cache[z])
    BY <1>2, <1>6 DEF LatBits, OrgBits
  <1>8. Shapes(cache)'
    BY <1>3, <1>6 DEF Inv, CacheInv, Shapes
  <1>9. Singles(cache)' /\ Copies(cache)'
    BY <1>7 DEF Inv, CacheInv, Singles, Copies
  <1>10. DiskCopies(cache)'
    BY <1>1, <1>7 DEF Inv, CacheInv, DiskCopies
  <1>11. LocksOK(cache)'
    <2>1. cache'[x].locked = Locks(b)'
      BY <1>1, <1>3, <1>6 DEF Locks
    <2>2. QED
      BY <1>1, <1>2, <1>6, <1>7, <2>1 DEF Inv, CacheInv, LocksOK, Locks
  <1>12. CachedOK(cache)'
    BY <1>1, <1>7 DEF Inv, CacheInv, CachedOK
  <1>13. CleanOK(cache)'
    <2>1. \A z \in Buffer : cache[z].bits = Clean /\ cache[z].blck # NoBlock =>
            cache[z].blck \in Block \ {b}
      BY <1>1 DEF Inv, CacheInv, Shapes, CacheBuffer, CachedOK
    <2>2. QED
      BY <1>1, <1>5, <1>7, <2>1 DEF Inv, CacheInv, CleanOK, Kind
  <1>14. OriginalsOK(cache)'
    <2> SUFFICES ASSUME ~ReuseMayFail PROVE OriginalsOK(cache)'
      BY DEF OriginalsOK
    <2>1. \A z \in Buffer : cache[z].bits = Org => cache[z].blck \in Block
      BY Flags DEF Inv, CacheInv, Shapes, CacheBuffer
    <2>2. ASSUME NEW z \in Buffer, cache[z].bits = Org, cache[z].blck # b
          PROVE  /\ op'[0][cache[z].blck] = op[0][cache[z].blck]
                 /\ op'[1][cache[z].blck] = op[1][cache[z].blck]
                 /\ cache[z].blck \notin prepared' <=> cache[z].blck \notin prepared
      BY <1>1, <1>5, <2>1, <2>2
    <2>3. ASSUME NEW z \in Buffer, cache[z].bits = Org, cache[z].blck = b
          PROVE  /\ op'[1][b].kind # "none"
                 /\ b \notin reused /\ Kind(0, b) = "none" => op'[1][b].kind = "modify"
      BY <1>2, <1>3, <1>4, <1>5, <2>3 DEF Inv, CacheInv, OriginalsOK
    <2>4. QED
      BY <1>1, <1>5, <1>7, <2>2, <2>3 DEF Inv, CacheInv, OriginalsOK, Kind
  <1>15. LatestsOK(cache)'
    <2> SUFFICES ASSUME ~ReuseMayFail PROVE LatestsOK(cache)'
      BY DEF LatestsOK
    <2>1. \A z \in Buffer : cache[z].blck \in Block \cup {NoBlock}
      BY DEF Inv, CacheInv, Shapes, CacheBuffer
    <2>2. NoBlock \notin live \cup live' \cup liveSaved \cup prepared
      BY <1>1, NoBlockAssumption DEF Inv, OpsInv, TypeOK
    <2>3. \A a \in Block \ {b} :
            /\ LatestOperation(op', a) = LatestOperation(op, a)
            /\ a \in live' <=> a \in live
            /\ a \in prepared' <=> a \in prepared
      BY <1>1, <1>5 DEF LatestOperation
    <2>4. LatestOperation(op', b) = o
      <3>1. o # NoOperation
        BY <1>3, <1>4, Operations
      <3>2. QED
        BY <1>5, <3>1 DEF LatestOperation
    <2>5. /\ cache[x].bits = Clean => o.kind = "none"
          /\ cache[x].bits = Changed => o.kind = "modify"
          /\ cache[x].bits = Fresh => o.kind = "create"
      BY <1>3, <1>4, Flags
    <2>6. ASSUME NEW z \in Buffer, LatBits(cache[z]), cache[z].blck = b
          PROVE  /\ Fits(cache'[z], LatestOperation(op', b), disk[b])
                 /\ b \notin liveSaved \ live' /\ b \notin prepared'
      <3>1. z = x
        BY <1>2, <2>6
      <3>2. QED
        BY <1>1, <1>2, <1>4, <1>7, <2>4, <2>5, <3>1 DEF Fits
    <2>7. ASSUME NEW z \in Buffer, LatBits(cache[z]), cache[z].blck # b
          PROVE  /\ cache[z].blck \in live' \ prepared' =>
                      Fits(cache'[z], LatestOperation(op', cache[z].blck), disk[cache[z].blck])
                 /\ cache[z].blck \in (liveSaved \ live') \ reused =>
                      Fits(cache'[z], op'[0][cache[z].blck], disk[cache[z].blck])
                 /\ cache[z].blck \in (prepared' \cap live') \ reused =>
                      /\ cache[z].bits = Fresh =>
                           LatestOperation(op', cache[z].blck).kind = "create"
                      /\ cache[z].bits = Changed =>
                           LatestOperation(op', cache[z].blck).kind \in {"none", "modify"}
      <3>1. cache'[z] = cache[z]
        BY <1>2, <1>6, <2>7
      <3>2. QED
        BY <1>1, <1>5, <2>1, <2>2, <2>3, <2>7, <3>1
           DEF Inv, CacheInv, LatestsOK, LatestKind
    <2>8. QED
      BY <1>1, <1>7, <2>6, <2>7 DEF LatestsOK, LatestKind
  <1>16. OpsInv'
    <2>1. TypeOK'
      BY <1>1, <1>5, <1>6 DEF Inv, OpsInv, TypeOK
    <2>2. OperationsOK'
      BY <1>3, <1>4, <1>5 DEF Inv, OpsInv, OperationsOK, Kind
    <2>3. NestOK'
      BY <1>1 DEF Inv, OpsInv, NestOK
    <2>4. ~ReuseMayFail /\ b \in live \cap liveSaved /\ b \notin reused =>
            (o.kind = "create" <=> Kind(0, b) = "create")
      <3>1. LatestOperation(op, b) = IF Kind(1, b) # "none" THEN op[1][b] ELSE op[0][b]
        BY LatestIs DEF Inv
      <3>2. QED
        BY <1>1, <1>2, <1>3, <1>4, <3>1, Flags
           DEF Inv, CacheInv, LatestsOK, LatestKind, Kind, OpsInv, LevelsOK
    <2>5. ~ReuseMayFail /\ b \in liveSaved \ live => b \in reused
      BY <1>1 DEF Inv, OpsInv, LevelsOK
    <2>6. LevelsOK'
      BY <1>1, <1>3, <1>4, <1>5, <2>4, <2>5 DEF Inv, OpsInv, LevelsOK, Kind
    <2>7. QED
      BY <2>1, <2>2, <2>3, <2>6 DEF OpsInv
  <1>17. QED
    BY <1>8, <1>9, <1>10, <1>11, <1>12, <1>13, <1>14, <1>15,
       <1>16 DEF Inv, CacheInv

\* What restorecachebuffer makes of the changed buffer x of b: it has the flags it
\* had and what the operation o says, or it becomes the original.
Restored(c, x, b, o, d) ==
  /\ d \in [Buffer -> CacheBuffer]
  /\ d[x].blck = b /\ d[x].locked = c[x].locked
  /\ \/ /\ c[x].bits = Changed /\ o.kind = "none"
        /\ d[x].bits = Clean /\ d[x].data = disk[b]
        /\ \E y \in Buffer \ {x} : /\ c[y].blck = b /\ OrgBits(c[y]) /\ d[y] = Unused
                                   /\ \A z \in Buffer \ {x, y} : d[z] = c[z]
     \/ /\ c[x].bits = Fresh \/ o.kind # "none"
        /\ d[x].bits = c[x].bits
        /\ o.kind = "create" => d[x].data = o.diff
        /\ c[x].bits = Changed /\ o.kind # "create" =>
             d[x].data = Uncompress(disk[b], o.diff)
        /\ \A z \in Buffer \ {x} : d[z] = c[z]

\* restorecachebuffer does that.
LEMMA Restores ==
  ASSUME NEW c, Shapes(c), Copies(c), DiskCopies(c), NEW b \in Block, disk[b] \in Content,
         NEW x \in Buffer, c[x].blck = b, c[x].bits \in {Changed, Fresh},
         NEW o \in Operation, o.kind = "create" => o.diff \in Content
  PROVE  Restored(c, x, b, o, RestoreCacheBuffer(c, x, o))
  <1> DEFINE y == Original(c, b)
             d == RestoreCacheBuffer(c, x, o)
  <1>1. /\ c \in [Buffer -> CacheBuffer] /\ c[x] \in CacheBuffer /\ b # NoBlock
        /\ c[x].data \in Content /\ o.diff \in Diff
        /\ o.kind \in {"none", "modify", "create", "delete"}
    BY NoBlockAssumption DEF Shapes, CacheBuffer, Operation
  <1>2. c[x].bits = Changed =>
          /\ y \in Buffer \ {x} /\ c[y].blck = b /\ OrgBits(c[y]) /\ c[y].data = disk[b]
    <2>1. c[x].bits = Changed => \E z \in Buffer : c[z].blck = b /\ OrgBits(c[z])
      BY DEF Copies
    <2>2. c[x].bits = Changed => y \in Buffer /\ c[y].blck = b /\ OrgBits(c[y])
      BY <2>1, Finds
    <2>3. QED
      BY <1>1, <2>2, Flags DEF DiskCopies, OrgBits
  <1>3. "EMPTY" \in c[x].bits <=> c[x].bits = Fresh
    BY Flags
  <1>4. ASSUME NEW data \in Content, d = [c EXCEPT ![x].data = data]
        PROVE  /\ d \in [Buffer -> CacheBuffer] /\ d[x].blck = b
               /\ d[x].locked = c[x].locked /\ d[x].bits = c[x].bits /\ d[x].data = data
               /\ \A z \in Buffer \ {x} : d[z] = c[z]
    <2>1. [c[x] EXCEPT !.data = data] \in CacheBuffer
      BY <1>1 DEF CacheBuffer
    <2> HIDE DEF d
    <2>2. QED
      BY <1>1, <1>4, <2>1 DEF CacheBuffer
  <1>5. CASE o.kind = "create"
    <2>1. d = [c EXCEPT ![x].data = o.diff]
      BY <1>1, <1>5, Diffs DEF RestoreCacheBuffer
    <2> HIDE DEF d
    <2>2. QED
      BY <1>4, <1>5, <2>1, Flags DEF Restored, d
  <1>6. CASE o.kind # "create" /\ c[x].bits = Fresh
    <2>1. d = [c EXCEPT ![x].data = Zero] /\ Zero \in Content
      BY <1>1, <1>3, <1>6, ValAssumption DEF RestoreCacheBuffer, Zero, Content
    <2> HIDE DEF d
    <2>2. QED
      BY <1>4, <1>6, <2>1, Flags DEF Restored, d
  <1>7. CASE o.kind \in {"modify", "delete"} /\ c[x].bits = Changed
    <2>1. d = [c EXCEPT ![x].data = Uncompress(disk[b], o.diff)]
      BY <1>1, <1>2, <1>3, <1>7, Flags DEF RestoreCacheBuffer
    <2>2. Uncompress(disk[b], o.diff) \in Content
      BY <1>1, Diffs
    <2> HIDE DEF d
    <2>3. QED
      BY <1>4, <1>7, <2>1, <2>2, Flags DEF Restored, d
  <1>8. CASE o.kind = "none" /\ c[x].bits = Changed
    <2>1. c[x].bits \cup {"ORIGINAL", "LATEST"} = Clean
      BY <1>8, Flags
    <2>2. d = [c EXCEPT ![x].data = disk[b], ![x].bits = Clean, ![y] = Unused]
      <3>1. ~("EMPTY" \in c[x].bits)
        BY <1>3, <1>8, Flags
      <3>2. d = [c EXCEPT ![x].data = c[y].data,
                          ![x].bits = @ \cup {"ORIGINAL", "LATEST"}, ![y] = Unused]
        BY <1>8, <3>1 DEF RestoreCacheBuffer
      <3> HIDE DEF d, y
      <3>3. QED
        BY <1>1, <1>2, <1>8, <2>1, <3>2
    <2>3. [[c[x] EXCEPT !.data = disk[b]] EXCEPT !.bits = Clean] \in CacheBuffer
      BY <1>1 DEF CacheBuffer, Clean
    <2>4. Unused \in CacheBuffer
      BY ValAssumption DEF Unused, CacheBuffer, Zero, Content
    <2> HIDE DEF d, y
    <2>5. /\ d \in [Buffer -> CacheBuffer] /\ d[x].blck = b
          /\ d[x].locked = c[x].locked /\ d[x].bits = Clean /\ d[x].data = disk[b]
          /\ d[y] = Unused
          /\ \A z \in Buffer \ {x, y} : d[z] = c[z]
      BY <1>1, <1>2, <1>8, <2>2, <2>3, <2>4 DEF CacheBuffer
    <2>6. QED
      BY <1>2, <1>8, <2>5 DEF Restored, d
  <1>9. QED
    BY <1>1, <1>5, <1>6, <1>7, <1>8

\* A buffer is unlocked: all it holds stays.
LEMMA Unlocks ==
  ASSUME NEW c \in [Buffer -> CacheBuffer], NEW x \in Buffer, c[x].locked > 0,
         NEW d, d = [c EXCEPT ![x].locked = @ - 1]
  PROVE  /\ d \in [Buffer -> CacheBuffer] /\ d[x].locked = c[x].locked - 1
         /\ \A z \in Buffer \ {x} : d[z] = c[z]
         /\ \A z \in Buffer : /\ d[z].blck = c[z].blck /\ d[z].bits = c[z].bits
                              /\ d[z].data = c[z].data
                              /\ LatBits(d[z]) <=> LatBits(c[z])
                              /\ OrgBits(d[z]) <=> OrgBits(c[z])
  <1>1. c[x] \in CacheBuffer /\ c[x].locked - 1 \in Nat
    BY DEF CacheBuffer
  <1>2. [c[x] EXCEPT !.locked = @ - 1] \in CacheBuffer
    BY <1>1 DEF CacheBuffer
  <1>3. /\ d \in [Buffer -> CacheBuffer] /\ d[x] = [c[x] EXCEPT !.locked = @ - 1]
        /\ \A z \in Buffer \ {x} : d[z] = c[z]
    BY <1>2
  <1>4. /\ d[x].locked = c[x].locked - 1 /\ d[x].blck = c[x].blck
        /\ d[x].bits = c[x].bits /\ d[x].data = c[x].data
    BY <1>1, <1>3 DEF CacheBuffer
  <1>5. QED
    BY <1>3, <1>4 DEF LatBits, OrgBits

\* dumpcachebuffer: the buffer is again what its latest operation says.
LEMMA DumpStep ==
  ASSUME Inv, NEW b \in Block, Dump(b)
  PROVE  Inv'
  <1> USE DEF Level
  <1> DEFINE x == Latest(cache, b)
             u == [cache EXCEPT ![x].locked = @ - 1]
             o == LatestOperation(op', b)
  <1>1. /\ b \in prepared /\ prepared' = prepared \ {b} /\ failed' = TRUE
        /\ cache' = RestoreCacheBuffer(u, x, o)
        /\ UNCHANGED <<disk, nest, flushing, held, liveSaved, reused>>
        /\ ~ReuseMayFail => reused = {} /\ reused' = {}
    BY DEF Dump, Fails
  <1>2. \/ op' = op /\ live' = live
        \/ /\ op' = [op EXCEPT ![1][b] = NoOperation]
           /\ live' = IF b \in liveSaved THEN live ELSE live \ {b}
    BY DEF Dump
  <1>3. /\ x \in Buffer /\ cache[x].blck = b /\ LatBits(cache[x])
        /\ \A z \in Buffer \ {x} : cache[z].blck = b => ~LatBits(cache[z])
    BY <1>1, HasLatest DEF Inv
  <1>4. /\ cache \in [Buffer -> CacheBuffer] /\ cache[x].bits \in {Changed, Fresh}
        /\ b # NoBlock /\ disk[b] \in Content /\ cache[x].locked = Locks(b)
        /\ cache[x].locked > 0
    <2>1. Locks(b) > 0
      BY <1>1 DEF Locks
    <2>2. QED
      BY <1>1, <1>3, <2>1, NoBlockAssumption
         DEF Inv, CacheInv, Shapes, CachedOK, LatBits, LocksOK, OpsInv, TypeOK
  <1> HIDE DEF x
  <1>5. /\ u \in [Buffer -> CacheBuffer] /\ u[x].locked = cache[x].locked - 1
        /\ \A z \in Buffer \ {x} : u[z] = cache[z]
        /\ \A z \in Buffer : /\ u[z].blck = cache[z].blck /\ u[z].bits = cache[z].bits
                             /\ u[z].data = cache[z].data
                             /\ LatBits(u[z]) <=> LatBits(cache[z])
                             /\ OrgBits(u[z]) <=> OrgBits(cache[z])
    <2> DEFINE w == u
    <2>1. w = [cache EXCEPT ![x].locked = @ - 1]
      OBVIOUS
    <2> HIDE DEF w
    <2>2. /\ w \in [Buffer -> CacheBuffer] /\ w[x].locked = cache[x].locked - 1
          /\ \A z \in Buffer \ {x} : w[z] = cache[z]
          /\ \A z \in Buffer : /\ w[z].blck = cache[z].blck /\ w[z].bits = cache[z].bits
                               /\ w[z].data = cache[z].data
                               /\ LatBits(w[z]) <=> LatBits(cache[z])
                               /\ OrgBits(w[z]) <=> OrgBits(cache[z])
      BY <1>3, <1>4, <2>1, Unlocks
    <2>3. QED
      BY <2>2 DEF w
  <1> HIDE DEF u
  <1>6. /\ op' \in [Level -> [Block -> Operation]]
        /\ \A a \in Block : op'[0][a] = op[0][a]
        /\ \A a \in Block \ {b} : op'[1][a] = op[1][a]
        /\ op'[1][b] = op[1][b] \/ op'[1][b] = NoOperation
        /\ o = IF op'[1][b].kind # "none" THEN op'[1][b] ELSE op[0][b]
    <2>1. CASE op' = op
      BY <2>1, LatestIs DEF Inv, OpsInv, TypeOK, Kind
    <2>2. CASE op' = [op EXCEPT ![1][b] = NoOperation]
      <3>1. /\ op'[1][b] = NoOperation /\ NoOperation.kind = "none"
            /\ \A a \in Block : op'[0][a] = op[0][a]
            /\ \A a \in Block \ {b} : op'[1][a] = op[1][a]
            /\ op' \in [Level -> [Block -> Operation]]
        BY <2>2, SetsOperation, Operations DEF Inv
      <3>2. o = op[0][b]
        BY <3>1 DEF LatestOperation
      <3>3. QED
        BY <3>1, <3>2
    <2>3. QED
      BY <1>2, <2>1, <2>2
  <1>7. /\ o \in Operation
        /\ o.kind = "create" => o.diff \in Content
        /\ o.kind \in {"none", "delete"} => o.diff = EmptyDiff
    <2>1. \A l \in Level : op[l][b] \in Operation
      BY DEF Inv, OpsInv, TypeOK
    <2>2. QED
      BY <1>6, <2>1, Operations DEF Inv, OpsInv, OperationsOK, Kind
  <1>8. /\ ~ReuseMayFail /\ b \in liveSaved => b \in live'
        /\ live' \subseteq live
        /\ ~ReuseMayFail /\ b \in live' =>
                          /\ cache[x].bits = Fresh => o.kind = "create"
                          /\ cache[x].bits = Changed => o.kind \in {"none", "modify"}
    <2>1. ~ReuseMayFail /\ b \in liveSaved => b \in live
      BY <1>1 DEF Inv, OpsInv, LevelsOK
    <2>2. ~ReuseMayFail /\ b \in live =>
                        /\ cache[x].bits = Fresh => LatestKind(b) = "create"
                        /\ cache[x].bits = Changed => LatestKind(b) \in {"none", "modify"}
      BY <1>1, <1>3 DEF Inv, CacheInv, LatestsOK
    <2>3. CASE op' = op /\ live' = live
      BY <2>1, <2>2, <2>3 DEF LatestKind
    <2>4. CASE op' # op
      <3>1. op'[1][b] = NoOperation /\ op[1][b] # NoOperation
        <4>1. op'[1][b] = NoOperation
          BY <1>2, <2>4, SetsOperation, Operations DEF Inv
        <4>2. ASSUME op[1][b] = NoOperation PROVE op' = op
          <5>1. op \in [Level -> [Block -> Operation]]
            BY DEF Inv, OpsInv, TypeOK
          <5>2. \A l \in Level : \A a \in Block : op'[l][a] = op[l][a]
            BY <1>6, <4>1, <4>2
          <5>3. QED
            BY <1>6, <5>1, <5>2
        <4>3. QED
          BY <2>4, <4>1, <4>2
      <3>2. Kind(1, b) # "none" /\ o = op[0][b]
        BY <1>6, <3>1, NoneIs, Operations DEF Inv
      <3>3. live' = IF b \in liveSaved THEN live ELSE live \ {b}
        BY <1>2, <2>4
      <3>4. LatestKind(b) = Kind(1, b)
        BY <3>2, LatestIs DEF Inv, LatestKind, Kind
      <3>5. ~ReuseMayFail /\ b \in live' =>
                           /\ Kind(1, b) = "create" <=> Kind(0, b) = "create"
                           /\ Kind(0, b) # "delete"
        BY <1>1, <3>2, <3>3 DEF Inv, OpsInv, LevelsOK
      <3>6. o.kind = Kind(0, b) /\ Kind(0, b) \in {"none", "modify", "create", "delete"}
        BY <3>2 DEF Kind, Inv, OpsInv, TypeOK, Operation
      <3>7. QED
        BY <2>1, <2>2, <3>3, <3>4, <3>5, <3>6, Flags
    <2>5. QED
      BY <1>2, <2>1, <2>2, <2>3, <2>4 DEF LatestKind
  <1> HIDE DEF o
  <1>9. Restored(u, x, b, o, cache')
    <2>1. Shapes(u)
      BY <1>3, <1>4, <1>5 DEF Inv, CacheInv, Shapes
    <2>2. Copies(u) /\ DiskCopies(u)
      BY <1>5 DEF Inv, CacheInv, Copies, DiskCopies
    <2>3. u[x].blck = b /\ u[x].bits \in {Changed, Fresh}
      BY <1>3, <1>4, <1>5
    <2>4. QED
      BY <1>1, <1>3, <1>4, <1>7, <2>1, <2>2, <2>3, Restores
  <1>10. /\ cache' \in [Buffer -> CacheBuffer]
         /\ cache'[x].blck = b /\ cache'[x].locked = Locks(b)'
         /\ cache'[x].bits \in {Clean, Changed, Fresh}
         /\ \A z \in Buffer \ {x} : cache[z].blck # b => cache'[z] = cache[z]
    <2>1. Locks(b)' = Locks(b) - 1
      BY <1>1 DEF Locks
    <2>2. QED
      BY <1>3, <1>4, <1>5, <1>9, <2>1 DEF Restored
  <1>11. \/ /\ cache[x].bits = Changed /\ o.kind = "none"
            /\ cache'[x].bits = Clean /\ cache'[x].data = disk[b]
            /\ \A z \in Buffer \ {x} :
                 \/ cache'[z] = cache[z] /\ ~(cache[z].blck = b /\ OrgBits(cache[z]))
                 \/ cache'[z] = Unused /\ OrgBits(cache[z]) /\ cache[z].blck = b
         \/ /\ cache[x].bits = Fresh \/ o.kind # "none"
            /\ cache'[x].bits = cache[x].bits
            /\ o.kind = "create" => cache'[x].data = o.diff
            /\ cache[x].bits = Changed /\ o.kind # "create" =>
                 cache'[x].data = Uncompress(disk[b], o.diff)
            /\ \A z \in Buffer \ {x} : cache'[z] = cache[z]
    <2>1. ASSUME NEW y \in Buffer \ {x}, u[y].blck = b, OrgBits(u[y]),
                 cache'[y] = Unused, \A z \in Buffer \ {x, y} : cache'[z] = u[z]
          PROVE  \A z \in Buffer \ {x} :
                   \/ cache'[z] = cache[z] /\ ~(cache[z].blck = b /\ OrgBits(cache[z]))
                   \/ cache'[z] = Unused /\ OrgBits(cache[z]) /\ cache[z].blck = b
      BY <1>3, <1>4, <1>5, <2>1 DEF Inv, CacheInv, Singles
    <2>2. CASE \A z \in Buffer \ {x} : cache'[z] = u[z]
      BY <1>3, <1>4, <1>5, <1>9, <2>2, Flags DEF Restored, Unused, OrgBits
    <2>3. CASE cache[x].bits = Changed /\ o.kind = "none"
      <3>1. PICK y \in Buffer \ {x} : /\ u[y].blck = b /\ OrgBits(u[y])
                                      /\ cache'[y] = Unused
                                      /\ \A z \in Buffer \ {x, y} : cache'[z] = u[z]
        BY <1>3, <1>5, <1>9, <2>3, Flags DEF Restored
      <3>2. cache'[x].bits = Clean /\ cache'[x].data = disk[b]
        BY <1>3, <1>5, <1>9, <2>3, Flags DEF Restored
      <3>3. QED
        BY <2>1, <2>3, <3>1, <3>2
    <2>4. QED
      BY <1>3, <1>4, <1>5, <1>9, <2>2, <2>3 DEF Restored
  <1>12. /\ ~OrgBits(Unused) /\ ~LatBits(Unused) /\ Unused.blck = NoBlock
         /\ Unused.locked = 0 /\ Unused.bits = {} /\ Unused.bits \notin {Org, Changed, Clean}
    BY Flags DEF Unused, OrgBits, LatBits
  <1>13. \A z \in Buffer : cache'[z].blck \in {cache[z].blck, NoBlock}
    BY <1>3, <1>10, <1>11, <1>12
  <1>14. Shapes(cache)'
    BY <1>3, <1>4, <1>10, <1>11, <1>12 DEF Inv, CacheInv, Shapes
  <1>15. Singles(cache)'
    <2>1. \A z \in Buffer \ {x} : cache'[z].blck = b =>
            ~LatBits(cache'[z]) /\ (OrgBits(cache'[x]) => ~OrgBits(cache'[z]))
      BY <1>3, <1>4, <1>11, <1>12, Flags DEF OrgBits
    <2>2. ASSUME NEW z \in Buffer, NEW w \in Buffer, z # w, cache'[z].blck = cache'[w].blck,
                 cache'[z].blck # NoBlock
          PROVE  /\ ~(OrgBits(cache'[z]) /\ OrgBits(cache'[w]))
                 /\ ~(LatBits(cache'[z]) /\ LatBits(cache'[w]))
      <3>1. CASE z = x \/ w = x
        BY <1>10, <2>1, <2>2, <3>1
      <3>2. CASE z # x /\ w # x
        <4>1. cache'[z] = cache[z] /\ cache'[w] = cache[w]
          BY <1>11, <1>12, <2>2, <3>2
        <4>2. QED
          BY <2>2, <4>1 DEF Inv, CacheInv, Singles
      <3>3. QED
        BY <3>1, <3>2
    <2>3. QED
      BY <2>2 DEF Singles, OrgBits, LatBits
  <1>16. Copies(cache)'
    <2>1. ASSUME NEW z \in Buffer, cache'[z].bits = Changed
          PROVE  \E w \in Buffer : cache'[w].blck = cache'[z].blck /\ OrgBits(cache'[w])
      <3>1. cache[z].bits = Changed /\ cache'[z].blck = cache[z].blck
        BY <1>3, <1>10, <1>11, <1>12, <2>1, Flags
      <3>2. PICK w \in Buffer : cache[w].blck = cache[z].blck /\ OrgBits(cache[w])
        BY <3>1 DEF Inv, CacheInv, Copies
      <3>3. w # x
        BY <1>4, <3>2, Flags DEF OrgBits
      <3>4. CASE cache[z].blck # b
        BY <1>10, <3>1, <3>2, <3>3, <3>4
      <3>5. CASE cache[z].blck = b
        <4>1. z = x
          BY <1>3, <3>1, <3>5 DEF LatBits
        <4>2. cache'[w] = cache[w]
          BY <1>11, <2>1, <3>3, <4>1, Flags
        <4>3. QED
          BY <3>1, <3>2, <4>2
      <3>6. QED
        BY <3>4, <3>5
    <2>2. QED
      BY <2>1 DEF Copies, OrgBits
  <1>17. DiskCopies(cache)'
    <2>1. OrgBits(cache'[x]) => cache'[x].data = disk[b]
      BY <1>4, <1>11, Flags DEF OrgBits
    <2>2. QED
      BY <1>1, <1>10, <1>11, <1>12, <2>1 DEF Inv, CacheInv, DiskCopies, OrgBits
  <1>18. LocksOK(cache)'
    <2>1. \A z \in Buffer \ {x} :
            /\ cache[z].blck = b => cache[z].locked = 0 /\ ~LatBits(cache[z])
            /\ cache'[z] = cache[z] \/ (cache'[z] = Unused /\ cache[z].blck = b)
      BY <1>3, <1>11 DEF Inv, CacheInv, LocksOK
    <2>2. LatBits(cache'[x])
      BY <1>10 DEF LatBits
    <2>3. QED
      BY <1>1, <1>10, <1>12, <2>1, <2>2 DEF Inv, CacheInv, LocksOK, Locks, LatBits
  <1>19. CachedOK(cache)'
    <2>1. LatBits(cache'[x])
      BY <1>10 DEF LatBits
    <2>2. ASSUME NEW a \in held' \cup prepared'
          PROVE  \E z \in Buffer : cache'[z].blck = a /\ LatBits(cache'[z])
      <3>1. CASE a = b
        BY <1>3, <1>10, <2>1, <3>1
      <3>2. CASE a # b
        <4>1. PICK z \in Buffer : cache[z].blck = a /\ LatBits(cache[z])
          BY <1>1, <2>2 DEF Inv, CacheInv, CachedOK
        <4>2. QED
          BY <1>3, <1>10, <3>2, <4>1
      <3>3. QED
        BY <3>1, <3>2
    <2>3. \A z \in Buffer : cache'[z].blck \in prepared' => cache'[z].bits # Clean
      BY <1>1, <1>3, <1>10, <1>11, <1>12 DEF Inv, CacheInv, CachedOK
    <2>4. QED
      BY <2>2, <2>3 DEF CachedOK, LatBits
  <1>20. CleanOK(cache)'
    <2>1. ASSUME NEW z \in Buffer, cache'[z].bits = Clean, cache'[z].blck # NoBlock
          PROVE  LET a == cache'[z].blck
                 IN /\ op'[1][a].kind \in {"none", "delete"}
                    /\ a \in live' \cup liveSaved => op'[0][a].kind = "none"
      <3>1. CASE z = x
        <4>1. o.kind = "none"
          BY <1>4, <1>11, <2>1, <3>1, Flags
        <4>2. op'[1][b].kind = "none" /\ op[0][b].kind = "none"
          BY <1>6, <4>1
        <4>3. QED
          BY <1>6, <1>10, <3>1, <4>2
      <3>2. CASE z # x
        <4>1. cache'[z] = cache[z] /\ cache[z].blck \in Block \ {b}
          BY <1>1, <1>11, <1>12, <2>1, <3>2 DEF Inv, CacheInv, Shapes, CacheBuffer, CachedOK
        <4>2. QED
          BY <1>6, <1>8, <2>1, <4>1 DEF Inv, CacheInv, CleanOK, Kind
      <3>3. QED
        BY <3>1, <3>2
    <2>2. QED
      BY <1>1, <2>1 DEF CleanOK, Kind
  <1>21. OriginalsOK(cache)'
    <2> SUFFICES ASSUME ~ReuseMayFail PROVE OriginalsOK(cache)'
      BY DEF OriginalsOK
    <2>1. ASSUME NEW z \in Buffer, cache'[z].bits = Org
          PROVE  /\ z # x /\ cache'[z] = cache[z] /\ cache[z].blck \in Block
                 /\ cache[z].blck = b => cache[x].bits = Fresh \/ o.kind # "none"
      <3>1. z # x
        BY <1>10, <2>1, Flags
      <3>2. cache'[z] = cache[z] /\ cache[z].blck \in Block
        BY <1>11, <1>12, <2>1, <3>1, Flags DEF Inv, CacheInv, Shapes, CacheBuffer
      <3>3. QED
        BY <1>11, <1>12, <2>1, <3>1, <3>2, Flags DEF OrgBits
    <2>2. ASSUME NEW z \in Buffer, cache'[z].bits = Org, cache[z].blck = b
          PROVE  /\ op'[0][b].kind # "none" \/ op'[1][b].kind # "none"
                 /\ op'[0][b].kind = "none" =>
                      /\ op'[1][b].kind = "modify"
                      /\ \A w \in Buffer : cache[w].blck = b => cache[w].bits # Fresh
      <3>1. cache[z].bits = Org
        BY <2>1, <2>2
      <3>2. Kind(0, b) = "none" => /\ Kind(1, b) # "create"
                                   /\ \A w \in Buffer : cache[w].blck = b => cache[w].bits # Fresh
        BY <1>1, <2>2, <3>1 DEF Inv, CacheInv, OriginalsOK
      <3>3. Kind(1, b) # "delete"
        BY <1>1 DEF Inv, OpsInv, LevelsOK
      <3>4. Kind(1, b) \in {"none", "modify", "create", "delete"}
        BY DEF Kind, Inv, OpsInv, TypeOK, Operation
      <3>5. Kind(0, b) = "none" => o.kind # "none"
        BY <1>3, <2>1, <2>2, <3>2
      <3>6. QED
        BY <1>6, <3>2, <3>3, <3>4, <3>5, Operations DEF Kind
    <2>3. ASSUME NEW w \in Buffer, NEW z \in Buffer, cache'[z].bits = Org,
                 cache'[w].blck = cache'[z].blck, cache'[w].bits = Fresh
          PROVE  cache[w].blck = cache[z].blck /\ cache[w].bits = Fresh
      BY <1>3, <1>10, <1>11, <1>12, <2>1, <2>3, Flags
    <2>4. ASSUME NEW z \in Buffer, cache'[z].bits = Org
          PROVE  LET a == cache'[z].blck
                 IN /\ a \notin prepared' => op'[0][a].kind # "none" \/ op'[1][a].kind # "none"
                    /\ a \notin reused' /\ op'[0][a].kind = "none" =>
                         /\ op'[1][a].kind # "create"
                         /\ a \notin prepared' => op'[1][a].kind = "modify"
                         /\ \A w \in Buffer : cache'[w].blck = a => cache'[w].bits # Fresh
      <3>1. CASE cache[z].blck = b
        BY <2>1, <2>2, <2>3, <2>4, <3>1
      <3>2. CASE cache[z].blck # b
        <4>1. cache[z].bits = Org /\ cache'[z].blck = cache[z].blck
          BY <2>1, <2>4
        <4>2. PICK a \in Block : a = cache[z].blck
          BY <2>1, <2>4
        <4>3. /\ op'[0][a] = op[0][a] /\ op'[1][a] = op[1][a]
              /\ a \notin prepared' => a \notin prepared
          BY <1>1, <1>6, <3>2, <4>2
        <4>4. /\ a \notin prepared => op[0][a].kind # "none" \/ op[1][a].kind # "none"
              /\ op[0][a].kind = "none" =>
                   /\ op[1][a].kind # "create"
                   /\ a \notin prepared => op[1][a].kind = "modify"
                   /\ \A w \in Buffer : cache[w].blck = a => cache[w].bits # Fresh
          BY <1>1, <4>1, <4>2 DEF Inv, CacheInv, OriginalsOK, Kind
        <4>5. \A w \in Buffer : cache'[w].blck = a /\ cache'[w].bits = Fresh =>
                cache[w].blck = a /\ cache[w].bits = Fresh
          BY <2>3, <2>4, <4>1, <4>2
        <4>6. QED
          BY <4>1, <4>2, <4>3, <4>4, <4>5
      <3>3. QED
        BY <3>1, <3>2
    <2>5. QED
      BY <2>4 DEF OriginalsOK, Kind
  <1>22. LatestsOK(cache)'
    <2> SUFFICES ASSUME ~ReuseMayFail PROVE LatestsOK(cache)'
      BY DEF LatestsOK
    <2>1. ASSUME NEW z \in Buffer, LatBits(cache'[z]), cache'[z].blck = b
          PROVE  /\ b \in live' => Fits(cache'[z], o, disk[b])
                 /\ b \notin liveSaved \ live' /\ b \notin prepared'
      <3>1. z = x
        BY <1>3, <1>4, <1>11, <1>12, <2>1
      <3>2. ASSUME b \in live' PROVE Fits(cache'[x], o, disk[b])
        <4>1. CASE cache[x].bits = Fresh
          <5>1. cache'[x].bits = Fresh /\ o.kind = "create" /\ cache'[x].data = o.diff
            BY <1>8, <1>11, <3>2, <4>1, Flags
          <5>2. Uncompress(disk[b], o.diff) = o.diff
            BY <1>4, <1>7, <5>1, Diffs
          <5>3. QED
            BY <5>1, <5>2, Flags DEF Fits
        <4>2. CASE cache[x].bits = Changed /\ o.kind = "none"
          <5>1. cache'[x].bits = Clean /\ cache'[x].data = disk[b] /\ o.diff = EmptyDiff
            BY <1>7, <1>11, <4>2, Flags
          <5>2. Uncompress(disk[b], EmptyDiff) = disk[b]
            BY <1>4, Diffs
          <5>3. QED
            BY <4>2, <5>1, <5>2, Flags DEF Fits
        <4>3. CASE cache[x].bits = Changed /\ o.kind = "modify"
          BY <1>11, <4>3, Flags DEF Fits
        <4>4. QED
          BY <1>4, <1>8, <3>2, <4>1, <4>2, <4>3
      <3>3. QED
        BY <1>1, <1>8, <3>1, <3>2
    <2>2. ASSUME NEW z \in Buffer, LatBits(cache'[z]), cache'[z].blck # b
          PROVE  LET a == cache'[z].blck
                 IN /\ a \in live' \ prepared' =>
                         Fits(cache'[z], LatestOperation(op', a), disk[a])
                    /\ a \in (liveSaved \ live') => Fits(cache'[z], op'[0][a], disk[a])
                    /\ a \in (prepared' \cap live') =>
                         /\ cache'[z].bits = Fresh => LatestOperation(op', a).kind = "create"
                         /\ cache'[z].bits = Changed =>
                              LatestOperation(op', a).kind \in {"none", "modify"}
      <3>1. z # x /\ cache'[z] = cache[z]
        BY <1>10, <1>11, <1>12, <2>2
      <3>2. cache[z].blck \in Block \cup {NoBlock}
        BY DEF Inv, CacheInv, Shapes, CacheBuffer
      <3>3. NoBlock \notin live \cup live' \cup liveSaved \cup prepared
        BY <1>8, NoBlockAssumption DEF Inv, OpsInv, TypeOK
      <3>4. \A a \in Block \ {b} : /\ LatestOperation(op', a) = LatestOperation(op, a)
                                   /\ a \in live' <=> a \in live
                                   /\ a \in prepared' <=> a \in prepared
        BY <1>1, <1>2, <1>6 DEF LatestOperation
      <3>5. CASE cache[z].blck = NoBlock
        BY <1>1, <3>1, <3>3, <3>5
      <3>6. CASE cache[z].blck \in Block \ {b}
        <4>1. PICK a \in Block \ {b} : a = cache[z].blck
          BY <3>6
        <4>2. /\ a \in live \ prepared => Fits(cache[z], LatestOperation(op, a), disk[a])
              /\ a \in liveSaved \ live => Fits(cache[z], op[0][a], disk[a])
              /\ a \in prepared \cap live =>
                   /\ cache[z].bits = Fresh => LatestOperation(op, a).kind = "create"
                   /\ cache[z].bits = Changed =>
                        LatestOperation(op, a).kind \in {"none", "modify"}
          BY <1>1, <2>2, <3>1, <4>1 DEF Inv, CacheInv, LatestsOK, LatestKind
        <4>3. op'[0][a] = op[0][a]
          BY <1>6
        <4>4. QED
          BY <3>1, <3>4, <4>1, <4>2, <4>3
      <3>7. QED
        BY <2>2, <3>1, <3>2, <3>5, <3>6
    <2>3. QED
      BY <1>1, <2>1, <2>2 DEF LatestsOK, LatestKind, LatBits, o
  <1>23. OpsInv'
    <2>1. TypeOK'
      BY <1>1, <1>6, <1>8, <1>10 DEF Inv, OpsInv, TypeOK
    <2>2. OperationsOK'
      BY <1>6, Operations DEF Inv, OpsInv, OperationsOK, Kind
    <2>3. NestOK'
      BY <1>1 DEF Inv, OpsInv, NestOK
    <2>4. \A a \in Block \ {b} : a \in live' <=> a \in live
      BY <1>2
    <2>5. b \in live' \ liveSaved => op'[1][b].kind # "none"
      BY <1>2 DEF Inv, OpsInv, LevelsOK, Kind
    <2>6. op'[1][b].kind \in {"modify", "create"} => b \in live'
      <3>1. op' # op => op'[1][b].kind = "none"
        BY <1>2, SetsOperation, Operations DEF Inv
      <3>2. QED
        BY <1>2, <3>1, SetsOperation, Operations DEF Inv, OpsInv, LevelsOK, Kind
    <2>7. LevelsOK'
      BY <1>1, <1>6, <1>8, <2>4, <2>5, <2>6, Operations DEF Inv, OpsInv, LevelsOK, Kind
    <2>8. QED
      BY <2>1, <2>2, <2>3, <2>7 DEF OpsInv
  <1>24. QED
    BY <1>14, <1>15, <1>16, <1>17, <1>18, <1>19, <1>20, <1>21, <1>22,
       <1>23 DEF Inv, CacheInv

-----------------------------------------------------------------------------
(* The end of a transaction. *)

\* A block with a change in the older transactions that this one has deleted.
Sup(b) == Kind(0, b) # "none" /\ Kind(1, b) = "delete"

\* combineoperations: what becomes of the operations on each block, and that the
\* operation of a block in use is its latest one.
LEMMA Combines ==
  ASSUME Inv, EndTransaction
  PROVE  /\ \A b \in Block : /\ op[0][b] = NoOperation <=> Kind(0, b) = "none"
                             /\ op[1][b] = NoOperation <=> Kind(1, b) = "none"
                             /\ op[0][b] \in Operation /\ op[1][b] \in Operation
         /\ \A b \in Block :
              /\ Superseded(b) <=> Sup(b)
              /\ op'[1][b] = NoOperation
              /\ op'[0][b] = IF Kind(1, b) = "none" THEN op[0][b]
                             ELSE IF Sup(b) THEN NoOperation ELSE op[1][b]
         /\ op' \in [Level -> [Block -> Operation]]
         /\ \A b \in Block :
              /\ b \in live => ~Sup(b) /\ op'[0][b] = LatestOperation(op, b)
              /\ op'[0][b].kind = "none" <=> Sup(b) \/ (Kind(0, b) = "none" /\ Kind(1, b) = "none")
  <1> USE DEF Level
  <1>1. /\ op' = [op EXCEPT ![0] = [b \in Block |-> CombinedOperation(b)],
                      ![1] = [b \in Block |-> NoOperation]]
    BY DEF EndTransaction
  <1>2. \A b \in Block : /\ op[0][b] = NoOperation <=> Kind(0, b) = "none"
                         /\ op[1][b] = NoOperation <=> Kind(1, b) = "none"
                         /\ op[0][b] \in Operation /\ op[1][b] \in Operation
    BY NoneIs DEF Inv, OpsInv, TypeOK
  <1>3. \A b \in Block :
          /\ Superseded(b) <=> Sup(b)
          /\ op'[1][b] = NoOperation
          /\ op'[0][b] = IF Kind(1, b) = "none" THEN op[0][b]
                         ELSE IF Sup(b) THEN NoOperation ELSE op[1][b]
    <2>1. \A b \in Block : Superseded(b) <=> Sup(b)
      BY <1>2 DEF Superseded, Kind, Sup
    <2>2. \A b \in Block : op'[1][b] = NoOperation /\ op'[0][b] = CombinedOperation(b)
      BY <1>1 DEF Inv, OpsInv, TypeOK
    <2>3. QED
      BY <1>2, <2>1, <2>2 DEF CombinedOperation
  <1>4. op' \in [Level -> [Block -> Operation]]
    <2>1. \A b \in Block : op'[0][b] \in Operation /\ op'[1][b] \in Operation
      BY <1>2, <1>3, Operations
    <2> DEFINE C == [b \in Block |-> CombinedOperation(b)]
               N == [b \in Block |-> NoOperation]
    <2>2. op' = [op EXCEPT ![0] = C, ![1] = N]
      BY <1>1
    <2>3. \A b \in Block : C[b] \in Operation
      <3>1. \A b \in Block : CombinedOperation(b) = op'[0][b]
        BY <1>1 DEF Inv, OpsInv, TypeOK
      <3>2. QED
        BY <2>1, <3>1
    <2>4. C \in [Block -> Operation] /\ N \in [Block -> Operation]
      BY <2>3, Operations
    <2> HIDE DEF C, N
    <2>5. op \in [Level -> [Block -> Operation]]
      BY DEF Inv, OpsInv, TypeOK
    <2>6. QED
      BY <2>2, <2>4, <2>5
  <1>5. \A b \in Block :
          /\ b \in live => ~Sup(b) /\ op'[0][b] = LatestOperation(op, b)
          /\ op'[0][b].kind = "none" <=> Sup(b) \/ (Kind(0, b) = "none" /\ Kind(1, b) = "none")
    <2>1. ASSUME NEW b \in Block
          PROVE  /\ b \in live => ~Sup(b) /\ op'[0][b] = LatestOperation(op, b)
                 /\ op'[0][b].kind = "none" <=>
                      Sup(b) \/ (Kind(0, b) = "none" /\ Kind(1, b) = "none")
      <3>1. Kind(1, b) = "delete" => b \notin live
        BY DEF Inv, OpsInv, LevelsOK
      <3>2. LatestOperation(op, b) = IF Kind(1, b) # "none" THEN op[1][b] ELSE op[0][b]
        BY LatestIs DEF Inv
      <3>3. QED
        BY <1>2, <1>3, <3>1, <3>2, Operations DEF Kind, Sup
    <2>2. QED
      BY <2>1
  <1>6. QED
    BY <1>2, <1>3, <1>4, <1>5

\* endtransaction: the operations of both levels become one, and what was freed
\* after an ended transaction had changed it is again what the disk holds.
LEMMA EndStep ==
  ASSUME Inv, EndTransaction
  PROVE  Inv'
  <1> USE DEF Level
  <1>1. /\ nest = 1 /\ ~failed /\ prepared = {} /\ held \subseteq live
        /\ nest' = 0 /\ liveSaved' = live /\ reused' = {}
        /\ UNCHANGED <<disk, flushing, prepared, held, live, failed>>
        /\ op' = [op EXCEPT ![0] = [b \in Block |-> CombinedOperation(b)],
                            ![1] = [b \in Block |-> NoOperation]]
        /\ cache' = [x \in Buffer |-> CombinedBuffer(x)]
    BY DEF EndTransaction
  <1>2. \A b \in Block : /\ op[0][b] = NoOperation <=> Kind(0, b) = "none"
                         /\ op[1][b] = NoOperation <=> Kind(1, b) = "none"
                         /\ op[0][b] \in Operation /\ op[1][b] \in Operation
    BY Combines
  <1>3. \A b \in Block :
          /\ Superseded(b) <=> Sup(b)
          /\ op'[1][b] = NoOperation
          /\ op'[0][b] = IF Kind(1, b) = "none" THEN op[0][b]
                         ELSE IF Sup(b) THEN NoOperation ELSE op[1][b]
    BY Combines
  <1>4. op' \in [Level -> [Block -> Operation]]
    BY Combines
  <1>5. \A b \in Block :
          /\ b \in live => ~Sup(b) /\ op'[0][b] = LatestOperation(op, b)
          /\ op'[0][b].kind = "none" <=> Sup(b) \/ (Kind(0, b) = "none" /\ Kind(1, b) = "none")
    BY Combines
  <1>6. /\ ~OrgBits(Unused) /\ ~LatBits(Unused) /\ Unused.blck = NoBlock
        /\ Unused.locked = 0 /\ Unused.bits = {} /\ Unused.bits \notin {Org, Changed, Clean}
        /\ Unused \in CacheBuffer /\ NoBlock \notin Block
    BY Flags, ValAssumption, NoBlockAssumption
       DEF Unused, OrgBits, LatBits, CacheBuffer, Zero, Content
  <1>7. ASSUME NEW x \in Buffer
        PROVE  /\ cache'[x] \in CacheBuffer
               /\ \/ /\ cache'[x] = cache[x]
                     /\ cache[x].blck \in Block => ~Sup(cache[x].blck)
                  \/ /\ cache'[x] = Unused /\ cache[x].blck \in Block
                     /\ Sup(cache[x].blck) /\ LatBits(cache[x])
                  \/ /\ cache'[x].blck = cache[x].blck /\ cache'[x].bits = Clean
                     /\ cache'[x].locked = cache[x].locked
                     /\ cache'[x].data = cache[x].data /\ cache[x].bits = Org
                     /\ cache[x].blck \in Block /\ Sup(cache[x].blck)
    <2>1. cache[x] \in CacheBuffer /\ cache'[x] = CombinedBuffer(x)
      BY <1>1 DEF Inv, CacheInv, Shapes
    <2>2. CASE cache[x].blck \notin Block \/ ~Sup(cache[x].blck)
      BY <1>3, <2>1, <2>2 DEF CombinedBuffer
    <2>3. CASE cache[x].blck \in Block /\ Sup(cache[x].blck)
      <3>1. cache[x].bits \in {Org, Clean, Changed, Fresh}
        BY <1>6, <2>3 DEF Inv, CacheInv, Shapes
      <3>2. "LATEST" \in cache[x].bits <=> LatBits(cache[x])
        BY <3>1, Flags DEF LatBits
      <3>3. CASE LatBits(cache[x])
        BY <1>3, <1>6, <2>1, <2>3, <3>2, <3>3 DEF CombinedBuffer
      <3>4. CASE ~LatBits(cache[x])
        <4>1. cache[x].bits = Org /\ Org \cup {"LATEST"} = Clean
          BY <3>1, <3>4, Flags DEF LatBits
        <4>2. cache'[x] = [cache[x] EXCEPT !.bits = Clean]
          BY <1>3, <2>1, <2>3, <3>2, <3>4, <4>1 DEF CombinedBuffer
        <4>3. QED
          BY <2>1, <2>3, <4>1, <4>2 DEF CacheBuffer, Clean
      <3>5. QED
        BY <3>3, <3>4
    <2>4. QED
      BY <2>2, <2>3
  <1>8. \A x \in Buffer : cache[x].bits = Org => OrgBits(cache[x]) /\ ~LatBits(cache[x])
    BY Flags DEF OrgBits, LatBits
  <1>9. \A x \in Buffer : cache'[x].bits = Clean => OrgBits(cache'[x]) /\ LatBits(cache'[x])
    BY DEF OrgBits, LatBits
  <1>10. Shapes(cache)'
    <2>1. cache' \in [Buffer -> CacheBuffer]
      BY <1>1, <1>7
    <2>2. QED
      BY <1>6, <1>7, <2>1 DEF Inv, CacheInv, Shapes
  <1>11. Singles(cache)'
    <2>1. ASSUME NEW x \in Buffer, NEW y \in Buffer, x # y, cache'[x].blck = cache'[y].blck,
                 cache'[x].blck # NoBlock
          PROVE  /\ ~(OrgBits(cache'[x]) /\ OrgBits(cache'[y]))
                 /\ ~(LatBits(cache'[x]) /\ LatBits(cache'[y]))
      <3>1. /\ cache[x].blck = cache[y].blck /\ cache[x].blck # NoBlock
            /\ cache[x].blck \in Block
            /\ (cache'[x] = cache[x] /\ cache'[y] = cache[y])
                 \/ (cache[x].bits = Org /\ cache[y].bits = Org)
        BY <1>6, <1>7, <1>10, <2>1 DEF Shapes, CacheBuffer
      <3>2. QED
        BY <1>8, <2>1, <3>1 DEF Inv, CacheInv, Singles
    <2>2. QED
      BY <2>1 DEF Singles, OrgBits, LatBits
  <1>12. Copies(cache)'
    <2>1. ASSUME NEW x \in Buffer, cache'[x].bits = Changed
          PROVE  \E y \in Buffer : cache'[y].blck = cache'[x].blck /\ OrgBits(cache'[y])
      <3>1. /\ cache'[x] = cache[x] /\ cache[x].blck \in Block /\ ~Sup(cache[x].blck)
        BY <1>6, <1>7, <2>1, Flags DEF Inv, CacheInv, Shapes, CacheBuffer
      <3>2. PICK y \in Buffer : cache[y].blck = cache[x].blck /\ OrgBits(cache[y])
        BY <2>1, <3>1 DEF Inv, CacheInv, Copies
      <3>3. cache'[y] = cache[y]
        BY <1>7, <3>1, <3>2
      <3>4. QED
        BY <3>1, <3>2, <3>3
    <2>2. QED
      BY <2>1 DEF Copies, OrgBits
  <1>13. DiskCopies(cache)'
    BY <1>1, <1>6, <1>7, <1>8 DEF Inv, CacheInv, DiskCopies, OrgBits
  <1>14. LocksOK(cache)'
    <2>1. \A b \in Block : Sup(b) => b \notin held /\ b \notin prepared
      BY <1>1, <1>5
    <2>2. \A x \in Buffer : cache[x].locked = IF LatBits(cache[x]) THEN Locks(cache[x].blck) ELSE 0
      BY DEF Inv, CacheInv, LocksOK
    <2>3. \A b \in Block : Sup(b) => Locks(b) = 0
      BY <2>1 DEF Locks
    <2>4. \A x \in Buffer : cache'[x].locked = IF LatBits(cache'[x]) THEN Locks(cache'[x].blck) ELSE 0
      BY <1>6, <1>7, <1>8, <2>2, <2>3
    <2>5. QED
      BY <1>1, <2>4 DEF LocksOK, Locks, LatBits
  <1>15. CachedOK(cache)'
    <2>1. ASSUME NEW b \in held
          PROVE  \E x \in Buffer : cache'[x].blck = b /\ LatBits(cache'[x])
      <3>1. b \in Block /\ ~Sup(b)
        BY <1>1, <1>5 DEF Inv, OpsInv, TypeOK
      <3>2. PICK x \in Buffer : cache[x].blck = b /\ LatBits(cache[x])
        BY DEF Inv, CacheInv, CachedOK
      <3>3. QED
        BY <1>7, <3>1, <3>2
    <2>2. QED
      BY <1>1, <2>1 DEF CachedOK, LatBits
  <1>16. CleanOK(cache)'
    <2>1. ASSUME NEW x \in Buffer, cache'[x].bits = Clean, cache'[x].blck # NoBlock
          PROVE  LET a == cache'[x].blck
                 IN /\ op'[1][a].kind = "none"
                    /\ a \in live => op'[0][a].kind = "none"
      <3>1. cache'[x].blck \in Block /\ cache'[x].blck = cache[x].blck
        BY <1>6, <1>7, <2>1 DEF Inv, CacheInv, Shapes, CacheBuffer
      <3>2. CASE Sup(cache[x].blck)
        BY <1>3, <1>5, <3>1, <3>2, Operations
      <3>3. CASE ~Sup(cache[x].blck)
        <4>1. cache[x].bits = Clean /\ cache[x].blck # NoBlock
          BY <1>7, <2>1, <3>1, <3>3
        <4>2. cache[x].blck \in live => Kind(1, cache[x].blck) # "delete"
          BY <3>1 DEF Inv, OpsInv, LevelsOK
        <4>3. /\ Kind(1, cache[x].blck) \in {"none", "delete"}
              /\ cache[x].blck \in live => Kind(0, cache[x].blck) = "none"
          BY <4>1 DEF Inv, CacheInv, CleanOK
        <4>4. QED
          BY <1>3, <1>5, <3>1, <3>3, <4>2, <4>3, Operations
      <3>4. QED
        BY <3>2, <3>3
    <2>2. QED
      BY <1>1, <2>1 DEF CleanOK, Kind
  <1>17. OriginalsOK(cache)'
    <2> SUFFICES ASSUME ~ReuseMayFail PROVE OriginalsOK(cache)'
      BY DEF OriginalsOK
    <2>1. ASSUME NEW x \in Buffer, cache'[x].bits = Org
          PROVE  op'[0][cache'[x].blck].kind # "none"
      <3>1. cache'[x] = cache[x] /\ cache[x].blck \in Block /\ ~Sup(cache[x].blck)
        BY <1>6, <1>7, <2>1, Flags DEF Inv, CacheInv, Shapes, CacheBuffer
      <3>2. Kind(0, cache[x].blck) # "none" \/ Kind(1, cache[x].blck) # "none"
        BY <1>1, <2>1, <3>1 DEF Inv, CacheInv, OriginalsOK
      <3>3. QED
        BY <1>5, <3>1, <3>2
    <2>2. QED
      BY <2>1 DEF OriginalsOK, Kind
  <1>18. LatestsOK(cache)'
    <2> SUFFICES ASSUME ~ReuseMayFail PROVE LatestsOK(cache)'
      BY DEF LatestsOK
    <2>1. \A b \in Block : LatestOperation(op', b) = op'[0][b]
      BY <1>3 DEF LatestOperation
    <2>2. ASSUME NEW x \in Buffer, LatBits(cache'[x]), cache'[x].blck \in live
          PROVE  Fits(cache'[x], LatestOperation(op', cache'[x].blck), disk[cache'[x].blck])
      <3>1. cache'[x].blck \in Block
        BY <2>2 DEF Inv, OpsInv, TypeOK
      <3>2. cache'[x] = cache[x]
        BY <1>5, <1>6, <1>7, <2>2, <3>1
      <3>3. QED
        BY <1>1, <1>5, <2>1, <2>2, <3>1, <3>2 DEF Inv, CacheInv, LatestsOK
    <2>3. QED
      BY <1>1, <2>2 DEF LatestsOK, LatBits
  <1>19. OpsInv'
    <2>1. TypeOK'
      BY <1>1, <1>4, <1>10 DEF Inv, OpsInv, TypeOK, Shapes
    <2>2. OperationsOK'
      <3>1. \A b \in Block : op'[0][b] \in {NoOperation, op[0][b], op[1][b]}
        BY <1>3
      <3>2. QED
        BY <1>3, <3>1, Operations DEF Inv, OpsInv, OperationsOK, Kind
    <2>3. NestOK'
      BY <1>1, <1>3, Operations DEF Inv, OpsInv, NestOK, Kind
    <2>4. ASSUME NEW b \in Block PROVE op'[0][b].kind = "delete" => b \notin live
      <3>1. /\ Kind(1, b) = "delete" => b \notin live
            /\ Kind(0, b) = "delete" => b \notin liveSaved
            /\ b \in live \ liveSaved => Kind(1, b) # "none"
        BY DEF Inv, OpsInv, LevelsOK
      <3>2. QED
        BY <1>3, <3>1, Operations DEF Kind
    <2>5. LevelsOK'
      BY <1>1, <1>3, <2>4, Operations DEF LevelsOK, Kind
    <2>6. QED
      BY <2>1, <2>2, <2>3, <2>5 DEF OpsInv
  <1>20. QED
    BY <1>10, <1>11, <1>12, <1>13, <1>14, <1>15, <1>16, <1>17, <1>18,
       <1>19 DEF Inv, CacheInv

\* deletetransaction: what was changed is again what it was when the transaction
\* began, and the buffers of blocks that were new then hold nothing that counts.
LEMMA DeleteStep ==
  ASSUME Inv, DeleteTransaction
  PROVE  Inv'
  <1> USE DEF Level
  <1>1. /\ nest = 1 /\ prepared = {} /\ held \subseteq live \cap liveSaved
        /\ failed \/ ReuseMayFail \/ reused = {}
        /\ nest' = 0 /\ live' = liveSaved /\ reused' = {} /\ failed' = FALSE
        /\ UNCHANGED <<disk, flushing, prepared, held, liveSaved>>
        /\ op' = [op EXCEPT ![1] = [b \in Block |-> NoOperation]]
        /\ cache' = [x \in Buffer |-> IF cache[x].blck \in Block
                                        THEN RolledBack(cache[x].blck)[x]
                                        ELSE cache[x]]
    BY DEF DeleteTransaction
  <1>2. ~ReuseMayFail => reused = {}
    BY <1>1 DEF Inv, OpsInv, NestOK
  <1>3. /\ op' \in [Level -> [Block -> Operation]]
        /\ \A b \in Block : op'[1][b] = NoOperation /\ op'[0][b] = op[0][b]
    <2> DEFINE N == [b \in Block |-> NoOperation]
    <2>1. N \in [Block -> Operation] /\ \A b \in Block : N[b] = NoOperation
      BY Operations
    <2>2. op \in [Level -> [Block -> Operation]] /\ op' = [op EXCEPT ![1] = N]
      BY <1>1 DEF Inv, OpsInv, TypeOK
    <2> HIDE DEF N
    <2>3. QED
      BY <2>1, <2>2
  <1>4. \A b \in Block : /\ op[0][b] = NoOperation <=> Kind(0, b) = "none"
                         /\ op[0][b] \in Operation /\ op[1][b] \in Operation
                         /\ Kind(0, b) = "create" => op[0][b].diff \in Content
                         /\ Kind(0, b) \in {"none", "delete"} => op[0][b].diff = EmptyDiff
                         /\ disk[b] \in Content
    BY NoneIs DEF Inv, OpsInv, TypeOK, OperationsOK, Kind
  <1> DEFINE Undone(b) == Kind(1, b) \in {"modify", "create"}
             HasLat(b) == \E z \in Buffer : cache[z].blck = b /\ LatBits(cache[z])
             Cleaned(x) == /\ cache'[x].blck = cache[x].blck /\ cache'[x].bits = Clean
                           /\ cache'[x].locked = cache[x].locked
                           /\ cache'[x].data = disk[cache[x].blck]
  <1>5. ASSUME NEW b \in Block, Undone(b)
        PROVE  /\ b \in live
               /\ ~ReuseMayFail /\ b \in liveSaved =>
                    (Kind(1, b) = "create" <=> Kind(0, b) = "create")
               /\ \A x \in Buffer : cache[x].blck = b => cache[x].bits # Clean
               /\ ~ReuseMayFail => \A x \in Buffer : cache[x].blck = b /\ LatBits(cache[x]) =>
                    /\ cache[x].bits = Changed => Kind(1, b) = "modify"
                    /\ cache[x].bits = Fresh => Kind(1, b) = "create"
    <2>1. b \in live /\ (~ReuseMayFail /\ b \in liveSaved =>
                            (Kind(1, b) = "create" <=> Kind(0, b) = "create"))
      BY <1>2, <1>5 DEF Inv, OpsInv, LevelsOK
    <2>2. LatestOperation(op, b) = op[1][b]
      BY <1>5, LatestIs DEF Inv
    <2>3. ~ReuseMayFail => \A x \in Buffer : cache[x].blck = b /\ LatBits(cache[x]) =>
             Fits(cache[x], op[1][b], disk[b])
      BY <1>1, <2>1, <2>2 DEF Inv, CacheInv, LatestsOK
    <2>4. \A x \in Buffer : cache[x].blck = b => cache[x].bits # Clean
      BY <1>5, NoBlockAssumption DEF Inv, CacheInv, CleanOK
    <2>5. QED
      BY <1>5, <2>1, <2>3, <2>4 DEF Fits, Kind, LatBits
  <1> DEFINE FreshOnly(b) == \A z \in Buffer : cache[z].blck = b /\ LatBits(cache[z]) =>
                               cache[z].bits = Fresh
  <1>6. ASSUME NEW x \in Buffer
        PROVE  /\ cache'[x] \in CacheBuffer
               /\ cache[x].blck \notin Block \/ ~Undone(cache[x].blck) => cache'[x] = cache[x]
               /\ cache[x].blck \in Block /\ Undone(cache[x].blck) =>
                    LET b == cache[x].blck
                    IN \/ /\ cache[x].bits = Changed /\ Kind(0, b) = "none" /\ Cleaned(x)
                       \/ /\ LatBits(cache[x])
                          /\ cache[x].bits = Fresh \/ Kind(0, b) # "none"
                          /\ cache'[x].blck = b /\ cache'[x].locked = cache[x].locked
                          /\ cache'[x].bits = cache[x].bits
                          /\ Kind(0, b) = "create" => cache'[x].data = op[0][b].diff
                          /\ cache[x].bits = Changed /\ Kind(0, b) # "create" =>
                               cache'[x].data = Uncompress(disk[b], op[0][b].diff)
                       \/ cache[x].bits = Org /\ Kind(0, b) # "none" /\ cache'[x] = cache[x]
                       \/ /\ cache[x].bits = Org /\ Kind(0, b) = "none" /\ HasLat(b)
                          /\ cache'[x] = Unused \/ (cache'[x] = cache[x] /\ FreshOnly(b))
                       \/ /\ cache[x].bits = Org /\ Kind(0, b) = "none" /\ ~HasLat(b)
                          /\ Cleaned(x)
    <2> DEFINE b == cache[x].blck
    <2>1. /\ cache[x] \in CacheBuffer
          /\ cache'[x] = IF b \in Block THEN RolledBack(b)[x] ELSE cache[x]
      BY <1>1 DEF Inv, CacheInv, Shapes
    <2>2. CASE b \notin Block \/ ~Undone(b)
      <3>1. b \in Block => Kind(1, b) \in {"none", "delete"}
        BY <1>4, <2>2 DEF Kind, Operation
      <3>2. cache'[x] = cache[x]
        BY <2>1, <3>1 DEF RolledBack, Kind
      <3>3. QED
        BY <2>1, <2>2, <3>2
    <2>3. CASE b \in Block /\ Undone(b)
      <3> DEFINE y == Latest(cache, b)
                 o == op[0][b]
                 d == RestoreCacheBuffer(cache, y, o)
      <3>1. /\ Latests(cache, b) # {} <=> HasLat(b)
            /\ Latests(cache, b) # {} => y \in Buffer /\ cache[y].blck = b /\ LatBits(cache[y])
            /\ Originals(cache, b) # {} <=>
                 \E z \in Buffer : cache[z].blck = b /\ OrgBits(cache[z])
            /\ Originals(cache, b) # {} => /\ Original(cache, b) \in Buffer
                                           /\ cache[Original(cache, b)].blck = b
                                           /\ OrgBits(cache[Original(cache, b)])
        BY <2>3, Finds DEF Inv, CacheInv
      <3>2. cache[x].bits \in {Org, Changed, Fresh} /\ b # NoBlock
        BY <1>5, <2>3, NoBlockAssumption DEF Inv, CacheInv, Shapes
      <3>3. CASE HasLat(b)
        <4>1. cache'[x] = d[x]
          BY <2>1, <2>3, <3>1, <3>3 DEF RolledBack, Kind
        <4>2. cache[y].bits \in {Changed, Fresh}
          BY <1>5, <2>3, <3>1, <3>3 DEF LatBits
        <4>3. Restored(cache, y, b, o, d)
          <5>1. Shapes(cache) /\ Copies(cache) /\ DiskCopies(cache)
            BY DEF Inv, CacheInv
          <5>2. o \in Operation /\ (o.kind = "create" => o.diff \in Content) /\ disk[b] \in Content
            BY <1>4, <2>3 DEF Kind
          <5>3. y \in Buffer /\ cache[y].blck = b
            BY <3>1, <3>3
          <5> HIDE DEF y, o
          <5>4. QED
            BY <2>3, <4>2, <5>1, <5>2, <5>3, Restores
        <4> HIDE DEF d, o, y
        <4>4. o.kind = Kind(0, b)
          BY DEF o, Kind
        <4>5. CASE x = y
          BY <2>3, <3>1, <3>3, <4>1, <4>2, <4>3, <4>4, <4>5, Flags DEF Restored, o, LatBits
        <4>6. CASE x # y
          <5>1. cache[x].bits = Org
            BY <3>1, <3>2, <3>3, <4>6 DEF Inv, CacheInv, Singles, LatBits
          <5>2. CASE Kind(0, b) # "none"
            BY <2>1, <2>3, <4>1, <4>3, <4>4, <4>6, <5>1, <5>2 DEF Restored
          <5>3. CASE Kind(0, b) = "none"
            <6>1. CASE cache[y].bits = Changed
              <7>1. PICK z \in Buffer \ {y} : /\ cache[z].blck = b /\ OrgBits(cache[z])
                                              /\ d[z] = Unused
                BY <4>3, <4>4, <5>3, <6>1, Flags DEF Restored
              <7>2. z = x
                BY <3>2, <5>1, <7>1 DEF Inv, CacheInv, Singles, OrgBits
              <7>3. Unused \in CacheBuffer
                BY ValAssumption DEF Unused, CacheBuffer, Zero, Content
              <7>4. QED
                BY <2>3, <3>3, <4>1, <5>1, <5>3, <7>1, <7>2, <7>3
            <6>2. CASE cache[y].bits = Fresh
              <7>1. d[x] = cache[x]
                BY <4>3, <4>6, <6>2, Flags DEF Restored
              <7>2. FreshOnly(b)
                BY <3>1, <3>2, <3>3, <6>2 DEF Inv, CacheInv, Singles
              <7>3. QED
                BY <2>1, <2>3, <3>3, <4>1, <5>1, <5>3, <7>1, <7>2
            <6>3. QED
              BY <4>2, <6>1, <6>2
          <5>4. QED
            BY <5>2, <5>3
        <4>7. QED
          BY <4>5, <4>6
      <3>4. CASE ~HasLat(b)
        <4>1. cache[x].bits = Org /\ cache[x].data = disk[b]
          BY <3>2, <3>4 DEF LatBits, OrgBits, Inv, CacheInv, DiskCopies
        <4>2. CASE Kind(0, b) # "none"
          BY <1>4, <2>1, <2>3, <3>1, <3>4, <4>1, <4>2 DEF RolledBack, Kind
        <4>3. CASE Kind(0, b) = "none"
          <5>1. Original(cache, b) = x
            BY <3>1, <3>2, <4>1 DEF Inv, CacheInv, Singles, OrgBits
          <5>2. RolledBack(b) = [cache EXCEPT ![x].bits = @ \cup {"LATEST"}]
            <6>1. Originals(cache, b) # {}
              BY <3>1, <4>1 DEF OrgBits
            <6>2. QED
              BY <1>4, <2>3, <3>1, <3>4, <4>3, <5>1, <6>1 DEF RolledBack, Kind
          <5>3. cache'[x] = [cache[x] EXCEPT !.bits = Clean]
            <6>1. cache[x].bits \cup {"LATEST"} = Clean
              BY <4>1, Flags
            <6>2. cache'[x] = RolledBack(b)[x]
              BY <2>1, <2>3
            <6>3. cache \in [Buffer -> CacheBuffer]
              BY DEF Inv, CacheInv, Shapes
            <6> HIDE DEF b
            <6>4. RolledBack(b)[x] = [cache[x] EXCEPT !.bits = Clean]
              BY <5>2, <6>1, <6>3
            <6>5. QED
              BY <6>2, <6>4
          <5>4. QED
            BY <2>1, <2>3, <3>4, <4>1, <4>3, <5>3 DEF CacheBuffer, Clean
        <4>4. QED
          BY <4>2, <4>3
      <3>5. QED
        BY <3>3, <3>4
    <2>4. QED
      BY <2>2, <2>3
  <1> HIDE DEF Undone, Cleaned, FreshOnly
  <1>7. /\ ~OrgBits(Unused) /\ ~LatBits(Unused) /\ Unused.blck = NoBlock
        /\ Unused.locked = 0 /\ Unused.bits = {} /\ Unused.bits \notin {Org, Changed, Clean}
        /\ NoBlock \notin Block
    BY Flags, NoBlockAssumption DEF Unused, OrgBits, LatBits
  <1>8. \A x \in Buffer : /\ cache[x].bits = Org => OrgBits(cache[x]) /\ ~LatBits(cache[x])
                          /\ cache[x].bits = Changed => LatBits(cache[x]) /\ ~OrgBits(cache[x])
                          /\ cache[x].bits = Fresh => LatBits(cache[x]) /\ ~OrgBits(cache[x])
    BY Flags DEF OrgBits, LatBits
  <1>9. \A x \in Buffer : /\ cache'[x].bits = Clean => OrgBits(cache'[x]) /\ LatBits(cache'[x])
                          /\ cache'[x].bits = cache[x].bits =>
                               /\ OrgBits(cache'[x]) <=> OrgBits(cache[x])
                               /\ LatBits(cache'[x]) <=> LatBits(cache[x])
    BY DEF OrgBits, LatBits
  <1>10. \A x \in Buffer : cache[x].blck \in Block \cup {NoBlock}
    BY DEF Inv, CacheInv, Shapes, CacheBuffer
  \* What a buffer of an undone block becomes, in short.
  <1>11. ASSUME NEW x \in Buffer, cache[x].blck \in Block, Undone(cache[x].blck)
         PROVE  LET b == cache[x].blck
                IN /\ LatBits(cache[x]) \/ cache[x].bits = Org
                   /\ LatBits(cache[x]) =>
                        /\ cache'[x].blck = b /\ LatBits(cache'[x])
                        /\ cache'[x].locked = cache[x].locked
                        /\ ~OrgBits(cache[x])
                        /\ OrgBits(cache'[x]) => /\ Kind(0, b) = "none"
                                                 /\ cache[x].bits = Changed
                   /\ cache[x].bits = Org =>
                        \/ cache'[x] = cache[x] /\ (Kind(0, b) # "none" \/ FreshOnly(b))
                        \/ cache'[x] = Unused /\ HasLat(b)
                        \/ Cleaned(x) /\ ~HasLat(b)
    <2>1. LatBits(cache[x]) \/ cache[x].bits = Org
      BY <1>6, <1>8, <1>11
    <2>2. CASE LatBits(cache[x])
      <3>1. ~OrgBits(cache[x])
        BY <1>5, <1>11, <2>2, Flags DEF LatBits, OrgBits
      <3>2. CASE cache[x].bits = Changed /\ Kind(0, cache[x].blck) = "none" /\ Cleaned(x)
        BY <1>8, <1>9, <2>2, <3>1, <3>2, Flags DEF Cleaned
      <3>3. CASE ~(cache[x].bits = Changed /\ Kind(0, cache[x].blck) = "none" /\ Cleaned(x))
        <4>1. /\ cache'[x].blck = cache[x].blck /\ cache'[x].locked = cache[x].locked
              /\ cache'[x].bits = cache[x].bits
          BY <1>6, <1>8, <1>11, <2>2, <3>3
        <4>2. cache[x].bits # Org
          BY <1>8, <2>2
        <4>3. QED
          BY <1>9, <2>2, <3>1, <4>1, <4>2
      <3>4. QED
        BY <3>2, <3>3
    <2>3. CASE cache[x].bits = Org
      BY <1>6, <1>8, <1>11, <2>3
    <2>4. QED
      BY <1>8, <2>1, <2>2, <2>3
  <1>12. Shapes(cache)'
    <2>1. cache' \in [Buffer -> CacheBuffer]
      BY <1>1, <1>6
    <2>2. ASSUME NEW x \in Buffer
          PROVE  IF cache'[x].blck = NoBlock
                   THEN cache'[x].locked = 0 /\ cache'[x].bits \in {{}, Clean}
                   ELSE cache'[x].bits \in {Org, Clean, Changed, Fresh}
      <3>1. CASE cache[x].blck \in Block /\ Undone(cache[x].blck)
        BY <1>6, <1>7, <3>1 DEF Cleaned, LatBits
      <3>2. CASE ~(cache[x].blck \in Block /\ Undone(cache[x].blck))
        BY <1>6, <3>2 DEF Inv, CacheInv, Shapes
      <3>3. QED
        BY <3>1, <3>2
    <2>3. QED
      BY <2>1, <2>2 DEF Shapes
  <1>13. Singles(cache)'
    <2>1. ASSUME NEW x \in Buffer, NEW y \in Buffer, x # y, cache'[x].blck = cache'[y].blck,
                 cache'[x].blck # NoBlock
          PROVE  /\ ~(OrgBits(cache'[x]) /\ OrgBits(cache'[y]))
                 /\ ~(LatBits(cache'[x]) /\ LatBits(cache'[y]))
      <3>1. /\ cache[x].blck = cache'[x].blck /\ cache[y].blck = cache'[y].blck
            /\ cache[x].blck \in Block
        BY <1>6, <1>7, <1>10, <2>1 DEF Cleaned
      <3>2. /\ ~(OrgBits(cache[x]) /\ OrgBits(cache[y]))
            /\ ~(LatBits(cache[x]) /\ LatBits(cache[y]))
        BY <2>1, <3>1 DEF Inv, CacheInv, Singles
      <3>3. CASE ~Undone(cache[x].blck)
        BY <1>6, <2>1, <3>1, <3>2, <3>3
      <3>4. CASE Undone(cache[x].blck)
        <4>1. LatBits(cache[x]) => HasLat(cache[x].blck)
          OBVIOUS
        <4>2. LatBits(cache[y]) => HasLat(cache[x].blck)
          BY <2>1, <3>1
        <4> HIDE DEF HasLat
        <4>3. CASE LatBits(cache[x])
          <5>1. cache[y].bits = Org /\ (\/ /\ cache'[y] = cache[y]
                                            /\ \/ Kind(0, cache[x].blck) # "none"
                                               \/ FreshOnly(cache[x].blck)
                                         \/ cache'[y] = Unused)
            BY <1>11, <2>1, <3>1, <3>2, <3>4, <4>1, <4>3
          <5>2. cache'[y] = cache[y]
            BY <1>7, <2>1, <5>1
          <5>3. ~LatBits(cache'[y])
            BY <1>8, <5>1, <5>2
          <5>4. ~OrgBits(cache'[x])
            <6>1. OrgBits(cache'[x]) => /\ Kind(0, cache[x].blck) = "none"
                                        /\ cache[x].bits = Changed
              BY <1>11, <2>1, <3>1, <3>4, <4>3
            <6>2. FreshOnly(cache[x].blck) => cache[x].bits = Fresh
              BY <2>1, <3>1, <4>3 DEF FreshOnly
            <6>3. QED
              BY <1>7, <2>1, <5>1, <6>1, <6>2, Flags
          <5>5. QED
            BY <5>3, <5>4
        <4>4. CASE LatBits(cache[y])
          <5>1. cache[x].bits = Org /\ (\/ /\ cache'[x] = cache[x]
                                            /\ \/ Kind(0, cache[x].blck) # "none"
                                               \/ FreshOnly(cache[x].blck)
                                         \/ cache'[x] = Unused)
            BY <1>11, <2>1, <3>1, <3>2, <3>4, <4>2, <4>4
          <5>2. cache'[x] = cache[x]
            BY <1>7, <2>1, <5>1
          <5>3. ~LatBits(cache'[x])
            BY <1>8, <5>1, <5>2
          <5>4. ~OrgBits(cache'[y])
            <6>1. OrgBits(cache'[y]) => /\ Kind(0, cache[x].blck) = "none"
                                        /\ cache[y].bits = Changed
              BY <1>11, <2>1, <3>1, <3>4, <4>4
            <6>2. FreshOnly(cache[x].blck) => cache[y].bits = Fresh
              BY <2>1, <3>1, <4>4 DEF FreshOnly
            <6>3. QED
              BY <1>7, <2>1, <5>1, <6>1, <6>2, Flags
          <5>5. QED
            BY <5>3, <5>4
        <4>5. CASE ~LatBits(cache[x]) /\ ~LatBits(cache[y])
          <5>1. cache[x].bits = Org /\ cache[y].bits = Org
            BY <1>11, <2>1, <3>1, <3>4, <4>5
          <5>2. QED
            BY <1>8, <3>2, <5>1
        <4>6. QED
          BY <4>3, <4>4, <4>5
      <3>5. QED
        BY <3>3, <3>4
    <2>2. QED
      BY <2>1 DEF Singles, OrgBits, LatBits
  <1>14. Copies(cache)'
    <2>1. ASSUME NEW x \in Buffer, cache'[x].bits = Changed
          PROVE  \E y \in Buffer : cache'[y].blck = cache'[x].blck /\ OrgBits(cache'[y])
      <3>1. /\ cache[x].blck \in Block /\ cache'[x].blck = cache[x].blck
            /\ cache[x].bits = Changed
            /\ Undone(cache[x].blck) => Kind(0, cache[x].blck) # "none"
        <4>1. Changed \notin {{}, Org, Clean, Fresh}
          BY Flags
        <4>2. CASE cache[x].blck \in Block /\ Undone(cache[x].blck)
          BY <1>6, <1>7, <2>1, <4>1, <4>2 DEF Cleaned
        <4>3. CASE ~(cache[x].blck \in Block /\ Undone(cache[x].blck))
          BY <1>6, <1>10, <2>1, <4>1, <4>3 DEF Inv, CacheInv, Shapes
        <4>4. QED
          BY <4>2, <4>3
      <3>2. PICK y \in Buffer : cache[y].blck = cache[x].blck /\ OrgBits(cache[y])
        BY <3>1 DEF Inv, CacheInv, Copies
      <3>3. cache'[y] = cache[y]
        <4>1. CASE Undone(cache[x].blck)
          <5>1. ~LatBits(cache[y])
            BY <1>11, <3>1, <3>2, <4>1
          <5>2. QED
            BY <1>6, <1>8, <3>1, <3>2, <4>1, <5>1
        <4>2. CASE ~Undone(cache[x].blck)
          BY <1>6, <3>2, <4>2
        <4>3. QED
          BY <4>1, <4>2
      <3>4. QED
        BY <3>1, <3>2, <3>3
    <2>2. QED
      BY <2>1 DEF Copies, OrgBits
  <1>15. DiskCopies(cache)'
    <2>1. ASSUME NEW x \in Buffer, OrgBits(cache'[x]), cache'[x].blck # NoBlock
          PROVE  cache'[x].data = disk[cache'[x].blck]
      <3>1. CASE cache[x].blck \in Block /\ Undone(cache[x].blck)
        <4>1. Cleaned(x) => cache'[x].data = disk[cache'[x].blck]
          BY DEF Cleaned
        <4>2. CASE LatBits(cache[x])
          <5>1. ~OrgBits(cache[x]) /\ cache[x].bits # Org
            BY <1>8, <1>11, <3>1, <4>2
          <5>2. cache'[x].bits # cache[x].bits
            BY <1>9, <2>1, <5>1
          <5>3. QED
            BY <1>6, <3>1, <4>1, <5>1, <5>2
        <4>3. CASE cache[x].bits = Org
          BY <1>7, <1>8, <1>11, <2>1, <3>1, <4>1, <4>3 DEF Inv, CacheInv, DiskCopies
        <4>4. QED
          BY <1>11, <3>1, <4>2, <4>3
      <3>2. CASE ~(cache[x].blck \in Block /\ Undone(cache[x].blck))
        BY <1>6, <2>1, <3>2 DEF Inv, CacheInv, DiskCopies
      <3>3. QED
        BY <3>1, <3>2
    <2>2. QED
      BY <1>1, <2>1 DEF DiskCopies, OrgBits
  <1>16. LocksOK(cache)'
    <2>1. \A x \in Buffer : cache[x].locked = IF LatBits(cache[x]) THEN Locks(cache[x].blck) ELSE 0
      BY DEF Inv, CacheInv, LocksOK
    <2>2. \A b \in Block : ~HasLat(b) => Locks(b) = 0
      BY DEF Inv, CacheInv, CachedOK, Locks
    <2> HIDE DEF HasLat
    <2>3. ASSUME NEW x \in Buffer
          PROVE  cache'[x].locked = IF LatBits(cache'[x]) THEN Locks(cache'[x].blck) ELSE 0
      <3>1. CASE ~(cache[x].blck \in Block /\ Undone(cache[x].blck))
        BY <1>6, <2>1, <3>1
      <3>2. CASE cache[x].blck \in Block /\ Undone(cache[x].blck) /\ LatBits(cache[x])
        BY <1>11, <2>1, <3>2
      <3>3. CASE cache[x].blck \in Block /\ Undone(cache[x].blck) /\ cache[x].bits = Org
        BY <1>7, <1>8, <1>9, <1>11, <2>1, <2>2, <3>3 DEF Cleaned
      <3>4. QED
        BY <1>11, <3>1, <3>2, <3>3
    <2>4. QED
      BY <1>1, <2>3 DEF LocksOK, Locks, LatBits
  <1>17. CachedOK(cache)'
    <2>1. ASSUME NEW b \in held
          PROVE  \E x \in Buffer : cache'[x].blck = b /\ LatBits(cache'[x])
      <3>1. PICK x \in Buffer : cache[x].blck = b /\ LatBits(cache[x])
        BY DEF Inv, CacheInv, CachedOK
      <3>2. CASE cache[x].blck \in Block /\ Undone(cache[x].blck)
        BY <1>11, <3>1, <3>2
      <3>3. CASE ~(cache[x].blck \in Block /\ Undone(cache[x].blck))
        BY <1>6, <3>1, <3>3
      <3>4. QED
        BY <3>2, <3>3
    <2>2. QED
      BY <1>1, <2>1 DEF CachedOK, LatBits
  <1>18. CleanOK(cache)'
    <2>1. ASSUME NEW x \in Buffer, cache'[x].bits = Clean, cache'[x].blck # NoBlock
          PROVE  LET a == cache'[x].blck
                 IN /\ op'[1][a].kind = "none"
                    /\ a \in liveSaved => op'[0][a].kind = "none"
      <3>1. cache[x].blck \in Block /\ cache'[x].blck = cache[x].blck
        BY <1>6, <1>7, <1>10, <2>1 DEF Cleaned
      <3>2. CASE Undone(cache[x].blck)
        <4>1. Clean \notin {Org, Changed, Fresh}
          BY Flags
        <4>2. Kind(0, cache[x].blck) = "none"
          BY <1>5, <1>6, <1>7, <2>1, <3>1, <3>2, <4>1 DEF LatBits
        <4>3. QED
          BY <1>3, <3>1, <4>2, Operations DEF Kind
      <3>3. CASE ~Undone(cache[x].blck)
        <4>1. cache'[x] = cache[x]
          BY <1>6, <3>3
        <4>2. QED
          BY <1>3, <2>1, <3>1, <4>1, Operations DEF Inv, CacheInv, CleanOK, Kind
      <3>4. QED
        BY <3>2, <3>3
    <2>2. QED
      BY <1>1, <2>1 DEF CleanOK, Kind
  <1>19. OriginalsOK(cache)'
    <2> SUFFICES ASSUME ~ReuseMayFail PROVE OriginalsOK(cache)'
      BY DEF OriginalsOK
    <2>1. ASSUME NEW x \in Buffer, cache'[x].bits = Org
          PROVE  op'[0][cache'[x].blck].kind # "none"
      <3>1. cache'[x] = cache[x] /\ cache[x].blck \in Block
            /\ (Undone(cache[x].blck) => Kind(0, cache[x].blck) # "none")
        <4>1. Org \notin {{}, Changed, Clean, Fresh}
          BY Flags
        <4>2. CASE cache[x].blck \in Block /\ Undone(cache[x].blck)
          <5>1. ASSUME HasLat(cache[x].blck), FreshOnly(cache[x].blck),
                       Kind(0, cache[x].blck) = "none", cache[x].bits = Org
                PROVE  FALSE
            <6>1. PICK z \in Buffer : cache[z].blck = cache[x].blck /\ cache[z].bits = Fresh
              BY <5>1 DEF FreshOnly
            <6>2. cache[x].blck \notin reused
              BY <1>2
            <6>3. QED
              BY <5>1, <6>1, <6>2 DEF Inv, CacheInv, OriginalsOK
          <5>2. QED
            BY <1>6, <1>7, <2>1, <4>1, <4>2, <5>1 DEF Cleaned, LatBits
        <4>3. CASE ~(cache[x].blck \in Block /\ Undone(cache[x].blck))
          BY <1>6, <1>10, <2>1, <4>1, <4>3 DEF Inv, CacheInv, Shapes
        <4>4. QED
          BY <4>2, <4>3
      <3>2. Kind(0, cache[x].blck) = "none" => Undone(cache[x].blck)
        BY <1>1, <1>2, <2>1, <3>1 DEF Inv, CacheInv, OriginalsOK, Undone
      <3>3. QED
        BY <1>3, <3>1, <3>2 DEF Kind
    <2>2. QED
      BY <2>1 DEF OriginalsOK, Kind
  <1>20. LatestsOK(cache)'
    <2> SUFFICES ASSUME ~ReuseMayFail PROVE LatestsOK(cache)'
      BY DEF LatestsOK
    <2>1. \A b \in Block : LatestOperation(op', b) = op[0][b]
      BY <1>3 DEF LatestOperation
    <2>2. ASSUME NEW x \in Buffer, LatBits(cache'[x]), cache'[x].blck \in liveSaved
          PROVE  Fits(cache'[x], op[0][cache'[x].blck], disk[cache'[x].blck])
      <3>1. PICK b \in Block : b = cache'[x].blck
        BY <2>2 DEF Inv, OpsInv, TypeOK
      <3>2. cache[x].blck = b
        BY <1>6, <1>7, <3>1 DEF Cleaned
      <3>3. CASE ~Undone(b)
        <4>1. cache'[x] = cache[x] /\ LatBits(cache[x])
          BY <1>6, <2>2, <3>2, <3>3
        <4>2. b \in live => LatestOperation(op, b) = op[0][b]
          <5>1. b \in live => Kind(1, b) # "delete"
            BY DEF Inv, OpsInv, LevelsOK
          <5>2. Kind(1, b) \in {"none", "modify", "create", "delete"}
            BY <1>4 DEF Kind, Operation
          <5>3. QED
            BY <3>3, <5>1, <5>2, LatestIs DEF Inv, Undone
        <4>3. QED
          BY <1>1, <1>2, <2>2, <3>1, <4>1, <4>2 DEF Inv, CacheInv, LatestsOK
      <3>4. CASE Undone(b)
        <4>1. b \in liveSaved /\ (Kind(1, b) = "create" <=> Kind(0, b) = "create")
          BY <1>5, <2>2, <3>1, <3>4
        <4>2. Kind(0, b) \in {"none", "modify", "create", "delete"} /\ Kind(0, b) # "delete"
          BY <1>4, <4>1 DEF Kind, Operation, Inv, OpsInv, LevelsOK
        <4>3. Uncompress(disk[b], EmptyDiff) = disk[b]
          BY <1>4, Diffs
        <4>4. Kind(0, b) = "create" => Uncompress(disk[b], op[0][b].diff) = op[0][b].diff
          BY <1>4, Diffs
        <4>5. CASE Cleaned(x) /\ Kind(0, b) = "none"
          BY <1>4, <3>1, <3>2, <4>3, <4>5, Flags DEF Cleaned, Fits, Kind
        <4>6. CASE LatBits(cache[x]) /\ ~(cache[x].bits = Changed /\ Kind(0, b) = "none")
          <5>1. cache[x].bits \in {Changed, Fresh}
            BY <1>5, <3>2, <3>4, <4>6 DEF LatBits
          <5>2. /\ cache[x].bits = Changed => Kind(0, b) = "modify"
                /\ cache[x].bits = Fresh => Kind(0, b) = "create"
            BY <1>5, <3>2, <3>4, <4>1, <4>2, <4>6, Flags
          <5>3. /\ cache'[x].bits = cache[x].bits
                /\ Kind(0, b) = "create" => cache'[x].data = op[0][b].diff
                /\ cache[x].bits = Changed => cache'[x].data = Uncompress(disk[b], op[0][b].diff)
            BY <1>6, <1>8, <3>2, <3>4, <4>6, <5>1, <5>2, Flags
          <5>4. QED
            BY <3>1, <4>4, <5>1, <5>2, <5>3, Flags DEF Fits, Kind
        <4>7. CASE cache[x].bits = Org /\ Kind(0, b) # "none" /\ cache'[x] = cache[x]
          BY <1>8, <2>2, <4>7
        <4>8. QED
          BY <1>6, <1>7, <1>8, <2>2, <3>2, <3>4, <4>5, <4>6, <4>7, Flags
      <3>5. QED
        BY <3>3, <3>4
    <2>3. ASSUME NEW x \in Buffer, LatBits(cache'[x]), cache'[x].blck \in live'
          PROVE  Fits(cache'[x], LatestOperation(op', cache'[x].blck), disk'[cache'[x].blck])
      <3>1. cache'[x].blck \in liveSaved /\ cache'[x].blck \in Block /\ disk' = disk
        BY <1>1, <2>3 DEF Inv, OpsInv, TypeOK
      <3>2. QED
        BY <2>1, <2>2, <2>3, <3>1
    <2>4. QED
      BY <1>1, <2>3 DEF LatestsOK, LatBits
  <1>21. OpsInv'
    <2>1. TypeOK'
      BY <1>1, <1>3, <1>12 DEF Inv, OpsInv, TypeOK, Shapes
    <2>2. OperationsOK'
      BY <1>3, Operations DEF Inv, OpsInv, OperationsOK, Kind
    <2>3. NestOK'
      BY <1>1, <1>3, Operations DEF Inv, OpsInv, NestOK, Kind
    <2>4. LevelsOK'
      BY <1>1, <1>3, Operations DEF Inv, OpsInv, LevelsOK, Kind
    <2>5. QED
      BY <2>1, <2>2, <2>3, <2>4 DEF OpsInv
  <1>22. QED
    BY <1>12, <1>13, <1>14, <1>15, <1>16, <1>17, <1>18, <1>19, <1>20,
       <1>21 DEF Inv, CacheInv

-----------------------------------------------------------------------------
(* Flushing. *)

\* One turn of writeoperations: the block that is written has one buffer left,
\* and no operation.
LEMMA WriteStep ==
  ASSUME Inv, NEW b \in Block, WriteOperation(b)
  PROVE  Inv'
  <1> USE DEF Level
  <1>1. PICK r \in Readings(b) :
          /\ disk' = [disk EXCEPT ![b] = r.cache[r.cb].data]
          /\ cache' = [EmptyBuffers(r.cache, Originals(r.cache, b))
                         EXCEPT ![r.cb].bits = {"ORIGINAL", "LATEST"}]
    BY DEF WriteOperation
  <1> DEFINE g == r.cache
             x == r.cb
             e == EmptyBuffers(g, Originals(g, b))
  <1>2. /\ op' = [op EXCEPT ![0][b] = NoOperation]
        /\ UNCHANGED <<nest, flushing, client>>
        /\ op[0][b] # NoOperation /\ nest = 0
    BY DEF WriteOperation, Inv, OpsInv, NestOK
  <1>3. CacheInv(g) /\ x \in Buffer /\ g[x].blck = b /\ LatBits(g[x])
    <2>1. LatestKind(b) # "none"
      BY <1>2, LatestIs, NoneIs DEF Inv, Kind, LatestKind
    <2>2. QED
      BY <1>2, <2>1, Reads DEF Inv, Readings
  <1>4. /\ held \subseteq live /\ prepared = {} /\ reused = {} /\ liveSaved = live
        /\ b # NoBlock /\ disk \in [Block -> Content] /\ held \subseteq Block
        /\ \A a \in Block : Kind(1, a) = "none" /\ op[1][a] = NoOperation
    BY <1>2, NoneIs, NoBlockAssumption DEF Inv, OpsInv, NestOK, TypeOK
  <1>5. /\ op' \in [Level -> [Block -> Operation]]
        /\ op'[0][b] = NoOperation
        /\ \A a \in Block \ {b} : op'[0][a] = op[0][a]
        /\ \A a \in Block : op'[1][a] = NoOperation
    BY <1>2, <1>4, Operations DEF Inv, OpsInv, TypeOK
  <1>6. Originals(g, b) = {z \in Buffer : g[z].blck = b /\ OrgBits(g[z])}
    BY <1>3, Finds DEF CacheInv
  <1> HIDE DEF g, x
  <1>7. /\ g \in [Buffer -> CacheBuffer] /\ g[x] \in CacheBuffer
        /\ g[x].data \in Content
        /\ \A z \in Buffer \ {x} : g[z].blck = b => ~LatBits(g[z])
    BY <1>3, <1>4 DEF CacheInv, Shapes, CacheBuffer, Singles
  <1>8. /\ disk' \in [Block -> Content] /\ disk'[b] = g[x].data
        /\ \A a \in Block \ {b} : disk'[a] = disk[a]
    <2>1. disk' = [disk EXCEPT ![b] = g[x].data]
      BY <1>1 DEF g, x
    <2>2. QED
      BY <1>4, <1>7, <2>1
  <1>9. /\ ~OrgBits(Unused) /\ ~LatBits(Unused) /\ Unused.blck = NoBlock
        /\ Unused.locked = 0 /\ Unused.bits = {} /\ Unused.bits \notin {Org, Changed, Clean}
        /\ Unused \in CacheBuffer
    BY Flags, ValAssumption DEF Unused, OrgBits, LatBits, CacheBuffer, Zero, Content
  \* The buffer that was read is not the original of a block in use.
  <1>10. OrgBits(g[x]) => b \notin live /\ g[x].locked = 0
    <2>1. ASSUME b \in live, OrgBits(g[x]) PROVE FALSE
      <3>1. g[x].bits = Clean
        BY <1>3, <2>1, Flags DEF OrgBits, LatBits
      <3>2. Kind(0, b) = "none"
        BY <1>3, <1>4, <2>1, <3>1 DEF CacheInv, CleanOK
      <3>3. op[0][b] = NoOperation
        BY <3>2, NoneIs DEF Inv
      <3>4. QED
        BY <1>2, <3>3
    <2>2. b \notin live => Locks(b) = 0
      BY <1>4 DEF Locks
    <2>3. g[x].locked = Locks(b)
      BY <1>3 DEF CacheInv, LocksOK
    <2>4. QED
      BY <2>1, <2>2, <2>3
  <1>11. /\ cache' \in [Buffer -> CacheBuffer]
         /\ cache'[x].bits = Clean /\ cache'[x].locked = g[x].locked
         /\ IF OrgBits(g[x]) THEN cache'[x].blck = NoBlock
            ELSE cache'[x].blck = b /\ cache'[x].data = g[x].data
         /\ \A z \in Buffer \ {x} :
              cache'[z] = IF g[z].blck = b /\ OrgBits(g[z]) THEN Unused ELSE g[z]
    <2>1. /\ e \in [Buffer -> CacheBuffer]
          /\ \A z \in Buffer : e[z] = IF g[z].blck = b /\ OrgBits(g[z]) THEN Unused ELSE g[z]
      BY <1>6, <1>7, <1>9 DEF EmptyBuffers
    <2> HIDE DEF e
    <2>2. cache' = [e EXCEPT ![x].bits = Clean]
      BY <1>1 DEF e, g, x, Clean
    <2>3. e[x] \in CacheBuffer /\ [e[x] EXCEPT !.bits = Clean] \in CacheBuffer
      BY <1>3, <2>1 DEF CacheBuffer, Clean
    <2>4. /\ cache' \in [Buffer -> CacheBuffer]
          /\ cache'[x] = [e[x] EXCEPT !.bits = Clean]
          /\ \A z \in Buffer \ {x} : cache'[z] = e[z]
      BY <1>3, <2>1, <2>2, <2>3
    <2>5. /\ cache'[x].bits = Clean /\ cache'[x].locked = e[x].locked
          /\ cache'[x].blck = e[x].blck /\ cache'[x].data = e[x].data
      BY <2>3, <2>4 DEF CacheBuffer
    <2>6. QED
      BY <1>3, <1>9, <1>10, <2>1, <2>4, <2>5
  <1> HIDE DEF e
  <1>12. \A z \in Buffer \ {x} :
           \/ cache'[z] = Unused
           \/ cache'[z] = g[z] /\ (g[z].blck = b => ~OrgBits(g[z]) /\ ~LatBits(g[z]))
    BY <1>7, <1>11
  <1>13. \A z \in Buffer \ {x} : cache'[z].blck # b
    <2>1. \A z \in Buffer : g[z].blck = b => OrgBits(g[z]) \/ LatBits(g[z])
      BY <1>3, <1>4 DEF CacheInv, Shapes, OrgBits, LatBits
    <2>2. QED
      BY <1>4, <1>9, <1>12, <2>1
  <1>14. OrgBits(cache'[x]) /\ LatBits(cache'[x])
    BY <1>11 DEF OrgBits, LatBits
  <1>15. Shapes(cache)'
    BY <1>3, <1>4, <1>9, <1>10, <1>11, <1>12 DEF CacheInv, Shapes
  <1>16. Singles(cache)'
    <2>1. ASSUME NEW z \in Buffer, NEW w \in Buffer, z # w, cache'[z].blck = cache'[w].blck,
                 cache'[z].blck # NoBlock
          PROVE  /\ ~(OrgBits(cache'[z]) /\ OrgBits(cache'[w]))
                 /\ ~(LatBits(cache'[z]) /\ LatBits(cache'[w]))
      <3>1. z # x /\ w # x
        BY <1>11, <1>13, <2>1
      <3>2. cache'[z] = g[z] /\ cache'[w] = g[w]
        BY <1>9, <1>12, <2>1, <3>1
      <3>3. QED
        BY <1>3, <2>1, <3>2 DEF CacheInv, Singles
    <2>2. QED
      BY <2>1 DEF Singles, OrgBits, LatBits
  <1>17. Copies(cache)'
    <2>1. ASSUME NEW z \in Buffer, cache'[z].bits = Changed
          PROVE  \E w \in Buffer : cache'[w].blck = cache'[z].blck /\ OrgBits(cache'[w])
      <3>1. z # x /\ cache'[z] = g[z] /\ g[z].blck # b
        BY <1>9, <1>11, <1>12, <1>13, <2>1, Flags
      <3>2. PICK w \in Buffer : g[w].blck = g[z].blck /\ OrgBits(g[w])
        BY <1>3, <2>1, <3>1 DEF CacheInv, Copies
      <3>3. w # x /\ cache'[w] = g[w]
        BY <1>3, <1>11, <3>1, <3>2
      <3>4. QED
        BY <3>1, <3>2, <3>3
    <2>2. QED
      BY <2>1 DEF Copies, OrgBits
  <1>18. DiskCopies(cache)'
    <2>1. ASSUME NEW z \in Buffer, OrgBits(cache'[z]), cache'[z].blck # NoBlock
          PROVE  cache'[z].data = disk'[cache'[z].blck]
      <3>1. CASE z = x
        BY <1>8, <1>11, <2>1, <3>1
      <3>2. CASE z # x
        <4>1. cache'[z] = g[z] /\ g[z].blck # b /\ g[z].blck \in Block
          BY <1>9, <1>12, <1>13, <1>15, <2>1, <3>2 DEF Shapes, CacheBuffer
        <4>2. g[z].data = disk[g[z].blck]
          BY <1>3, <2>1, <4>1 DEF CacheInv, DiskCopies
        <4>3. QED
          BY <1>8, <4>1, <4>2
      <3>3. QED
        BY <3>1, <3>2
    <2>2. QED
      BY <2>1 DEF DiskCopies, OrgBits
  <1>19. LocksOK(cache)'
    <2>1. \A z \in Buffer : g[z].locked = IF LatBits(g[z]) THEN Locks(g[z].blck) ELSE 0
      BY <1>3 DEF CacheInv, LocksOK
    <2>2. Locks(NoBlock) = 0
      BY <1>4, NoBlockAssumption DEF Locks
    <2>3. \A z \in Buffer : cache'[z].locked =
            IF LatBits(cache'[z]) THEN Locks(cache'[z].blck) ELSE 0
      BY <1>3, <1>9, <1>10, <1>11, <1>12, <1>14, <2>1, <2>2
    <2>4. QED
      BY <1>2, <2>3 DEF LocksOK, Locks, LatBits, client
  <1>20. CachedOK(cache)'
    <2>1. ASSUME NEW a \in held
          PROVE  \E z \in Buffer : cache'[z].blck = a /\ LatBits(cache'[z])
      <3>1. PICK z \in Buffer : g[z].blck = a /\ LatBits(g[z])
        BY <1>3 DEF CacheInv, CachedOK
      <3>2. CASE a = b
        BY <1>3, <1>4, <1>10, <1>11, <1>14, <3>2
      <3>3. CASE a # b
        BY <1>3, <1>11, <3>1, <3>3
      <3>4. QED
        BY <3>2, <3>3
    <2>2. QED
      BY <1>2, <1>4, <2>1 DEF CachedOK, LatBits, client
  <1>21. CleanOK(cache)'
    <2>1. ASSUME NEW z \in Buffer, cache'[z].bits = Clean, cache'[z].blck # NoBlock
          PROVE  LET a == cache'[z].blck
                 IN /\ op'[1][a].kind = "none"
                    /\ a \in live => op'[0][a].kind = "none"
      <3>1. CASE z = x
        BY <1>4, <1>5, <1>11, <2>1, <3>1, Operations
      <3>2. CASE z # x
        <4>1. cache'[z] = g[z] /\ g[z].blck \in Block \ {b}
          BY <1>9, <1>12, <1>13, <1>15, <2>1, <3>2 DEF Shapes, CacheBuffer
        <4>2. QED
          BY <1>3, <1>4, <1>5, <2>1, <4>1, Operations DEF CacheInv, CleanOK, Kind
      <3>3. QED
        BY <3>1, <3>2
    <2>2. QED
      BY <1>2, <1>4, <2>1 DEF CleanOK, Kind, client
  <1>22. OriginalsOK(cache)'
    <2> SUFFICES ASSUME ~ReuseMayFail PROVE OriginalsOK(cache)'
      BY DEF OriginalsOK
    <2>1. ASSUME NEW z \in Buffer, cache'[z].bits = Org
          PROVE  op'[0][cache'[z].blck].kind # "none"
      <3>1. /\ cache'[z] = g[z] /\ g[z].blck # b /\ g[z].blck \in Block
        <4>1. z # x
          BY <1>11, <2>1, Flags
        <4>2. cache'[z] = g[z]
          BY <1>9, <1>12, <2>1, <4>1
        <4>3. QED
          BY <1>3, <1>13, <2>1, <4>1, <4>2, Flags DEF CacheInv, Shapes, CacheBuffer
      <3>2. Kind(0, g[z].blck) # "none"
        BY <1>3, <1>4, <2>1, <3>1 DEF CacheInv, OriginalsOK
      <3>3. QED
        BY <1>5, <3>1, <3>2 DEF Kind
    <2>2. QED
      BY <2>1 DEF OriginalsOK, Kind
  <1>23. LatestsOK(cache)'
    <2> SUFFICES ASSUME ~ReuseMayFail PROVE LatestsOK(cache)'
      BY DEF LatestsOK
    <2>1. \A a \in Block : /\ LatestOperation(op', a) = op'[0][a]
                           /\ LatestOperation(op, a) = op[0][a]
      BY <1>4, <1>5 DEF LatestOperation
    <2>2. ASSUME NEW z \in Buffer, LatBits(cache'[z]), cache'[z].blck \in live
          PROVE  Fits(cache'[z], LatestOperation(op', cache'[z].blck), disk'[cache'[z].blck])
      <3>1. PICK a \in Block : a = cache'[z].blck
        BY <2>2 DEF Inv, OpsInv, TypeOK
      <3>2. CASE z = x
        <4>1. a = b /\ cache'[x].data = disk'[b] /\ cache'[x].bits = Clean
          BY <1>4, <1>8, <1>11, <3>1, <3>2, NoBlockAssumption
        <4>2. Uncompress(disk'[b], EmptyDiff) = disk'[b]
          BY <1>8, Diffs
        <4>3. LatestOperation(op', b) = NoOperation
          BY <1>5, <2>1
        <4>4. QED
          BY <3>1, <3>2, <4>1, <4>2, <4>3, Operations, Flags DEF Fits
      <3>3. CASE z # x
        <4>1. cache'[z] = g[z] /\ a # b
          BY <1>9, <1>12, <1>13, <2>2, <3>1, <3>3, NoBlockAssumption
        <4>2. Fits(g[z], LatestOperation(op, a), disk[a])
          BY <1>3, <1>4, <2>2, <3>1, <4>1 DEF CacheInv, LatestsOK
        <4>3. LatestOperation(op', a) = LatestOperation(op, a) /\ disk'[a] = disk[a]
          BY <1>5, <1>8, <2>1, <4>1
        <4>4. QED
          BY <3>1, <4>1, <4>2, <4>3
      <3>4. QED
        BY <3>2, <3>3
    <2>3. QED
      BY <1>2, <1>4, <2>2 DEF LatestsOK, LatBits, client
  <1>24. OpsInv'
    <2> USE DEF client
    <2>1. TypeOK'
      BY <1>2, <1>5, <1>8, <1>11 DEF Inv, OpsInv, TypeOK
    <2>2. OperationsOK'
      BY <1>5, Operations DEF Inv, OpsInv, OperationsOK, Kind
    <2>3. NestOK'
      BY <1>2, <1>5, Operations DEF Inv, OpsInv, NestOK, Kind
    <2>4. LevelsOK'
      BY <1>2, <1>4, <1>5, Operations DEF Inv, OpsInv, LevelsOK, Kind
    <2>5. QED
      BY <2>1, <2>2, <2>3, <2>4 DEF OpsInv
  <1>25. QED
    BY <1>15, <1>16, <1>17, <1>18, <1>19, <1>20, <1>21, <1>22, <1>23,
       <1>24 DEF Inv, CacheInv

-----------------------------------------------------------------------------
(* What follows from the invariant. *)

\* A set of buffers of a block has one element at most.
LEMMA AtMostOne ==
  ASSUME NEW S, \A x, y \in S : x = y
  PROVE  Cardinality(S) <= 1
  <1>1. CASE S = {}
    BY <1>1, FS_EmptySet
  <1>2. CASE S # {}
    <2>1. PICK x : x \in S
      BY <1>2
    <2>2. S = {x}
      BY <2>1
    <2>3. QED
      BY <2>2, FS_Singleton
  <1>3. QED
    BY <1>1, <1>2

\* Of one block, a set contains one or none.
LEMMA OneOrNone ==
  ASSUME NEW b, NEW S
  PROVE  Cardinality({b} \cap S) = IF b \in S THEN 1 ELSE 0
  <1>1. CASE b \in S
    <2>1. {b} \cap S = {b}
      BY <1>1
    <2>2. QED
      BY <1>1, <2>1, FS_Singleton
  <1>2. CASE b \notin S
    <2>1. {b} \cap S = {}
      BY <1>2
    <2>2. QED
      BY <1>2, <2>1, FS_EmptySet
  <1>3. QED
    BY <1>1, <1>2

\* What the flags of the buffers say, in the words of the code.
LEMMA Words ==
  ASSUME Inv, NEW x \in Buffer
  PROVE  /\ "ORIGINAL" \in cache[x].bits <=> OrgBits(cache[x])
         /\ "LATEST" \in cache[x].bits <=> LatBits(cache[x])
         /\ "EMPTY" \in cache[x].bits <=> cache[x].bits = Fresh
         /\ OriginalOnly(cache[x]) <=> cache[x].bits = Org
         /\ LatestOnly(cache[x]) <=> cache[x].bits \in {Changed, Fresh}
         /\ OrgBits(cache[x]) \/ LatBits(cache[x]) \/ cache[x].blck = NoBlock
         /\ cache[x].blck \in Block \cup {NoBlock}
  <1>1. cache[x].bits \in {{}, Org, Clean, Changed, Fresh}
    BY DEF Inv, CacheInv, Shapes
  <1>2. QED
    BY <1>1, Flags DEF OriginalOnly, LatestOnly, OrgBits, LatBits, Inv, CacheInv, Shapes,
       CacheBuffer

\* The rules for the flags that hold whatever fails.
LEMMA InvFlags ==
  ASSUME Inv
  PROVE  TypeOK /\ OneOfAKind /\ OriginalStays
  <1>1. TypeOK
    BY DEF Inv, OpsInv
  <1>2. OneOfAKind
    <2>1. ASSUME NEW b \in Block
          PROVE  /\ Cardinality(Originals(cache, b)) <= 1
                 /\ Cardinality(Latests(cache, b)) <= 1
      <3>1. /\ \A x, y \in Originals(cache, b) : x = y
            /\ \A x, y \in Latests(cache, b) : x = y
        BY Finds, NoBlockAssumption DEF Inv, CacheInv, Singles
      <3>2. QED
        BY <3>1, AtMostOne
    <2>2. QED
      BY <2>1 DEF OneOfAKind
  <1>3. OriginalStays
    <2>1. ASSUME NEW x \in Buffer, LatestOnly(cache[x]), "EMPTY" \notin cache[x].bits
          PROVE  Originals(cache, cache[x].blck) # {}
      <3>1. cache[x].bits = Changed
        BY <2>1, Words
      <3>2. PICK y \in Buffer : cache[y].blck = cache[x].blck /\ OrgBits(cache[y])
        BY <3>1 DEF Inv, CacheInv, Copies
      <3>3. QED
        BY <3>2, Words DEF Originals
    <2>2. QED
      BY <2>1 DEF OriginalStays
  <1>4. QED
    BY <1>1, <1>2, <1>3

\* The rules that tell which blocks have operations.
LEMMA InvRules ==
  ASSUME Inv, ~ReuseMayFail
  PROVE  RulesKept
  <1>1. TypeOK /\ OneOfAKind /\ OriginalStays
    BY InvFlags
  <1>2. ModifiedHasOperation
    <2>1. ASSUME NEW x \in Buffer, OriginalOnly(cache[x]) \/ LatestOnly(cache[x]),
                 cache[x].blck \in live \ prepared
          PROVE  cache[x].blck \in Pending(op)
      <3>1. PICK b \in Block : b = cache[x].blck
        BY <2>1 DEF Inv, OpsInv, TypeOK
      <3>2. CASE cache[x].bits = Org
        <4>1. Kind(0, b) # "none" \/ Kind(1, b) # "none"
          BY <2>1, <3>1, <3>2 DEF Inv, CacheInv, OriginalsOK
        <4>2. QED
          BY <3>1, <4>1, NoneIs DEF Inv, Pending, Level
      <3>3. CASE cache[x].bits \in {Changed, Fresh}
        <4>1. LatestOperation(op, b).kind # "none"
          <5>1. Fits(cache[x], LatestOperation(op, b), disk[b])
            BY <2>1, <3>1, <3>3 DEF Inv, CacheInv, LatestsOK, LatBits
          <5>2. QED
            BY <3>3, <5>1 DEF Fits
        <4>2. Kind(0, b) # "none" \/ Kind(1, b) # "none"
          BY <4>1, LatestIs DEF Inv, Kind
        <4>3. QED
          BY <3>1, <4>2, NoneIs DEF Inv, Pending, Level
      <3>4. QED
        BY <2>1, <3>2, <3>3, Words
    <2>2. QED
      BY <2>1 DEF ModifiedHasOperation
  <1>3. FlushedCacheIsClean
    <2>1. ASSUME flushing, Pending(op) = {}, NEW x \in Buffer, OriginalOnly(cache[x])
          PROVE  FALSE
      <3>1. cache[x].bits = Org /\ cache[x].blck \in Block
        BY <2>1, Words, Flags DEF Inv, CacheInv, Shapes
      <3>2. prepared = {}
        BY <2>1 DEF Inv, OpsInv, NestOK
      <3>3. Kind(0, cache[x].blck) # "none" \/ Kind(1, cache[x].blck) # "none"
        BY <3>1, <3>2 DEF Inv, CacheInv, OriginalsOK
      <3>4. QED
        BY <2>1, <3>1, <3>3, NoneIs DEF Inv, Pending, Level
    <2>2. QED
      BY <2>1 DEF FlushedCacheIsClean
  <1>4. QED
    BY <1>1, <1>2, <1>3 DEF RulesKept

\* What original buffers hold, and the locks.
LEMMA InvBuffers ==
  ASSUME Inv
  PROVE  OriginalIsDisk /\ LocksKept
  <1>1. OriginalIsDisk
    BY Words DEF OriginalIsDisk, Inv, CacheInv, DiskCopies
  <1>2. LocksKept
    <2>1. ASSUME NEW x \in Buffer
          PROVE  cache[x].locked = IF "LATEST" \in cache[x].bits
                                     THEN Cardinality({cache[x].blck} \cap held)
                                          + Cardinality({cache[x].blck} \cap prepared)
                                     ELSE 0
      <3>1. Cardinality({cache[x].blck} \cap held) = IF cache[x].blck \in held THEN 1 ELSE 0
        BY OneOrNone
      <3>2. Cardinality({cache[x].blck} \cap prepared)
              = IF cache[x].blck \in prepared THEN 1 ELSE 0
        BY OneOrNone
      <3>3. QED
        BY <3>1, <3>2, Words DEF Inv, CacheInv, LocksOK, Locks
    <2>2. QED
      BY <2>1 DEF LocksKept
  <1>3. QED
    BY <1>1, <1>2

\* What the latest buffers hold.
LEMMA InvCoherent ==
  ASSUME Inv, ~ReuseMayFail
  PROVE  Coherent
  <1>1. ASSUME NEW b \in live \ prepared
        PROVE  View(b) = Image(LatestOperation(op, b), b)
    <2>1. b \in Block
      BY DEF Inv, OpsInv, TypeOK
    <2>2. CASE Latests(cache, b) = {}
      BY <2>2 DEF View
    <2>3. CASE Latests(cache, b) # {}
      <3>1. Latest(cache, b) \in Buffer /\ cache[Latest(cache, b)].blck = b
            /\ LatBits(cache[Latest(cache, b)])
        BY <2>1, <2>3, Finds DEF Inv, CacheInv
      <3>2. Fits(cache[Latest(cache, b)], LatestOperation(op, b), disk[b])
        BY <3>1 DEF Inv, CacheInv, LatestsOK
      <3>3. QED
        BY <2>3, <3>2 DEF View, Image, Fits
    <2>4. QED
      BY <2>2, <2>3
  <1>2. QED
    BY <1>1 DEF Coherent

-----------------------------------------------------------------------------
(* The theorems.                                                           *)

\* Every step keeps the invariant.
LEMMA StepInv ==
  ASSUME Inv, [Next]_vars
  PROVE  Inv'
  <1>1. CASE UNCHANGED vars
    <2>1. CacheInv(cache)'
      BY <1>1, Frame DEF vars, Inv
    <2>2. OpsInv'
      BY <1>1, <2>1, FrameOps DEF vars, Inv, CacheInv, OpsInv, NestOK, TypeOK
    <2>3. QED
      BY <2>1, <2>2 DEF Inv
  <1>2. CASE Next
    BY <1>2, NewTransactionStep, EndStep, DeleteStep, FlushSteps, TakeBufferStep,
       InvalidateStep, ReadStep, LockSteps, PrepareStep, NewStep, StoreStep, DumpStep,
       FreeStep, WriteStep, CancelFlushStep, ModifyStep DEF Next
  <1>3. QED
    BY <1>1, <1>2

\* The invariant, in every reachable state.
LEMMA SpecInv == Spec => []Inv
  <1>1. Inv /\ [Next]_vars => Inv'
    BY StepInv
  <1>2. QED
    BY <1>1, InitInv, PTL DEF Spec

\* A buffer marked CB_ORIGINAL is what the disk holds, so that the diff of a
\* changed block is against the disk and not against an earlier change.
THEOREM SpecOriginalIsDisk == Spec => []OriginalIsDisk
  BY SpecInv, InvBuffers, PTL

\* Every lock on a buffer is one that a client took and has not given back.
THEOREM SpecLocksKept == Spec => []LocksKept
  BY SpecInv, InvBuffers, PTL

\* Of the "CacheBuffer rules" of transactions.c, those that hold whatever fails:
\* one original and one latest buffer of a block at most, and the original of a
\* changed block is there as long as the changed buffer.
THEOREM SpecFlagsKept == Spec => [](TypeOK /\ OneOfAKind /\ OriginalStays)
  BY SpecInv, InvFlags, PTL

\* All the "CacheBuffer rules" hold after every call when no transaction fails
\* after it reused a block: the two others are that a block in use whose buffer
\* was changed has an operation, and that a flushed cache has no original alone.
THEOREM SpecRulesKept ==
  ASSUME ~ReuseMayFail
  PROVE  Spec => []RulesKept
  BY SpecInv, InvRules, PTL

\* What is cached for a block is what its latest operation makes of the block on
\* disk, so that getcachebuffer may take the buffer at any time; when no
\* transaction fails after it reused a block.
THEOREM SpecCoherent ==
  ASSUME ~ReuseMayFail
  PROVE  Spec => []Coherent
  BY SpecInv, InvCoherent, PTL
=============================================================================
