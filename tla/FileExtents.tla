----------------------------- MODULE FileExtents -----------------------------
(***************************************************************************)
(* A file's blocks and the positions in it (filesystemmain.c, locks.c).    *)
(* The blocks of a file are a chain of extents, linked in both directions. *)
(* An extent is found by its first block, its key, in the B-tree (module   *)
(* BTree, here a function of the keys).  An open file has a GlobalHandle   *)
(* with its size and first extent, and a lock has a position: an offset,   *)
(* the extent it is in (zero when it must be looked for) and the offset in *)
(* that extent.                                                            *)
(*                                                                         *)
(* The operators take and return the state s of an operation.  s.room is   *)
(* how many of its steps succeed before one fails (a block cannot be read  *)
(* or stored, there is no room for an administration block or for the      *)
(* log).                                                                   *)
(***************************************************************************)
EXTENDS SpaceAllocation

CONSTANTS Files,        \* the object nodes of files
          Locks,        \* struct ExtFileLock with a GlobalHandle
          BlockSize,    \* bytes_block
          AddLimit,     \* 8192, the most blocks addblocks takes
          ExtentLimit   \* 65536, more than an extent has

ASSUME LimitsAssumption ==
  BlockSize \in Nat \ {0} /\ AddLimit \in Nat \ {0} /\ ExtentLimit > AddLimit

Extent(prev, next, blocks) == [prev |-> prev, next |-> next, blocks |-> blocks]
With(f, x, y) == [z \in DOMAIN f \cup {x} |-> IF z = x THEN y ELSE f[z]]
Without(f, x) == [z \in DOMAIN f \ {x} |-> f[z]]
Larger(a, b) == IF a < b THEN b ELSE a

BlocksIn(bytes) == (bytes + BlockSize - 1) \div BlockSize

Failed(s) == [s EXCEPT !.error = TRUE]
\* The state after a step, or after its failure.
Step(s, after) == IF s.error \/ s.room = 0 THEN Failed(s)
                  ELSE [after EXCEPT !.room = s.room - 1]

\* The number of blocks of the file before the extent.
RECURSIVE BlocksBefore(_, _)
BlocksBefore(extents, key) ==
  LET prev == extents[key].prev
  IN IF prev \in Files THEN 0
     ELSE BlocksBefore(extents, prev) + extents[prev].blocks

RECURSIVE ChainFrom(_, _)
ChainFrom(extents, key) ==
  IF key = 0 THEN <<>> ELSE <<key>> \o ChainFrom(extents, extents[key].next)

-----------------------------------------------------------------------------
(* Positions.                                                                *)

Found(key, start, error) == [key |-> key, start |-> start, error |-> error]
NotFound == Found(0, 0, TRUE)

RECURSIVE SeekFrom(_, _, _, _)
SeekFrom(extents, key, start, offset) ==
  LET e == extents[key]
      end == start + e.blocks * BlockSize
  IN IF key \notin DOMAIN extents THEN NotFound   \* INTERR_BTREE
     ELSE IF start <= offset /\ offset < end THEN Found(key, start, FALSE)
     ELSE IF e.next = 0 THEN Found(key, start, offset > end)
     ELSE SeekFrom(extents, e.next, end, offset)

\* seekextent: from the lock's own extent, or from the first one.
SeekExtent(s, l, offset) ==
  LET lock == s.locks[l]
      gh == s.gh[lock.file]
      start == lock.offset - lock.extentoffset
  IN IF offset > gh.size THEN NotFound
     ELSE IF lock.curextent # 0 /\ offset >= start
       THEN SeekFrom(s.extents, lock.curextent, start, offset)
     ELSE IF gh.data = 0 THEN Found(0, 0, FALSE)
     ELSE SeekFrom(s.extents, gh.data, 0, offset)

\* seek
SeekTo(s, l, offset) ==
  LET found == SeekExtent(s, l, offset)
  IN IF found.error THEN Failed(s)
     ELSE [s EXCEPT !.locks[l].curextent = found.key,
                    !.locks[l].extentoffset = offset - found.start,
                    !.locks[l].offset = offset]

\* A wrong SeekToCurrent, for TLC: always to the first extent.
SeekToCurrentFirst(s, l) ==
  LET lock == s.locks[l]
  IN IF lock.curextent # 0 THEN s
     ELSE [s EXCEPT !.locks[l].curextent = s.gh[lock.file].data]

\* seektocurrent
SeekToCurrent(s, l) ==
  LET lock == s.locks[l]
  IN IF lock.curextent # 0 THEN s
     ELSE IF lock.offset = 0
       THEN [s EXCEPT !.locks[l].curextent = s.gh[lock.file].data]
     ELSE SeekTo(s, l, lock.offset)

\* seekforward, in extent e or to the beginning of the next one
SeekForward(s, l, e, bytes) ==
  LET extentoffset == s.locks[l].extentoffset + bytes
      on == extentoffset >= e.blocks * BlockSize /\ e.next # 0
  IN [s EXCEPT !.locks[l].offset = @ + bytes,
               !.locks[l].extentoffset = IF on THEN 0 ELSE extentoffset,
               !.locks[l].curextent = IF on THEN e.next ELSE @]

\* A wrong FixLocks, for TLC: only locks in the last extent are moved.
FixLocksNear(s, f, lastkey, lastoffset, length) ==
  [s EXCEPT !.locks = [l \in Locks |->
    LET lock == s.locks[l]
        start == lock.offset - lock.extentoffset
    IN IF lock.file # f THEN lock
       ELSE IF length = 0
         THEN [lock EXCEPT !.offset = 0, !.extentoffset = 0, !.curextent = 0]
       ELSE IF lock.offset <= length \/ start >= length THEN lock
       ELSE [lock EXCEPT !.offset = length, !.curextent = lastkey,
                         !.extentoffset = length - lastoffset]]]

\* fixlocks: to the end of the file with the locks that are beyond it
FixLocks(s, f, lastkey, lastoffset, length) ==
  [s EXCEPT !.locks = [l \in Locks |->
    LET lock == s.locks[l]
        start == lock.offset - lock.extentoffset
    IN IF lock.file # f THEN lock
       ELSE IF length = 0
         THEN [lock EXCEPT !.offset = 0, !.extentoffset = 0, !.curextent = 0]
       ELSE IF lock.offset <= length THEN lock
       ELSE IF start >= length
         THEN [lock EXCEPT !.offset = length, !.extentoffset = length - start]
       ELSE [lock EXCEPT !.offset = length, !.curextent = lastkey,
                         !.extentoffset = length - lastoffset]]]

-----------------------------------------------------------------------------
(* More blocks for a file.                                                   *)

\* What a new block holds counts as the file's contents from now on.
Given(s, f, block, n, first) ==
  [b \in Volume |-> IF b \in Blocks(block, n) THEN <<f, first + b - block>>
                    ELSE s.disk[b]]

\* addblocks: to the last extent when they touch it, or in a new one.
AddBlocks(s, n, newspace, f, last) ==
  LET e == s.extents[last]
      touches == last + e.blocks = newspace /\ e.blocks + n < ExtentLimit
      before == IF last = 0 THEN 0 ELSE BlocksBefore(s.extents, last) + e.blocks
      prev == IF last = 0 THEN f ELSE last
      linked == IF last = 0 THEN s.extents
                ELSE [s.extents EXCEPT ![last].next = newspace]
      extents == IF last # 0 /\ touches
                   THEN [s.extents EXCEPT ![last].blocks = @ + n]
                   ELSE With(linked, newspace, Extent(prev, 0, n))
  IN Step(s, [s EXCEPT !.extents = extents,
                       !.last = IF last # 0 /\ touches THEN last ELSE newspace,
                       !.disk = Given(s, f, newspace, n, before)])

RECURSIVE AddFragment(_, _, _, _)
AddFragment(s, l, block, n) ==
  LET blocks == Lesser(n, AddLimit)
      added == AddBlocks(s, blocks, block, s.locks[l].file, s.last)
      r == [added EXCEPT !.locks[l].curextent = IF @ = 0 THEN added.last ELSE @]
  IN IF n = 0 THEN s
     ELSE IF added.error THEN added
     ELSE AddFragment(r, l, block + blocks, n - blocks)

RECURSIVE AddFragments(_, _, _)
AddFragments(s, l, list) ==
  IF list = <<>> THEN s
  ELSE LET r == AddFragment(s, l, list[1].block, list[1].blocks)
       IN IF r.error THEN r ELSE AddFragments(r, l, Tail(list))

RECURSIVE AddSpace(_, _, _, _)
AddSpace(s, l, blocks, roving) ==
  LET searchstart == IF s.last = 0 THEN roving
                     ELSE s.last + s.extents[s.last].blocks
      list == SpaceList(s.free, searchstart, blocks)
      r == AddFragments([s EXCEPT !.free = @ \ BlocksOf(list)], l, list)
  IN IF s.error \/ blocks = 0 THEN s
     ELSE IF ~EnoughSpace(s.free, blocks) \/ list = <<>> THEN Failed(s)
     ELSE AddSpace(r, l, blocks - SumOf(list), roving)

\* extendblocksinfile
ExtendBlocksInFile(s, l, blocks, roving) ==
  LET r == SeekToCurrent(s, l)
      key == r.locks[l].curextent
      chain == ChainFrom(r.extents, key)
  IN IF r.error \/ key \notin DOMAIN r.extents \cup {0} THEN Failed(r)
     ELSE AddSpace([r EXCEPT !.last = IF key = 0 THEN 0 ELSE chain[Len(chain)]],
                   l, blocks, roving)

-----------------------------------------------------------------------------
(* Fewer blocks for a file.                                                  *)

FreeSpace(s, block, n) == [s EXCEPT !.free = @ \cup Blocks(block, n)]

\* deleteextents
RECURSIVE DeleteExtents(_, _)
DeleteExtents(s, key) ==
  LET e == s.extents[key]
      freed == FreeSpace(s, key, e.blocks)
  IN IF key = 0 \/ s.error THEN s
     ELSE DeleteExtents(
            Step(s, [freed EXCEPT !.extents = Without(@, key)]), e.next)

\* truncateblocksinfile.  lastkey and lastoffset are *lastextentkey and
\* *lastextentoffset; the result of deleteextents is not looked at when the
\* file is cut off at the beginning of an extent.
TruncateBlocksInFile(s, l, blocks) ==
  LET found == SeekExtent(s, l, blocks * BlockSize)
      key == found.key
      e == s.extents[key]
      f == s.locks[l].file
      left == blocks - found.start \div BlockSize
      all == [DeleteExtents(s, key) EXCEPT !.error = FALSE]
      cut == Step(s, [FreeSpace(s, key + left, e.blocks - left)
                        EXCEPT !.extents[key] = Extent(e.prev, 0, left),
                               !.lastkey = key, !.lastoffset = found.start])
  IN IF found.error THEN Failed(s)
     ELSE IF left > 0 THEN DeleteExtents(cut, IF cut.error THEN 0 ELSE e.next)
     ELSE IF e.prev \in Files
       THEN Step(all, [all EXCEPT !.files[e.prev].data = 0, !.gh[f].data = 0,
                                  !.lastkey = 0, !.lastoffset = 0])
     ELSE Step(all, [all EXCEPT !.extents[e.prev].next = 0,
                                !.lastkey = e.prev,
                                !.lastoffset = found.start
                                  - s.extents[e.prev].blocks * BlockSize])

\* deletefileslowly: one extent less, the last one first, each in a
\* transaction of its own; and at last the object itself.
RECURSIVE DeleteFileSlowly(_, _)
DeleteFileSlowly(s, f) ==
  LET chain == ChainFrom(s.extents, s.files[f].data)
      key == chain[Len(chain)]
      e == s.extents[key]
      gone == [FreeSpace(s, key, e.blocks) EXCEPT !.extents = Without(@, key)]
      r == IF e.prev \in Files
             THEN [gone EXCEPT !.files[f] = [size |-> 0, data |-> 0]]
             ELSE [gone EXCEPT !.extents[e.prev].next = 0]
  IN IF s.error \/ chain = <<>> THEN s ELSE DeleteFileSlowly(Step(s, r), f)
=============================================================================
