---------------------------- MODULE Defragmenter ----------------------------
(***************************************************************************)
(* The defragmenter (filesystemmain.c).  A step looks at the block at      *)
(* defragptr and moves an extent or two: it puts the beginning of a file   *)
(* there, fills the gap behind an extent with the one that follows it in   *)
(* the file, or makes room by moving what is in the way to the end of the  *)
(* volume.  A step is one transaction: when a part of it fails, all of it  *)
(* is rolled back.  s.moves are the MOVE records it returns.               *)
(*                                                                         *)
(* The numbers the code looks ahead (256 and 1024 blocks), the 512 files   *)
(* it scans and the 300 fragments it remembers are more than there are.    *)
(***************************************************************************)
EXTENDS FileExtents

CONSTANTS MoveLimit,    \* OPTBUFSIZE>>shifts_block
          MovesMax      \* MOVE records there is room for

ASSUME MoveAssumption == MoveLimit \in Nat \ {0} /\ MovesMax \in Nat \ {0}

FreeFrom(s, block) == AvailableSpace(s.free, block, Total)
FirstExtent(s, key) == s.extents[key].prev \in Files

-----------------------------------------------------------------------------
(* The chain of extents.                                                     *)

SetNextExtent(s, next, key) ==
  IF next = 0 THEN s ELSE [s EXCEPT !.extents[next].prev = key]

SetPrevExtent(s, prev, key) ==
  IF prev \in Files THEN [s EXCEPT !.files[prev].data = key]
                    ELSE [s EXCEPT !.extents[prev].next = key]

\* A wrong MergeExtent, for TLC: the extent after the two still points to the
\* one that is gone.
MergeExtentQuietly(s, key) ==
  LET e == s.extents[key]
      e2 == s.extents[e.next]
  IN IF e.next = 0 \/ key + e.blocks # e.next THEN s
     ELSE [s EXCEPT !.extents = Without(With(@, key,
            Extent(e.prev, e2.next, e.blocks + e2.blocks)), e.next)]

\* mergeextent: with the next extent, when they touch
MergeExtent(s, key) ==
  LET e == s.extents[key]
      e2 == s.extents[e.next]
      merged == With(s.extents, key,
                     Extent(e.prev, e2.next, e.blocks + e2.blocks))
  IN IF e.next = 0 \/ key + e.blocks # e.next THEN s
     ELSE IF e.blocks + e2.blocks >= ExtentLimit THEN s
     ELSE SetNextExtent([s EXCEPT !.extents = Without(merged, e.next)],
                        e2.next, key)

\* insertextent: into the chain, or as a part of an extent that touches it
InsertExtent(s, key, next, prev, n) ==
  LET e == s.extents[prev]
      new == [s EXCEPT !.extents = With(@, key, Extent(prev, next, n))]
  IN IF prev \notin Files /\ prev + e.blocks = key /\ e.blocks + n < ExtentLimit
       THEN MergeExtent([s EXCEPT !.extents[prev].blocks = @ + n], prev)
     ELSE MergeExtent(SetNextExtent(SetPrevExtent(new, prev, key), next, key),
                      key)

\* deleteextent
DeleteExtent(s, key) ==
  LET e == s.extents[key]
      gone == [s EXCEPT !.extents = Without(@, key)]
  IN SetPrevExtent(SetNextExtent(gone, e.next, e.prev), e.prev, e.next)

\* truncateextent, n blocks at the start of the extent
TruncateExtent(s, key, n) ==
  LET e == s.extents[key]
      moved == [s EXCEPT !.extents = With(Without(@, key), key + n,
                  Extent(e.prev, e.next, e.blocks - n))]
  IN SetPrevExtent(SetNextExtent(moved, e.next, key + n), e.prev, key + n)

\* A wrong Copied, for TLC: the last block is left out.
CopiedShort(disk, source, dest, n) ==
  [b \in Volume |-> IF b \in Blocks(dest, n - 1) THEN disk[source + b - dest]
                    ELSE disk[b]]

\* copy
Copied(disk, source, dest, n) ==
  [b \in Volume |-> IF b \in Blocks(dest, n) THEN disk[source + b - dest]
                    ELSE disk[b]]

\* moveextent: all of the extent, or its first n blocks.  markspace fails
\* when the blocks are not free.
MoveExtent(s, key, dest, n) ==
  LET e == s.extents[key]
      whole == n = e.blocks
      marked == [s EXCEPT !.free = (@ \ Blocks(dest, n)) \cup Blocks(key, n),
                          !.disk = Copied(@, key, dest, n)]
      taken == IF whole THEN DeleteExtent(marked, key)
               ELSE IF n = 0 THEN marked
               ELSE TruncateExtent(marked, key, n)
      r == InsertExtent(taken, dest, IF whole THEN e.next ELSE key + n,
                        e.prev, n)
      move == [blocks |-> n, from |-> key, to |-> dest]
  IN IF ~(Blocks(dest, n) \subseteq s.free) THEN Failed(s)
     ELSE [r EXCEPT !.moves = Append(@, move)]

-----------------------------------------------------------------------------
(* Making room.                                                              *)

\* fillgap, with the gap at block and the extents from next on
RECURSIVE FillGapFrom(_, _, _)
FillGapFrom(s, block, next) ==
  LET e == s.extents[next]
      n == FreeFrom(s, block)
      r == MoveExtent(s, next, block, Lesser(n, e.blocks))
      more == n > e.blocks /\ Len(s.moves) < MovesMax /\ e.next # 0
  IN IF more /\ ~r.error THEN FillGapFrom(r, block + e.blocks, e.next) ELSE r

FillGap(s, key) ==
  FillGapFrom(s, key + s.extents[key].blocks, s.extents[key].next)

\* getbnode: the first extent at block or after it
GetBNode(s, block) ==
  LET keys == {key \in DOMAIN s.extents : key >= block}
  IN IF keys = {} THEN 0 ELSE Least(keys)

\* One move of makefreespace, from block's extent to the end of the volume.
MovedToEnd(s, key) ==
  LET n == Lesser(MoveLimit, s.extents[key].blocks)
      space == FindSpaceBackwards(s.free, n, key, Total)
  IN IF key \notin DOMAIN s.extents \/ space.blocks = 0 THEN Failed(s)
     ELSE MoveExtent(s, key, space.block, space.blocks)

\* makefreespace: one move, and a second one unless that is the beginning of
\* a file or has no room.
SecondToEnd(s, block) ==
  LET key == GetBNode(s, block)
      n == Lesser(MoveLimit, s.extents[key].blocks)
  IN IF s.error \/ key = 0 \/ FirstExtent(s, key) THEN s
     ELSE IF FindSpaceBackwards(s.free, n, key, Total).blocks = 0 THEN s
     ELSE MovedToEnd(s, key)
MakeFreeSpace(s, block) == SecondToEnd(MovedToEnd(s, block), block)

\* skipunmoveable.  findspace starts again at block 0 from the end.
SkipUnmoveable(s, block) ==
  LET key == GetBNode(s, block)
      used == block + AllocatedSpace(s.free, block, key - block)
      from == IF block >= Total THEN block - Total ELSE block
      space == {b \in s.free : b >= from}
  IN IF key = block THEN block
     ELSE IF key # 0 THEN Lesser(used, key)
     ELSE IF space # {} THEN Least(space) ELSE Total

-----------------------------------------------------------------------------
(* findmatch_fromend: a file to put at the block, of the size of the space   *)
(* or else smaller or else larger; or one that fills the space together with *)
(* one seen before.  The files are scanned from the last one on.             *)

\* newfragment_small: with a file scanned before, the key's file fills the space.
\* size[key] is the size of the file that begins at key.
Completes(size, blocks, key) ==
  LET before == {other \in DOMAIN size : other > key}
  IN /\ size[key] < blocks
     /\ \A other \in before : size[other] # size[key]
     /\ \E other \in before : /\ size[other] = blocks - size[key]
                              /\ size[other] # size[key]

\* newfragment_large: the largest of the smaller ones, else the smallest; of
\* equal ones the first that is scanned.
BestKey(size, blocks) ==
  LET smaller == {key \in DOMAIN size : size[key] < blocks}
      nearest == {key \in smaller : \A other \in smaller : size[other] <= size[key]}
      smallest == {key \in DOMAIN size :
                     \A other \in DOMAIN size : size[other] >= size[key]}
  IN Greatest(IF smaller # {} THEN nearest ELSE smallest)

FindMatchFromEnd(s, startblock, blocks) ==
  LET keys == {key \in DOMAIN s.extents :
                 key >= startblock /\ FirstExtent(s, key)}
      size == [key \in keys |-> BlocksIn(s.files[s.extents[key].prev].size)]
      ends == {key \in keys : size[key] = blocks \/ Completes(size, blocks, key)}
  IN IF keys = {} THEN 0
     ELSE IF ends # {} THEN Greatest(ends)
     ELSE BestKey(size, blocks)

-----------------------------------------------------------------------------
(* step                                                                      *)

\* After the extent come blocks that cannot be moved, and then block.
MoveTo(s, block, next) ==
  IF s.error \/ next \notin DOMAIN s.extents THEN Failed(s)
  ELSE MoveExtent(s, next, block,
                  Lesser(FreeFrom(s, block), s.extents[next].blocks))
BehindUnmoveable(s, block, next) ==
  LET r == IF FreeFrom(s, block) > 0 THEN s ELSE MakeFreeSpace(s, block)
      moved == IF block = next THEN s ELSE MoveTo(r, block, next)
  IN IF moved.error THEN moved ELSE [moved EXCEPT !.defragptr = block]

\* An extent that is where it should be.
BehindExtent(s, key) ==
  LET e == s.extents[key]
      end == key + e.blocks
      block == SkipUnmoveable(s, end)
  IN IF e.next = 0 \/ e.next = end THEN [s EXCEPT !.defragptr = @ + e.blocks]
     ELSE IF FreeFrom(s, end) > 0 THEN FillGap(s, key)
     ELSE IF block = end THEN MakeFreeSpace(s, block)
     ELSE BehindUnmoveable(s, block, e.next)

DefragmentOnce(s) ==
  LET p == s.defragptr
      free == FreeFrom(s, p)
      e == s.extents[p]
      best == FindMatchFromEnd(s, p, free)
  IN IF free > 0
       THEN IF best = 0 THEN s      \* DONE
            ELSE MoveExtent(s, best, p, Lesser(free, s.extents[best].blocks))
     ELSE IF p \notin DOMAIN s.extents
       THEN [s EXCEPT !.defragptr = SkipUnmoveable(s, p)]
     ELSE IF e.prev \in Files \/ e.prev < p THEN BehindExtent(s, p)
     ELSE MakeFreeSpace(s, p)

\* updatelocksaftermove, for every move of a step
RECURSIVE UpdateLocksAfterMoves(_, _)
UpdateLocksAfterMoves(s, moves) ==
  LET m == moves[1]
      r == [s EXCEPT
        !.locks = [l \in Locks |->
          IF @[l].curextent \in Blocks(m.from, m.blocks)
            THEN [@[l] EXCEPT !.curextent = 0, !.extentoffset = 0] ELSE @[l]],
        !.gh = [f \in Files |->
          IF @[f].data = m.from THEN [@[f] EXCEPT !.data = m.to] ELSE @[f]]]
  IN IF moves = <<>> THEN s ELSE UpdateLocksAfterMoves(r, Tail(moves))
=============================================================================
