--------------------------- MODULE SpaceAllocation ---------------------------
(***************************************************************************)
(* What the allocation of blocks (bitmap.c) computes from the bitmap, here *)
(* free, the set of the blocks whose bit is set.  Reading the bitmap does  *)
(* not fail here.                                                          *)
(***************************************************************************)
EXTENDS BitmapBlocks, Loops, Sequences, FiniteSets

CONSTANTS AlwaysFree,    \* ALWAYSFREE, and transactionspace()
          SpaceListMax   \* SPACELIST_MAX

ASSUME SpaceListAssumption == /\ AlwaysFree \in Nat
                              /\ SpaceListMax \in Nat \ {0}

-----------------------------------------------------------------------------
\* How many blocks from block on are in S: exactly, or more than enough when a
\* bitmap block ends there.
Counted(S, block, maxneeded) ==
  LET run == Least({b \in block..Total : b \notin S}) - block
      enough == {n \in 1..run : n >= maxneeded /\ (block + n) % PerBitmap = 0}
  IN IF enough = {} THEN run ELSE Least(enough)

AvailableSpace(free, block, maxneeded) == Counted(free, block, maxneeded)
AllocatedSpace(free, block, maxneeded) == Counted(Volume \ free, block, maxneeded)

EnoughSpace(free, blocks) == Cardinality(free) >= blocks + AlwaysFree

-----------------------------------------------------------------------------
(* smartfindandmarkspace: the fragments from startblock on, around the end   *)
(* of the volume, or only the first one that is large enough.                *)

\* A turn of the search: the free space at a block, and the used one after it.
FragmentTurn(free, startblock, needed, at) ==
  LET block == at.block
      n == AvailableSpace(free, block, needed)
      around == block < startblock /\ block + n >= startblock
      cut == IF around THEN startblock - block ELSE n
      found == IF n > 0 THEN Append(at.list, Fragment(block, cut)) ELSE at.list
      past == block + n
      used == IF past >= Total THEN 0 ELSE past
      a == AllocatedSpace(free, used, 2 * PerBitmap)
      next == IF used + a >= Total THEN 0 ELSE used + a
      \* the three places where the search ends
      Ends == \/ n > 0 /\ around
              \/ startblock = 0 /\ (past >= Total \/ used + a >= Total)
              \/ used < startblock /\ used + a >= startblock
  IN IF at.done THEN at
     ELSE IF n > 0 /\ n >= needed
       THEN [block |-> block, list |-> <<Fragment(block, n)>>, done |-> TRUE]
     ELSE [block |-> next, list |-> found,
           done |-> Ends \/ Len(found) = SpaceListMax]

\* A turn goes on by a block at least.
Fragments(free, startblock, needed) ==
  LET Turn(at) == FragmentTurn(free, startblock, needed, at)
  IN Repeat(Turn, [block |-> startblock, list |-> <<>>, done |-> FALSE], Total).list

\* The blocks in the first fragments of a list.
Sums(list) ==
  LET sum[n \in 0..Len(list)] == IF n = 0 THEN 0 ELSE sum[n - 1] + list[n].blocks
  IN sum
SumOf(list) == Sums(list)[Len(list)]

\* Fragments of the smallest size are dropped, one after the other, as long as
\* enough is left.
DropTurn(smallest, needed, at) ==
  LET dropped == [at.list EXCEPT ![at.n].blocks = 0]
  IN IF at.done THEN at
     ELSE IF at.list[at.n].blocks # smallest THEN [at EXCEPT !.n = @ + 1]
     ELSE [n |-> at.n + 1, list |-> dropped,
           done |-> SumOf(dropped) < needed + smallest]

DropSmallest(list, smallest, needed) ==
  LET Turn(at) == DropTurn(smallest, needed, at)
  IN Repeat(Turn, [n |-> 1, list |-> list, done |-> FALSE], Len(list)).list

\* A round over the list, for the next larger size after it.
DropRound(needed, at) ==
  LET left == DropSmallest(at.list, at.smallest, needed)
      sizes == {left[n].blocks : n \in DOMAIN left} \ 0..at.smallest
  IN IF at.done \/ SumOf(at.list) < needed + at.smallest
       THEN [at EXCEPT !.done = TRUE]
     ELSE [list |-> left, smallest |-> IF sizes = {} THEN 0 ELSE Least(sizes),
           done |-> sizes = {}]

\* The rounds: one for the size 1, one for each size there is.
Drop(list, needed) ==
  LET Turn(at) == DropRound(needed, at)
  IN Repeat(Turn, [list |-> list, smallest |-> 1, done |-> FALSE],
            Len(list) + 1).list

\* What is marked of each fragment: all of it, but not more than is needed
\* after those before it.
Marked(list, needed) ==
  [n \in DOMAIN list |->
     Fragment(list[n].block,
              Lesser(list[n].blocks, needed - Lesser(needed, Sums(list)[n - 1])))]

\* A wrong SpaceList, for TLC: nothing is cut off the last fragment.
SpaceListUncut(free, startblock, needed) ==
  Drop(Fragments(free, startblock, needed), needed)

\* spacelist after smartfindandmarkspace, which marks these blocks.
SpaceList(free, startblock, needed) ==
  Marked(Drop(Fragments(free, startblock, needed), needed), needed)

BlocksOf(list) ==
  UNION {Blocks(list[n].block, list[n].blocks) : n \in DOMAIN list}

-----------------------------------------------------------------------------
(* findspace2_backwards, from end downwards. space is the free space at the *)
(* beginning of the bitmap block after this one.                           *)

\* A turn of the inner loop, or of the outer one when that has ended.
BackwardsTurn(free, needed, start, at) ==
  LET block == at.bitmapblock * PerBitmap
      Free(i) == block + i \in free
      breakpoint == IF start - block \in 0..(PerBitmap - 1)
                      THEN start - block ELSE 0
      ends == {i \in breakpoint..at.bitstart : Free(i)}
      bitend == Greatest(ends)
      used == {i \in 0..bitend : ~Free(i)} \cup {breakpoint - 1}
      before == Greatest(used)
      n == (IF bitend = PerBitmap - 1 THEN at.space ELSE 0) + bitend - before
      new == IF n <= at.best.blocks THEN at.best
             ELSE IF n < needed THEN Fragment(block + before + 1, n)
             ELSE Fragment(block + before + 1 + n - needed, needed)
      NextBlock(bit, s, b) ==
        IF at.bitmapblock = start \div PerBitmap THEN [at EXCEPT !.best = b, !.done = TRUE]
        ELSE [bitmapblock |-> at.bitmapblock - 1, bitstart |-> PerBitmap - 1,
              space |-> IF bit = -1 THEN s ELSE 0, best |-> b, done |-> FALSE]
  IN IF at.done THEN at
     ELSE IF ends = {} THEN NextBlock(at.bitstart, at.space, at.best)
     ELSE IF new.blocks = needed THEN [at EXCEPT !.best = new, !.done = TRUE]
     ELSE IF before <= breakpoint THEN NextBlock(before, n, new)
     ELSE [at EXCEPT !.bitstart = before, !.space = n, !.best = new]

\* findspace2_backwards: the last place with the blocks needed, or else the
\* largest.  A turn goes on by a block at least.
FindSpaceBackwards(free, needed, start, end) ==
  LET Turn(at) == BackwardsTurn(free, needed, start, at)
  IN Repeat(Turn, [bitmapblock |-> (end - 1) \div PerBitmap,
                   bitstart |-> (end - 1) % PerBitmap, space |-> 0,
                   best |-> NothingFound, done |-> FALSE], end).best
=============================================================================
