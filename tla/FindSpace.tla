------------------------------ MODULE FindSpace ------------------------------
(***************************************************************************)
(* The search for free blocks in the bitmap (findspace2 and findspace in   *)
(* bitmap.c), and savetransaction's use of it (transactions.c), which does *)
(* not mark the blocks it takes for its log and counts on findspace not to *)
(* find them again.                                                        *)
(*                                                                         *)
(* The bitmap is spread over bitmap blocks of PerBitmap bits, the last one *)
(* partly used.  A search goes from start to end and wraps around when end *)
(* is not after start; a run of free blocks can go on from one bitmap      *)
(* block into the next, but not over the end of the volume.  Reading a     *)
(* bitmap block does not fail here: when it does, the search is over.      *)
(***************************************************************************)
EXTENDS BitmapBlocks, Sequences, FiniteSets

CONSTANT MaxNeeded    \* the largest number of blocks searched for

ASSUME NeededAssumption == MaxNeeded \in Nat \ {0}

VARIABLES free,     \* the blocks whose bit is set
          search,   \* the parameters and local variables of findspace2
          best,     \* *returned_block and *returned_blocks
          pc,       \* "search", or how it ended
          rover,    \* block_rovingblockptr, when savetransaction searches
          chain     \* the blocks savetransaction has written

vars == <<free, search, best, pc, rover, chain>>

NoSearcher == Total           \* rover, when somebody else searches

\* What findspace2 has in its variables when it begins to read the bitmap.
Call(needed, start, end) ==
  LET to == IF end = 0 THEN Total ELSE end
      last == (to - 1) \div PerBitmap
      first == start \div PerBitmap
  IN [needed |-> needed, from |-> start, to |-> to,
      bitmapblock |-> first,
      block |-> first * PerBitmap,
      bitend |-> start % PerBitmap,
      space |-> 0,
      breakpoint |-> IF start < to THEN to ELSE Total,
      reads |-> IF start < to THEN last + 1 - first
                              ELSE last + 1 + LastBitmapBlock + 1 - first]

Init ==
  /\ free \in SUBSET Volume
  /\ best = NothingFound /\ pc = "search" /\ chain = <<>>
  /\ \/ /\ rover = NoSearcher
        /\ \E needed \in 1..MaxNeeded, start \in Volume, end \in 0..Total :
             search = Call(needed, start, end)
     \/ /\ rover \in Volume
        /\ Total - 1 \notin free     \* a root block is there
        /\ search = Call(1, rover, rover)

-----------------------------------------------------------------------------
(* findspace2 *)

Bits == {i \in 0..(PerBitmap - 1) : search.bitmapblock * PerBitmap + i \in free}
LocalBreakpoint == Lesser(search.breakpoint - search.block, PerBitmap)

\* Where the free space not looked at yet begins in this bitmap block.
Starts == {i \in Bits : search.bitend <= i /\ i < LocalBreakpoint}
EndOf(bitstart) ==
  Least({i \in bitstart..LocalBreakpoint : i \notin Bits} \cup {LocalBreakpoint})

\* One turn of the inner loop.
Space ==
  LET bitstart == Least(Starts)
      bitend == EndOf(bitstart)
      space == (IF bitstart = 0 THEN search.space ELSE 0) + bitend - bitstart
  IN /\ pc = "search" /\ Starts # {}
     /\ search' = [search EXCEPT !.space = space, !.bitend = bitend]
     /\ IF best.blocks < space
          THEN best' = [block |-> search.block + bitend - space,
                        blocks |-> Lesser(space, search.needed)]
          ELSE UNCHANGED best
     /\ pc' = IF best.blocks < space /\ space >= search.needed
                THEN "found" ELSE "search"
     /\ UNCHANGED <<free, rover, chain>>

\* The rest of the outer loop: on to the next bitmap block, or to the first
\* one again.
AfterThisBitmapBlock ==
  LET space == IF search.bitend = PerBitmap THEN search.space ELSE 0
      block == search.block + PerBitmap
  IN IF block < Total
       THEN [search EXCEPT !.reads = @ - 1, !.bitend = 0, !.space = space,
                           !.block = block, !.bitmapblock = @ + 1]
       ELSE [search EXCEPT !.reads = @ - 1, !.bitend = 0, !.space = 0,
                           !.block = 0, !.bitmapblock = 0,
                           !.breakpoint = search.to]

\* Wrong NextBitmapBlocks, for TLC: a free space goes on whatever the last
\* block ended with; and the reads are not counted.
NextBitmapBlockJoining ==
  /\ pc = "search" /\ Starts = {}
  /\ IF search.reads = 1
       THEN pc' = "seen" /\ UNCHANGED search
       ELSE /\ search' = [AfterThisBitmapBlock EXCEPT !.space = search.space]
            /\ UNCHANGED pc
  /\ UNCHANGED <<free, best, rover, chain>>

NextBitmapBlockUncounted ==
  /\ pc = "search" /\ Starts = {}
  /\ IF search.reads = 1
       THEN pc' = "seen" /\ UNCHANGED search
       ELSE /\ search' = [AfterThisBitmapBlock EXCEPT !.reads = search.reads]
            /\ UNCHANGED pc
  /\ UNCHANGED <<free, best, rover, chain>>

NextBitmapBlock ==
  /\ pc = "search" /\ Starts = {}
  /\ IF search.reads = 1
       THEN pc' = "seen" /\ UNCHANGED search
       ELSE search' = AfterThisBitmapBlock /\ UNCHANGED pc
  /\ UNCHANGED <<free, best, rover, chain>>

-----------------------------------------------------------------------------
(* savetransaction, as long as there are operations left to save.          *)

\* A wrong WriteLogBlock, for TLC: without the test for the roving pointer.
WriteLogBlockAround ==
  /\ rover # NoSearcher /\ pc = "found"
  /\ chain' = Append(chain, best.block)
  /\ pc' = "search"
  /\ search' = Call(1, best.block + 1, rover)
  /\ best' = NothingFound
  /\ UNCHANGED <<free, rover>>

WriteLogBlock ==
  LET startblock == best.block + 1
  IN /\ rover # NoSearcher /\ pc = "found"
     /\ chain' = Append(chain, best.block)
     /\ IF startblock = rover
          THEN pc' = "full" /\ UNCHANGED search
          ELSE pc' = "search" /\ search' = Call(1, startblock, rover)
     /\ best' = NothingFound
     /\ UNCHANGED <<free, rover>>

NoLogBlock == /\ rover # NoSearcher /\ pc = "seen"
              /\ pc' = "full"
              /\ UNCHANGED <<free, search, best, rover, chain>>

Next == Space \/ NextBitmapBlock \/ WriteLogBlock \/ NoLogBlock

\* A call runs until it returns.
Spec == Init /\ [][Next]_vars /\ WF_vars(Next)

-----------------------------------------------------------------------------
(* What the search promises, without bitmap blocks. *)

\* The n blocks from b on are free, and in one piece of the area searched.
Fits(b, n) ==
  /\ b..(b + n - 1) \subseteq free
  /\ LET from == search.from
         to == search.to
     IN \/ from < to /\ from <= b /\ b + n <= to
        \/ to <= from /\ from <= b /\ b + n <= Total
        \/ to <= from /\ b < from /\ b + n <= to

\* How far from the start of the search b is.
Distance(b) == IF b < search.from THEN b + Total - search.from
                                  ELSE b - search.from

\* The search finds the first place with the number of blocks it needs, or
\* else the first of the largest ones in the area, or nothing when nothing is
\* free there: "the search-area is limited by startblock (inclusive) and
\* endblock (exclusive)" (the comment in findspace2).
FindsSpace ==
  pc \in {"found", "seen"} =>
    /\ \A n \in (best.blocks + 1)..search.needed :
         \A b \in Volume : ~Fits(b, n)
    /\ pc = "found" <=> best.blocks = search.needed
    /\ best.blocks > 0 =>
         /\ Fits(best.block, best.blocks)
         /\ \A b \in Volume : Fits(b, best.blocks)
                                => Distance(best.block) <= Distance(b)

\* "This function doesn't mark space, so it assumes that findspace never
\* returns the same space if startblock is set to blckno+1 each time." (the
\* comment in savetransaction)  No block of the log is overwritten by a later
\* one, and the disk is full only when every free block holds a part of it.
LogBlocksDiffer ==
  LET written == {chain[i] : i \in DOMAIN chain}
  IN /\ written \subseteq free
     /\ Cardinality(written) = Len(chain)
     /\ pc = "full" => written = free

\* Every search ends: going round is counted in bitmap blocks to read, and the
\* count made in advance comes down to zero.
SearchEnds == pc = "search" ~> pc # "search"
=============================================================================
