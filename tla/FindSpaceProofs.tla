--------------------------- MODULE FindSpaceProofs ---------------------------
(***************************************************************************)
(* Proofs about FindSpace and about the two other searches of bitmap.c in  *)
(* SpaceAllocation, for every size of the volume and of its bitmap blocks, *)
(* every bitmap and every search.                                          *)
(***************************************************************************)
EXTENDS MCFindSpace, FiniteSetTheorems, WellFoundedInduction, TLAPS

-----------------------------------------------------------------------------
(* The inductive invariant. *)

Searches == [needed : Nat \ {0}, from : Volume, to : 1..Total,
             bitmapblock : Nat, block : Nat, bitend : 0..PerBitmap,
             space : Nat, breakpoint : 1..Total, reads : Nat \ {0}]

TypeOK ==
  /\ free \subseteq Volume
  /\ search \in Searches
  /\ best \in [block : Nat, blocks : Nat]
  /\ pc \in {"search", "found", "seen", "full"}
  /\ rover \in 0..Total
  /\ chain \in Seq(Volume)

\* Where the search is; whether it goes around the end of the volume, and has
\* done so; and where the piece of the area it is in begins.
Position == search.block + search.bitend
Around == search.to <= search.from
Second == Around /\ search.breakpoint = search.to
PieceStart == IF Second THEN 0 ELSE search.from
LastOf(end) == (end - 1) \div PerBitmap

\* The search is in the bitmap block it should be in, and has as many to read
\* as there are until the end of the area.
PlaceOK ==
  /\ search.block = search.bitmapblock * PerBitmap
  /\ search.block < search.breakpoint
  /\ PieceStart <= Position /\ Position <= search.breakpoint
  /\ search.breakpoint = IF Around /\ ~Second THEN Total ELSE search.to
  /\ search.reads = LastOf(search.to) + 1 - search.bitmapblock
                      + (IF Around /\ ~Second THEN LastBitmapBlock + 1 ELSE 0)

\* The search stops behind free blocks, or begins.
EdgeOK ==
  Position \in free =>
    \/ search.bitend \in {0, PerBitmap}
    \/ Position = search.breakpoint
    \/ Position = PieceStart

\* The count of free blocks: those in front of the position, in this piece.
SpaceOK ==
  LET first == Position - search.space
  IN /\ first >= PieceStart
     /\ \A b \in first..(Position - 1) : b \in free
     /\ first = PieceStart \/ first - 1 \notin free

\* The search has gone past these n blocks.
Passed(b, n) == IF Second THEN b >= search.from \/ b + n <= Position
                          ELSE b >= search.from /\ b + n <= Position

\* No place that was passed is larger than the best one, or as large and before
\* it.
BestOK ==
  /\ best.blocks < search.needed
  /\ \A b \in Volume, n \in Nat \ {0} :
       Fits(b, n) /\ Passed(b, n) =>
         /\ n <= best.blocks
         /\ n = best.blocks => Distance(best.block) <= Distance(b)
  /\ best.blocks > 0 =>
       /\ best.block \in Volume
       /\ Fits(best.block, best.blocks) /\ Passed(best.block, best.blocks)

SearchOK == PlaceOK /\ EdgeOK /\ SpaceOK /\ BestOK

\* What the log may count on: it holds the free blocks between the roving
\* pointer and where the search for the next one began.
Turn(b) == IF b < rover THEN b + Total - rover ELSE b - rover
Written == {chain[i] : i \in DOMAIN chain}
LogOK ==
  /\ rover = NoSearcher => chain = <<>> /\ pc # "full"
  /\ rover # NoSearcher =>
       /\ Total - 1 \notin free
       /\ Cardinality(Written) = Len(chain)
       /\ Written \subseteq free
       /\ pc = "full" => Written = free
       /\ pc # "full" =>
            /\ search.needed = 1
            /\ search.to = IF rover = 0 THEN Total ELSE rover
            /\ Written = {b \in free : Turn(b) < Turn(search.from)}

\* No more blocks are returned than are needed.
NoMore == best.blocks <= search.needed

Inv == /\ TypeOK
       /\ pc = "search" => SearchOK
       /\ FindsSpace
       /\ LogOK
       /\ NoMore

-----------------------------------------------------------------------------
(* Numbers. *)

\* Every set of natural numbers has a least element.
LEMMA LeastExists ==
  ASSUME NEW S, S \subseteq Nat, S # {}
  PROVE  \E a \in S : \A b \in S : a <= b
  <1> DEFINE R == OpToRel(<, Nat)
  <1>1. IsWellFoundedOn(R, Nat)
    BY NatLessThanWellFounded
  <1>2. \A a, b \in Nat : <<b, a>> \in R <=> b < a
    BY DEF OpToRel
  <1> HIDE DEF R
  <1>3. PICK a \in S : \A b \in S : <<b, a>> \notin R
    BY <1>1, WFMin
  <1>4. \A b \in S : ~(b < a)
    BY <1>2, <1>3, Zenon
  <1>5. \A b \in S : a <= b
    BY <1>4
  <1>6. QED
    BY <1>5

\* Least is what its name says.
LEMMA LeastIs ==
  ASSUME NEW S, S \subseteq Nat, S # {}
  PROVE  /\ Least(S) \in S
         /\ \A b \in S : Least(S) <= b
  BY LeastExists DEF Least

\* The bitmap block of a block, and its bit.
LEMMA Division ==
  ASSUME NEW a \in Nat
  PROVE  /\ a \div PerBitmap \in Nat
         /\ a % PerBitmap \in 0..(PerBitmap - 1)
         /\ (a \div PerBitmap) * PerBitmap + (a % PerBitmap) = a
  BY SizesAssumption, SMT

\* The bitmap blocks follow each other.
LEMMA NextBlock ==
  ASSUME NEW k \in Nat
  PROVE  /\ (k + 1) * PerBitmap = k * PerBitmap + PerBitmap
         /\ k * PerBitmap \in Nat
         /\ \A l \in Nat : k < l => k * PerBitmap + PerBitmap <= l * PerBitmap
         /\ \A l \in Nat : k <= l => k * PerBitmap <= l * PerBitmap
  <1>1. PerBitmap \in Nat \ {0}
    BY SizesAssumption
  <1>2. (k + 1) * PerBitmap = k * PerBitmap + PerBitmap /\ k * PerBitmap \in Nat
    BY <1>1, SMT
  <1>3. ASSUME NEW l \in Nat, k < l
        PROVE  k * PerBitmap + PerBitmap <= l * PerBitmap
    BY <1>1, <1>3, SMT
  <1>4. ASSUME NEW l \in Nat, k <= l
        PROVE  k * PerBitmap <= l * PerBitmap
    BY <1>1, <1>4, SMT
  <1>5. QED
    BY <1>2, <1>3, <1>4

\* The last bitmap block of an area.
LEMMA LastBlock ==
  ASSUME NEW end \in 1..Total
  PROVE  /\ LastOf(end) \in Nat
         /\ LastOf(end) * PerBitmap < end
         /\ end <= LastOf(end) * PerBitmap + PerBitmap
         /\ LastOf(end) <= LastBitmapBlock
         /\ LastBitmapBlock \in Nat
         /\ LastBitmapBlock * PerBitmap < Total
         /\ Total <= LastBitmapBlock * PerBitmap + PerBitmap
  <1>1. Total \in Nat \ {0} /\ PerBitmap \in Nat \ {0}
    BY SizesAssumption
  <1>2. end - 1 \in Nat /\ Total - 1 \in Nat /\ end - 1 <= Total - 1
    BY <1>1
  <1> DEFINE k == (end - 1) \div PerBitmap
             l == (Total - 1) \div PerBitmap
  <1>3. /\ k \in Nat /\ (end - 1) % PerBitmap \in 0..(PerBitmap - 1)
        /\ k * PerBitmap + ((end - 1) % PerBitmap) = end - 1
    BY <1>2, Division
  <1>4. /\ l \in Nat /\ (Total - 1) % PerBitmap \in 0..(PerBitmap - 1)
        /\ l * PerBitmap + ((Total - 1) % PerBitmap) = Total - 1
    BY <1>2, Division
  <1> HIDE DEF k, l
  <1>5. k * PerBitmap \in Nat /\ l * PerBitmap \in Nat
    BY <1>3, <1>4, NextBlock
  <1>6. k * PerBitmap < end /\ end <= k * PerBitmap + PerBitmap
    BY <1>1, <1>3, <1>5
  <1>7. l * PerBitmap < Total /\ Total <= l * PerBitmap + PerBitmap
    BY <1>1, <1>4, <1>5
  <1>8. k <= l
    <2>1. SUFFICES ASSUME l < k PROVE FALSE
      BY <1>3, <1>4
    <2>2. l * PerBitmap + PerBitmap <= k * PerBitmap
      BY <2>1, <1>3, <1>4, NextBlock
    <2>3. QED
      BY <2>2, <1>1, <1>5, <1>6, <1>7
  <1>9. QED
    BY <1>3, <1>4, <1>6, <1>7, <1>8 DEF LastOf, LastBitmapBlock, k, l

-----------------------------------------------------------------------------
(* The beginning of a search. *)

\* The variables of findspace2 before it reads the first bitmap block.
LEMMA CallIs ==
  ASSUME NEW needed \in Nat \ {0}, NEW start \in Volume, NEW end \in 0..Total,
         NEW c, c = Call(needed, start, end)
  PROVE  /\ c \in Searches
         /\ c.needed = needed /\ c.from = start
         /\ c.to = IF end = 0 THEN Total ELSE end
         /\ c.block = c.bitmapblock * PerBitmap
         /\ c.block + c.bitend = start
         /\ c.bitend < PerBitmap
         /\ c.space = 0
         /\ c.breakpoint = IF start < c.to THEN c.to ELSE Total
         /\ c.reads = LastOf(c.to) + 1 - c.bitmapblock
                        + (IF start < c.to THEN 0 ELSE LastBitmapBlock + 1)
  <1> DEFINE to == IF end = 0 THEN Total ELSE end
             first == start \div PerBitmap
             reads == IF start < to
                        THEN LastOf(to) + 1 - first
                        ELSE LastOf(to) + 1 + LastBitmapBlock + 1 - first
  <1>1. Total \in Nat \ {0} /\ PerBitmap \in Nat \ {0}
    BY SizesAssumption
  <1>2. to \in 1..Total /\ start \in Nat /\ start < Total
    BY <1>1 DEF Volume
  <1>3. /\ first \in Nat /\ start % PerBitmap \in 0..(PerBitmap - 1)
        /\ first * PerBitmap + (start % PerBitmap) = start
    BY <1>2, Division
  <1>4. c = [needed |-> needed, from |-> start, to |-> to,
             bitmapblock |-> first, block |-> first * PerBitmap,
             bitend |-> start % PerBitmap, space |-> 0,
             breakpoint |-> IF start < to THEN to ELSE Total,
             reads |-> reads]
    BY DEF Call, LastOf
  <1>5. /\ LastOf(to) \in Nat /\ LastBitmapBlock \in Nat
        /\ to <= LastOf(to) * PerBitmap + PerBitmap
        /\ Total <= LastBitmapBlock * PerBitmap + PerBitmap
    BY <1>2, LastBlock
  <1> HIDE DEF to, first
  <1>6. first * PerBitmap \in Nat /\ first * PerBitmap <= start
    BY <1>1, <1>3, NextBlock
  <1>7. reads \in Nat \ {0}
    <2>1. first <= LastBitmapBlock
      <3>1. SUFFICES ASSUME LastBitmapBlock < first PROVE FALSE
        BY <1>3, <1>5
      <3>2. LastBitmapBlock * PerBitmap + PerBitmap <= first * PerBitmap
        BY <3>1, <1>3, <1>5, NextBlock
      <3>3. QED
        BY <3>2, <1>1, <1>2, <1>5, <1>6, NextBlock
    <2>2. start < to => first <= LastOf(to)
      <3>1. SUFFICES ASSUME start < to, LastOf(to) < first PROVE FALSE
        BY <1>3, <1>5
      <3>2. LastOf(to) * PerBitmap + PerBitmap <= first * PerBitmap
        BY <3>1, <1>3, <1>5, NextBlock
      <3>3. QED
        BY <3>1, <3>2, <1>1, <1>2, <1>5, <1>6, NextBlock
    <2>3. QED
      BY <2>1, <2>2, <1>3, <1>5
  <1>8. c \in Searches
    BY <1>1, <1>2, <1>3, <1>4, <1>6, <1>7 DEF Searches
  <1>9. c.reads = LastOf(to) + 1 - first
                    + (IF start < to THEN 0 ELSE LastBitmapBlock + 1)
    BY <1>3, <1>4, <1>5
  <1>10. QED
    BY <1>1, <1>2, <1>3, <1>4, <1>8, <1>9 DEF to

\* A search that begins has passed nothing.
LEMMA BeginOK ==
  ASSUME NEW needed \in Nat \ {0}, NEW start \in Volume, NEW end \in 0..Total,
         free \subseteq Volume, best = NothingFound,
         search = Call(needed, start, end)
  PROVE  SearchOK
  <1>1. Total \in Nat \ {0} /\ PerBitmap \in Nat \ {0}
    BY SizesAssumption
  <1>2. /\ search \in Searches
        /\ search.needed = needed /\ search.from = start
        /\ search.block = search.bitmapblock * PerBitmap
        /\ search.block + search.bitend = start
        /\ search.bitend < PerBitmap
        /\ search.space = 0
        /\ search.breakpoint = IF start < search.to THEN search.to ELSE Total
        /\ search.reads = LastOf(search.to) + 1 - search.bitmapblock
              + (IF start < search.to THEN 0 ELSE LastBitmapBlock + 1)
    BY CallIs
  <1>3. /\ search.to \in 1..Total /\ search.block \in Nat
        /\ search.bitend \in 0..PerBitmap /\ start \in Nat /\ start < Total
    BY <1>1, <1>2 DEF Searches, Volume
  <1>4. /\ Position = start /\ ~Second /\ PieceStart = start
        /\ Around <=> ~(start < search.to)
    BY <1>1, <1>2, <1>3 DEF Position, Second, PieceStart, Around
  <1>5. PlaceOK
    BY <1>1, <1>2, <1>3, <1>4 DEF PlaceOK
  <1>6. EdgeOK
    BY <1>4 DEF EdgeOK
  <1>7. SpaceOK
    BY <1>2, <1>3, <1>4 DEF SpaceOK
  <1>8. BestOK
    <2>1. best.blocks = 0 /\ 0 < search.needed
      BY <1>2 DEF NothingFound, Fragment
    <2>2. ASSUME NEW b \in Volume, NEW n \in Nat \ {0}
          PROVE  ~Passed(b, n)
      BY <1>2, <1>3, <1>4 DEF Passed, Volume
    <2>3. QED
      BY <2>1, <2>2 DEF BestOK
  <1>9. QED
    BY <1>5, <1>6, <1>7, <1>8 DEF SearchOK

-----------------------------------------------------------------------------
(* A free space in a bitmap block. *)

\* The fields of search, as numbers.
LEMMA Fields ==
  ASSUME TypeOK
  PROVE  /\ search.needed \in Nat \ {0} /\ search.from \in Volume
         /\ search.to \in 1..Total /\ search.bitmapblock \in Nat
         /\ search.block \in Nat /\ search.bitend \in 0..PerBitmap
         /\ search.space \in Nat /\ search.breakpoint \in 1..Total
         /\ search.reads \in Nat \ {0}
         /\ search.from \in Nat /\ search.from < Total
         /\ Position \in Nat /\ PieceStart \in Nat
         /\ Total \in Nat \ {0} /\ PerBitmap \in Nat \ {0}
         /\ best.block \in Nat /\ best.blocks \in Nat
  <1>1. Total \in Nat \ {0} /\ PerBitmap \in Nat \ {0}
    BY SizesAssumption
  <1>2. /\ search.needed \in Nat \ {0} /\ search.from \in Volume
        /\ search.to \in 1..Total /\ search.bitmapblock \in Nat
        /\ search.block \in Nat /\ search.bitend \in 0..PerBitmap
        /\ search.space \in Nat /\ search.breakpoint \in 1..Total
        /\ search.reads \in Nat \ {0}
    BY DEF TypeOK, Searches
  <1>3. search.from \in Nat /\ search.from < Total
    BY <1>1, <1>2 DEF Volume
  <1>4. Position \in Nat /\ PieceStart \in Nat
    BY <1>1, <1>2, <1>3 DEF Position, PieceStart
  <1>5. QED
    BY <1>1, <1>2, <1>3, <1>4 DEF TypeOK

\* What findspace2 looks at in its bitmap block.
LEMMA BlockIs ==
  ASSUME TypeOK, PlaceOK
  PROVE  /\ LocalBreakpoint \in 1..PerBitmap
         /\ search.block + LocalBreakpoint <= search.breakpoint
         /\ \/ LocalBreakpoint = PerBitmap
            \/ search.block + LocalBreakpoint = search.breakpoint
         /\ Starts \subseteq Nat
         /\ \A i \in Nat : i \in Starts <=> /\ search.bitend <= i
                                            /\ i < LocalBreakpoint
                                            /\ search.block + i \in free
         /\ \A i \in 0..(PerBitmap - 1) : i \in Bits
                                            <=> search.block + i \in free
  <1>1. search.block < search.breakpoint
    BY DEF PlaceOK
  <1>2. /\ LocalBreakpoint \in 1..PerBitmap
        /\ search.block + LocalBreakpoint <= search.breakpoint
        /\ \/ LocalBreakpoint = PerBitmap
           \/ search.block + LocalBreakpoint = search.breakpoint
    BY <1>1, Fields DEF LocalBreakpoint, Lesser
  <1>3. \A i \in 0..(PerBitmap - 1) : i \in Bits <=> search.block + i \in free
    BY DEF Bits, PlaceOK
  <1>4. Bits \subseteq 0..(PerBitmap - 1)
    BY DEF Bits
  <1>5. \A i \in Nat : i \in Starts <=> /\ search.bitend <= i
                                        /\ i < LocalBreakpoint
                                        /\ search.block + i \in free
    BY <1>2, <1>3, <1>4, Fields DEF Starts
  <1>6. Starts \subseteq Nat
    <2>1. Starts \subseteq Bits
      BY DEF Starts
    <2>2. QED
      BY <2>1, <1>4, Fields
  <1>7. QED
    BY <1>2, <1>3, <1>5, <1>6

\* BMFFZ: where a free space that begins at a bit ends.
LEMMA EndIs ==
  ASSUME TypeOK, PlaceOK, NEW bitstart \in Starts, NEW e, e = EndOf(bitstart)
  PROVE  /\ e \in Nat /\ bitstart < e /\ e <= LocalBreakpoint
         /\ \A i \in bitstart..(e - 1) : search.block + i \in free
         /\ e = LocalBreakpoint \/ search.block + e \notin free
  <1> DEFINE Ends == {i \in bitstart..LocalBreakpoint : i \notin Bits}
                       \cup {LocalBreakpoint}
  <1>1. /\ bitstart \in Nat /\ bitstart < LocalBreakpoint
        /\ search.block + bitstart \in free /\ LocalBreakpoint \in 1..PerBitmap
    BY BlockIs
  <1>2. PerBitmap \in Nat \ {0} /\ search.block \in Nat
    BY Fields
  <1>3. Ends \subseteq Nat /\ Ends # {}
    BY <1>1, <1>2
  <1>4. e \in Ends /\ \A i \in Ends : e <= i
    BY <1>3, LeastIs DEF EndOf
  <1>5. \A i \in bitstart..(LocalBreakpoint - 1) :
          i \in Ends <=> search.block + i \notin free
    BY <1>1, <1>2, BlockIs
  <1>6. e \in Nat /\ bitstart <= e /\ e <= LocalBreakpoint
    BY <1>1, <1>2, <1>4
  <1> HIDE DEF Ends
  <1>7. bitstart # e
    BY <1>1, <1>2, <1>4, <1>5
  <1>8. \A i \in bitstart..(e - 1) : search.block + i \in free
    BY <1>1, <1>2, <1>4, <1>5, <1>6
  <1>9. e = LocalBreakpoint \/ search.block + e \notin free
    BY <1>1, <1>2, <1>4, <1>5, <1>6
  <1>10. QED
    BY <1>1, <1>6, <1>7, <1>8, <1>9

\* A place that ends behind p, when nothing is free from p to q and the free space
\* before q begins at first.
LEMMA OnlyLater ==
  ASSUME NEW start \in Nat, NEW p \in Nat, NEW q \in Nat, NEW first \in Nat,
         p <= q, first <= q, start <= first,
         \A b \in p..(q - 1) : b \notin free,
         first = start \/ first - 1 \notin free,
         NEW b \in Nat, NEW n \in Nat, start <= b, n > 0, p < b + n,
         \A c \in b..(b + n - 1) : c \in free
  PROVE  first <= b
  <1>1. SUFFICES ASSUME b < first PROVE FALSE
    OBVIOUS
  <1>2. first - 1 \notin free
    BY <1>1
  <1>3. b + n - 1 < first - 1
    BY <1>1, <1>2
  <1>4. b + n - 1 \in p..(q - 1) /\ b + n - 1 \in b..(b + n - 1)
    BY <1>3
  <1>5. QED
    BY <1>4

\* The free space that a turn of the inner loop finds, with what is free in front
\* of this bitmap block: it begins at first, and any place that ends behind the
\* old position begins there or later.
BitStart == Least(Starts)
BitEnd == EndOf(BitStart)
Length == (IF BitStart = 0 THEN search.space ELSE 0) + BitEnd - BitStart

FreeSpace(bitend, space, end, first) ==
  /\ bitend \in 1..PerBitmap /\ Position < end /\ end <= search.breakpoint
  /\ space \in Nat \ {0} /\ end \in Nat /\ first \in Nat
  /\ PieceStart <= first /\ first < end
  /\ \A b \in first..(end - 1) : b \in free
  /\ first = PieceStart \/ first - 1 \notin free
  /\ end \in free => bitend = PerBitmap \/ end = search.breakpoint
  /\ \A b, n \in Nat :
       /\ PieceStart <= b /\ n > 0 /\ Position < b + n
       /\ \A c \in b..(b + n - 1) : c \in free
       => first <= b

LEMMA SpaceIs ==
  ASSUME TypeOK, PlaceOK, EdgeOK, SpaceOK, Starts # {},
         NEW bitend, bitend = BitEnd, NEW space, space = Length,
         NEW end, end = search.block + bitend,
         NEW first, first = end - space
  PROVE  FreeSpace(bitend, space, end, first)
  <1> SUFFICES ASSUME NEW bitstart, bitstart = Least(Starts),
                      bitend = EndOf(bitstart),
                      space = (IF bitstart = 0 THEN search.space ELSE 0)
                                + bitend - bitstart
               PROVE  FreeSpace(bitend, space, end, first)
    BY DEF BitStart, BitEnd, Length
  <1>1. /\ search.block \in Nat /\ search.bitend \in Nat
        /\ search.bitend <= PerBitmap /\ search.space \in Nat
        /\ search.breakpoint \in Nat /\ PieceStart \in Nat
        /\ PerBitmap \in Nat \ {0} /\ Position = search.block + search.bitend
        /\ PieceStart <= Position
    BY Fields DEF Position, PlaceOK
  <1>2. Starts \subseteq Nat /\ bitstart \in Starts
        /\ \A i \in Starts : bitstart <= i
    BY BlockIs, LeastIs
  <1>3. /\ bitstart \in Nat /\ search.bitend <= bitstart
        /\ bitstart < LocalBreakpoint /\ search.block + bitstart \in free
        /\ LocalBreakpoint \in 1..PerBitmap
        /\ search.block + LocalBreakpoint <= search.breakpoint
        /\ \/ LocalBreakpoint = PerBitmap
           \/ search.block + LocalBreakpoint = search.breakpoint
    BY <1>2, BlockIs
  <1>4. /\ bitend \in Nat /\ bitstart < bitend /\ bitend <= LocalBreakpoint
        /\ \A i \in bitstart..(bitend - 1) : search.block + i \in free
        /\ bitend = LocalBreakpoint \/ search.block + bitend \notin free
    BY <1>2, EndIs
  <1> DEFINE q == search.block + bitstart
             p == Position
  <1>5. \A b \in p..(q - 1) : b \notin free
    <2>1. SUFFICES ASSUME NEW b \in p..(q - 1), b \in free PROVE FALSE
      OBVIOUS
    <2> DEFINE i == b - search.block
    <2>2. /\ i \in Nat /\ search.bitend <= i /\ i < bitstart
          /\ search.block + i = b /\ i < LocalBreakpoint
      BY <1>1, <1>3, <2>1
    <2> HIDE DEF i
    <2>3. i \in Starts
      BY <2>1, <2>2, BlockIs
    <2>4. QED
      BY <1>2, <1>3, <2>2, <2>3
  <1>6. \A b \in q..(end - 1) : b \in free
    <2>1. SUFFICES ASSUME NEW b \in q..(end - 1) PROVE b \in free
      OBVIOUS
    <2> DEFINE i == b - search.block
    <2>2. i \in bitstart..(bitend - 1) /\ search.block + i = b
      BY <1>1, <1>3, <1>4, <2>1
    <2> HIDE DEF i
    <2>3. QED
      BY <1>4, <2>2
  <1> HIDE DEF p, q
  <1>7. /\ p \in Nat /\ q \in Nat /\ p <= q /\ q < end /\ end \in Nat
        /\ p = Position /\ q = search.block + bitstart
        /\ bitend \in 1..PerBitmap /\ end <= search.breakpoint
    BY <1>1, <1>3, <1>4 DEF p, q
  <1>8. end \in free => bitend = PerBitmap \/ end = search.breakpoint
    BY <1>3, <1>4
  <1>9. /\ first \in Nat /\ first <= q /\ PieceStart <= first
        /\ \A b \in first..(end - 1) : b \in free
        /\ first = PieceStart \/ first - 1 \notin free
        /\ space \in Nat
    <2>1. CASE bitstart = 0
      <3>1. /\ p = search.block /\ q = p
            /\ first = p - search.space /\ space = search.space + bitend
        BY <2>1, <1>1, <1>3, <1>4, <1>7
      <3>2. /\ first >= PieceStart
            /\ \A b \in first..(p - 1) : b \in free
            /\ first = PieceStart \/ first - 1 \notin free
        BY <3>1, <1>7 DEF SpaceOK
      <3>3. space \in Nat /\ first \in Nat /\ first <= q
        BY <1>1, <1>4, <1>7, <3>1, <3>2
      <3>4. \A b \in first..(end - 1) : b \in free
        BY <1>6, <1>7, <3>1, <3>2, <3>3
      <3>5. QED
        BY <3>2, <3>3, <3>4
    <2>2. CASE bitstart # 0
      <3>1. first = q /\ space = bitend - bitstart /\ space \in Nat
        BY <2>2, <1>1, <1>3, <1>4, <1>7
      <3>2. PieceStart <= q
        BY <1>1, <1>7
      <3>3. q = PieceStart \/ q - 1 \notin free
        <4>1. CASE p < q
          BY <4>1, <1>5, <1>7
        <4>2. CASE p = q
          <5>1. Position \in free /\ search.bitend = bitstart
            <6>1. search.bitend = bitstart
              <7>1. search.block + search.bitend = search.block + bitstart
                BY <4>2, <1>1, <1>7, Zenon
              <7>2. /\ search.block \in Nat /\ search.bitend \in Nat
                    /\ bitstart \in Nat
                BY <1>1, <1>3
              <7>3. QED
                BY <7>1, <7>2
            <6>2. Position \in free
              BY <6>1, <1>1, <1>3, Zenon
            <6>3. QED
              BY <6>1, <6>2
          <5>2. search.bitend # 0 /\ search.bitend # PerBitmap
            BY <5>1, <2>2, <1>1, <1>3
          <5>3. Position # search.breakpoint
            BY <5>1, <1>1, <1>3
          <5>4. QED
            BY <4>2, <1>7, <5>1, <5>2, <5>3 DEF EdgeOK
        <4>3. QED
          BY <4>1, <4>2, <1>7
      <3>4. QED
        BY <1>6, <1>7, <3>1, <3>2, <3>3
    <2>3. QED
      BY <2>1, <2>2
  <1>10. ASSUME NEW b \in Nat, NEW n \in Nat, PieceStart <= b, n > 0,
                Position < b + n, \A c \in b..(b + n - 1) : c \in free
         PROVE  first <= b
    BY <1>1, <1>5, <1>7, <1>9, <1>10, OnlyLater
  <1>11. first < end /\ space \in Nat \ {0} /\ Position < end
    BY <1>7, <1>9
  <1>12. QED
    BY <1>1, <1>7, <1>8, <1>9, <1>10, <1>11 DEF FreeSpace

-----------------------------------------------------------------------------
(* Places. *)

\* What it means that n blocks fit at b.
LEMMA FitsIs ==
  ASSUME TypeOK, NEW b \in Volume, NEW n \in Nat \ {0}, Fits(b, n)
  PROVE  /\ b \in Nat /\ b + n <= Total
         /\ \A c \in b..(b + n - 1) : c \in free
         /\ ~Around => search.from <= b /\ b + n <= search.to
         /\ Around => b >= search.from \/ b + n <= search.to
  <1>1. /\ search.from \in Nat /\ search.to \in Nat /\ search.to <= Total
        /\ Total \in Nat
    BY Fields
  <1>2. b \in Nat
    BY DEF Volume
  <1>3. QED
    BY <1>1, <1>2 DEF Fits, Around

\* Free blocks in the piece of the area that is searched fit.
LEMMA FitsInPiece ==
  ASSUME TypeOK, PlaceOK, NEW b \in Nat, NEW n \in Nat \ {0},
         PieceStart <= b, b + n <= search.breakpoint,
         \A c \in b..(b + n - 1) : c \in free
  PROVE  Fits(b, n)
  <1>1. /\ search.from \in Nat /\ search.to \in Nat /\ search.to <= Total
        /\ Total \in Nat
        /\ search.breakpoint = IF Around /\ ~Second THEN Total ELSE search.to
    BY Fields DEF PlaceOK
  <1>2. b..(b + n - 1) \subseteq free
    OBVIOUS
  <1>3. CASE Second
    BY <1>1, <1>2, <1>3 DEF Fits, Second, Around, PieceStart
  <1>4. CASE ~Second
    BY <1>1, <1>2, <1>4 DEF Fits, Around, PieceStart
  <1>5. QED
    BY <1>3, <1>4

\* A place that was not passed ends behind the position, and is in this piece or
\* in the next one.
LEMMA NotPassed ==
  ASSUME TypeOK, PlaceOK, NEW b \in Volume, NEW n \in Nat \ {0}, Fits(b, n),
         ~Passed(b, n)
  PROVE  \/ /\ PieceStart <= b /\ Position < b + n
            /\ b + n <= search.breakpoint
            /\ Second => b < search.from
            /\ ~Second => b >= search.from
         \/ /\ Around /\ ~Second /\ b < search.from
  <1>1. /\ search.from \in Nat /\ search.to \in Nat /\ search.to <= Total
        /\ Total \in Nat /\ Position \in Nat
        /\ search.breakpoint = IF Around /\ ~Second THEN Total ELSE search.to
        /\ b \in Nat /\ b + n <= Total
        /\ ~Around => search.from <= b /\ b + n <= search.to
        /\ Around => b >= search.from \/ b + n <= search.to
        /\ Second => Around
    BY Fields, FitsIs DEF PlaceOK, Second
  <1>2. CASE Second
    BY <1>1, <1>2 DEF Passed, PieceStart
  <1>3. CASE ~Second
    BY <1>1, <1>3 DEF Passed, PieceStart
  <1>4. QED
    BY <1>2, <1>3

\* The further in the area, the more distant.
LEMMA DistanceGrows ==
  ASSUME TypeOK, NEW b \in Volume, NEW c \in Volume,
         \/ b <= c /\ (b >= search.from \/ c < search.from)
         \/ b >= search.from /\ c < search.from
  PROVE  Distance(b) <= Distance(c)
  BY Fields DEF Distance, Volume

-----------------------------------------------------------------------------
(* A turn of the inner loop. *)

LEMMA SpaceStep ==
  ASSUME Inv, Space
  PROVE  Inv'
  <1> SUFFICES ASSUME NEW bitend, bitend = BitEnd, NEW space, space = Length,
                      NEW end, end = search.block + bitend,
                      NEW first, first = end - space
               PROVE  Inv'
    OBVIOUS
  <1>1. /\ TypeOK /\ PlaceOK /\ EdgeOK /\ SpaceOK /\ BestOK /\ LogOK
        /\ pc = "search" /\ Starts # {}
    BY DEF Inv, SearchOK, Space
  <1>2. /\ search' = [search EXCEPT !.space = space, !.bitend = bitend]
        /\ IF best.blocks < space
             THEN best' = [block |-> first,
                           blocks |-> Lesser(space, search.needed)]
             ELSE best' = best
        /\ pc' = IF best.blocks < space /\ space >= search.needed
                   THEN "found" ELSE "search"
        /\ free' = free /\ rover' = rover /\ chain' = chain
    <2>1. search' = [search EXCEPT !.space = space, !.bitend = bitend]
      BY Zenon DEF Space, BitStart, BitEnd, Length
    <2>2. IF best.blocks < space
            THEN best' = [block |-> first,
                          blocks |-> Lesser(space, search.needed)]
            ELSE best' = best
      <3>1. IF best.blocks < space
              THEN best' = [block |-> search.block + bitend - space,
                            blocks |-> Lesser(space, search.needed)]
              ELSE best' = best
        BY DEF Space, BitStart, BitEnd, Length
      <3>2. search.block + bitend - space = first
        <4>1. space \in Nat /\ bitend \in 1..PerBitmap
          BY <1>1, SpaceIs DEF FreeSpace
        <4>2. search.block \in Nat /\ PerBitmap \in Nat
          BY <1>1, Fields
        <4>3. QED
          BY <4>1, <4>2
      <3>3. QED
        BY <3>1, <3>2, Zenon
    <2>3. pc' = IF best.blocks < space /\ space >= search.needed
                  THEN "found" ELSE "search"
      BY DEF Space, BitStart, BitEnd, Length
    <2>4. free' = free /\ rover' = rover /\ chain' = chain
      BY DEF Space
    <2>5. QED
      BY <2>1, <2>2, <2>3, <2>4, Zenon
  <1>3. /\ bitend \in 1..PerBitmap /\ Position < end /\ end <= search.breakpoint
        /\ space \in Nat \ {0} /\ end \in Nat /\ first \in Nat
        /\ PieceStart <= first /\ first < end
        /\ \A b \in first..(end - 1) : b \in free
        /\ first = PieceStart \/ first - 1 \notin free
        /\ end \in free => bitend = PerBitmap \/ end = search.breakpoint
        /\ \A b, n \in Nat :
             /\ PieceStart <= b /\ n > 0 /\ Position < b + n
             /\ \A c \in b..(b + n - 1) : c \in free
             => first <= b
    BY <1>1, SpaceIs DEF FreeSpace
  <1>4. /\ search.needed \in Nat \ {0} /\ search.from \in Nat
        /\ search.from < Total
        /\ search.block \in Nat /\ search.space \in Nat
        /\ search.breakpoint \in Nat /\ search.breakpoint <= Total
        /\ Position \in Nat /\ PieceStart \in Nat
        /\ Total \in Nat \ {0} /\ PerBitmap \in Nat \ {0}
        /\ best.block \in Nat /\ best.blocks \in Nat
    BY <1>1, Fields
  <1>5. /\ search'.needed = search.needed /\ search'.from = search.from
        /\ search'.to = search.to /\ search'.bitmapblock = search.bitmapblock
        /\ search'.block = search.block /\ search'.bitend = bitend
        /\ search'.space = space /\ search'.breakpoint = search.breakpoint
        /\ search'.reads = search.reads
    BY <1>1, <1>2 DEF TypeOK, Searches
  <1>6. /\ Around' = Around /\ Second' = Second /\ PieceStart' = PieceStart
        /\ Position' = end
    BY <1>5 DEF Around, Second, PieceStart, Position
  <1>7. /\ \A b, n : Fits(b, n)' = Fits(b, n)
        /\ \A b : Distance(b)' = Distance(b)
    BY <1>2, <1>5 DEF Fits, Distance
  <1>8. TypeOK'
    <2>1. search' \in Searches
      <3>1. bitend \in 0..PerBitmap /\ space \in Nat
        BY <1>3, <1>4
      <3>2. search \in Searches
        BY <1>1 DEF TypeOK
      <3>3. QED
        BY <3>1, <3>2, <1>2 DEF Searches
    <2>2. best' \in [block : Nat, blocks : Nat]
      <3>1. Lesser(space, search.needed) \in Nat
        BY <1>3, <1>4 DEF Lesser
      <3>2. best \in [block : Nat, blocks : Nat]
        BY <1>1 DEF TypeOK
      <3>3. CASE best.blocks < space
        <4>1. best' = [block |-> first, blocks |-> Lesser(space, search.needed)]
          BY <1>2, <3>3
        <4>2. first \in Nat
          BY <1>3
        <4>3. QED
          BY <4>1, <4>2, <3>1
      <3>4. CASE ~(best.blocks < space)
        BY <1>2, <3>2, <3>4
      <3>5. QED
        BY <3>3, <3>4
    <2>3. QED
      BY <1>1, <1>2, <2>1, <2>2 DEF TypeOK
  <1>9. \A k \in 1..space : Fits(first, k) /\ Passed(first, k)'
    <2>1. SUFFICES ASSUME NEW k \in 1..space
                   PROVE  Fits(first, k) /\ Passed(first, k)'
      OBVIOUS
    <2>2. k \in Nat \ {0} /\ first + k <= end /\ first + space = end
      BY <1>3, <1>4
    <2>3. Fits(first, k)
      <3>1. \A c \in first..(first + k - 1) : c \in free
        BY <1>3, <2>2
      <3>2. first + k <= search.breakpoint
        BY <1>3, <1>4, <2>2
      <3>3. QED
        BY <1>1, <1>3, <2>2, <3>1, <3>2, FitsInPiece
    <2>4. Passed(first, k)'
      BY <1>3, <1>5, <1>6, <2>2 DEF Passed, PieceStart
    <2>5. QED
      BY <2>3, <2>4
  <1>10. first \in Volume /\ first + space = end
    BY <1>3, <1>4 DEF Volume
  <1>11. ASSUME NEW b \in Volume, NEW n \in Nat \ {0}, Fits(b, n),
                ~Passed(b, n), PieceStart <= b, Position < b + n
         PROVE  first <= b
    BY <1>1, <1>3, <1>11, FitsIs
  <1>12. ASSUME NEW b \in Volume, NEW n \in Nat \ {0}, Fits(b, n),
                ~Passed(b, n), Passed(b, n)'
         PROVE  /\ PieceStart <= b /\ Position < b + n /\ first <= b
                /\ n <= space
                /\ Second => b < search.from
                /\ ~Second => b >= search.from
    <2>1. b \in Nat
      BY DEF Volume
    <2>2. /\ PieceStart <= b /\ Position < b + n
          /\ Second => b < search.from
          /\ ~Second => b >= search.from
      <3>1. CASE Second
        BY <1>1, <1>12, <3>1, NotPassed
      <3>2. CASE ~Second
        <4>1. b >= search.from
          BY <1>5, <1>6, <1>12, <3>2 DEF Passed
        <4>2. ~(b < search.from)
          BY <4>1, <2>1, <1>4
        <4>3. QED
          BY <1>1, <1>12, <3>2, <4>1, <4>2, NotPassed
      <3>3. QED
        BY <3>1, <3>2
    <2>3. b + n <= end
      BY <1>5, <1>6, <1>12, <2>1, <2>2, <1>4 DEF Passed
    <2>4. first <= b
      BY <2>2, <1>11, <1>12
    <2>5. n <= space
      BY <1>3, <1>10, <2>1, <2>3, <2>4
    <2>6. QED
      BY <2>2, <2>4, <2>5
  <1>13. ASSUME NEW b \in Volume, NEW n \in Nat \ {0}, Fits(b, n), Passed(b, n)
         PROVE  Passed(b, n)'
    BY <1>3, <1>4, <1>5, <1>6, <1>13 DEF Passed, Volume
  <1>14. LogOK'
    <2>1. /\ Turn(search.from)' = Turn(search.from)
          /\ \A b : Turn(b)' = Turn(b)
          /\ Written' = Written
      BY <1>2, <1>5 DEF Turn, Written
    <2>2. pc' # "full"
      BY <1>2
    <2>3. QED
      BY <1>1, <1>2, <1>5, <2>1, <2>2 DEF LogOK
  <1>15. CASE pc' = "search"
    <2>1. PlaceOK'
      BY <1>1, <1>3, <1>4, <1>5, <1>6 DEF PlaceOK, LastOf
    <2>2. EdgeOK'
      BY <1>2, <1>3, <1>5, <1>6 DEF EdgeOK
    <2>3. SpaceOK'
      BY <1>2, <1>3, <1>5, <1>6 DEF SpaceOK
    <2>4. BestOK'
      <3>1. CASE best.blocks < space
        <4>1. space < search.needed
          BY <3>1, <1>2, <1>3, <1>4, <1>15
        <4>2. best'.block = first /\ best'.blocks = space
          BY <3>1, <4>1, <1>2, <1>3, <1>4 DEF Lesser
        <4>3. ASSUME NEW b \in Volume, NEW n \in Nat \ {0},
                     Fits(b, n), Passed(b, n)'
              PROVE  /\ n <= space
                     /\ n = space => Distance(first) <= Distance(b)
          <5>1. CASE Passed(b, n)
            BY <5>1, <3>1, <4>3, <1>1, <1>3, <1>4 DEF BestOK
          <5>2. CASE ~Passed(b, n)
            <6>1. /\ first <= b /\ n <= space
                  /\ Second => b < search.from
                  /\ ~Second => b >= search.from
              BY <5>2, <4>3, <1>12
            <6>2. first >= search.from \/ b < search.from
              BY <6>1, <1>3 DEF PieceStart
            <6>3. QED
              BY <6>1, <6>2, <1>1, <1>10, DistanceGrows
          <5>3. QED
            BY <5>1, <5>2
        <4>4. space \in 1..space
          BY <1>3
        <4>5. QED
          <5>1. Fits(first, space) /\ Passed(first, space)'
            BY <4>4, <1>9
          <5>2. /\ Fits(first, space)' /\ Distance(first)' = Distance(first)
                /\ \A b \in Volume, n \in Nat \ {0} :
                     Fits(b, n)' = Fits(b, n) /\ Distance(b)' = Distance(b)
            BY <1>7, <5>1
          <5>3. QED
            BY <4>1, <4>2, <4>3, <5>1, <5>2, <1>5, <1>10 DEF BestOK
      <3>2. CASE ~(best.blocks < space)
        <4>1. best' = best /\ space <= best.blocks
          BY <3>2, <1>2, <1>3, <1>4
        <4>2. /\ best.block \in Volume /\ Fits(best.block, best.blocks)
              /\ Passed(best.block, best.blocks)
              /\ best.blocks \in Nat \ {0}
          BY <4>1, <1>1, <1>3, <1>4 DEF BestOK
        <4>3. ASSUME NEW b \in Volume, NEW n \in Nat \ {0},
                     Fits(b, n), Passed(b, n)'
              PROVE  /\ n <= best.blocks
                     /\ n = best.blocks => Distance(best.block) <= Distance(b)
          <5>1. CASE Passed(b, n)
            BY <5>1, <4>3, <1>1 DEF BestOK
          <5>2. CASE ~Passed(b, n)
            <6>1. /\ Position < b + n /\ n <= space
                  /\ Second => b < search.from
                  /\ ~Second => b >= search.from
              BY <5>2, <4>3, <1>12
            <6>2. b \in Nat
              BY DEF Volume
            <6>3. n <= best.blocks
              BY <6>1, <4>1, <1>3, <1>4
            <6>4. ASSUME n = best.blocks
                  PROVE  \/ /\ best.block <= b
                            /\ best.block >= search.from \/ b < search.from
                         \/ best.block >= search.from /\ b < search.from
              BY <6>1, <6>2, <6>4, <4>2, <1>4 DEF Passed
            <6>5. QED
              BY <6>3, <6>4, <1>1, <4>2, DistanceGrows
          <5>3. QED
            BY <5>1, <5>2
        <4>4. QED
          BY <4>1, <4>2, <4>3, <1>1, <1>5, <1>7, <1>13 DEF BestOK
      <3>3. QED
        BY <3>1, <3>2
    <2>5. FindsSpace'
      BY <1>15 DEF FindsSpace
    <2>6. NoMore'
      <3>1. best'.blocks < search'.needed
        BY <2>4 DEF BestOK
      <3>2. best'.blocks \in Nat /\ search'.needed \in Nat
        BY <1>8 DEF TypeOK, Searches
      <3>3. QED
        BY <3>1, <3>2 DEF NoMore
    <2>7. QED
      BY <2>1, <2>2, <2>3, <2>4, <2>5, <2>6, <1>8, <1>14 DEF Inv, SearchOK
  <1>16. CASE pc' # "search"
    <2>1. /\ pc' = "found" /\ best.blocks < space /\ search.needed <= space
      BY <1>16, <1>2, <1>3, <1>4
    <2>2. best'.block = first /\ best'.blocks = search.needed
      BY <2>1, <1>2, <1>3, <1>4 DEF Lesser
    <2>3. ASSUME NEW b \in Volume, Fits(b, search.needed)
          PROVE  Distance(first) <= Distance(b)
      <3>1. ~Passed(b, search.needed)
        BY <2>3, <1>1, <1>4 DEF BestOK
      <3>2. CASE /\ PieceStart <= b /\ Position < b + search.needed
                 /\ Second => b < search.from
                 /\ ~Second => b >= search.from
        <4>1. first <= b
          BY <3>1, <3>2, <2>3, <1>4, <1>11
        <4>2. first >= search.from \/ b < search.from
          BY <3>2, <1>3 DEF PieceStart
        <4>3. QED
          BY <4>1, <4>2, <1>1, <1>10, DistanceGrows
      <3>3. CASE ~Second /\ b < search.from
        <4>1. first >= search.from
          BY <3>3, <1>3 DEF PieceStart
        <4>2. QED
          BY <4>1, <3>3, <1>1, <1>10, DistanceGrows
      <3>4. QED
        BY <3>1, <3>2, <3>3, <2>3, <1>1, <1>4, NotPassed
    <2>4. search.needed \in 1..space
      BY <2>1, <1>3, <1>4
    <2>5. (search.needed + 1)..search.needed = {}
      BY <1>4
    <2>6. FindsSpace'
      BY <2>1, <2>2, <2>3, <2>4, <2>5, <1>4, <1>5, <1>7, <1>9 DEF FindsSpace
    <2>7. NoMore'
      BY <2>2, <1>4, <1>5 DEF NoMore
    <2>8. QED
      BY <2>6, <2>7, <1>8, <1>14, <1>16 DEF Inv
  <1>17. QED
    BY <1>15, <1>16
-----------------------------------------------------------------------------
(* The end of a bitmap block. *)

\* Nothing is free behind the position in this bitmap block.
LEMMA NothingLeft ==
  ASSUME TypeOK, PlaceOK, Starts = {},
         NEW c \in Nat, Position <= c, c < search.block + LocalBreakpoint
  PROVE  c \notin free
  <1> DEFINE i == c - search.block
  <1>1. /\ search.block \in Nat /\ search.bitend \in 0..PerBitmap
        /\ PerBitmap \in Nat /\ Position = search.block + search.bitend
        /\ LocalBreakpoint \in 1..PerBitmap
    BY Fields, BlockIs DEF Position
  <1>2. /\ i \in Nat /\ search.bitend <= i /\ i < LocalBreakpoint
        /\ search.block + i = c
    BY <1>1
  <1> HIDE DEF i
  <1>3. QED
    BY <1>2, BlockIs

\* So a place that was not passed ends in another bitmap block.
LEMMA NotPassedHere ==
  ASSUME TypeOK, PlaceOK, Starts = {},
         NEW b \in Volume, NEW n \in Nat \ {0}, Fits(b, n), ~Passed(b, n)
  PROVE  \/ /\ search.block + LocalBreakpoint < b + n
            /\ b + n <= search.breakpoint
         \/ /\ Around /\ ~Second /\ b < search.from
  <1>1. /\ b \in Nat /\ \A c \in b..(b + n - 1) : c \in free
    BY FitsIs
  <1>2. /\ search.block \in Nat /\ Position \in Nat
        /\ LocalBreakpoint \in 1..PerBitmap /\ PerBitmap \in Nat
    BY Fields, BlockIs
  <1>3. SUFFICES ASSUME Position < b + n, b + n <= search.breakpoint
                 PROVE  search.block + LocalBreakpoint < b + n
    BY NotPassed
  <1>4. SUFFICES ASSUME b + n <= search.block + LocalBreakpoint PROVE FALSE
    BY <1>1, <1>2
  <1> DEFINE c == b + n - 1
  <1>5. /\ c \in Nat /\ Position <= c /\ c < search.block + LocalBreakpoint
        /\ c \in b..(b + n - 1)
    BY <1>1, <1>2, <1>3, <1>4
  <1> HIDE DEF c
  <1>6. QED
    BY <1>1, <1>5, NothingLeft

\* Whether there is a next bitmap block.
LEMMA ReadsLeft ==
  ASSUME TypeOK, PlaceOK
  PROVE  /\ search.reads = 1 =>
              /\ ~(Around /\ ~Second)
              /\ search.block + LocalBreakpoint = search.breakpoint
         /\ search.reads # 1 /\ search.block + PerBitmap < Total =>
              /\ search.block + PerBitmap < search.breakpoint
              /\ LocalBreakpoint = PerBitmap
         /\ search.reads # 1 /\ ~(search.block + PerBitmap < Total) =>
              /\ Around /\ ~Second
              /\ search.block + LocalBreakpoint = Total
              /\ search.bitmapblock = LastBitmapBlock
  <1>1. /\ search.block \in Nat /\ search.bitmapblock \in Nat
        /\ search.breakpoint \in Nat /\ search.breakpoint <= Total
        /\ search.to \in 1..Total /\ search.reads \in Nat \ {0}
        /\ Total \in Nat /\ PerBitmap \in Nat \ {0}
    BY Fields
  <1>2. /\ search.block = search.bitmapblock * PerBitmap
        /\ search.block < search.breakpoint
        /\ search.breakpoint = IF Around /\ ~Second THEN Total ELSE search.to
        /\ search.reads = LastOf(search.to) + 1 - search.bitmapblock
              + (IF Around /\ ~Second THEN LastBitmapBlock + 1 ELSE 0)
    BY DEF PlaceOK
  <1>3. /\ LocalBreakpoint \in 1..PerBitmap
        /\ search.block + LocalBreakpoint <= search.breakpoint
        /\ \/ LocalBreakpoint = PerBitmap
           \/ search.block + LocalBreakpoint = search.breakpoint
    BY BlockIs
  <1> DEFINE l == LastBitmapBlock
             t == LastOf(search.to)
  <1>4. /\ t \in Nat /\ l \in Nat /\ t <= l
        /\ t * PerBitmap < search.to /\ search.to <= t * PerBitmap + PerBitmap
        /\ l * PerBitmap < Total /\ Total <= l * PerBitmap + PerBitmap
    BY <1>1, LastBlock
  <1>5. /\ t * PerBitmap \in Nat /\ l * PerBitmap \in Nat
    BY <1>4, NextBlock
  <1>6. search.bitmapblock <= l
    <2>1. SUFFICES ASSUME l < search.bitmapblock PROVE FALSE
      BY <1>1, <1>4
    <2>2. l * PerBitmap + PerBitmap <= search.block
      BY <2>1, <1>1, <1>2, <1>4, NextBlock
    <2>3. QED
      BY <2>2, <1>1, <1>2, <1>4, <1>5
  <1>7. CASE Around /\ ~Second
    <2>1. /\ search.breakpoint = Total
          /\ search.reads = t + 1 - search.bitmapblock + (l + 1)
      BY <1>2, <1>7
    <2>2. search.reads # 1
      BY <2>1, <1>1, <1>4, <1>6
    <2>3. ASSUME search.block + PerBitmap < Total
          PROVE  LocalBreakpoint = PerBitmap
      BY <2>1, <2>3, <1>1, <1>3
    <2>4. ASSUME ~(search.block + PerBitmap < Total)
          PROVE  /\ search.block + LocalBreakpoint = Total
                 /\ search.bitmapblock = l
      <3>1. search.block + LocalBreakpoint = Total
        BY <2>1, <2>4, <1>1, <1>3
      <3>2. ~(search.bitmapblock < l)
        <4>1. SUFFICES ASSUME search.bitmapblock < l PROVE FALSE
          OBVIOUS
        <4>2. search.block + PerBitmap <= l * PerBitmap
          BY <4>1, <1>1, <1>2, <1>4, NextBlock
        <4>3. QED
          BY <4>2, <2>4, <1>1, <1>4, <1>5
      <3>3. QED
        BY <3>1, <3>2, <1>1, <1>4, <1>6
    <2>5. QED
      BY <2>1, <2>2, <2>3, <2>4, <1>7
  <1>8. CASE ~(Around /\ ~Second)
    <2>1. /\ search.breakpoint = search.to
          /\ search.reads = t + 1 - search.bitmapblock
      BY <1>1, <1>2, <1>4, <1>8
    <2>2. ASSUME search.reads = 1
          PROVE  search.block + LocalBreakpoint = search.breakpoint
      <3>1. search.bitmapblock = t
        <4>1. t \in Nat /\ search.bitmapblock \in Nat
          BY <1>1, <1>4
        <4>2. 1 = t + 1 - search.bitmapblock
          BY <2>1, <2>2
        <4>3. QED
          BY <4>1, <4>2
      <3>2. search.breakpoint <= search.block + PerBitmap
        BY <2>1, <3>1, <1>2, <1>4
      <3>3. QED
        BY <3>2, <1>1, <1>3
    <2>3. ASSUME search.reads # 1
          PROVE  search.block + PerBitmap < search.breakpoint
      <3>1. search.bitmapblock < t
        BY <2>1, <2>3, <1>1, <1>4
      <3>2. search.block + PerBitmap <= t * PerBitmap
        BY <3>1, <1>1, <1>2, <1>4, NextBlock
      <3>3. QED
        BY <2>1, <3>2, <1>1, <1>4, <1>5
    <2>4. ASSUME search.reads # 1
          PROVE  LocalBreakpoint = PerBitmap /\ search.block + PerBitmap < Total
      BY <2>3, <2>4, <1>1, <1>3
    <2>5. QED
      BY <2>2, <2>3, <2>4, <1>8
  <1>9. QED
    BY <1>7, <1>8

LEMMA NextBitmapBlockStep ==
  ASSUME Inv, NextBitmapBlock
  PROVE  Inv'
  <1>1. /\ TypeOK /\ PlaceOK /\ EdgeOK /\ SpaceOK /\ BestOK /\ LogOK
        /\ pc = "search" /\ Starts = {}
        /\ free' = free /\ best' = best /\ rover' = rover /\ chain' = chain
        /\ NoMore
    BY DEF Inv, SearchOK, NextBitmapBlock
  <1>2. /\ search.needed \in Nat \ {0} /\ search.from \in Nat
        /\ search.from < Total /\ search.to \in 1..Total
        /\ search.bitmapblock \in Nat /\ search.reads \in Nat \ {0}
        /\ search.block \in Nat /\ search.space \in Nat
        /\ search.bitend \in 0..PerBitmap
        /\ search.breakpoint \in 1..Total
        /\ Position \in Nat /\ PieceStart \in Nat
        /\ Total \in Nat \ {0} /\ PerBitmap \in Nat \ {0}
        /\ best.block \in Nat /\ best.blocks \in Nat
    BY <1>1, Fields
  <1>3. /\ LocalBreakpoint \in 1..PerBitmap
        /\ Position = search.block + search.bitend
    BY <1>1, BlockIs DEF Position
  <1>4. CASE search.reads = 1
    <2>1. pc' = "seen" /\ search' = search
      BY <1>4 DEF NextBitmapBlock
    <2>2. /\ Around' = Around /\ \A b : Distance(b)' = Distance(b)
          /\ \A b, n : Fits(b, n)' = Fits(b, n)
      BY <1>1, <2>1 DEF Around, Distance, Fits
    <2>3. ASSUME NEW b \in Volume, NEW n \in Nat \ {0}, Fits(b, n)
          PROVE  Passed(b, n)
      <3>1. SUFFICES ASSUME ~Passed(b, n) PROVE FALSE
        OBVIOUS
      <3>2. /\ ~(Around /\ ~Second)
            /\ search.block + LocalBreakpoint = search.breakpoint
        BY <1>1, <1>4, ReadsLeft
      <3>3. b \in Nat
        BY DEF Volume
      <3>4. QED
        BY <1>1, <1>2, <1>3, <2>3, <3>1, <3>2, <3>3, NotPassedHere
    <2>4. /\ best.blocks < search.needed
          /\ \A b \in Volume, n \in Nat \ {0} : Fits(b, n) =>
               /\ n <= best.blocks
               /\ n = best.blocks => Distance(best.block) <= Distance(b)
          /\ best.blocks > 0 => Fits(best.block, best.blocks)
      BY <1>1, <2>3 DEF BestOK
    <2>5. FindsSpace'
      <3>1. \A n \in (best.blocks + 1)..search.needed :
              \A b \in Volume : ~Fits(b, n)
        BY <2>4, <1>2
      <3>2. best.blocks # search.needed
        BY <2>4, <1>2
      <3>3. best.blocks > 0 =>
              /\ Fits(best.block, best.blocks)
              /\ \A b \in Volume : Fits(b, best.blocks)
                                     => Distance(best.block) <= Distance(b)
        BY <2>4, <1>2
      <3>4. QED
        BY <3>1, <3>2, <3>3, <2>1, <2>2, <1>1 DEF FindsSpace
    <2>6. LogOK'
      <3>1. /\ Turn(search.from)' = Turn(search.from)
            /\ \A b : Turn(b)' = Turn(b)
            /\ Written' = Written
        BY <1>1, <2>1 DEF Turn, Written
      <3>2. QED
        BY <3>1, <2>1, <1>1 DEF LogOK
    <2>7. TypeOK'
      BY <1>1, <2>1 DEF TypeOK
    <2>8. NoMore'
      BY <1>1, <2>1 DEF NoMore
    <2>9. QED
      BY <2>1, <2>5, <2>6, <2>7, <2>8 DEF Inv
  <1>5. CASE search.reads # 1
    <2>1. pc' = pc /\ search' = AfterThisBitmapBlock
      BY <1>5 DEF NextBitmapBlock
    <2> DEFINE onward == search.block + PerBitmap < Total
               space == IF search.bitend = PerBitmap THEN search.space ELSE 0
    <2>2. ASSUME onward
          PROVE  search' = [search EXCEPT !.reads = search.reads - 1,
                     !.bitend = 0, !.space = space,
                     !.block = search.block + PerBitmap,
                     !.bitmapblock = search.bitmapblock + 1]
      BY <2>1, <2>2 DEF AfterThisBitmapBlock
    <2>3. ASSUME ~onward
          PROVE  search' = [search EXCEPT !.reads = search.reads - 1,
                     !.bitend = 0, !.space = 0, !.block = 0,
                     !.bitmapblock = 0, !.breakpoint = search.to]
      BY <2>1, <2>3 DEF AfterThisBitmapBlock
    <2> HIDE DEF onward, space
    <2>4. search \in Searches
      BY <1>1 DEF TypeOK
    <2>5. /\ search'.needed = search.needed /\ search'.from = search.from
          /\ search'.to = search.to /\ search'.reads = search.reads - 1
          /\ search'.bitend = 0
      BY <2>2, <2>3, <2>4 DEF Searches
    <2>6. /\ \A b : Distance(b)' = Distance(b)
          /\ \A b, n : Fits(b, n)' = Fits(b, n)
          /\ Around' = Around
      BY <1>1, <2>5 DEF Around, Distance, Fits
    <2>7. LogOK'
      <3>1. /\ Turn(search.from)' = Turn(search.from)
            /\ \A b : Turn(b)' = Turn(b)
            /\ Written' = Written
        BY <1>1, <2>5 DEF Turn, Written
      <3>2. QED
        BY <3>1, <2>1, <2>5, <1>1 DEF LogOK
    <2>8. FindsSpace'
      BY <1>1, <2>1 DEF FindsSpace
    <2>9. NoMore'
      BY <1>1, <2>5 DEF NoMore
    <2>10. search.reads - 1 \in Nat \ {0} /\ 0 \in 0..PerBitmap
      BY <1>2, <1>5
    <2>11. CASE onward
      <3>1. /\ search'.space = space
            /\ search'.block = search.block + PerBitmap
            /\ search'.bitmapblock = search.bitmapblock + 1
            /\ search'.breakpoint = search.breakpoint
        BY <2>2, <2>4, <2>11 DEF Searches
      <3>2. /\ search.block + PerBitmap < search.breakpoint
            /\ LocalBreakpoint = PerBitmap
        BY <1>1, <1>5, <2>11, ReadsLeft DEF onward
      <3>3. /\ space \in Nat /\ search.block + PerBitmap \in Nat
            /\ search.bitmapblock + 1 \in Nat
        BY <1>2 DEF space
      <3>4. TypeOK'
        <4>1. search' \in Searches
          BY <3>3, <2>2, <2>4, <2>10, <2>11 DEF Searches
        <4>2. QED
          BY <4>1, <1>1, <2>1 DEF TypeOK
      <3>5. /\ Second' = Second /\ PieceStart' = PieceStart
            /\ Position' = search.block + PerBitmap
        BY <1>2, <2>5, <2>6, <3>1 DEF Second, PieceStart, Position
      <3>6. PlaceOK'
        <4>1. search'.block = search'.bitmapblock * PerBitmap
          BY <1>1, <1>2, <3>1, NextBlock DEF PlaceOK
        <4>2. PieceStart <= search.block + PerBitmap
          BY <1>1, <1>2, <1>3 DEF PlaceOK
        <4>3. search.breakpoint = IF Around /\ ~Second THEN Total ELSE search.to
          BY <1>1 DEF PlaceOK
        <4>4. LastOf(search.to) \in Nat /\ LastBitmapBlock \in Nat
          BY <1>2, LastBlock
        <4>5. search.reads - 1 = LastOf(search.to) + 1 - (search.bitmapblock + 1)
                + (IF Around /\ ~Second THEN LastBitmapBlock + 1 ELSE 0)
          BY <4>4, <1>1, <1>2 DEF PlaceOK
        <4>6. LastOf(search.to)' = LastOf(search.to)
          BY <2>5 DEF LastOf
        <4>7. QED
          BY <4>1, <4>2, <4>3, <4>5, <4>6, <1>2, <2>5, <2>6, <3>1, <3>2, <3>5
          DEF PlaceOK
      <3>7. EdgeOK'
        BY <2>5 DEF EdgeOK
      <3>8. SpaceOK'
        <4>1. CASE search.bitend = PerBitmap
          <5>1. Position' = Position /\ search'.space = search.space
            BY <4>1, <1>3, <3>1, <3>5 DEF space
          <5>2. QED
            BY <5>1, <1>1, <3>5 DEF SpaceOK
        <4>2. CASE search.bitend # PerBitmap
          <5> DEFINE first == search.block + PerBitmap
          <5>1. /\ search'.space = 0 /\ first \in Nat /\ first - 1 \in Nat
                /\ Position <= first - 1 /\ first - 1 < first
                /\ first - 0 = first
            BY <4>2, <1>2, <1>3, <3>1, <3>3 DEF space
          <5>2. first - 1 \notin free
            BY <5>1, <1>1, <3>2, NothingLeft
          <5>3. PieceStart <= first
            BY <1>1, <1>2, <1>3 DEF PlaceOK
          <5>4. QED
            BY <5>1, <5>2, <5>3, <1>1, <1>2, <3>5 DEF SpaceOK
        <4>3. QED
          BY <4>1, <4>2
      <3>9. BestOK'
        <4>1. ASSUME NEW b \in Volume, NEW n \in Nat \ {0}, Fits(b, n),
                     Passed(b, n)'
              PROVE  Passed(b, n)
          <5>1. SUFFICES ASSUME ~Passed(b, n) PROVE FALSE
            OBVIOUS
          <5>2. b \in Nat
            BY DEF Volume
          <5>3. /\ ~(Second /\ b >= search.from)
                /\ b + n <= search.block + PerBitmap
                /\ ~Second => b >= search.from
            BY <4>1, <5>1, <2>5, <3>5 DEF Passed
          <5>4. QED
            BY <4>1, <5>1, <5>2, <5>3, <1>1, <1>2, <3>2, NotPassedHere
        <4>2. ASSUME best.blocks > 0
              PROVE  Passed(best.block, best.blocks)'
          <5>1. Passed(best.block, best.blocks)
            BY <4>2, <1>1 DEF BestOK
          <5>2. Position <= search.block + PerBitmap
            BY <1>2, <1>3
          <5>3. QED
            BY <5>1, <5>2, <1>1, <1>2, <2>5, <3>5 DEF Passed
        <4>3. QED
          BY <4>1, <4>2, <1>1, <2>5, <2>6 DEF BestOK
      <3>10. QED
        BY <3>4, <3>6, <3>7, <3>8, <3>9, <2>7, <2>8, <2>9 DEF Inv, SearchOK
    <2>12. CASE ~onward
      <3>1. /\ search'.space = 0 /\ search'.block = 0
            /\ search'.bitmapblock = 0 /\ search'.breakpoint = search.to
        BY <2>3, <2>4, <2>12 DEF Searches
      <3>2. /\ Around /\ ~Second
            /\ search.block + LocalBreakpoint = Total
            /\ search.bitmapblock = LastBitmapBlock
        BY <1>1, <1>5, <2>12, ReadsLeft DEF onward
      <3>3. TypeOK'
        <4>1. search' \in Searches
          <5>1. search.to \in 1..Total /\ 0 \in Nat
            BY <1>2
          <5>2. QED
            BY <5>1, <2>3, <2>4, <2>10, <2>12 DEF Searches
        <4>2. QED
          BY <4>1, <1>1, <2>1 DEF TypeOK
      <3>4. Second' /\ PieceStart' = 0 /\ Position' = 0
        BY <2>5, <2>6, <3>1, <3>2 DEF Second, PieceStart, Position
      <3>5. PlaceOK'
        <4>1. LastOf(search.to) \in Nat /\ LastBitmapBlock \in Nat
          BY <1>2, LastBlock
        <4>2. search.reads - 1 = LastOf(search.to) + 1 - 0 + 0
          BY <4>1, <3>2, <1>1, <1>2 DEF PlaceOK
        <4>3. LastOf(search.to)' = LastOf(search.to)
          BY <2>5 DEF LastOf
        <4>4. 0 = 0 * PerBitmap /\ 0 < search.to /\ 0 <= search.to
          BY <1>2
        <4>5. QED
          BY <4>2, <4>3, <4>4, <2>5, <2>6, <3>1, <3>2, <3>4 DEF PlaceOK
      <3>6. EdgeOK'
        BY <2>5 DEF EdgeOK
      <3>7. SpaceOK'
        BY <3>1, <3>4 DEF SpaceOK
      <3>8. BestOK'
        <4>1. ASSUME NEW b \in Volume, NEW n \in Nat \ {0}, Fits(b, n),
                     Passed(b, n)'
              PROVE  Passed(b, n)
          <5>1. SUFFICES ASSUME ~Passed(b, n) PROVE FALSE
            OBVIOUS
          <5>2. b \in Nat /\ b + n <= Total
            BY <4>1, <1>1, FitsIs
          <5>3. b >= search.from
            BY <4>1, <5>2, <2>5, <3>4 DEF Passed
          <5>4. QED
            BY <4>1, <5>1, <5>2, <5>3, <1>1, <1>2, <3>2, NotPassedHere
        <4>2. ASSUME best.blocks > 0
              PROVE  Passed(best.block, best.blocks)'
          <5>1. Passed(best.block, best.blocks)
            BY <4>2, <1>1 DEF BestOK
          <5>2. QED
            BY <5>1, <1>1, <2>5, <3>2, <3>4 DEF Passed
        <4>3. QED
          BY <4>1, <4>2, <1>1, <2>5, <2>6 DEF BestOK
      <3>9. QED
        BY <3>3, <3>5, <3>6, <3>7, <3>8, <2>7, <2>8, <2>9 DEF Inv, SearchOK
    <2>13. QED
      BY <2>11, <2>12
  <1>6. QED
    BY <1>4, <1>5
-----------------------------------------------------------------------------
(* The blocks of the log. *)

\* The blocks in turn, from the roving pointer on and around the volume.
LEMMA TurnIs ==
  ASSUME rover \in Volume
  PROVE  /\ Turn(rover) = 0
         /\ \A b \in Volume : Turn(b) \in Volume
         /\ \A b, c \in Volume : Turn(b) = Turn(c) => b = c
         /\ \A b \in Volume : IF b + 1 = rover
                                THEN Turn(b) = Total - 1
                                ELSE Turn(b + 1) = Turn(b) + 1
  <1>1. Total \in Nat \ {0} /\ rover \in Nat /\ rover < Total
    BY SizesAssumption DEF Volume
  <1>2. \A b \in Volume : b \in Nat /\ b < Total
    BY <1>1 DEF Volume
  <1>3. ASSUME NEW b \in Volume
        PROVE  /\ Turn(b) \in Volume
               /\ IF b + 1 = rover THEN Turn(b) = Total - 1
                                   ELSE Turn(b + 1) = Turn(b) + 1
    BY <1>1, <1>2 DEF Turn, Volume
  <1>4. ASSUME NEW b \in Volume, NEW c \in Volume, Turn(b) = Turn(c)
        PROVE  b = c
    BY <1>1, <1>2, <1>4 DEF Turn
  <1>5. Turn(rover) = 0
    BY <1>1 DEF Turn
  <1>6. QED
    BY <1>3, <1>4, <1>5

\* The search for a block of the log looks at the blocks whose turn has not come.
LEMMA LogPlaces ==
  ASSUME TypeOK, LogOK, rover # NoSearcher, pc # "full"
  PROVE  /\ rover \in Volume
         /\ \A b \in free : Fits(b, 1) <=> Turn(search.from) <= Turn(b)
         /\ \A b, c \in free :
              Fits(b, 1) /\ Fits(c, 1) /\ Distance(b) <= Distance(c)
                => Turn(b) <= Turn(c)
  <1>1. /\ search.from \in Nat /\ search.from < Total /\ Total \in Nat \ {0}
        /\ search.to = IF rover = 0 THEN Total ELSE rover
        /\ rover \in Nat /\ rover < Total /\ rover \in Volume
    <2>1. search.from \in Nat /\ search.from < Total /\ Total \in Nat \ {0}
      BY Fields
    <2>2. search.to = IF rover = 0 THEN Total ELSE rover
      BY DEF LogOK
    <2>3. rover \in 0..Total /\ rover # Total
      BY DEF TypeOK, NoSearcher
    <2>4. QED
      BY <2>1, <2>2, <2>3 DEF Volume
  <1>2. \A b \in free : b \in Nat /\ b < Total
    <2>1. free \subseteq Volume
      BY DEF TypeOK
    <2>2. \A b \in Volume : b \in Nat /\ b < Total
      BY <1>1 DEF Volume
    <2>3. QED
      BY <2>1, <2>2
  <1>3. ASSUME NEW b \in free
        PROVE  Fits(b, 1) <=> \/ search.from < search.to /\ search.from <= b
                                 /\ b + 1 <= search.to
                              \/ search.to <= search.from /\ search.from <= b
                              \/ search.to <= search.from /\ b < search.from
                                 /\ b + 1 <= search.to
    <2>1. b \in Nat /\ b < Total
      BY <1>2
    <2>2. b..(b + 1 - 1) = {b} /\ b + 1 <= Total
      BY <2>1, <1>1
    <2>3. QED
      BY <2>2 DEF Fits
  <1>4. ASSUME NEW b \in free
        PROVE  Fits(b, 1) <=> Turn(search.from) <= Turn(b)
    <2>1. b \in Nat /\ b < Total
      BY <1>2
    <2>2. QED
      BY <2>1, <1>1, <1>3 DEF Turn
  <1>5. ASSUME NEW b \in free, NEW c \in free, Fits(b, 1), Fits(c, 1),
               Distance(b) <= Distance(c)
        PROVE  Turn(b) <= Turn(c)
    <2>1. b \in Nat /\ b < Total /\ c \in Nat /\ c < Total
      BY <1>2
    <2>2. QED
      BY <2>1, <1>1, <1>3, <1>5 DEF Turn, Distance
  <1>6. QED
    BY <1>1, <1>4, <1>5

\* A set of blocks is finite, and grows by one with a new one.
LEMMA BlocksCounted ==
  ASSUME NEW S, S \subseteq Volume, NEW b \in Volume, b \notin S
  PROVE  Cardinality(S \cup {b}) = Cardinality(S) + 1
  <1>1. Total \in Nat
    BY SizesAssumption
  <1>2. IsFiniteSet(Volume)
    BY <1>1, FS_Interval DEF Volume
  <1>3. IsFiniteSet(S)
    BY <1>2, FS_Subset
  <1>4. QED
    BY <1>3, FS_AddElement

\* Whatever the search is for, when it begins it is in order.
Begins ==
  \A needed \in Nat \ {0}, start \in Volume, end \in 0..Total :
    /\ free \subseteq Volume /\ best = NothingFound
    /\ search = Call(needed, start, end)
    => SearchOK

LEMMA BeginsOK == Begins
  BY BeginOK DEF Begins

LEMMA WriteLogBlockStep ==
  ASSUME Inv, WriteLogBlock
  PROVE  Inv'
  <1> SUFFICES ASSUME NEW new, new = best.block
               PROVE  Inv'
    OBVIOUS
  <1>1. /\ TypeOK /\ LogOK /\ FindsSpace /\ rover # NoSearcher /\ pc = "found"
        /\ chain' = Append(chain, new) /\ best' = NothingFound
        /\ free' = free /\ rover' = rover
    BY DEF Inv, WriteLogBlock
  <1>2. /\ Total - 1 \notin free /\ Cardinality(Written) = Len(chain)
        /\ search.needed = 1
        /\ Written = {b \in free : Turn(b) < Turn(search.from)}
    BY <1>1 DEF LogOK
  <1>3. /\ Total \in Nat \ {0} /\ free \subseteq Volume /\ search.from \in Volume
        /\ chain \in Seq(Volume) /\ rover \in Volume
        /\ \A b \in Volume : b \in Nat /\ b < Total
    <2>1. /\ free \subseteq Volume /\ search.from \in Volume
          /\ chain \in Seq(Volume) /\ Total \in Nat \ {0}
      BY <1>1, Fields DEF TypeOK
    <2>2. rover \in Volume
      BY <1>1, LogPlaces
    <2>3. \A b \in Volume : b \in Nat /\ b < Total
      BY <2>1 DEF Volume
    <2>4. QED
      BY <2>1, <2>2, <2>3
  <1>4. /\ best.blocks = 1 /\ Fits(new, 1)
        /\ \A b \in Volume : Fits(b, 1) => Distance(new) <= Distance(b)
    BY <1>1, <1>2 DEF FindsSpace
  <1>5. new \in free /\ new \in Volume /\ new \in Nat /\ new + 1 \in Volume
    <2>1. new \in Nat
      BY <1>1 DEF TypeOK
    <2>2. new \in new..(new + 1 - 1)
      BY <2>1
    <2>3. new \in free
      BY <2>2, <1>4 DEF Fits
    <2>4. new # Total - 1
      BY <2>3, <1>2
    <2>5. QED
      BY <2>1, <2>3, <2>4, <1>3 DEF Volume
  <1>6. /\ \A b \in Volume : Turn(b) \in Nat /\ Turn(b) < Total
        /\ Turn(search.from) \in Nat
    BY <1>3, TurnIs
  <1>7. Turn(search.from) <= Turn(new)
    BY <1>1, <1>4, <1>5, LogPlaces
  <1>8. new \notin Written
    BY <1>2, <1>3, <1>5, <1>6, <1>7
  <1>9. ASSUME NEW b \in free
        PROVE  Turn(b) <= Turn(new) <=> b \in Written \cup {new}
    <2>1. b \in Volume
      BY <1>3
    <2>2. CASE Turn(b) < Turn(search.from)
      BY <2>1, <2>2, <1>2, <1>5, <1>6, <1>7
    <2>3. CASE ~(Turn(b) < Turn(search.from))
      <3>1. Fits(b, 1)
        BY <2>1, <2>3, <1>1, <1>6, LogPlaces
      <3>2. Turn(new) <= Turn(b)
        BY <2>1, <3>1, <1>1, <1>4, <1>5, LogPlaces
      <3>3. Turn(b) = Turn(new) => b = new
        BY <2>1, <1>3, <1>5, TurnIs
      <3>4. b \notin Written
        BY <2>3, <1>2
      <3>5. QED
        BY <2>1, <3>2, <3>3, <3>4, <1>5, <1>6
    <2>4. QED
      BY <2>2, <2>3
  <1>10. Written' = Written \cup {new}
    <2>1. /\ Len(chain') = Len(chain) + 1
          /\ \A i \in 1..Len(chain) : chain'[i] = chain[i]
          /\ chain'[Len(chain) + 1] = new
          /\ Len(chain) \in Nat
          /\ DOMAIN chain = 1..Len(chain) /\ DOMAIN chain' = 1..Len(chain')
      BY <1>1, <1>3, <1>5
    <2>2. DOMAIN chain' = DOMAIN chain \cup {Len(chain) + 1}
      BY <2>1
    <2>3. QED
      BY <2>1, <2>2 DEF Written
  <1>11. chain' \in Seq(Volume) /\ Cardinality(Written') = Len(chain')
    <2>1. Written \subseteq Volume /\ Len(chain) \in Nat
      BY <1>2, <1>3
    <2>2. Cardinality(Written') = Cardinality(Written) + 1
      BY <2>1, <1>5, <1>8, <1>10, BlocksCounted
    <2>3. chain' \in Seq(Volume) /\ Len(chain') = Len(chain) + 1
      BY <1>1, <1>3, <1>5
    <2>4. QED
      BY <2>2, <2>3, <1>2
  <1>12. Written' \subseteq free
    BY <1>2, <1>5, <1>10
  <1>13. /\ best' \in [block : Nat, blocks : Nat] /\ best'.blocks = 0
    BY <1>1 DEF NothingFound, Fragment
  <1>14. \A b : Turn(b)' = Turn(b)
    BY <1>1 DEF Turn
  <1>15. CASE new + 1 = rover
    <2>1. pc' = "full" /\ search' = search
      BY <1>15 DEF WriteLogBlock
    <2>2. TypeOK'
      BY <2>1, <1>1, <1>11, <1>13 DEF TypeOK
    <2>3. FindsSpace'
      BY <2>1 DEF FindsSpace
    <2>4. Written' = free
      <3>1. Turn(new) = Total - 1
        BY <1>3, <1>5, <1>15, TurnIs
      <3>2. \A b \in free : Turn(b) <= Turn(new)
        BY <3>1, <1>3, <1>6
      <3>3. QED
        BY <3>2, <1>9, <1>10, <1>12
    <2>5. LogOK'
      BY <2>1, <2>4, <1>1, <1>2, <1>11, <1>12 DEF LogOK
    <2>6. NoMore'
      <3>1. best'.blocks = 0 /\ search'.needed = 1
        BY <2>1, <1>2, <1>13
      <3>2. QED
        BY <3>1 DEF NoMore
    <2>7. QED
      BY <2>1, <2>2, <2>3, <2>5, <2>6 DEF Inv
  <1>16. CASE new + 1 # rover
    <2>1. pc' = "search" /\ search' = Call(1, new + 1, rover)
      BY <1>16 DEF WriteLogBlock
    <2>2. /\ 1 \in Nat \ {0} /\ rover \in 0..Total
      BY <1>1 DEF TypeOK
    <2>3. /\ search' \in Searches /\ search'.needed = 1
          /\ search'.from = new + 1
          /\ search'.to = IF rover = 0 THEN Total ELSE rover
      BY <2>1, <2>2, <1>5, CallIs
    <2>4. TypeOK'
      BY <2>1, <2>3, <1>1, <1>11, <1>13 DEF TypeOK
    <2>5. SearchOK'
      <3>1. Begins'
        BY BeginsOK, PTL
      <3>2. QED
        BY <3>1, <2>1, <2>2, <1>1, <1>3, <1>5 DEF Begins
    <2>6. FindsSpace'
      BY <2>1 DEF FindsSpace
    <2>7. Written' = {b \in free : Turn(b) < Turn(new + 1)}
      <3>1. Turn(new + 1) = Turn(new) + 1
        BY <1>3, <1>5, <1>16, TurnIs
      <3>2. \A b \in free : Turn(b) < Turn(new + 1) <=> Turn(b) <= Turn(new)
        BY <3>1, <1>3, <1>5, <1>6
      <3>3. QED
        BY <3>2, <1>9, <1>10, <1>12
    <2>8. LogOK'
      <3>1. Turn(search.from)' = Turn(new + 1)
        BY <2>3, <1>1 DEF Turn
      <3>2. QED
        BY <3>1, <2>1, <2>3, <2>7, <1>1, <1>2, <1>11, <1>12, <1>14 DEF LogOK
    <2>9. NoMore'
      BY <2>3, <1>13 DEF NoMore
    <2>10. QED
      BY <2>4, <2>5, <2>6, <2>8, <2>9 DEF Inv
  <1>17. QED
    BY <1>15, <1>16

LEMMA NoLogBlockStep ==
  ASSUME Inv, NoLogBlock
  PROVE  Inv'
  <1>1. /\ TypeOK /\ LogOK /\ FindsSpace /\ NoMore
        /\ rover # NoSearcher /\ pc = "seen" /\ pc' = "full"
        /\ free' = free /\ search' = search /\ best' = best
        /\ rover' = rover /\ chain' = chain
    BY DEF Inv, NoLogBlock
  <1>2. TypeOK' /\ FindsSpace' /\ NoMore'
    BY <1>1 DEF TypeOK, FindsSpace, NoMore
  <1>3. best.blocks = 0 /\ search.needed = 1
    <2>1. search.needed = 1
      BY <1>1 DEF LogOK
    <2>2. best.blocks # 1 /\ best.blocks <= 1 /\ best.blocks \in Nat
      BY <2>1, <1>1 DEF FindsSpace, NoMore, TypeOK
    <2>3. QED
      BY <2>1, <2>2
  <1>4. \A b \in Volume : ~Fits(b, 1)
    <2>1. 1 \in (best.blocks + 1)..search.needed
      BY <1>3
    <2>2. QED
      BY <2>1, <1>1 DEF FindsSpace
  <1>5. Written = free
    <2>1. /\ rover \in Volume /\ free \subseteq Volume
          /\ search.from \in Volume
          /\ Written = {b \in free : Turn(b) < Turn(search.from)}
      BY <1>1, Fields, LogPlaces DEF TypeOK, LogOK
    <2>2. \A b \in Volume : Turn(b) \in Nat
      BY <2>1, SizesAssumption, TurnIs DEF Volume
    <2>3. \A b \in free : ~(Turn(search.from) <= Turn(b))
      BY <2>1, <1>1, <1>4, LogPlaces
    <2>4. \A b \in free : Turn(b) < Turn(search.from)
      BY <2>1, <2>2, <2>3
    <2>5. QED
      BY <2>1, <2>4
  <1>6. LogOK'
    <2>1. Written' = Written
      BY <1>1 DEF Written
    <2>2. QED
      BY <2>1, <1>1, <1>5 DEF LogOK
  <1>7. QED
    BY <1>1, <1>2, <1>6 DEF Inv

-----------------------------------------------------------------------------
(* The theorems. *)

LEMMA InitInv == Init => Inv
  <1> SUFFICES ASSUME Init PROVE Inv
    OBVIOUS
  <1>1. /\ Total \in Nat \ {0}
        /\ free \subseteq Volume /\ best = NothingFound /\ pc = "search"
        /\ chain = <<>>
    BY SizesAssumption DEF Init
  <1>2. /\ best \in [block : Nat, blocks : Nat] /\ best.blocks = 0
        /\ chain \in Seq(Volume)
    BY <1>1 DEF NothingFound, Fragment
  <1>3. FindsSpace
    BY <1>1 DEF FindsSpace
  <1>4. CASE /\ rover = NoSearcher
             /\ \E needed \in 1..MaxNeeded, start \in Volume, end \in 0..Total :
                  search = Call(needed, start, end)
    <2>1. PICK needed \in 1..MaxNeeded, start \in Volume, end \in 0..Total :
            search = Call(needed, start, end)
      BY <1>4
    <2>2. needed \in Nat \ {0}
      BY NeededAssumption
    <2>3. SearchOK
      BY <2>1, <2>2, <1>1, BeginOK
    <2>4. TypeOK /\ NoMore
      <3>1. search \in Searches /\ search.needed = needed
        BY <2>1, <2>2, CallIs
      <3>2. rover \in 0..Total
        BY <1>1, <1>4 DEF NoSearcher
      <3>3. QED
        BY <3>1, <3>2, <2>2, <1>1, <1>2 DEF TypeOK, NoMore
    <2>5. LogOK
      BY <1>1, <1>4 DEF LogOK
    <2>6. QED
      BY <2>3, <2>4, <2>5, <1>3 DEF Inv
  <1>5. CASE /\ rover \in Volume /\ Total - 1 \notin free
             /\ search = Call(1, rover, rover)
    <2>1. rover \in 0..Total /\ 1 \in Nat \ {0}
      BY <1>1, <1>5 DEF Volume
    <2>2. SearchOK
      BY <2>1, <1>1, <1>5, BeginOK
    <2>3. /\ search \in Searches /\ search.needed = 1 /\ search.from = rover
          /\ search.to = IF rover = 0 THEN Total ELSE rover
      BY <2>1, <1>5, CallIs
    <2>4. TypeOK /\ NoMore
      BY <2>1, <2>3, <1>1, <1>2 DEF TypeOK, NoMore
    <2>5. LogOK
      <3>1. Written = {} /\ Len(chain) = 0 /\ Cardinality(Written) = 0
        BY <1>1, FS_EmptySet DEF Written
      <3>2. \A b \in free : ~(Turn(b) < Turn(search.from))
        BY <2>3, <1>1, <1>5, TurnIs DEF Volume
      <3>3. QED
        BY <3>1, <3>2, <2>3, <1>1, <1>5 DEF LogOK
    <2>6. QED
      BY <2>2, <2>4, <2>5, <1>3 DEF Inv
  <1>6. QED
    BY <1>4, <1>5 DEF Init

LEMMA InvStep == Inv /\ [Next]_vars => Inv'
  <1> SUFFICES ASSUME Inv, [Next]_vars PROVE Inv'
    OBVIOUS
  <1>1. CASE Space
    BY <1>1, SpaceStep
  <1>2. CASE NextBitmapBlock
    BY <1>2, NextBitmapBlockStep
  <1>3. CASE WriteLogBlock
    BY <1>3, WriteLogBlockStep
  <1>4. CASE NoLogBlock
    BY <1>4, NoLogBlockStep
  <1>5. CASE UNCHANGED vars
    <2>1. /\ free' = free /\ search' = search /\ best' = best /\ pc' = pc
          /\ rover' = rover /\ chain' = chain
      BY <1>5 DEF vars
    <2>2. /\ Around' = Around /\ Second' = Second /\ PieceStart' = PieceStart
          /\ Position' = Position /\ LastOf(search.to)' = LastOf(search.to)
          /\ \A b, n : Passed(b, n)' = Passed(b, n) /\ Fits(b, n)' = Fits(b, n)
          /\ \A b : Distance(b)' = Distance(b) /\ Turn(b)' = Turn(b)
          /\ Written' = Written
      BY <2>1 DEF Around, Second, PieceStart, Position, LastOf, Passed, Fits,
         Distance, Turn, Written
    <2>3. TypeOK' /\ NoMore'
      BY <2>1 DEF Inv, TypeOK, NoMore
    <2>4. pc' = "search" => SearchOK'
      <3>1. SUFFICES ASSUME SearchOK PROVE SearchOK'
        BY <2>1 DEF Inv
      <3>2. PlaceOK' /\ EdgeOK' /\ SpaceOK'
        BY <2>1, <2>2, <3>1 DEF SearchOK, PlaceOK, EdgeOK, SpaceOK
      <3>3. BestOK'
        BY <2>1, <2>2, <3>1 DEF SearchOK, BestOK
      <3>4. QED
        BY <3>2, <3>3 DEF SearchOK
    <2>5. FindsSpace'
      BY <2>1, <2>2 DEF Inv, FindsSpace
    <2>6. LogOK'
      <3>1. Turn(search.from)' = Turn(search.from)
        BY <2>1 DEF Turn
      <3>2. QED
        BY <2>1, <2>2, <3>1 DEF Inv, LogOK
    <2>7. QED
      BY <2>3, <2>4, <2>5, <2>6 DEF Inv
  <1>6. QED
    BY <1>1, <1>2, <1>3, <1>4, <1>5 DEF Next

LEMMA SpecInv == Spec => []Inv
  BY InitInv, InvStep, PTL DEF Spec

\* findspace2: whatever is free, and wherever the search begins and ends, it finds
\* the first place with the number of blocks it needs, or else the first of the
\* largest ones, over the edges of the bitmap blocks and around the end of the
\* volume.
THEOREM SpecFindsSpace == Spec => []FindsSpace
  <1>1. Inv => FindsSpace
    BY DEF Inv
  <1>2. QED
    BY <1>1, SpecInv, PTL

\* savetransaction: findspace never returns the same block for the log twice, and
\* the disk is full only when every free block holds a part of the log.
THEOREM SpecLogBlocksDiffer == Spec => []LogBlocksDiffer
  <1>1. Inv => LogBlocksDiffer
    <2>1. SUFFICES ASSUME TypeOK, LogOK PROVE LogBlocksDiffer
      BY DEF Inv
    <2>2. CASE rover = NoSearcher
      <3>1. chain = <<>> /\ pc # "full"
        BY <2>1, <2>2 DEF LogOK
      <3>2. Written = {} /\ Len(chain) = 0
        <4>1. DOMAIN chain = {} /\ Len(chain) = 0
          BY <3>1
        <4>2. QED
          BY <4>1 DEF Written
      <3>3. Cardinality(Written) = 0
        BY <3>2, FS_EmptySet
      <3>4. QED
        BY <3>1, <3>2, <3>3 DEF LogBlocksDiffer, Written
    <2>3. CASE rover # NoSearcher
      BY <2>1, <2>3 DEF LogOK, LogBlocksDiffer, Written
    <2>4. QED
      BY <2>2, <2>3
  <1>2. QED
    BY <1>1, SpecInv, PTL

\* A set with 0 and with the successor of each of its members up to n has every
\* number up to n.
LEMMA UpTo ==
  ASSUME NEW n \in Nat, NEW S, 0 \in S,
         \A i \in 0..(n - 1) : i \in S => i + 1 \in S
  PROVE  0..n \subseteq S
  <1>1. SUFFICES ASSUME (0..n) \ S # {} PROVE FALSE
    OBVIOUS
  <1>2. PICK i \in (0..n) \ S : \A j \in (0..n) \ S : i <= j
    <2>1. (0..n) \ S \subseteq Nat
      OBVIOUS
    <2>2. QED
      BY <1>1, <2>1, LeastExists
  <1>3. i # 0 /\ i - 1 \in 0..(n - 1) /\ i - 1 \notin (0..n) \ S
    BY <1>2
  <1>4. QED
    BY <1>2, <1>3

\* Every set of natural numbers with a bound has a greatest element.
LEMMA GreatestExists ==
  ASSUME NEW n \in Nat, NEW S, S \subseteq 0..n, S # {}
  PROVE  \E a \in S : \A b \in S : a >= b
  <1> DEFINE T == {k \in Nat : n - k \in S}
  <1>1. T \subseteq Nat
    OBVIOUS
  <1>2. T # {}
    <2>1. PICK x \in S : TRUE
      OBVIOUS
    <2>2. n - x \in Nat /\ n - (n - x) = x
      BY <2>1
    <2>3. n - x \in T
      BY <2>1, <2>2
    <2>4. QED
      BY <2>3
  <1>3. PICK k \in T : \A j \in T : k <= j
    BY <1>1, <1>2, LeastExists
  <1>4. ASSUME NEW b \in S PROVE n - k >= b
    <2>1. n - b \in Nat /\ n - (n - b) = b
      OBVIOUS
    <2>2. n - b \in T
      BY <2>1
    <2>3. QED
      BY <2>2, <1>3
  <1>5. n - k \in S
    BY <1>3
  <1>6. QED
    BY <1>4, <1>5

-----------------------------------------------------------------------------
(* Loops. *)

\* The function that a loop is.
Loops(S, s, g, n) ==
  {f \in [0..n -> S] : f = [i \in 0..n |-> IF i = 0 THEN s ELSE g[f[i - 1]]]}

\* A loop's function exists.
LEMMA RepeatExists ==
  ASSUME NEW S, NEW s \in S, NEW g \in [S -> S], NEW n \in Nat
  PROVE  \E f : f \in Loops(S, s, g, n)
  <1> DEFINE Is(f, k) ==
        f \in [0..k -> S] /\ f[0] = s /\ \A i \in 1..k : f[i] = g[f[i - 1]]
  <1> DEFINE T == {k \in 0..n : \E f : Is(f, k)}
  <1>1. 0 \in T
    <2>1. Is([i \in 0..0 |-> s], 0)
      OBVIOUS
    <2> HIDE DEF Is
    <2>2. QED
      BY <2>1
  <1>2. ASSUME NEW k \in 0..(n - 1), k \in T PROVE k + 1 \in T
    <2>1. PICK f : Is(f, k)
      BY <1>2
    <2> DEFINE h == [i \in 0..(k + 1) |-> IF i <= k THEN f[i] ELSE g[f[k]]]
    <2>2. f[k] \in S /\ g[f[k]] \in S
      BY <2>1
    <2>3. h \in [0..(k + 1) -> S] /\ h[0] = s
      BY <2>1, <2>2
    <2>4. ASSUME NEW i \in 1..(k + 1) PROVE h[i] = g[h[i - 1]]
      <3>1. CASE i <= k
        <4>1. h[i] = f[i] /\ h[i - 1] = f[i - 1] /\ i \in 1..k
          BY <3>1
        <4> HIDE DEF h
        <4>2. QED
          BY <4>1, <2>1
      <3>2. CASE ~(i <= k)
        <4>1. i = k + 1 /\ h[i - 1] = f[k] /\ h[i] = g[f[k]]
          BY <3>2
        <4>2. QED
          BY <4>1
      <3>3. QED
        BY <3>1, <3>2
    <2> HIDE DEF h
    <2>5. Is(h, k + 1)
      BY <2>3, <2>4
    <2> HIDE DEF Is
    <2>6. QED
      BY <2>5
  <1> HIDE DEF T
  <1>3. n \in T
    BY <1>1, <1>2, UpTo
  <1>4. PICK f : Is(f, n)
    BY <1>3 DEF T
  <1>5. f = [i \in 0..n |-> IF i = 0 THEN s ELSE g[f[i - 1]]]
    <2>1. f = [i \in 0..n |-> f[i]]
      BY <1>4
    <2>2. \A i \in 0..n : i # 0 => i \in 1..n
      OBVIOUS
    <2>3. \A i \in 0..n : f[i] = IF i = 0 THEN s ELSE g[f[i - 1]]
      BY <1>4, <2>2
    <2> HIDE DEF Is
    <2>4. QED
      BY <2>1, <2>3, Zenon
  <1>6. f \in [0..n -> S]
    BY <1>4
  <1> HIDE DEF Is
  <1>7. QED
    BY <1>5, <1>6 DEF Loops

\* The turns left get fewer, and there are enough of them.
LEMMA RepeatEnds ==
  ASSUME NEW S, NEW s \in S, NEW g \in [S -> S], NEW n \in Nat,
         NEW left \in [S -> Nat], left[s] <= n,
         \A x \in S : left[g[x]] < left[x] \/ left[g[x]] = 0,
         NEW f, f[0] = s, \A i \in 1..n : f[i - 1] \in S => f[i] = g[f[i - 1]]
  PROVE  f[n] \in S /\ left[f[n]] = 0
  <1> DEFINE T == {i \in 0..n : f[i] \in S /\ (left[f[i]] = 0 \/ left[f[i]] <= n - i)}
  <1>1. 0 \in T
    OBVIOUS
  <1>2. ASSUME NEW i \in 0..(n - 1), i \in T PROVE i + 1 \in T
    <2>1. f[i] \in S /\ f[i + 1] = g[f[i]]
      <3>1. i + 1 \in 1..n /\ (i + 1) - 1 = i
        OBVIOUS
      <3>2. QED
        BY <1>2, <3>1
    <2>2. g[f[i]] \in S
      BY <2>1
    <2>3. left[g[f[i]]] \in Nat /\ left[f[i]] \in Nat
      BY <2>1, <2>2
    <2>4. left[g[f[i]]] < left[f[i]] \/ left[g[f[i]]] = 0
      BY <2>1
    <2>5. QED
      BY <1>2, <2>1, <2>2, <2>3, <2>4
  <1> HIDE DEF T
  <1>3. n \in T
    <2>1. \A i \in 0..(n - 1) : i \in T => i + 1 \in T
      BY <1>2
    <2>2. 0..n \subseteq T
      BY <1>1, <2>1, UpTo, Zenon
    <2>3. QED
      BY <2>2
  <1>4. f[n] \in S /\ left[f[n]] \in Nat /\ (left[f[n]] = 0 \/ left[f[n]] <= n - n)
    BY <1>3 DEF T
  <1>5. QED
    BY <1>4

-----------------------------------------------------------------------------
(* Lists of fragments. *)

Frags == [block : Nat, blocks : Nat]
Lists == Seq(Frags)

\* A sequence is a function on its positions.
LEMMA SeqIs ==
  ASSUME NEW X, NEW s \in Seq(X)
  PROVE  /\ Len(s) \in Nat /\ DOMAIN s = 1..Len(s) /\ s \in [1..Len(s) -> X]
         /\ \A i \in 1..Len(s) : s[i] \in X
  OBVIOUS

\* A function on 1..n is a sequence.
LEMMA IsSeq ==
  ASSUME NEW X, NEW n \in Nat, NEW s \in [1..n -> X]
  PROVE  s \in Seq(X) /\ Len(s) = n
  OBVIOUS

\* A list is a function on its positions.
LEMMA ListIs ==
  ASSUME NEW list \in Lists
  PROVE  /\ Len(list) \in Nat /\ DOMAIN list = 1..Len(list)
         /\ list \in [1..Len(list) -> Frags]
         /\ \A n \in 1..Len(list) : /\ list[n] \in Frags
                                    /\ list[n].block \in Nat /\ list[n].blocks \in Nat
  <1>1. /\ Len(list) \in Nat /\ DOMAIN list = 1..Len(list)
        /\ list \in [1..Len(list) -> Frags]
        /\ \A n \in 1..Len(list) : list[n] \in Frags
    BY SeqIs DEF Lists
  <1>2. \A f \in Frags : f.block \in Nat /\ f.blocks \in Nat
    BY DEF Frags
  <1>3. QED
    BY <1>1, <1>2

\* What has a list's positions and fragments is a list.
LEMMA IsList ==
  ASSUME NEW n \in Nat, NEW list \in [1..n -> Frags]
  PROVE  list \in Lists /\ Len(list) = n /\ DOMAIN list = 1..n
  BY IsSeq DEF Lists

\* The sum of the first fragments is that of one less and the last one.
LEMMA SumsIs ==
  ASSUME NEW list \in Lists
  PROVE  /\ Sums(list) \in [0..Len(list) -> Nat]
         /\ Sums(list)[0] = 0
         /\ \A n \in 1..Len(list) : Sums(list)[n] = Sums(list)[n - 1] + list[n].blocks
  <1> DEFINE k == Len(list)
             Is(f, m) == /\ f \in [0..m -> Nat] /\ f[0] = 0
                         /\ \A n \in 1..m : f[n] = f[n - 1] + list[n].blocks
             T == {m \in 0..k : \E f : Is(f, m)}
             sum == CHOOSE sum : sum = [n \in 0..k |->
                                          IF n = 0 THEN 0 ELSE sum[n - 1] + list[n].blocks]
  <1>1. k \in Nat /\ \A n \in 1..k : list[n].blocks \in Nat
    BY ListIs
  <1>2. 0 \in T
    <2>1. Is([i \in 0..0 |-> 0], 0)
      OBVIOUS
    <2> HIDE DEF Is
    <2>2. QED
      BY <1>1, <2>1
  <1>3. ASSUME NEW m \in 0..(k - 1), m \in T PROVE m + 1 \in T
    <2>1. PICK f : Is(f, m)
      BY <1>3
    <2> DEFINE x == f[m] + list[m + 1].blocks
               h == [i \in 0..(m + 1) |-> IF i <= m THEN f[i] ELSE x]
    <2>2. f[m] \in Nat /\ list[m + 1].blocks \in Nat
      BY <1>1, <2>1
    <2>3. x \in Nat
      BY <2>2
    <2>4. h \in [0..(m + 1) -> Nat] /\ h[0] = 0
      BY <2>1, <2>3
    <2>5. ASSUME NEW n \in 1..(m + 1) PROVE h[n] = h[n - 1] + list[n].blocks
      <3>1. CASE n <= m
        <4>1. h[n] = f[n] /\ h[n - 1] = f[n - 1] /\ n \in 1..m
          BY <3>1
        <4> HIDE DEF h
        <4>2. QED
          BY <4>1, <2>1
      <3>2. CASE ~(n <= m)
        <4>1. n = m + 1 /\ h[n - 1] = f[m] /\ h[n] = x
          BY <3>2
        <4>2. QED
          BY <4>1
      <3>3. QED
        BY <3>1, <3>2
    <2> HIDE DEF h
    <2>6. Is(h, m + 1)
      BY <2>4, <2>5
    <2> HIDE DEF Is
    <2>7. QED
      BY <1>1, <2>6
  <1> HIDE DEF T
  <1>4. k \in T
    <2>1. 0..k \subseteq T
      BY <1>1, <1>2, <1>3, UpTo
    <2>2. QED
      BY <1>1, <2>1
  <1>5. PICK f : Is(f, k)
    BY <1>4 DEF T
  <1>6. f = [n \in 0..k |-> IF n = 0 THEN 0 ELSE f[n - 1] + list[n].blocks]
    <2>1. f = [n \in 0..k |-> f[n]]
      BY <1>5
    <2>2. \A n \in 0..k : n # 0 => n \in 1..k
      OBVIOUS
    <2>3. \A n \in 0..k : f[n] = IF n = 0 THEN 0 ELSE f[n - 1] + list[n].blocks
      BY <1>5, <2>2
    <2> HIDE DEF Is
    <2>4. QED
      BY <2>1, <2>3, Zenon
  <1> HIDE DEF Is
  <1>7. sum = [n \in 0..k |-> IF n = 0 THEN 0 ELSE sum[n - 1] + list[n].blocks]
    BY <1>6, Zenon
  <1>8. Sums(list) = sum
    BY DEF Sums
  <1> HIDE DEF sum
  <1>9. sum[0] = 0 /\ \A n \in 1..k : sum[n] = sum[n - 1] + list[n].blocks
    BY <1>1, <1>7
  <1> DEFINE U == {n \in 0..k : sum[n] \in Nat}
  <1>10. 0 \in U
    BY <1>1, <1>9
  <1>11. ASSUME NEW m \in 0..(k - 1), m \in U PROVE m + 1 \in U
    <2>1. m + 1 \in 1..k /\ (m + 1) - 1 = m
      BY <1>1
    <2>2. QED
      BY <1>1, <1>9, <1>11, <2>1
  <1> HIDE DEF U
  <1>12. 0..k \subseteq U
    BY <1>1, <1>10, <1>11, UpTo
  <1>13. sum \in [0..k -> Nat]
    <2>1. \A n \in 0..k : sum[n] \in Nat
      BY <1>12 DEF U
    <2>2. sum = [n \in 0..k |-> sum[n]]
      BY <1>7
    <2>3. QED
      BY <2>1, <2>2
  <1>14. QED
    BY <1>8, <1>9, <1>13

\* The sums of the same sizes are the same.
LEMMA SameSums ==
  ASSUME NEW p \in Lists, NEW q \in Lists, NEW k \in Nat, k <= Len(p), k <= Len(q),
         \A n \in 1..k : p[n].blocks = q[n].blocks
  PROVE  \A n \in 0..k : Sums(p)[n] = Sums(q)[n]
  <1> DEFINE T == {n \in 0..k : Sums(p)[n] = Sums(q)[n]}
  <1>1. Len(p) \in Nat /\ Len(q) \in Nat
    BY ListIs
  <1>2. 0 \in T
    BY SumsIs
  <1>3. ASSUME NEW n \in 0..(k - 1), n \in T PROVE n + 1 \in T
    <2>1. n + 1 \in 1..k /\ n + 1 \in 1..Len(p) /\ n + 1 \in 1..Len(q) /\ (n + 1) - 1 = n
      BY <1>1
    <2>2. /\ Sums(p)[n + 1] = Sums(p)[n] + p[n + 1].blocks
          /\ Sums(q)[n + 1] = Sums(q)[n] + q[n + 1].blocks
      BY <2>1, SumsIs
    <2>3. QED
      BY <1>3, <2>1, <2>2
  <1> HIDE DEF T
  <1>4. 0..k \subseteq T
    BY <1>2, <1>3, UpTo
  <1>5. QED
    BY <1>4 DEF T

\* A fragment more.
LEMMA SumAppended ==
  ASSUME NEW p \in Lists, NEW f \in Frags, NEW q, q = Append(p, f)
  PROVE  /\ q \in Lists /\ Len(q) = Len(p) + 1
         /\ \A n \in 1..Len(p) : q[n] = p[n]
         /\ q[Len(p) + 1] = f
         /\ SumOf(q) = SumOf(p) + f.blocks
  <1>1. p \in Seq(Frags)
    BY DEF Lists
  <1> HIDE DEF Frags
  <1>2. q \in Seq(Frags) /\ Len(p) \in Nat /\ Len(q) = Len(p) + 1
        /\ (\A n \in 1..Len(p) : q[n] = p[n]) /\ q[Len(p) + 1] = f
    BY <1>1
  <1>3. q \in Lists
    BY <1>2 DEF Lists
  <1>4. Sums(q)[Len(p)] = Sums(p)[Len(p)]
    <2>1. Len(p) \in Nat /\ Len(p) <= Len(p) /\ Len(p) <= Len(q)
          /\ \A n \in 1..Len(p) : p[n].blocks = q[n].blocks
      BY <1>2
    <2>2. \A n \in 0..Len(p) : Sums(p)[n] = Sums(q)[n]
      BY <1>3, <2>1, SameSums
    <2>3. QED
      BY <2>1, <2>2
  <1>5. Sums(q)[Len(q)] = Sums(q)[Len(p)] + f.blocks
    <2>1. Len(q) \in 1..Len(q) /\ Len(q) - 1 = Len(p)
      BY <1>2
    <2>2. Sums(q)[Len(q)] = Sums(q)[Len(q) - 1] + q[Len(q)].blocks
      BY <1>3, <2>1, SumsIs
    <2>3. QED
      BY <1>2, <2>1, <2>2
  <1>6. QED
    BY <1>2, <1>3, <1>4, <1>5 DEF SumOf

\* A fragment that is dropped.
LEMMA SumDropped ==
  ASSUME NEW p \in Lists, NEW i \in 1..Len(p), NEW q, q = [p EXCEPT ![i].blocks = 0]
  PROVE  /\ q \in Lists /\ Len(q) = Len(p)
         /\ \A n \in 1..Len(p) : /\ q[n].block = p[n].block
                                 /\ q[n].blocks = IF n = i THEN 0 ELSE p[n].blocks
         /\ SumOf(q) = SumOf(p) - p[i].blocks
  <1>1. /\ Len(p) \in Nat /\ DOMAIN p = 1..Len(p) /\ p \in [1..Len(p) -> Frags]
        /\ \A n \in 1..Len(p) : p[n] \in Frags /\ p[n].blocks \in Nat
    BY ListIs
  <1>2. q = [n \in 1..Len(p) |-> IF n = i THEN [p[i] EXCEPT !.blocks = 0] ELSE p[n]]
    BY <1>1, Zenon
  <1>3. [p[i] EXCEPT !.blocks = 0] \in Frags /\ [p[i] EXCEPT !.blocks = 0].block = p[i].block
        /\ [p[i] EXCEPT !.blocks = 0].blocks = 0
    BY <1>1 DEF Frags
  <1>4. q \in [1..Len(p) -> Frags]
    BY <1>1, <1>2, <1>3
  <1>5. q \in Lists /\ Len(q) = Len(p)
    BY <1>1, <1>4, IsList
  <1>6. \A n \in 1..Len(p) : /\ q[n].block = p[n].block
                             /\ q[n].blocks = IF n = i THEN 0 ELSE p[n].blocks
    BY <1>2, <1>3
  <1>7. i \in Nat /\ i - 1 \in 0..Len(p) /\ i - 1 \in Nat /\ i - 1 <= Len(p)
    BY <1>1
  <1>8. Sums(q)[i - 1] = Sums(p)[i - 1]
    <2>1. \A n \in 1..(i - 1) : p[n].blocks = q[n].blocks
      BY <1>1, <1>6
    <2>2. \A n \in 0..(i - 1) : Sums(p)[n] = Sums(q)[n]
      BY <1>5, <1>7, <2>1, SameSums
    <2>3. i - 1 \in 0..(i - 1)
      BY <1>7
    <2>4. QED
      BY <2>2, <2>3
  <1>9. /\ Sums(p) \in [0..Len(p) -> Nat] /\ Sums(q) \in [0..Len(p) -> Nat]
        /\ \A n \in 1..Len(p) : /\ Sums(p)[n] = Sums(p)[n - 1] + p[n].blocks
                                /\ Sums(q)[n] = Sums(q)[n - 1] + q[n].blocks
    BY <1>5, SumsIs
  <1> DEFINE m == Len(p) - i
             T == {n \in 0..m : Sums(q)[i + n] = Sums(p)[i + n] - p[i].blocks}
  <1>10. m \in Nat
    BY <1>1
  <1>11. 0 \in T
    <2>1. Sums(p)[i] = Sums(p)[i - 1] + p[i].blocks
      BY <1>9
    <2>2. Sums(q)[i] = Sums(q)[i - 1] + 0
      BY <1>6, <1>9
    <2>3. Sums(p)[i - 1] \in Nat /\ p[i].blocks \in Nat
      BY <1>1, <1>7, <1>9
    <2>4. i + 0 = i
      BY <1>7
    <2>5. QED
      BY <1>8, <1>10, <2>1, <2>2, <2>3, <2>4
  <1>12. ASSUME NEW n \in 0..(m - 1), n \in T PROVE n + 1 \in T
    <2> DEFINE j == i + n
    <2>1. j \in 0..Len(p) /\ j + 1 \in 1..Len(p) /\ (j + 1) - 1 = j /\ j + 1 # i
          /\ i + (n + 1) = j + 1
      BY <1>1, <1>7
    <2>2. Sums(q)[j] = Sums(p)[j] - p[i].blocks
      BY <1>12
    <2> HIDE DEF j
    <2>3. Sums(q)[j + 1] = Sums(q)[j] + p[j + 1].blocks
      BY <1>6, <1>9, <2>1
    <2>4. Sums(p)[j + 1] = Sums(p)[j] + p[j + 1].blocks
      BY <1>9, <2>1
    <2>5. Sums(p)[j] \in Nat /\ p[j + 1].blocks \in Nat /\ p[i].blocks \in Nat
      BY <1>1, <1>9, <2>1
    <2>6. n + 1 \in 0..m
      BY <1>10
    <2>7. Sums(q)[j + 1] = Sums(p)[j + 1] - p[i].blocks
      BY <2>2, <2>3, <2>4, <2>5
    <2>8. Sums(q)[i + (n + 1)] = Sums(p)[i + (n + 1)] - p[i].blocks
      BY <2>1, <2>7, Zenon
    <2>9. QED
      BY <2>6, <2>8
  <1> HIDE DEF T
  <1>13. m \in T
    BY <1>10, <1>11, <1>12, UpTo
  <1>14. SumOf(q) = SumOf(p) - p[i].blocks
    <2>1. i + m = Len(p)
      BY <1>1, <1>7
    <2>2. QED
      BY <1>5, <1>13, <2>1 DEF T, SumOf
  <1>15. QED
    BY <1>5, <1>6, <1>14

\* Of fragments that do not overlap, the blocks are as many as the sum says.
LEMMA CardIs ==
  ASSUME NEW list \in Lists,
         \A i, j \in 1..Len(list) : i # j =>
           Blocks(list[i].block, list[i].blocks) \cap Blocks(list[j].block, list[j].blocks) = {}
  PROVE  IsFiniteSet(BlocksOf(list)) /\ Cardinality(BlocksOf(list)) = SumOf(list)
  <1> DEFINE k == Len(list)
             B(i) == Blocks(list[i].block, list[i].blocks)
             U(n) == UNION {B(i) : i \in 1..n}
             T == {n \in 0..k : IsFiniteSet(U(n)) /\ Cardinality(U(n)) = Sums(list)[n]}
  <1>1. k \in Nat /\ DOMAIN list = 1..k
        /\ \A i \in 1..k : list[i].block \in Nat /\ list[i].blocks \in Nat
    BY ListIs
  <1>2. ASSUME NEW i \in 1..k
        PROVE  IsFiniteSet(B(i)) /\ Cardinality(B(i)) = list[i].blocks
    <2> DEFINE a == list[i].block
               n == list[i].blocks
    <2>1. a \in Nat /\ n \in Nat
      BY <1>1
    <2> HIDE DEF a, n
    <2> DEFINE e == a + n - 1
    <2>2. a \in Int /\ e \in Int /\ (IF a > e THEN 0 ELSE e - a + 1) = n
      BY <2>1
    <2> HIDE DEF e
    <2>3. /\ IsFiniteSet(a..e)
          /\ Cardinality(a..e) = IF a > e THEN 0 ELSE e - a + 1
      BY <2>2, FS_Interval
    <2>4. B(i) = a..e
      BY DEF a, n, e, Blocks
    <2>5. QED
      BY <2>2, <2>3, <2>4, Zenon DEF n
  <1>3. \A i, j \in 1..k : i # j => B(i) \cap B(j) = {}
    OBVIOUS
  <1> HIDE DEF B
  <1>4. 0 \in T
    <2>1. U(0) = {}
      OBVIOUS
    <2>2. IsFiniteSet({}) /\ Cardinality({}) = 0
      BY FS_EmptySet
    <2>3. Sums(list)[0] = 0
      BY SumsIs
    <2>4. IsFiniteSet(U(0)) /\ Cardinality(U(0)) = Sums(list)[0]
      BY <2>1, <2>2, <2>3, Zenon
    <2> HIDE DEF U
    <2>5. QED
      BY <1>1, <2>4
  <1>5. ASSUME NEW n \in 0..(k - 1), n \in T PROVE n + 1 \in T
    <2>1. n + 1 \in 1..k /\ (n + 1) - 1 = n /\ n + 1 \in 0..k
      BY <1>1
    <2>2. U(n + 1) = U(n) \cup B(n + 1)
      <3>1. 1..(n + 1) = (1..n) \cup {n + 1}
        BY <1>5
      <3>2. QED
        BY <3>1, Zenon
    <2>3. U(n) \cap B(n + 1) = {}
      <3>1. \A i \in 1..n : i \in 1..k /\ i # n + 1
        BY <1>1
      <3>2. QED
        BY <1>3, <2>1, <3>1
    <2>4. IsFiniteSet(U(n)) /\ Cardinality(U(n)) = Sums(list)[n]
      BY <1>5
    <2>5. IsFiniteSet(B(n + 1)) /\ Cardinality(B(n + 1)) = list[n + 1].blocks
      BY <1>2, <2>1
    <2> HIDE DEF U
    <2>6. /\ IsFiniteSet(U(n + 1))
          /\ Cardinality(U(n + 1)) = Cardinality(U(n)) + Cardinality(B(n + 1))
                                       - Cardinality(U(n) \cap B(n + 1))
      BY <2>2, <2>4, <2>5, FS_Union
    <2>7. Cardinality(U(n) \cap B(n + 1)) = 0
      BY <2>3, FS_EmptySet
    <2>8. Sums(list)[n + 1] = Sums(list)[n] + list[n + 1].blocks /\ Sums(list)[n] \in Nat
          /\ list[n + 1].blocks \in Nat
      BY <1>1, <2>1, SumsIs
    <2>9. QED
      BY <2>1, <2>4, <2>5, <2>6, <2>7, <2>8
  <1>6. BlocksOf(list) = U(k)
    BY <1>1 DEF BlocksOf, B
  <1> HIDE DEF T, U
  <1>7. k \in T
    <2>1. \A n \in 0..(k - 1) : n \in T => n + 1 \in T
      BY <1>5
    <2>2. 0..k \subseteq T
      BY <1>1, <1>4, <2>1, UpTo, Zenon
    <2>3. QED
      BY <1>1, <2>2
  <1>8. QED
    BY <1>6, <1>7 DEF T, SumOf

\* What is marked: of each fragment its first blocks, as many as are needed.
LEMMA MarkedIs ==
  ASSUME NEW list \in Lists, NEW needed \in Nat, NEW q, q = Marked(list, needed)
  PROVE  /\ q \in Lists /\ Len(q) = Len(list)
         /\ \A n \in 1..Len(list) : /\ q[n].block = list[n].block
                                    /\ q[n].blocks <= list[n].blocks
         /\ SumOf(q) = Lesser(needed, SumOf(list))
  <1> DEFINE k == Len(list)
             Left(n) == needed - Lesser(needed, Sums(list)[n - 1])
             T == {n \in 0..k : Sums(q)[n] = Lesser(needed, Sums(list)[n])}
  <1>1. /\ k \in Nat /\ DOMAIN list = 1..k
        /\ \A n \in 1..k : list[n].block \in Nat /\ list[n].blocks \in Nat
    BY ListIs
  <1>2. /\ Sums(list) \in [0..k -> Nat] /\ Sums(list)[0] = 0
        /\ \A n \in 1..k : Sums(list)[n] = Sums(list)[n - 1] + list[n].blocks
    BY SumsIs
  <1>3. q = [n \in 1..k |-> Fragment(list[n].block, Lesser(list[n].blocks, Left(n)))]
    BY <1>1 DEF Marked
  <1>4. ASSUME NEW n \in 1..k
        PROVE  /\ q[n] \in Frags /\ q[n].block = list[n].block
               /\ q[n].blocks = Lesser(list[n].blocks, Left(n))
               /\ q[n].blocks <= list[n].blocks
    <2>1. n - 1 \in 0..k /\ Sums(list)[n - 1] \in Nat
      BY <1>1, <1>2
    <2>2. Left(n) \in Nat
      BY <2>1 DEF Lesser
    <2>3. q[n] = Fragment(list[n].block, Lesser(list[n].blocks, Left(n)))
      BY <1>3
    <2> HIDE DEF Left
    <2>4. Lesser(list[n].blocks, Left(n)) \in Nat
          /\ Lesser(list[n].blocks, Left(n)) <= list[n].blocks
      BY <1>1, <2>2 DEF Lesser
    <2>5. QED
      BY <1>1, <2>3, <2>4 DEF Fragment, Frags
  <1>5. q \in Lists /\ Len(q) = k
    <2>1. q \in [1..k -> Frags]
      BY <1>3, <1>4
    <2>2. QED
      BY <1>1, <2>1, IsList
  <1>6. /\ Sums(q)[0] = 0
        /\ \A n \in 1..k : Sums(q)[n] = Sums(q)[n - 1] + q[n].blocks
    BY <1>5, SumsIs
  <1>7. 0 \in T
    BY <1>1, <1>2, <1>6 DEF Lesser
  <1>8. ASSUME NEW n \in 0..(k - 1), n \in T PROVE n + 1 \in T
    <2>1. n + 1 \in 1..k /\ (n + 1) - 1 = n /\ n + 1 \in 0..k /\ n \in 0..k
      BY <1>1
    <2>2. Sums(q)[n + 1] = Sums(q)[n] + Lesser(list[n + 1].blocks,
                                              needed - Lesser(needed, Sums(list)[n]))
      BY <1>4, <1>6, <2>1
    <2>3. Sums(list)[n + 1] = Sums(list)[n] + list[n + 1].blocks
      BY <1>2, <2>1
    <2>4. Sums(list)[n] \in Nat /\ list[n + 1].blocks \in Nat
      BY <1>1, <1>2, <2>1
    <2>5. Sums(q)[n] = Lesser(needed, Sums(list)[n])
      BY <1>8
    <2>6. Sums(q)[n + 1] = Lesser(needed, Sums(list)[n + 1])
      BY <2>2, <2>3, <2>4, <2>5 DEF Lesser
    <2>7. QED
      BY <2>1, <2>6
  <1> HIDE DEF T
  <1>9. k \in T
    <2>1. \A n \in 0..(k - 1) : n \in T => n + 1 \in T
      BY <1>8
    <2>2. 0..k \subseteq T
      BY <1>1, <1>7, <2>1, UpTo, Zenon
    <2>3. QED
      BY <1>1, <2>2
  <1>10. QED
    BY <1>4, <1>5, <1>9 DEF T, SumOf

\* Two functions with the same beginning and the same turns have the same end.
LEMMA RepeatSame ==
  ASSUME NEW n \in Nat, NEW f, NEW h, f[0] = h[0],
         \A i \in 1..n : f[i - 1] = h[i - 1] => f[i] = h[i]
  PROVE  f[n] = h[n]
  <1> DEFINE T == {i \in 0..n : f[i] = h[i]}
  <1>1. 0 \in T
    OBVIOUS
  <1>2. ASSUME NEW i \in 0..(n - 1), i \in T PROVE i + 1 \in T
    <2>1. i + 1 \in 1..n /\ (i + 1) - 1 = i /\ f[i] = h[i]
      BY <1>2
    <2>2. f[i + 1] = h[i + 1]
      BY <2>1
    <2>3. QED
      BY <2>1, <2>2
  <1> HIDE DEF T
  <1>3. 0..n \subseteq T
    BY <1>1, <1>2, UpTo
  <1>4. QED
    BY <1>3 DEF T

-----------------------------------------------------------------------------
(* smartfindandmarkspace drops the smallest fragments. *)

\* What is left of a list: its positions, each with all of its blocks or none.
Left(p) ==
  {q \in Lists : /\ Len(q) = Len(p)
                 /\ \A n \in 1..Len(p) : /\ q[n].block = p[n].block
                                         /\ q[n].blocks \in {0, p[n].blocks}}

\* Everything is left at first.
LEMMA LeftAll ==
  ASSUME NEW p \in Lists
  PROVE  p \in Left(p)
  BY DEF Left

\* What is left of what is left.
LEMMA LeftOfLeft ==
  ASSUME NEW p \in Lists, NEW q \in Left(p), NEW r \in Left(q)
  PROVE  r \in Left(p)
  BY DEF Left

\* A fragment is dropped when enough is left without it.
LEMMA DropTurnIs ==
  ASSUME NEW p \in Lists, NEW needed \in Nat, NEW smallest \in Nat,
         NEW at, at.n \in 1..Len(p), at.done \in BOOLEAN, at.list \in Left(p),
         at = [n |-> at.n, list |-> at.list, done |-> at.done],
         SumOf(at.list) >= needed, at.done \/ SumOf(at.list) >= needed + smallest
  PROVE  LET y == DropTurn(smallest, needed, at)
         IN /\ y = [n |-> y.n, list |-> y.list, done |-> y.done]
            /\ y.n \in 1..(at.n + 1) /\ y.done \in BOOLEAN /\ y.list \in Left(p)
            /\ SumOf(y.list) >= needed
            /\ y.done \/ SumOf(y.list) >= needed + smallest
  <1> DEFINE y == DropTurn(smallest, needed, at)
             q == at.list
             dropped == [q EXCEPT ![at.n].blocks = 0]
  <1>1. at.n \in 1..Len(q) /\ q \in Lists /\ Len(q) = Len(p) /\ Len(p) \in Nat
    BY ListIs DEF Left
  <1>2. CASE at.done
    <2>1. y = at
      BY <1>2 DEF DropTurn
    <2>2. at.n \in 1..(at.n + 1)
      BY <1>1
    <2> HIDE DEF y
    <2>3. QED
      BY <1>2, <2>1, <2>2 DEF y
  <1>3. CASE ~at.done /\ q[at.n].blocks # smallest
    <2>1. y = [at EXCEPT !.n = @ + 1]
      BY <1>3 DEF DropTurn
    <2>2. y = [n |-> at.n + 1, list |-> q, done |-> at.done]
      BY <2>1
    <2> HIDE DEF y
    <2>3. QED
      BY <1>1, <1>3, <2>2 DEF y
  <1>4. CASE ~at.done /\ q[at.n].blocks = smallest
    <2> DEFINE d == SumOf(dropped) < needed + smallest
    <2>1. y = [n |-> at.n + 1, list |-> dropped, done |-> d]
      BY <1>4 DEF DropTurn
    <2>2. /\ dropped \in Lists /\ Len(dropped) = Len(q)
          /\ \A n \in 1..Len(q) : /\ dropped[n].block = q[n].block
                                  /\ dropped[n].blocks = IF n = at.n THEN 0 ELSE q[n].blocks
          /\ SumOf(dropped) = SumOf(q) - q[at.n].blocks
      BY <1>1, SumDropped
    <2>3. SumOf(q) \in Nat /\ SumOf(dropped) \in Nat
      BY <1>1, <2>2, SumsIs, ListIs DEF SumOf
    <2>4. SumOf(dropped) >= needed
      BY <1>4, <2>2, <2>3
    <2> HIDE DEF dropped
    <2>5. dropped \in Left(q)
      BY <1>1, <2>2 DEF Left
    <2>6. dropped \in Left(p)
      BY <2>5, LeftOfLeft
    <2>7. d \in BOOLEAN /\ (d \/ SumOf(dropped) >= needed + smallest)
      BY <2>3
    <2> HIDE DEF y, d
    <2>8. /\ y = [n |-> y.n, list |-> y.list, done |-> y.done]
          /\ y.n = at.n + 1 /\ y.list = dropped /\ y.done = d
      BY <2>1
    <2>9. QED
      BY <1>1, <2>4, <2>6, <2>7, <2>8 DEF y
  <1>5. QED
    BY <1>2, <1>3, <1>4

\* Fragments of the smallest size are dropped, but not more than can be spared.
LEMMA DropSmallestIs ==
  ASSUME NEW p \in Lists, NEW needed \in Nat, NEW smallest \in Nat,
         SumOf(p) >= needed + smallest
  PROVE  LET q == DropSmallest(p, smallest, needed)
         IN q \in Left(p) /\ SumOf(q) >= needed
  <1> DEFINE k == Len(p)
             S == {x \in [n : 1..(k + 1), list : Left(p), done : BOOLEAN] :
                     /\ SumOf(x.list) >= needed
                     /\ x.done \/ SumOf(x.list) >= needed + smallest}
             s == [n |-> 1, list |-> p, done |-> FALSE]
             turn(x) == DropTurn(smallest, needed, x)
             g == [x \in S |-> IF x.n <= k THEN turn(x) ELSE x]
             at == CHOOSE at : at = [i \in 0..k |-> IF i = 0 THEN s ELSE turn(at[i - 1])]
  <1>1. DropSmallest(p, smallest, needed) = at[k].list
    BY DEF DropSmallest, Repeat
  <1>2. k \in Nat /\ s \in S
    <2>1. k \in Nat /\ p \in Left(p) /\ SumOf(p) \in Nat
      BY ListIs, LeftAll, SumsIs DEF SumOf
    <2>2. QED
      BY <2>1
  <1>3. ASSUME NEW x \in S, x.n <= k
        PROVE  turn(x) \in S /\ turn(x).n <= x.n + 1
    <2>1. /\ x.n \in 1..Len(p) /\ x.done \in BOOLEAN /\ x.list \in Left(p)
          /\ x = [n |-> x.n, list |-> x.list, done |-> x.done]
          /\ SumOf(x.list) >= needed
          /\ x.done \/ SumOf(x.list) >= needed + smallest
      BY <1>2, <1>3
    <2> DEFINE y == DropTurn(smallest, needed, x)
    <2>2. /\ y = [n |-> y.n, list |-> y.list, done |-> y.done]
          /\ y.n \in 1..(x.n + 1) /\ y.done \in BOOLEAN /\ y.list \in Left(p)
          /\ SumOf(y.list) >= needed
          /\ y.done \/ SumOf(y.list) >= needed + smallest
      BY <2>1, DropTurnIs
    <2> HIDE DEF y
    <2>3. y \in S /\ y.n <= x.n + 1
      BY <1>2, <2>1, <2>2
    <2>4. QED
      BY <2>3 DEF y
  <1>4. g \in [S -> S]
    BY <1>3
  <1>5. \A x \in S : x.n \in Nat /\ x.list \in Left(p) /\ SumOf(x.list) >= needed
    OBVIOUS
  <1>6. ASSUME NEW x \in S PROVE /\ x.n <= k => g[x] = turn(x)
                                 /\ g[x].n <= x.n + 1
    <2>1. CASE x.n <= k
      BY <1>3, <2>1
    <2>2. CASE ~(x.n <= k)
      <3>1. g[x] = x
        BY <2>2
      <3> HIDE DEF S, g
      <3>2. QED
        BY <1>5, <2>2, <3>1
    <2>3. QED
      BY <2>1, <2>2
  <1>7. s.n = 1
    OBVIOUS
  <1> HIDE DEF S, s, g, turn, at
  <1>8. PICK f : f \in Loops(S, s, g, k)
    BY <1>2, <1>4, RepeatExists
  <1>9. /\ f \in [0..k -> S] /\ f[0] = s
        /\ \A i \in 1..k : f[i] = g[f[i - 1]]
    <2>1. /\ f \in [0..k -> S]
          /\ f = [i \in 0..k |-> IF i = 0 THEN s ELSE g[f[i - 1]]]
      BY <1>8 DEF Loops
    <2> HIDE DEF k
    <2>2. QED
      BY <1>2, <2>1
  <1>10. \A i \in 0..k : f[i].n <= i + 1
    <2> DEFINE T == {i \in 0..k : f[i].n <= i + 1}
    <2> HIDE DEF k
    <2>1. 0 \in T
      BY <1>2, <1>7, <1>9
    <2>2. ASSUME NEW i \in 0..(k - 1), i \in T PROVE i + 1 \in T
      <3>1. i + 1 \in 1..k /\ (i + 1) - 1 = i /\ i \in 0..k /\ i + 1 \in 0..k
        BY <1>2
      <3>2. f[i] \in S /\ f[i + 1] = g[f[i]] /\ f[i + 1] \in S
        BY <1>9, <3>1
      <3>3. f[i + 1].n <= f[i].n + 1 /\ f[i].n \in Nat /\ f[i + 1].n \in Nat /\ f[i].n <= i + 1
        BY <1>5, <1>6, <2>2, <3>2
      <3>4. QED
        BY <3>1, <3>3
    <2> HIDE DEF T
    <2>3. 0..k \subseteq T
      BY <1>2, <2>1, <2>2, UpTo
    <2>4. QED
      BY <2>3 DEF T
  <1>11. \A i \in 1..k : f[i] = turn(f[i - 1])
    <2> HIDE DEF k
    <2>1. ASSUME NEW i \in 1..k PROVE f[i] = turn(f[i - 1])
      <3>1. i - 1 \in 0..k /\ (i - 1) + 1 = i /\ i <= k
        BY <1>2
      <3>2. f[i - 1] \in S /\ f[i - 1].n <= i /\ f[i - 1].n \in Nat
        BY <1>5, <1>9, <1>10, <3>1
      <3>3. f[i - 1].n <= k
        BY <1>2, <3>1, <3>2
      <3>4. QED
        BY <1>6, <1>9, <3>2, <3>3
    <2>2. QED
      BY <2>1
  <1>12. f = [i \in 0..k |-> IF i = 0 THEN s ELSE turn(f[i - 1])]
    <2> HIDE DEF k
    <2>1. f = [i \in 0..k |-> f[i]] /\ \A i \in 0..k : i # 0 => i \in 1..k
      BY <1>2, <1>9
    <2>2. \A i \in 0..k : f[i] = IF i = 0 THEN s ELSE turn(f[i - 1])
      BY <1>9, <1>11, <2>1
    <2>3. QED
      BY <2>1, <2>2, Zenon
  <1>13. at = [i \in 0..k |-> IF i = 0 THEN s ELSE turn(at[i - 1])]
    BY <1>12, Zenon DEF at
  <1> HIDE DEF k
  <1>14. at[k] = f[k]
    <2>1. at[0] = s /\ \A i \in 1..k : at[i] = turn(at[i - 1])
      BY <1>2, <1>13
    <2>2. \A i \in 1..k : f[i - 1] = at[i - 1] => f[i] = at[i]
      BY <1>11, <2>1
    <2>3. QED
      BY <1>2, <1>9, <2>1, <2>2, RepeatSame
  <1>15. at[k] \in S
    BY <1>2, <1>9, <1>14
  <1>16. QED
    BY <1>1, <1>5, <1>15

\* The rounds.
LEMMA DropIs ==
  ASSUME NEW p \in Lists, NEW needed \in Nat
  PROVE  LET q == Drop(p, needed)
         IN /\ q \in Left(p)
            /\ IF SumOf(p) >= needed THEN SumOf(q) >= needed ELSE q = p
  <1> DEFINE k == Len(p) + 1
             S == {x \in [list : Left(p), smallest : Nat, done : BOOLEAN] :
                     IF SumOf(p) >= needed THEN SumOf(x.list) >= needed ELSE x.list = p}
             s == [list |-> p, smallest |-> 1, done |-> FALSE]
             turn(x) == DropRound(needed, x)
             g == [x \in S |-> turn(x)]
             at == CHOOSE at : at = [i \in 0..k |-> IF i = 0 THEN s ELSE turn(at[i - 1])]
  <1>1. Drop(p, needed) = at[k].list
    BY DEF Drop, Repeat
  <1>2. k \in Nat /\ s \in S /\ SumOf(p) \in Nat
    BY ListIs, LeftAll, SumsIs DEF SumOf
  <1>3. ASSUME NEW x \in S PROVE turn(x) \in S
    <2> DEFINE left == DropSmallest(x.list, x.smallest, needed)
               sizes == {left[n].blocks : n \in DOMAIN left} \ 0..x.smallest
               Less == x.done \/ SumOf(x.list) < needed + x.smallest
    <2>1. /\ x.list \in Left(p) /\ x.list \in Lists /\ x.smallest \in Nat /\ x.done \in BOOLEAN
          /\ IF SumOf(p) >= needed THEN SumOf(x.list) >= needed ELSE x.list = p
          /\ x = [list |-> x.list, smallest |-> x.smallest, done |-> x.done]
      BY DEF Left
    <2>2. CASE Less
      <3>1. turn(x) = [x EXCEPT !.done = TRUE]
        BY <2>2 DEF DropRound
      <3>2. turn(x) = [list |-> x.list, smallest |-> x.smallest, done |-> TRUE]
        BY <2>1, <3>1
      <3> HIDE DEF turn
      <3>3. QED
        BY <2>1, <3>2
    <2>3. CASE ~Less
      <3> DEFINE next == IF sizes = {} THEN 0 ELSE Least(sizes)
                 done == sizes = {}
      <3>1. turn(x) = [list |-> left, smallest |-> next, done |-> done]
        BY <2>3 DEF DropRound
      <3>2. SumOf(x.list) \in Nat
        BY <2>1, SumsIs, ListIs DEF SumOf
      <3>3. SumOf(x.list) >= needed + x.smallest
        BY <2>1, <2>3, <3>2
      <3>4. left \in Left(x.list) /\ SumOf(left) >= needed
        BY <2>1, <3>3, DropSmallestIs
      <3>5. SumOf(p) >= needed
        BY <1>2, <2>1, <3>2, <3>3
      <3> HIDE DEF left
      <3>6. left \in Left(p) /\ left \in Lists
        BY <2>1, <3>4, LeftOfLeft DEF Left
      <3>7. sizes \subseteq Nat
        BY <3>6, ListIs
      <3> HIDE DEF sizes
      <3>8. next \in Nat /\ done \in BOOLEAN
        BY <3>7, LeastIs
      <3> HIDE DEF turn, next, done
      <3>9. QED
        BY <3>1, <3>4, <3>5, <3>6, <3>8
    <2>4. QED
      BY <2>2, <2>3
  <1>4. g \in [S -> S] /\ \A x \in S : g[x] = turn(x)
    BY <1>3
  <1>5. \A x \in S : /\ x.list \in Left(p)
                     /\ IF SumOf(p) >= needed THEN SumOf(x.list) >= needed ELSE x.list = p
    OBVIOUS
  <1> HIDE DEF S, s, g, turn, at, k
  <1>6. PICK f : f \in Loops(S, s, g, k)
    BY <1>2, <1>4, RepeatExists
  <1>7. /\ f \in [0..k -> S] /\ f[0] = s
        /\ \A i \in 1..k : f[i] = turn(f[i - 1])
    <2>1. /\ f \in [0..k -> S]
          /\ f = [i \in 0..k |-> IF i = 0 THEN s ELSE g[f[i - 1]]]
      BY <1>6 DEF Loops
    <2>2. k \in Nat
      BY <1>2
    <2>3. f[0] = s
      BY <2>1, <2>2
    <2>4. ASSUME NEW i \in 1..k PROVE f[i] = turn(f[i - 1])
      <3>1. i \in 0..k /\ i # 0 /\ i - 1 \in 0..k
        BY <2>2
      <3>2. f[i] = g[f[i - 1]] /\ f[i - 1] \in S
        BY <2>1, <3>1
      <3>3. QED
        BY <1>4, <3>2
    <2>5. QED
      BY <2>1, <2>3, <2>4
  <1>8. f = [i \in 0..k |-> IF i = 0 THEN s ELSE turn(f[i - 1])]
    <2>1. f = [i \in 0..k |-> f[i]] /\ \A i \in 0..k : i # 0 => i \in 1..k
      BY <1>2, <1>7
    <2>2. \A i \in 0..k : f[i] = IF i = 0 THEN s ELSE turn(f[i - 1])
      BY <1>7, <2>1
    <2>3. QED
      BY <2>1, <2>2, Zenon
  <1>9. at = [i \in 0..k |-> IF i = 0 THEN s ELSE turn(at[i - 1])]
    BY <1>8, Zenon DEF at
  <1>10. at[k] = f[k]
    <2>1. at[0] = s /\ \A i \in 1..k : at[i] = turn(at[i - 1])
      BY <1>2, <1>9
    <2>2. \A i \in 1..k : f[i - 1] = at[i - 1] => f[i] = at[i]
      BY <1>7, <2>1
    <2>3. k \in Nat /\ f[0] = at[0]
      BY <1>2, <1>7, <2>1
    <2>4. QED
      BY <2>2, <2>3, RepeatSame
  <1>11. at[k] \in S
    BY <1>2, <1>7, <1>10
  <1>12. QED
    BY <1>1, <1>5, <1>11

\* What the function of a loop is.
LEMMA LoopIs ==
  ASSUME NEW S, NEW s \in S, NEW g \in [S -> S], NEW n \in Nat, NEW f \in Loops(S, s, g, n)
  PROVE  /\ f \in [0..n -> S] /\ f[0] = s
         /\ \A i \in 1..n : f[i - 1] \in S /\ f[i] = g[f[i - 1]]
  <1>1. /\ f \in [0..n -> S]
        /\ f = [i \in 0..n |-> IF i = 0 THEN s ELSE g[f[i - 1]]]
    BY DEF Loops
  <1>2. ASSUME NEW i \in 1..n PROVE f[i - 1] \in S /\ f[i] = g[f[i - 1]]
    <2>1. i \in 0..n /\ i # 0 /\ i - 1 \in 0..n
      OBVIOUS
    <2>2. QED
      BY <1>1, <2>1
  <1>3. f[0] = s
    BY <1>1
  <1>4. QED
    BY <1>1, <1>2, <1>3

-----------------------------------------------------------------------------
(* findspace2_backwards. *)

\* Exactly n free blocks from this one on.
RunAt(F, b, n) == Blocks(b, n) \subseteq F /\ b + n \notin F

\* Of the places with as many blocks as are needed, or less, that begin at p or
\* after it, last is the last of the largest ones.
SeenFrom(F, needed, p, last) ==
  /\ last \in Frags /\ last.blocks <= needed
  /\ Blocks(last.block, last.blocks) \subseteq F
  /\ last.blocks > 0 => last.block >= p
  /\ \A c \in Nat, m \in 1..needed :
       c >= p /\ Blocks(c, m) \subseteq F =>
         m < last.blocks \/ (m = last.blocks /\ c <= last.block)

\* No place begins at a block that is not free.
LEMMA SeenUsed ==
  ASSUME NEW F, NEW needed \in Nat \ {0}, NEW p \in Nat, NEW last,
         SeenFrom(F, needed, p, last), NEW low \in Nat, low <= p,
         \A b \in low..(p - 1) : b \notin F
  PROVE  SeenFrom(F, needed, low, last)
  <1>1. ASSUME NEW c \in Nat, NEW m \in 1..needed, c >= low, Blocks(c, m) \subseteq F
        PROVE  m < last.blocks \/ (m = last.blocks /\ c <= last.block)
    <2>1. c \in F
      BY <1>1 DEF Blocks
    <2>2. c >= p
      BY <1>1, <2>1
    <2>3. QED
      BY <1>1, <2>2 DEF SeenFrom
  <1>2. last \in Frags /\ last.block \in Nat /\ last.blocks \in Nat
    BY DEF SeenFrom, Frags
  <1>3. QED
    BY <1>1, <1>2 DEF SeenFrom

\* Behind q there is no free block that was not seen, and the free blocks it is
\* one of begin behind r.
LEMMA SeenRun ==
  ASSUME NEW F, NEW needed \in Nat \ {0}, NEW pos \in Nat, NEW last,
         SeenFrom(F, needed, pos + 1, last), last.blocks < needed,
         NEW first \in Nat, NEW q \in Nat, first <= q, q <= pos,
         \A b \in (q + 1)..pos : b \notin F,
         NEW n \in Nat, q < first + n, RunAt(F, first, n)
  PROVE  LET new == IF n <= last.blocks THEN last
                    ELSE IF n < needed THEN Fragment(first, n)
                    ELSE Fragment(first + n - needed, needed)
         IN SeenFrom(F, needed, first, new)
  <1> DEFINE new == IF n <= last.blocks THEN last
                    ELSE IF n < needed THEN Fragment(first, n)
                    ELSE Fragment(first + n - needed, needed)
  <1>1. last \in Frags /\ last.block \in Nat /\ last.blocks \in Nat
    BY DEF SeenFrom, Frags
  <1>2. n > last.blocks => new.block \in Nat /\ new.blocks \in Nat /\ new \in Frags
                           /\ new.block >= first /\ new.block + new.blocks = first + n
                           /\ new.blocks <= needed /\ new.blocks = Lesser(n, needed)
    BY <1>1 DEF Fragment, Frags, Lesser
  <1>3. n <= last.blocks => new = last
    OBVIOUS
  <1> HIDE DEF new
  <1>4. new \in Frags /\ new.blocks <= needed /\ new.block \in Nat /\ new.blocks \in Nat
    BY <1>1, <1>2, <1>3 DEF SeenFrom
  <1>5. Blocks(new.block, new.blocks) \subseteq F
    <2>1. CASE n <= last.blocks
      BY <1>3, <2>1 DEF SeenFrom
    <2>2. CASE n > last.blocks
      <3>1. Blocks(new.block, new.blocks) \subseteq Blocks(first, n)
        BY <1>2, <2>2 DEF Blocks
      <3>2. QED
        BY <3>1 DEF RunAt
    <2>3. QED
      BY <1>1, <2>1, <2>2
  <1>6. new.blocks > 0 => new.block >= first
    BY <1>1, <1>2, <1>3 DEF SeenFrom
  <1>7. ASSUME NEW c \in Nat, NEW m \in 1..needed, c >= first, Blocks(c, m) \subseteq F
        PROVE  m < new.blocks \/ (m = new.blocks /\ c <= new.block)
    <2>1. CASE c > pos
      <3>1. m < last.blocks \/ (m = last.blocks /\ c <= last.block)
        BY <1>7, <2>1 DEF SeenFrom
      <3>2. QED
        BY <1>1, <1>2, <1>3, <3>1 DEF Lesser
    <2>2. CASE c <= pos
      <3>1. c \in F
        BY <1>7 DEF Blocks
      <3>2. c <= q
        BY <2>2, <3>1
      <3>3. c + m <= first + n
        <4>1. first + n \notin Blocks(c, m)
          BY <1>7 DEF RunAt
        <4>2. QED
          BY <3>2, <4>1 DEF Blocks
      <3>4. CASE n > last.blocks
        BY <1>2, <1>7, <3>3, <3>4 DEF Lesser
      <3>5. CASE n <= last.blocks
        <4>1. m <= last.blocks /\ last.blocks > 0
          BY <1>1, <1>7, <3>3, <3>5
        <4>2. last.block >= pos + 1
          BY <4>1 DEF SeenFrom
        <4>3. QED
          BY <1>1, <1>3, <2>2, <3>5, <4>1, <4>2
      <3>6. QED
        BY <1>1, <3>4, <3>5
    <2>3. QED
      BY <2>1, <2>2
  <1>8. SeenFrom(F, needed, first, new)
    BY <1>4, <1>5, <1>6, <1>7 DEF SeenFrom
  <1>9. QED
    BY <1>8 DEF new

\* Greatest is what its name says.
LEMMA GreatestIs ==
  ASSUME NEW n \in Nat, NEW S, S \subseteq (-1)..n, S # {}
  PROVE  /\ Greatest(S) \in S
         /\ \A b \in S : b <= Greatest(S)
  <1> DEFINE R == {i \in 0..(n + 1) : i - 1 \in S}
  <1>1. R \subseteq 0..(n + 1) /\ n + 1 \in Nat
    OBVIOUS
  <1>2. \A b \in S : b + 1 \in R
    OBVIOUS
  <1>3. R # {}
    BY <1>2
  <1>4. PICK r \in R : \A x \in R : r >= x
    BY <1>1, <1>3, GreatestExists
  <1>5. r - 1 \in S /\ \A b \in S : b <= r - 1
    <2>1. r \in 0..(n + 1) /\ r - 1 \in S
      BY <1>4
    <2>2. ASSUME NEW b \in S PROVE b <= r - 1
      <3>1. b \in Int /\ b + 1 \in R
        BY <1>2
      <3>2. r >= b + 1
        BY <1>4, <3>1
      <3> HIDE DEF R
      <3>3. QED
        BY <2>1, <3>1, <3>2
    <2>3. QED
      BY <2>1, <2>2
  <1>6. \E a \in S : \A b \in S : b <= a
    BY <1>5
  <1>7. QED
    BY <1>6 DEF Greatest

\* The states of the search, and the block that it looks at next.
Backs == [bitmapblock : Nat, bitstart : 0..(PerBitmap - 1), space : Nat, best : Frags,
          done : BOOLEAN]
Place(at) == at.bitmapblock * PerBitmap + at.bitstart

\* Behind that block everything has been seen; space are the free blocks behind
\* it when it is the last one of its bitmap block, and else its free blocks have
\* been seen with those behind it.
BackwardsOK(F, needed, start, at) ==
  IF at.done THEN SeenFrom(F, needed, start, at.best)
  ELSE /\ Place(at) \in start..(Total - 1)
       /\ at.bitmapblock >= start \div PerBitmap
       /\ SeenFrom(F, needed, Place(at) + 1, at.best) /\ at.best.blocks < needed
       /\ IF at.bitstart = PerBitmap - 1 THEN RunAt(F, Place(at) + 1, at.space)
          ELSE Place(at) \notin F \/ Place(at) + 1 \notin F

\* A turn of the search.
LEMMA BackwardsTurnIs ==
  ASSUME NEW F, NEW needed \in Nat \ {0}, NEW start \in Volume,
         NEW at \in Backs, ~at.done, BackwardsOK(F, needed, start, at)
  PROVE  LET y == BackwardsTurn(F, needed, start, at)
         IN /\ y \in Backs /\ BackwardsOK(F, needed, start, y)
            /\ y.done \/ Place(y) < Place(at)
  <1> DEFINE y == BackwardsTurn(F, needed, start, at)
             k == at.bitmapblock
             sd == start \div PerBitmap
             pos == Place(at)
             block == at.bitmapblock * PerBitmap
             Free(i) == block + i \in F
             breakpoint == IF start - block \in 0..(PerBitmap - 1)
                             THEN start - block ELSE 0
             ends == {i \in breakpoint..at.bitstart : Free(i)}
             bitend == Greatest(ends)
             used == {i \in 0..bitend : ~Free(i)} \cup {breakpoint - 1}
             before == Greatest(used)
             n == (IF bitend = PerBitmap - 1 THEN at.space ELSE 0) + bitend - before
             new == IF n <= at.best.blocks THEN at.best
                    ELSE IF n < needed THEN Fragment(block + before + 1, n)
                    ELSE Fragment(block + before + 1 + n - needed, needed)
             nb(bit, s, b) ==
               IF at.bitmapblock = start \div PerBitmap
                 THEN [at EXCEPT !.best = b, !.done = TRUE]
               ELSE [bitmapblock |-> at.bitmapblock - 1, bitstart |-> PerBitmap - 1,
                     space |-> IF bit = -1 THEN s ELSE 0, best |-> b, done |-> FALSE]
             Goal(z) == /\ z \in Backs /\ BackwardsOK(F, needed, start, z)
                        /\ z.done \/ Place(z) < Place(at)
  <1>1. y = IF ends = {} THEN nb(at.bitstart, at.space, at.best)
            ELSE IF new.blocks = needed THEN [at EXCEPT !.best = new, !.done = TRUE]
            ELSE IF before <= breakpoint THEN nb(before, n, new)
            ELSE [at EXCEPT !.bitstart = before, !.space = n, !.best = new]
    BY DEF BackwardsTurn
  <1>2. /\ PerBitmap \in Nat \ {0} /\ start \in Nat /\ start < Total /\ Total \in Nat \ {0}
        /\ k \in Nat /\ at.bitstart \in 0..(PerBitmap - 1) /\ at.space \in Nat
        /\ at.best \in Frags /\ at.best.block \in Nat /\ at.best.blocks \in Nat
        /\ at = [bitmapblock |-> at.bitmapblock, bitstart |-> at.bitstart,
                 space |-> at.space, best |-> at.best, done |-> at.done]
    BY SizesAssumption DEF Backs, Frags, Volume
  <1>3. block \in Nat /\ block = k * PerBitmap /\ pos = block + at.bitstart /\ pos \in Nat
    <2>1. k * PerBitmap \in Nat
      BY <1>2, NextBlock
    <2>2. QED
      BY <1>2, <2>1 DEF Place
  <1>4. /\ pos \in start..(Total - 1) /\ k >= sd
        /\ SeenFrom(F, needed, pos + 1, at.best) /\ at.best.blocks < needed
        /\ IF at.bitstart = PerBitmap - 1 THEN RunAt(F, pos + 1, at.space)
           ELSE pos \notin F \/ pos + 1 \notin F
    BY DEF BackwardsOK
  <1>5. k = sd => breakpoint = start - block /\ block <= start
    <2>1. sd * PerBitmap + (start % PerBitmap) = start /\ start % PerBitmap \in 0..(PerBitmap - 1)
      BY <1>2, Division
    <2>2. sd * PerBitmap \in Nat
      BY <1>2, Division, NextBlock
    <2>3. k = sd => block = sd * PerBitmap
      BY <1>3
    <2> HIDE DEF sd, block
    <2>4. k = sd => start - block = start % PerBitmap
      BY <1>2, <1>3, <2>1, <2>2, <2>3
    <2>5. QED
      BY <1>2, <1>3, <2>1, <2>4
  <1>6. k # sd => /\ breakpoint = 0 /\ start < block /\ k - 1 \in Nat
                  /\ (k - 1) * PerBitmap = block - PerBitmap /\ k - 1 >= sd
    <2>1. SUFFICES ASSUME k # sd
                   PROVE  /\ breakpoint = 0 /\ start < block /\ k - 1 \in Nat
                          /\ (k - 1) * PerBitmap = block - PerBitmap /\ k - 1 >= sd
      OBVIOUS
    <2>2. sd * PerBitmap + (start % PerBitmap) = start /\ start % PerBitmap \in 0..(PerBitmap - 1)
          /\ sd \in Nat
      BY <1>2, Division
    <2>3. sd < k /\ k - 1 \in Nat /\ k - 1 >= sd /\ (k - 1) + 1 = k
      <3> HIDE DEF sd, k
      <3>1. QED
        BY <1>2, <1>4, <2>1, <2>2
    <2>4. sd * PerBitmap + PerBitmap <= k * PerBitmap /\ sd * PerBitmap \in Nat
      BY <1>2, <2>2, <2>3, NextBlock
    <2>5. k * PerBitmap = (k - 1) * PerBitmap + PerBitmap /\ (k - 1) * PerBitmap \in Nat
      <3>1. ((k - 1) + 1) * PerBitmap = (k - 1) * PerBitmap + PerBitmap
            /\ (k - 1) * PerBitmap \in Nat
        BY <2>3, NextBlock
      <3>2. QED
        BY <2>3, <3>1
    <2> DEFINE m == sd * PerBitmap
               low == (k - 1) * PerBitmap
    <2>6. m + (start % PerBitmap) = start /\ m + PerBitmap <= block /\ block = low + PerBitmap
          /\ m \in Nat /\ low \in Nat
      BY <1>3, <2>2, <2>4, <2>5
    <2> HIDE DEF m, block, low
    <2>7. start < block
      BY <1>2, <1>3, <2>2, <2>6
    <2>8. breakpoint = 0
      BY <1>2, <1>3, <2>7
    <2>9. low = block - PerBitmap
      BY <1>2, <1>3, <2>6
    <2>10. QED
      BY <2>3, <2>7, <2>8, <2>9 DEF low
  <1>7. breakpoint \in 0..(PerBitmap - 1) /\ breakpoint <= at.bitstart
        /\ block + breakpoint >= start /\ start >= (IF k = sd THEN block + breakpoint ELSE 0)
    <2> HIDE DEF block, sd, k
    <2>1. breakpoint \in 0..(PerBitmap - 1)
      BY <1>2, <1>3
    <2> HIDE DEF breakpoint
    <2>2. CASE k = sd
      BY <1>2, <1>3, <1>4, <1>5, <2>1, <2>2
    <2>3. CASE k # sd
      BY <1>2, <1>3, <1>6, <2>1, <2>3
    <2>4. QED
      BY <2>2, <2>3
  <1> HIDE DEF breakpoint, pos
  \* Before the first bitmap block of the search there is nothing to look at.
  <1>8. ASSUME k = sd, NEW b, SeenFrom(F, needed, start, b), NEW bit, NEW s
        PROVE  Goal(nb(bit, s, b))
    <2>1. nb(bit, s, b) = [at EXCEPT !.best = b, !.done = TRUE]
      BY <1>8
    <2>2. nb(bit, s, b) = [bitmapblock |-> at.bitmapblock, bitstart |-> at.bitstart,
                           space |-> at.space, best |-> b, done |-> TRUE]
      BY <1>2, <2>1
    <2> HIDE DEF nb
    <2>3. nb(bit, s, b) \in Backs /\ nb(bit, s, b).done /\ nb(bit, s, b).best = b
      BY <1>2, <1>8, <2>2 DEF Backs, SeenFrom
    <2>4. QED
      BY <1>8, <2>3 DEF BackwardsOK
  \* The bitmap block before this one.
  <1>9. ASSUME k # sd, NEW b, SeenFrom(F, needed, block, b), b.blocks < needed,
               NEW bit, NEW s, s \in Nat, RunAt(F, block, IF bit = -1 THEN s ELSE 0)
        PROVE  Goal(nb(bit, s, b))
    <2> DEFINE z == nb(bit, s, b)
               sp == IF bit = -1 THEN s ELSE 0
    <2>1. z = [bitmapblock |-> k - 1, bitstart |-> PerBitmap - 1, space |-> sp, best |-> b,
               done |-> FALSE]
      BY <1>9
    <2>2. sp \in Nat /\ RunAt(F, block, sp)
      BY <1>9
    <2> HIDE DEF z, sp
    <2>3. PerBitmap - 1 \in 0..(PerBitmap - 1) /\ b \in Frags
      BY <1>2, <1>9 DEF SeenFrom
    <2>4. /\ z \in Backs /\ z.done = FALSE /\ z.best = b /\ z.bitmapblock = k - 1
          /\ z.bitstart = PerBitmap - 1 /\ z.space = sp
      BY <1>6, <1>9, <2>1, <2>2, <2>3 DEF Backs
    <2>5. Place(z) = (block - PerBitmap) + (PerBitmap - 1)
      BY <1>6, <1>9, <2>4 DEF Place
    <2> HIDE DEF block, k, sd
    <2>6. Place(z) = block - 1 /\ Place(z) + 1 = block
      BY <1>2, <1>3, <2>5
    <2>7. Place(z) \in start..(Total - 1) /\ Place(z) < pos /\ z.bitmapblock >= sd
      BY <1>2, <1>3, <1>4, <1>6, <1>9, <2>4, <2>6
    <2>8. BackwardsOK(F, needed, start, z)
      <3>1. Place(z) + 1 = block /\ Place(z) \in start..(Total - 1)
            /\ z.bitmapblock >= start \div PerBitmap
        BY <2>6, <2>7 DEF sd
      <3>2. SeenFrom(F, needed, Place(z) + 1, z.best) /\ z.best.blocks < needed
            /\ RunAt(F, Place(z) + 1, z.space)
        BY <1>9, <2>2, <2>4, <3>1
      <3>3. QED
        BY <2>4, <3>1, <3>2 DEF BackwardsOK
    <2>9. z \in Backs /\ BackwardsOK(F, needed, start, z) /\ (z.done \/ Place(z) < Place(at))
      BY <2>4, <2>7, <2>8 DEF pos
    <2>10. QED
      BY <2>9 DEF z
  <1> DEFINE low == block + breakpoint
  <1>10. CASE ends = {}
    <2>1. \A b \in low..((pos + 1) - 1) : b \notin F
      <3>1. ASSUME NEW b \in low..((pos + 1) - 1) PROVE b \notin F
        <4>1. b - block \in breakpoint..at.bitstart /\ block + (b - block) = b
          BY <1>2, <1>3, <1>7
        <4>2. QED
          BY <1>10, <4>1
      <3>2. QED
        BY <3>1
    <2>2. low \in Nat /\ low <= pos + 1 /\ pos + 1 \in Nat
      BY <1>2, <1>3, <1>7
    <2>3. SeenFrom(F, needed, low, at.best)
      BY <1>4, <2>1, <2>2, SeenUsed
    <2>4. y = nb(at.bitstart, at.space, at.best)
      BY <1>1, <1>10
    <2>5. CASE k = sd
      <3>1. low = start
        BY <1>2, <1>3, <1>5, <2>5
      <3>2. SeenFrom(F, needed, start, at.best)
        BY <2>3, <3>1
      <3> HIDE DEF nb, Goal, y
      <3>3. Goal(y)
        BY <1>8, <2>4, <2>5, <3>2
      <3>4. QED
        BY <3>3 DEF Goal, y
    <2>6. CASE k # sd
      <3>1. low = block /\ block \in low..((pos + 1) - 1)
        BY <1>2, <1>3, <1>6, <1>7, <2>6
      <3>2. block \notin F
        BY <2>1, <3>1
      <3>3. at.bitstart # -1
        BY <1>2
      <3>4. RunAt(F, block, 0)
        <4> HIDE DEF block
        <4>1. QED
          BY <1>3, <3>2 DEF RunAt, Blocks
      <3>5. RunAt(F, block, IF at.bitstart = -1 THEN at.space ELSE 0)
        BY <3>3, <3>4
      <3>6. SeenFrom(F, needed, block, at.best)
        BY <2>3, <3>1
      <3> HIDE DEF nb, Goal, y
      <3>7. Goal(y)
        BY <1>2, <1>4, <1>9, <2>4, <2>6, <3>5, <3>6
      <3>8. QED
        BY <3>7 DEF Goal, y
    <2>7. QED
      BY <2>5, <2>6
  <1>11. CASE ends # {}
    <2> DEFINE q == block + bitend
               first == block + before + 1
    <2>1. bitend \in ends /\ \A i \in ends : i <= bitend
      <3>1. ends \subseteq (-1)..(PerBitmap - 1) /\ PerBitmap - 1 \in Nat
        BY <1>2, <1>7
      <3> HIDE DEF ends
      <3>2. QED
        BY <1>11, <3>1, GreatestIs
    <2> HIDE DEF bitend
    <2>2. bitend \in breakpoint..at.bitstart /\ q \in F /\ bitend \in Nat
      BY <1>7, <2>1
    <2>3. before \in used /\ \A i \in used : i <= before
      <3>1. used \subseteq (-1)..bitend /\ used # {}
        BY <1>2, <1>7, <2>2
      <3> HIDE DEF used
      <3>2. QED
        BY <2>2, <3>1, GreatestIs
    <2> HIDE DEF before
    <2>4. before \in (breakpoint - 1)..(bitend - 1)
      <3>1. before \in Int /\ before >= breakpoint - 1
        BY <1>2, <1>7, <2>2, <2>3
      <3>2. before <= bitend /\ before # bitend
        BY <1>2, <1>7, <2>2, <2>3
      <3>3. QED
        BY <2>2, <3>1, <3>2
    <2>5. before # breakpoint - 1 => block + before \notin F
      BY <2>3
    <2>6. \A b \in first..q : b \in F
      <3>1. ASSUME NEW b \in first..q PROVE b \in F
        <4>1. b - block \in 0..bitend /\ b - block > before /\ block + (b - block) = b
          BY <1>2, <1>3, <1>7, <2>2, <2>4
        <4>2. b - block \notin used
          BY <2>3, <2>4, <4>1
        <4>3. QED
          BY <4>1, <4>2
      <3>2. QED
        BY <3>1
    <2>7. first \in Nat /\ q \in Nat /\ first <= q /\ q <= pos /\ n \in Nat /\ q < first + n
      BY <1>2, <1>3, <1>7, <2>2, <2>4
    <2>8. \A b \in (q + 1)..pos : b \notin F
      <3>1. ASSUME NEW b \in (q + 1)..pos PROVE b \notin F
        <4>1. b - block \in breakpoint..at.bitstart /\ b - block > bitend
              /\ block + (b - block) = b
          BY <1>2, <1>3, <1>7, <2>2
        <4>2. b - block \notin ends
          BY <2>1, <2>2, <4>1
        <4>3. QED
          BY <4>1, <4>2
      <3>2. QED
        BY <3>1
    <2>9. RunAt(F, first, n)
      <3>1. CASE bitend = PerBitmap - 1
        <4>1. at.bitstart = PerBitmap - 1 /\ pos = q /\ RunAt(F, pos + 1, at.space)
          BY <1>2, <1>3, <1>4, <2>2, <3>1
        <4>2. n = at.space + bitend - before
          BY <3>1
        <4> HIDE DEF n
        <4>3. first + n = (pos + 1) + at.space
          BY <1>2, <1>3, <2>2, <2>4, <4>1, <4>2
        <4> HIDE DEF first
        <4>4. ASSUME NEW b \in Blocks(first, n) PROVE b \in F
          <5>1. b \in Int /\ first <= b /\ b < first + n
            BY <2>7 DEF Blocks
          <5>2. b \in first..q \/ b \in Blocks(pos + 1, at.space)
            BY <1>2, <1>3, <2>7, <4>1, <4>3, <5>1 DEF Blocks
          <5>3. QED
            BY <2>6, <4>1, <5>2 DEF RunAt
        <4>5. QED
          BY <4>1, <4>3, <4>4 DEF RunAt
      <3>2. CASE bitend # PerBitmap - 1
        <4>1. n = bitend - before
          BY <2>2, <2>4, <3>2
        <4> HIDE DEF n
        <4>2. first + n = q + 1
          BY <1>2, <1>3, <2>2, <2>4, <4>1
        <4>3. q + 1 \notin F
          <5>1. CASE q < pos
            BY <1>3, <2>7, <2>8, <5>1
          <5>2. CASE q = pos
            <6>1. at.bitstart # PerBitmap - 1
              BY <1>2, <1>3, <2>2, <3>2, <5>2
            <6>2. QED
              BY <1>4, <2>2, <5>2, <6>1
          <5>3. QED
            BY <1>3, <2>7, <5>1, <5>2
        <4>4. Blocks(first, n) \subseteq first..q
          <5> HIDE DEF first, q
          <5>1. QED
            BY <2>7, <4>2 DEF Blocks
        <4>5. QED
          BY <2>6, <4>2, <4>3, <4>4 DEF RunAt
      <3>3. QED
        BY <3>1, <3>2
    <2>10. new = IF n <= at.best.blocks THEN at.best
                 ELSE IF n < needed THEN Fragment(first, n)
                 ELSE Fragment(first + n - needed, needed)
      OBVIOUS
    <2> HIDE DEF new, n, first, q
    <2>11. SeenFrom(F, needed, first, new)
      BY <1>3, <1>4, <2>7, <2>8, <2>9, <2>10, SeenRun
    <2>12. /\ new \in Frags /\ new.block \in Nat /\ new.blocks \in Nat /\ new.blocks <= needed
           /\ new.blocks > 0 => new.block >= first
      BY <2>11 DEF SeenFrom, Frags
    <2>13. first = block + before + 1 /\ before \in Int
      BY <2>4, <1>7 DEF first
    <2> HIDE DEF block
    <2>14. first >= start
      BY <1>2, <1>3, <1>7, <2>4, <2>13
    <2>15. CASE new.blocks = needed
      <3>1. y = [at EXCEPT !.best = new, !.done = TRUE]
        BY <1>1, <1>11, <2>15
      <3>2. y = [bitmapblock |-> at.bitmapblock, bitstart |-> at.bitstart,
                 space |-> at.space, best |-> new, done |-> TRUE]
        BY <1>2, <3>1
      <3> HIDE DEF y
      <3>3. y \in Backs /\ y.done /\ y.best = new
        BY <1>2, <2>12, <3>2 DEF Backs
      <3>4. SeenFrom(F, needed, start, new)
        <4>1. ASSUME NEW c \in Nat, NEW m \in 1..needed, c >= start, Blocks(c, m) \subseteq F
              PROVE  m < new.blocks \/ (m = new.blocks /\ c <= new.block)
          <5>1. CASE c >= first
            BY <2>11, <4>1, <5>1 DEF SeenFrom
          <5>2. CASE c < first
            BY <2>7, <2>12, <2>15, <5>2
          <5>3. QED
            BY <2>7, <5>1, <5>2
        <4>2. new.blocks > 0 => new.block >= start
          BY <1>2, <2>7, <2>12, <2>14
        <4>3. QED
          BY <2>11, <4>1, <4>2 DEF SeenFrom
      <3>5. QED
        BY <3>3, <3>4 DEF BackwardsOK, y
    <2>16. CASE new.blocks # needed /\ before <= breakpoint
      <3>1. y = nb(before, n, new)
        BY <1>1, <1>11, <2>16
      <3>2. new.blocks < needed
        BY <2>12, <2>16
      <3>3. \A b \in low..(first - 1) : b \notin F
        <4>1. ASSUME NEW b \in low..(first - 1) PROVE b \notin F
          <5>1. before = breakpoint /\ b = block + before
            BY <1>2, <1>3, <1>7, <2>4, <2>13, <2>16
          <5>2. QED
            BY <1>7, <2>5, <5>1
        <4>2. QED
          BY <4>1
      <3>4. low \in Nat /\ low <= first
        BY <1>2, <1>3, <1>7, <2>4, <2>13
      <3>5. SeenFrom(F, needed, low, new)
        BY <2>7, <2>11, <3>3, <3>4, SeenUsed
      <3>6. CASE k = sd
        <4>1. low = start
          BY <1>2, <1>3, <1>5, <3>6
        <4>2. SeenFrom(F, needed, start, new)
          BY <3>5, <4>1
        <4> HIDE DEF nb, Goal, y
        <4>3. Goal(y)
          BY <1>8, <3>1, <3>6, <4>2
        <4>4. QED
          BY <4>3 DEF Goal, y
      <3>7. CASE k # sd
        <4>1. low = block /\ breakpoint = 0
          BY <1>2, <1>3, <1>6, <3>7
        <4>2. RunAt(F, block, IF before = -1 THEN n ELSE 0)
          <5>1. CASE before = -1
            <6>1. first = block
              BY <1>3, <2>13, <5>1
            <6>2. QED
              BY <2>9, <5>1, <6>1
          <5>2. CASE before # -1
            <6>1. before = 0 /\ block + before = block
              BY <1>3, <2>4, <2>16, <4>1, <5>2
            <6>2. block \notin F
              BY <2>5, <4>1, <6>1
            <6>3. RunAt(F, block, 0)
              BY <1>3, <6>2 DEF RunAt, Blocks
            <6>4. QED
              BY <5>2, <6>3
          <5>3. QED
            BY <5>1, <5>2
        <4>3. SeenFrom(F, needed, block, new)
          BY <3>5, <4>1
        <4> HIDE DEF nb, Goal, y
        <4>4. Goal(y)
          BY <1>9, <2>7, <3>1, <3>2, <3>7, <4>2, <4>3
        <4>5. QED
          BY <4>4 DEF Goal, y
      <3>8. QED
        BY <3>6, <3>7
    <2>17. CASE new.blocks # needed /\ ~(before <= breakpoint)
      <3>1. y = [at EXCEPT !.bitstart = before, !.space = n, !.best = new]
        BY <1>1, <1>11, <2>17
      <3>2. y = [bitmapblock |-> at.bitmapblock, bitstart |-> before,
                 space |-> n, best |-> new, done |-> at.done]
        BY <1>2, <3>1
      <3> HIDE DEF y
      <3>3. before \in 0..(PerBitmap - 1) /\ before # PerBitmap - 1 /\ before > breakpoint
        BY <1>2, <1>7, <2>2, <2>4, <2>17
      <3>4. /\ y \in Backs /\ y.done = FALSE /\ y.best = new /\ y.bitmapblock = k
            /\ y.bitstart = before
        BY <1>2, <2>7, <2>12, <3>2, <3>3 DEF Backs
      <3>5. Place(y) = block + before
        BY <3>4 DEF Place, block
      <3>6. Place(y) + 1 = first /\ Place(y) \in Nat
        BY <1>3, <2>13, <3>3, <3>5
      <3>7. Place(y) \in start..(Total - 1) /\ Place(y) < pos
        BY <1>2, <1>3, <1>4, <1>7, <2>2, <2>4, <3>3, <3>5
      <3>8. Place(y) \notin F
        BY <1>7, <2>5, <3>3, <3>5
      <3>9. new.blocks < needed
        BY <2>12, <2>17
      <3>10. BackwardsOK(F, needed, start, y)
        BY <1>4, <2>11, <3>3, <3>4, <3>6, <3>7, <3>8, <3>9 DEF BackwardsOK
      <3>11. QED
        BY <3>4, <3>7, <3>10 DEF y, pos
    <2>18. QED
      BY <2>15, <2>16, <2>17
  <1>12. QED
    BY <1>10, <1>11

\* The search finds the last place that is large enough, or else the last of the
\* largest ones.
LEMMA BackwardsIs ==
  ASSUME NEW F, F \subseteq Volume, NEW needed \in Nat \ {0}, NEW start \in Volume
  PROVE  SeenFrom(F, needed, start, FindSpaceBackwards(F, needed, start, Total))
  <1> DEFINE S == {x \in Backs : BackwardsOK(F, needed, start, x)}
             s == [bitmapblock |-> (Total - 1) \div PerBitmap,
                   bitstart |-> (Total - 1) % PerBitmap, space |-> 0,
                   best |-> NothingFound, done |-> FALSE]
             turn(x) == BackwardsTurn(F, needed, start, x)
             g == [x \in S |-> turn(x)]
             left == [x \in S |-> IF x.done THEN 0 ELSE Place(x) + 1]
             at == CHOOSE at : at = [i \in 0..Total |-> IF i = 0 THEN s ELSE turn(at[i - 1])]
  <1>1. FindSpaceBackwards(F, needed, start, Total) = at[Total].best
    BY DEF FindSpaceBackwards, Repeat
  <1>2. /\ Total \in Nat \ {0} /\ Total - 1 \in Nat /\ PerBitmap \in Nat \ {0}
        /\ start \in Nat /\ start <= Total - 1
    BY SizesAssumption DEF Volume
  <1>3. s \in S /\ s.done = FALSE /\ Place(s) = Total - 1
    <2> DEFINE k == (Total - 1) \div PerBitmap
               r == (Total - 1) % PerBitmap
    <2>1. k \in Nat /\ r \in 0..(PerBitmap - 1) /\ k * PerBitmap + r = Total - 1
      BY <1>2, Division
    <2>2. k >= start \div PerBitmap
      <3> DEFINE sd == start \div PerBitmap
      <3>1. sd \in Nat /\ start % PerBitmap \in 0..(PerBitmap - 1)
            /\ sd * PerBitmap + (start % PerBitmap) = start
        BY <1>2, Division
      <3>2. SUFFICES ASSUME k < sd PROVE FALSE
        <4> HIDE DEF k, sd
        <4>1. QED
          BY <2>1, <3>1 DEF sd
      <3>3. k * PerBitmap + PerBitmap <= sd * PerBitmap /\ k * PerBitmap \in Nat
            /\ sd * PerBitmap \in Nat
        BY <2>1, <3>1, <3>2, NextBlock
      <3> DEFINE m == k * PerBitmap
                 l == sd * PerBitmap
                 b == start % PerBitmap
      <3>4. m + PerBitmap <= l /\ m \in Nat /\ l \in Nat /\ b \in 0..(PerBitmap - 1)
            /\ l + b = start /\ m + r = Total - 1
        BY <2>1, <3>1, <3>3
      <3> HIDE DEF m, l, b, r
      <3>5. QED
        BY <1>2, <2>1, <3>4
    <2> HIDE DEF k, r
    <2>3. s = [bitmapblock |-> k, bitstart |-> r, space |-> 0, best |-> NothingFound,
               done |-> FALSE]
      BY DEF k, r
    <2>4. /\ NothingFound \in Frags /\ NothingFound.block = 0 /\ NothingFound.blocks = 0
          /\ NothingFound.blocks < needed
      BY DEF NothingFound, Fragment, Frags
    <2>5. SeenFrom(F, needed, Total, NothingFound)
      <3>1. Blocks(0, 0) = {}
        BY DEF Blocks
      <3>2. ASSUME NEW c \in Nat, NEW m \in 1..needed, c >= Total, Blocks(c, m) \subseteq F
            PROVE FALSE
        <4>1. c \in F
          BY <3>2 DEF Blocks
        <4>2. QED
          BY <1>2, <3>2, <4>1 DEF Volume
      <3>3. QED
        BY <2>4, <3>1, <3>2 DEF SeenFrom
    <2>6. Total \notin F /\ RunAt(F, Total, 0)
      <3>1. Total \notin F
        BY <1>2 DEF Volume
      <3>2. QED
        BY <1>2, <3>1 DEF RunAt, Blocks
    <2> HIDE DEF s
    <2>7. s \in Backs
      BY <2>1, <2>3, <2>4 DEF Backs
    <2>8. Place(s) = Total - 1 /\ Place(s) + 1 = Total
      BY <1>2, <2>1, <2>3 DEF Place
    <2>9. s.bitmapblock = k /\ s.best = NothingFound /\ s.space = 0 /\ s.done = FALSE
      BY <2>3
    <2>10. BackwardsOK(F, needed, start, s)
      BY <1>2, <2>2, <2>4, <2>5, <2>6, <2>8, <2>9 DEF BackwardsOK
    <2>11. QED
      BY <2>7, <2>8, <2>9, <2>10
  <1>4. \A x \in S : ~x.done => Place(x) \in Nat
    BY <1>2 DEF BackwardsOK
  <1>5. ASSUME NEW x \in S
        PROVE  /\ turn(x) \in S
               /\ x.done => turn(x) = x
               /\ turn(x).done \/ (~x.done /\ Place(turn(x)) < Place(x))
    <2>1. CASE x.done
      <3>1. turn(x) = x
        BY <2>1 DEF BackwardsTurn
      <3> HIDE DEF turn
      <3>2. QED
        BY <2>1, <3>1
    <2>2. CASE ~x.done
      <3>1. x \in Backs /\ BackwardsOK(F, needed, start, x)
        OBVIOUS
      <3>2. /\ turn(x) \in Backs /\ BackwardsOK(F, needed, start, turn(x))
            /\ turn(x).done \/ Place(turn(x)) < Place(x)
        BY <2>2, <3>1, BackwardsTurnIs
      <3> HIDE DEF turn
      <3>3. QED
        BY <2>2, <3>2
    <2>3. QED
      BY <2>1, <2>2
  <1> HIDE DEF turn
  <1>6. g \in [S -> S] /\ \A x \in S : g[x] = turn(x)
    BY <1>5
  <1>7. left \in [S -> Nat] /\ left[s] = Total
    <2>1. \A x \in S : (IF x.done THEN 0 ELSE Place(x) + 1) \in Nat
      BY <1>4
    <2>2. left[s] = (Total - 1) + 1
      BY <1>3
    <2> HIDE DEF S
    <2>3. QED
      BY <1>2, <2>1, <2>2
  <1>8. \A x \in S : left[g[x]] < left[x] \/ left[g[x]] = 0
    <2>1. ASSUME NEW x \in S PROVE left[turn(x)] < left[x] \/ left[turn(x)] = 0
      <3>1. turn(x) \in S
        BY <1>5
      <3> HIDE DEF S
      <3>2. CASE turn(x).done
        BY <3>1, <3>2
      <3>3. CASE ~turn(x).done
        <4>1. ~x.done /\ Place(turn(x)) < Place(x) /\ Place(x) \in Nat /\ Place(turn(x)) \in Nat
          BY <1>4, <1>5, <3>1, <3>3
        <4>2. left[turn(x)] = Place(turn(x)) + 1 /\ left[x] = Place(x) + 1
          BY <3>1, <3>3, <4>1
        <4>3. QED
          BY <4>1, <4>2
      <3>4. QED
        BY <3>2, <3>3
    <2> HIDE DEF S, left, g
    <2>2. QED
      BY <1>6, <2>1
  <1>9. \A x \in S : left[x] = 0 => x.done
    <2>1. \A x \in S : ~x.done => left[x] = Place(x) + 1
      OBVIOUS
    <2> HIDE DEF S, left
    <2>2. QED
      BY <1>4, <2>1
  <1>10. \A x \in S : x.done => SeenFrom(F, needed, start, x.best)
    BY DEF BackwardsOK
  <1> HIDE DEF S, s, g, left, at
  <1>11. PICK f : f \in Loops(S, s, g, Total)
    BY <1>2, <1>3, <1>6, RepeatExists
  <1>12. /\ f \in [0..Total -> S] /\ f[0] = s
         /\ \A i \in 1..Total : f[i - 1] \in S /\ f[i] = g[f[i - 1]]
    BY <1>2, <1>3, <1>6, <1>11, LoopIs
  <1>13. \A i \in 1..Total : f[i] = turn(f[i - 1])
    BY <1>6, <1>12
  <1>14. f = [i \in 0..Total |-> IF i = 0 THEN s ELSE turn(f[i - 1])]
    <2>1. f = [i \in 0..Total |-> f[i]] /\ \A i \in 0..Total : i # 0 => i \in 1..Total
      BY <1>2, <1>12
    <2>2. \A i \in 0..Total : f[i] = IF i = 0 THEN s ELSE turn(f[i - 1])
      BY <1>12, <1>13, <2>1
    <2>3. QED
      BY <2>1, <2>2, Zenon
  <1>15. at = [i \in 0..Total |-> IF i = 0 THEN s ELSE turn(at[i - 1])]
    BY <1>14, Zenon DEF at
  <1>16. at[Total] = f[Total]
    <2>1. at[0] = s /\ \A i \in 1..Total : at[i] = turn(at[i - 1])
      <3>1. 0 \in 0..Total /\ \A i \in 1..Total : i \in 0..Total /\ i # 0
        BY <1>2
      <3>2. QED
        BY <1>15, <3>1
    <2>2. \A i \in 1..Total : f[i - 1] = at[i - 1] => f[i] = at[i]
      BY <1>13, <2>1
    <2>3. Total \in Nat /\ f[0] = at[0]
      BY <1>2, <1>12, <2>1
    <2>4. QED
      BY <2>2, <2>3, RepeatSame
  <1>17. f[Total] \in S /\ left[f[Total]] = 0
    <2>1. \A i \in 1..Total : f[i - 1] \in S => f[i] = g[f[i - 1]]
      BY <1>12
    <2>2. /\ Total \in Nat /\ s \in S /\ left[s] <= Total /\ f[0] = s
          /\ g \in [S -> S] /\ left \in [S -> Nat]
      BY <1>2, <1>3, <1>6, <1>7, <1>12
    <2>3. QED
      BY <1>8, <2>1, <2>2, RepeatEnds
  <1>18. QED
    BY <1>1, <1>9, <1>10, <1>16, <1>17

-----------------------------------------------------------------------------
(* smartfindandmarkspace collects fragments. *)

\* The blocks of S that are counted, from this one on.
LEMMA CountedIs ==
  ASSUME NEW S, S \subseteq Volume, NEW block \in 0..Total, NEW maxneeded \in Nat
  PROVE  LET n == Counted(S, block, maxneeded)
         IN /\ n \in 0..(Total - block) /\ Blocks(block, n) \subseteq S
            /\ block \in S => n > 0
            /\ n < maxneeded => RunAt(S, block, n)
  <1> DEFINE ends == {b \in block..Total : b \notin S}
             end == Least(ends)
             run == end - block
             enough == {n \in 1..run : n >= maxneeded /\ (block + n) % PerBitmap = 0}
             n == Counted(S, block, maxneeded)
  <1>1. Total \in Nat \ {0} /\ block \in Nat /\ Total \in ends
    BY SizesAssumption DEF Volume
  <1>2. end \in ends /\ \A b \in ends : end <= b
    <2>1. ends \subseteq Nat /\ ends # {}
      BY <1>1
    <2> HIDE DEF ends
    <2>2. QED
      BY <2>1, LeastIs
  <1> HIDE DEF end
  <1>3. end \in block..Total /\ end \notin S /\ \A b \in block..(end - 1) : b \in S
    <2>1. end \in block..Total /\ end \notin S
      BY <1>2
    <2>2. ASSUME NEW b \in block..(end - 1) PROVE b \in S
      <3>1. b \in block..Total /\ ~(end <= b)
        BY <1>1, <2>1
      <3>2. QED
        BY <1>2, <3>1
    <2>3. QED
      BY <2>1, <2>2
  <1>4. run \in 0..(Total - block) /\ block + run = end
    BY <1>1, <1>3
  <1>5. n = IF enough = {} THEN run ELSE Least(enough)
    BY DEF Counted, end
  <1>6. CASE enough = {}
    <2>1. n = run
      BY <1>5, <1>6
    <2> HIDE DEF n, run
    <2>2. RunAt(S, block, n)
      BY <1>1, <1>3, <1>4, <2>1 DEF RunAt, Blocks
    <2>3. block \in S => n > 0
      BY <1>1, <1>3, <1>4, <2>1
    <2>4. QED
      BY <1>1, <1>4, <2>1, <2>2, <2>3 DEF RunAt, n
  <1>7. CASE enough # {}
    <2>1. n = Least(enough)
      BY <1>5, <1>7
    <2> HIDE DEF run
    <2>2. enough \subseteq Nat
      BY <1>4
    <2>3. n \in enough
      <3> HIDE DEF enough, n
      <3>1. QED
        BY <1>7, <2>1, <2>2, LeastIs
    <2>4. n \in 1..run /\ n >= maxneeded
      BY <2>3
    <2> HIDE DEF n, enough
    <2>5. Blocks(block, n) \subseteq S
      BY <1>1, <1>3, <1>4, <2>4 DEF Blocks
    <2>6. QED
      BY <1>1, <1>4, <2>4, <2>5 DEF n
  <1>8. QED
    BY <1>6, <1>7

\* How far behind the start of the search a block is.
Behind(start, b) == IF b < start THEN b + Total - start ELSE b - start

\* Free fragments that do not overlap.
FragmentsOK(F, list) ==
  /\ list \in Lists
  /\ \A i \in 1..Len(list) : Blocks(list[i].block, list[i].blocks) \subseteq F
  /\ \A i, j \in 1..Len(list) : i # j =>
       Blocks(list[i].block, list[i].blocks) \cap Blocks(list[j].block, list[j].blocks) = {}

\* The list has all the free blocks that are less than d blocks behind the start,
\* and at none of them begins a place with as many as are needed.
Scanned(F, needed, start, list, d) ==
  /\ BlocksOf(list) = {b \in F : Behind(start, b) < d}
  /\ \A c \in Volume : Behind(start, c) < d => ~(Blocks(c, needed) \subseteq F)

\* The blocks of a list with a fragment more.
LEMMA BlocksAppended ==
  ASSUME NEW p \in Lists, NEW f \in Frags, NEW q, q = Append(p, f)
  PROVE  BlocksOf(q) = BlocksOf(p) \cup Blocks(f.block, f.blocks)
  <1> DEFINE B(l, i) == Blocks(l[i].block, l[i].blocks)
  <1>1. /\ q \in Lists /\ Len(q) = Len(p) + 1 /\ q[Len(p) + 1] = f
        /\ \A i \in 1..Len(p) : q[i] = p[i]
    <2>1. q \in Lists /\ Len(q) = Len(p) + 1
      BY SumAppended
    <2>2. q[Len(p) + 1] = f
      BY SumAppended
    <2>3. \A i \in 1..Len(p) : q[i] = p[i]
      BY SumAppended
    <2>4. QED
      BY <2>1, <2>2, <2>3
  <1>2. Len(p) \in Nat /\ DOMAIN p = 1..Len(p) /\ DOMAIN q = 1..(Len(p) + 1)
    BY <1>1, ListIs
  <1>3. B(q, Len(p) + 1) = Blocks(f.block, f.blocks)
        /\ \A i \in 1..Len(p) : B(q, i) = B(p, i)
    BY <1>1
  <1>4. BlocksOf(q) = UNION {B(q, i) : i \in 1..(Len(p) + 1)}
        /\ BlocksOf(p) = UNION {B(p, i) : i \in 1..Len(p)}
    BY <1>2 DEF BlocksOf
  <1> HIDE DEF B
  <1> DEFINE k == Len(p)
  <1>5. 1..(k + 1) = (1..k) \cup {k + 1}
    BY <1>2
  <1> HIDE DEF k
  <1>6. UNION {B(q, i) : i \in 1..(k + 1)}
          = (UNION {B(q, i) : i \in 1..k}) \cup B(q, k + 1)
    BY <1>5
  <1>7. UNION {B(q, i) : i \in 1..k} = UNION {B(p, i) : i \in 1..k}
    BY <1>3 DEF k
  <1>8. QED
    BY <1>3, <1>4, <1>6, <1>7 DEF k

\* A fragment's blocks are blocks of the list.
LEMMA BlocksIn ==
  ASSUME NEW p \in Lists, NEW i \in 1..Len(p)
  PROVE  Blocks(p[i].block, p[i].blocks) \subseteq BlocksOf(p)
  BY ListIs DEF BlocksOf

\* A fragment that overlaps none is added to a list.
LEMMA FragmentAdded ==
  ASSUME NEW F, NEW p, FragmentsOK(F, p), NEW f \in Frags, NEW q, q = Append(p, f),
         Blocks(f.block, f.blocks) \subseteq F,
         Blocks(f.block, f.blocks) \cap BlocksOf(p) = {}
  PROVE  FragmentsOK(F, q)
  <1> DEFINE B(l, i) == Blocks(l[i].block, l[i].blocks)
             k == Len(p)
  <1>1. p \in Lists /\ k \in Nat /\ (\A i \in 1..k : B(p, i) \subseteq F)
        /\ \A i, j \in 1..k : i # j => B(p, i) \cap B(p, j) = {}
    BY ListIs DEF FragmentsOK
  <1>2. q \in Lists /\ Len(q) = k + 1 /\ q[k + 1] = f /\ \A i \in 1..k : q[i] = p[i]
    <2>1. q \in Lists /\ Len(q) = Len(p) + 1
      BY <1>1, SumAppended
    <2>2. q[Len(p) + 1] = f
      BY <1>1, SumAppended
    <2>3. \A i \in 1..Len(p) : q[i] = p[i]
      BY <1>1, SumAppended
    <2>4. QED
      BY <2>1, <2>2, <2>3
  <1>3. /\ B(q, k + 1) \subseteq F /\ \A i \in 1..k : B(q, i) = B(p, i)
        /\ \A i \in 1..k : B(q, k + 1) \cap B(p, i) = {}
    BY <1>1, <1>2, BlocksIn
  <1> HIDE DEF B, k
  <1>4. \A i \in 1..(k + 1) : i = k + 1 \/ i \in 1..k
    BY <1>1
  <1>5. \A i \in 1..(k + 1) : B(q, i) \subseteq F
    BY <1>1, <1>3, <1>4
  <1>6. ASSUME NEW i \in 1..(k + 1), NEW j \in 1..(k + 1), i # j
        PROVE  B(q, i) \cap B(q, j) = {}
    BY <1>1, <1>3, <1>4, <1>6
  <1>7. QED
    BY <1>2, <1>5, <1>6 DEF FragmentsOK, B

\* From a block on there are n free blocks, less than are needed, and cut of them
\* are added as a fragment; then there are none until d2 blocks behind the start.
LEMMA ScannedOn ==
  ASSUME NEW F, F \subseteq Volume, NEW needed \in Nat \ {0}, NEW start \in Volume,
         NEW list, FragmentsOK(F, list), NEW block \in Volume, NEW d, d = Behind(start, block),
         Scanned(F, needed, start, list, d),
         NEW n \in Nat, n < needed, RunAt(F, block, n), NEW cut \in 0..n,
         n > 0 => cut > 0,
         block + cut <= (IF block < start THEN start ELSE Total),
         NEW found, found = IF n > 0 THEN Append(list, Fragment(block, cut)) ELSE list,
         NEW d2 \in Nat, d2 >= d + cut,
         \A b \in F : ~(Behind(start, b) >= d + cut /\ Behind(start, b) < d2)
  PROVE  FragmentsOK(F, found) /\ Scanned(F, needed, start, found, d2)
  <1>1. /\ Total \in Nat \ {0} /\ start \in Nat /\ start < Total
        /\ block \in Nat /\ block < Total
        /\ \A b \in F : b \in Nat /\ b < Total /\ b \in Volume
    BY SizesAssumption DEF Volume
  <1>2. \A b \in Volume : b \in Nat /\ b < Total /\ Behind(start, b) \in Nat
    BY <1>1 DEF Volume, Behind
  <1>3. \A b \in Volume : Behind(start, b) >= d /\ Behind(start, b) < d + cut
                            <=> b \in Blocks(block, cut)
    <2>1. ASSUME NEW b \in Volume
          PROVE  Behind(start, b) >= d /\ Behind(start, b) < d + cut
                   <=> b \in Blocks(block, cut)
      <3>1. CASE block < start
        BY <1>1, <1>2, <3>1 DEF Behind, Blocks
      <3>2. CASE ~(block < start)
        BY <1>1, <1>2, <3>2 DEF Behind, Blocks
      <3>3. QED
        BY <3>1, <3>2
    <2>2. QED
      BY <2>1
  <1>4. d \in Nat
    BY <1>2
  <1>5. Blocks(block, cut) \subseteq F
    BY <1>1 DEF RunAt, Blocks
  <1>6. BlocksOf(list) = {b \in F : Behind(start, b) < d}
    BY DEF Scanned
  <1>7. {b \in F : Behind(start, b) < d2} = {b \in F : Behind(start, b) < d}
                                              \cup Blocks(block, cut)
    <2>1. ASSUME NEW b \in F
          PROVE  Behind(start, b) < d2 <=> Behind(start, b) < d \/ b \in Blocks(block, cut)
      BY <1>1, <1>2, <1>3, <1>4
    <2>2. QED
      BY <1>5, <2>1
  <1>8. FragmentsOK(F, found) /\ BlocksOf(found) = {b \in F : Behind(start, b) < d2}
    <2>1. CASE n > 0
      <3> DEFINE f == Fragment(block, cut)
      <3>1. f \in Frags /\ f.block = block /\ f.blocks = cut
        BY <1>1 DEF Fragment, Frags
      <3>2. Blocks(block, cut) \cap BlocksOf(list) = {}
        <4>1. \A b \in Blocks(block, cut) : b \in Volume /\ Behind(start, b) \in Nat
                                              /\ Behind(start, b) >= d
          BY <1>1, <1>2, <1>3, <1>5
        <4>2. QED
          BY <1>4, <1>6, <4>1
      <3>3. found = Append(list, f) /\ list \in Lists
        BY <2>1 DEF FragmentsOK
      <3> HIDE DEF f
      <3>4. FragmentsOK(F, found)
        BY <1>5, <3>1, <3>2, <3>3, FragmentAdded
      <3>5. BlocksOf(found) = BlocksOf(list) \cup Blocks(block, cut)
        BY <3>1, <3>3, BlocksAppended
      <3>6. QED
        BY <1>6, <1>7, <3>4, <3>5
    <2>2. CASE ~(n > 0)
      <3>1. found = list /\ cut = 0
        BY <2>2
      <3>2. Blocks(block, cut) = {}
        BY <1>1, <3>1 DEF Blocks
      <3>3. QED
        BY <1>6, <1>7, <3>1, <3>2
    <2>3. QED
      BY <2>1, <2>2
  <1>9. ASSUME NEW c \in Volume, Behind(start, c) < d2, Blocks(c, needed) \subseteq F
        PROVE  FALSE
    <2>1. c \in F
      BY <1>2, <1>9 DEF Blocks
    <2>2. ~(Behind(start, c) < d)
      BY <1>9 DEF Scanned
    <2>3. c \in Blocks(block, cut)
      <3>1. ~(Behind(start, c) >= d + cut /\ Behind(start, c) < d2)
        BY <2>1
      <3>2. Behind(start, c) \in Nat /\ cut \in Nat
        BY <1>2
      <3>3. Behind(start, c) >= d /\ Behind(start, c) < d + cut
        BY <1>4, <1>9, <2>2, <3>1, <3>2
      <3>4. QED
        BY <1>3, <3>3
    <2>4. block + n \in Blocks(c, needed)
      BY <1>1, <1>2, <2>3 DEF Blocks
    <2>5. QED
      BY <1>9, <2>4 DEF RunAt
  <1>10. QED
    BY <1>8, <1>9 DEF Scanned

\* The states of the search, and what is known in them.
Finds == [block : Volume, list : Lists, done : BOOLEAN]
FindsOK(F, needed, start, at) ==
  /\ FragmentsOK(F, at.list)
  /\ IF at.done THEN \/ Len(at.list) = SpaceListMax
                     \/ Len(at.list) = 1 /\ SumOf(at.list) >= needed
                     \/ Scanned(F, needed, start, at.list, Total)
     ELSE Scanned(F, needed, start, at.list, Behind(start, at.block))

\* A list of one fragment.
LEMMA OneFragment ==
  ASSUME NEW F, NEW f \in Frags, Blocks(f.block, f.blocks) \subseteq F
  PROVE  /\ FragmentsOK(F, <<f>>) /\ <<f>> \in Lists
         /\ Len(<<f>>) = 1 /\ SumOf(<<f>>) = f.blocks
  <1> HIDE DEF Frags
  <1>1. <<f>> \in Seq(Frags) /\ Len(<<f>>) = 1 /\ <<f>>[1] = f
    OBVIOUS
  <1> DEFINE p == <<f>>
  <1>2. p \in Lists /\ Len(p) = 1 /\ p[1] = f
    BY <1>1 DEF Lists
  <1> HIDE DEF p
  <1>3. \A i \in 1..Len(p) : i = 1
    BY <1>2
  <1>4. FragmentsOK(F, p)
    BY <1>2, <1>3 DEF FragmentsOK
  <1>5. f.blocks \in Nat
    BY DEF Frags
  <1>6. Sums(p)[1] = Sums(p)[0] + f.blocks /\ Sums(p)[0] = 0
    <2>1. 1 \in 1..Len(p) /\ 1 - 1 = 0
      BY <1>2
    <2>2. QED
      BY <1>2, <2>1, SumsIs
  <1>7. SumOf(p) = f.blocks
    BY <1>2, <1>5, <1>6 DEF SumOf
  <1>8. QED
    BY <1>2, <1>4, <1>7 DEF p

\* A turn of the search: a fragment, and the used blocks behind it.
LEMMA FragmentTurnIs ==
  ASSUME NEW F, F \subseteq Volume, NEW needed \in Nat \ {0}, NEW start \in Volume,
         NEW at \in Finds, ~at.done, FindsOK(F, needed, start, at)
  PROVE  LET y == FragmentTurn(F, start, needed, at)
         IN /\ y \in Finds /\ FindsOK(F, needed, start, y)
            /\ y.done \/ Behind(start, at.block) < Behind(start, y.block)
  <1> DEFINE y == FragmentTurn(F, start, needed, at)
             block == at.block
             n == AvailableSpace(F, block, needed)
             around == block < start /\ block + n >= start
             cut == IF around THEN start - block ELSE n
             found == IF n > 0 THEN Append(at.list, Fragment(block, cut)) ELSE at.list
             past == block + n
             u == IF past >= Total THEN 0 ELSE past
             a == AllocatedSpace(F, u, 2 * PerBitmap)
             next == IF u + a >= Total THEN 0 ELSE u + a
             ends == \/ n > 0 /\ around
                     \/ start = 0 /\ (past >= Total \/ u + a >= Total)
                     \/ u < start /\ u + a >= start
             d == Behind(start, block)
             full == Len(found) = SpaceListMax
  <1>1. y = IF n > 0 /\ n >= needed
              THEN [block |-> block, list |-> <<Fragment(block, n)>>, done |-> TRUE]
            ELSE [block |-> next, list |-> found, done |-> ends \/ full]
    BY DEF FragmentTurn
  <1>2. /\ Total \in Nat \ {0} /\ start \in Nat /\ start < Total
        /\ block \in Volume /\ block \in Nat /\ block < Total
        /\ FragmentsOK(F, at.list) /\ Scanned(F, needed, start, at.list, d)
    BY SizesAssumption DEF Volume, Finds, FindsOK
  <1>3. /\ n \in 0..(Total - block) /\ Blocks(block, n) \subseteq F
        /\ block \in F => n > 0
        /\ n < needed => RunAt(F, block, n)
    <2>1. block \in 0..Total /\ needed \in Nat
      BY <1>2
    <2> HIDE DEF block
    <2>2. QED
      BY <2>1, CountedIs DEF AvailableSpace
  <1> HIDE DEF n
  <1>4. past \in Nat /\ past <= Total /\ u \in 0..(Total - 1)
    BY <1>2, <1>3
  <1>5. /\ a \in 0..(Total - u) /\ Blocks(u, a) \subseteq Volume \ F
        /\ u \notin F => a > 0
    <2>1. u \in 0..Total /\ u \in Volume /\ 2 * PerBitmap \in Nat /\ Volume \ F \subseteq Volume
      BY <1>2, <1>4, SizesAssumption DEF Volume
    <2> HIDE DEF u
    <2> DEFINE U == Volume \ F
               m == 2 * PerBitmap
    <2>2. U \subseteq Volume /\ u \in 0..Total /\ m \in Nat
      BY <2>1
    <2>3. a = Counted(U, u, m)
      BY DEF AllocatedSpace
    <2> HIDE DEF U, m, a
    <2>4. a \in 0..(Total - u) /\ Blocks(u, a) \subseteq U /\ (u \in U => a > 0)
      BY <2>2, <2>3, CountedIs
    <2>5. QED
      BY <2>1, <2>4 DEF U
  <1> HIDE DEF a
  <1>6. \A b \in F : b \in Nat /\ b < Total /\ ~(u <= b /\ b < u + a)
    <2>1. ASSUME NEW b \in F PROVE b \in Nat /\ b < Total /\ ~(u <= b /\ b < u + a)
      <3>1. b \in Nat /\ b < Total
        BY <1>2 DEF Volume
      <3>2. b \notin Blocks(u, a)
        BY <1>5
      <3> HIDE DEF u
      <3>3. QED
        BY <1>4, <1>5, <3>1, <3>2 DEF Blocks
    <2>2. QED
      BY <2>1
  <1>7. CASE n > 0 /\ n >= needed
    <2> DEFINE f == Fragment(block, n)
    <2>1. f \in Frags /\ f.block = block /\ f.blocks = n
      BY <1>2, <1>3 DEF Fragment, Frags
    <2>2. y = [block |-> block, list |-> <<f>>, done |-> TRUE]
      BY <1>1, <1>7
    <2> HIDE DEF f, y, block
    <2>3. /\ FragmentsOK(F, <<f>>) /\ <<f>> \in Lists
          /\ Len(<<f>>) = 1 /\ SumOf(<<f>>) = n
      BY <1>3, <2>1, OneFragment
    <2>4. y \in Finds /\ y.done /\ y.list = <<f>>
      BY <1>2, <2>2, <2>3 DEF Finds
    <2>5. FindsOK(F, needed, start, y)
      BY <1>7, <2>3, <2>4 DEF FindsOK
    <2>6. QED
      BY <2>4, <2>5 DEF y
  <1>8. CASE ~(n > 0 /\ n >= needed)
    <2>1. n < needed /\ n \in Nat /\ RunAt(F, block, n)
      BY <1>2, <1>3, <1>8
    <2>2. /\ cut \in 0..n /\ (n > 0 => cut > 0)
          /\ block + cut <= (IF block < start THEN start ELSE Total)
      BY <1>2, <1>3, <2>1
    <2>3. d \in Nat /\ d < Total
      BY <1>2 DEF Behind
    \* Where the search ends, or goes on, everything before that has been seen.
    <2>4. ends => /\ Total >= d + cut
                  /\ \A b \in F : ~(Behind(start, b) >= d + cut /\ Behind(start, b) < Total)
      <3> HIDE DEF d, block
      <3>1. CASE block < start
        <4>1. d = block + Total - start
          BY <3>1 DEF d, Behind, block
        <4>2. CASE n > 0 /\ around
          BY <1>2, <1>6, <4>1, <4>2 DEF Behind
        <4>3. CASE ~(n > 0 /\ around)
          <5>1. cut = n /\ past < start /\ u = past /\ start # 0
            BY <1>2, <2>1, <3>1, <4>3
          <5>2. ASSUME ends PROVE u + a >= start
            BY <1>2, <4>3, <5>1, <5>2
          <5> HIDE DEF ends, u, cut, past
          <5>3. past = block + n
            BY DEF past
          <5>4. ASSUME ends, NEW b \in F PROVE ~(Behind(start, b) >= d + cut)
            <6>1. b \in Nat /\ b < Total /\ ~(u <= b /\ b < u + a) /\ u + a >= start
              BY <1>6, <5>2, <5>4
            <6>2. QED
              BY <1>2, <1>4, <1>5, <2>1, <4>1, <5>1, <5>3, <6>1 DEF Behind
          <5>5. Total >= d + cut
            BY <1>2, <2>1, <4>1, <5>1, <5>3
          <5>6. QED
            BY <5>4, <5>5
        <4>4. QED
          BY <4>2, <4>3
      <3>2. CASE ~(block < start)
        <4>1. d = block - start /\ cut = n
          BY <3>2 DEF d, Behind, block
        <4>2. past = block + n
          OBVIOUS
        <4>3. Total >= d + cut
          BY <1>2, <1>3, <4>1
        <4>4. ASSUME ends
              PROVE  IF start = 0 THEN past >= Total \/ u + a >= Total
                     ELSE past >= Total /\ u + a >= start
          BY <1>2, <1>4, <2>1, <3>2, <4>4
        <4>5. u = IF past >= Total THEN 0 ELSE past
          OBVIOUS
        <4> HIDE DEF ends, u, cut, past
        <4>6. ASSUME ends, NEW b \in F
              PROVE  ~(Behind(start, b) >= d + cut /\ Behind(start, b) < Total)
          <5>1. b \in Nat /\ b < Total /\ ~(u <= b /\ b < u + a)
            BY <1>6
          <5>2. IF start = 0 THEN past >= Total \/ u + a >= Total
                ELSE past >= Total /\ u + a >= start
            BY <4>4, <4>6
          <5>3. CASE b < start
            <6>1. past >= Total /\ u + a >= start /\ u = 0
              BY <1>2, <4>5, <5>1, <5>2, <5>3
            <6>2. QED
              BY <1>2, <1>4, <1>5, <5>1, <5>3, <6>1
          <5>4. CASE b >= start
            <6>1. Behind(start, b) = b - start
              BY <1>2, <5>1, <5>4 DEF Behind
            <6>2. QED
              BY <1>2, <1>4, <1>5, <2>1, <4>1, <4>2, <4>5, <5>1, <5>2, <5>4, <6>1
          <5>5. QED
            BY <1>2, <5>1, <5>3, <5>4
        <4>7. QED
          BY <4>3, <4>6
      <3>3. QED
        BY <3>1, <3>2
    <2>5. ~ends => /\ next \in Volume /\ Behind(start, next) \in Nat
                   /\ Behind(start, next) >= d + cut /\ Behind(start, next) > d
                   /\ \A b \in F : ~(/\ Behind(start, b) >= d + cut
                                     /\ Behind(start, b) < Behind(start, next))
      <3>1. SUFFICES ASSUME ~ends
                     PROVE  /\ next \in Volume /\ Behind(start, next) \in Nat
                            /\ Behind(start, next) >= d + cut /\ Behind(start, next) > d
                            /\ \A b \in F : ~(/\ Behind(start, b) >= d + cut
                                              /\ Behind(start, b) < Behind(start, next))
        OBVIOUS
      <3>2. cut = n /\ past = block + n /\ (block < start => past < start)
            /\ u = (IF past >= Total THEN 0 ELSE past)
            /\ next = (IF u + a >= Total THEN 0 ELSE u + a)
            /\ (n = 0 => u = block)
        BY <1>2, <2>1, <3>1
      <3>3. /\ start = 0 => ~(past >= Total) /\ ~(u + a >= Total)
            /\ u < start => ~(u + a >= start)
        BY <3>1
      <3>4. n + a > 0 \/ u # past
        BY <1>3, <1>5, <2>1, <3>2
      <3>5. n > 0 \/ u = past
        BY <1>2, <2>1, <3>2
      <3> HIDE DEF ends, u, cut, past, next, d, block
      <3>6. next \in 0..(Total - 1)
        BY <1>2, <1>4, <1>5, <3>2
      <3>7. d = (IF block < start THEN block + Total - start ELSE block - start)
        BY DEF d, Behind, block
      <3> DEFINE e == Behind(start, next)
      <3>8. e = (IF next < start THEN next + Total - start ELSE next - start)
        BY DEF Behind
      <3> HIDE DEF e
      <3>9. e \in Nat /\ e >= d + cut /\ e > d
        <4>1. CASE block < start
          BY <1>2, <1>4, <1>5, <2>1, <3>2, <3>3, <3>4, <3>5, <3>7, <3>8, <4>1
        <4>2. CASE ~(block < start) /\ past >= Total
          BY <1>2, <1>3, <1>4, <1>5, <2>1, <3>2, <3>3, <3>7, <3>8, <4>2
        <4>3. CASE ~(block < start) /\ ~(past >= Total)
          BY <1>2, <1>4, <1>5, <2>1, <3>2, <3>3, <3>4, <3>5, <3>7, <3>8, <4>3
        <4>4. QED
          BY <4>1, <4>2, <4>3
      <3>10. ASSUME NEW b \in F
             PROVE  ~(Behind(start, b) >= d + cut /\ Behind(start, b) < e)
        <4> DEFINE h == Behind(start, b)
        <4>1. b \in Nat /\ b < Total /\ ~(u <= b /\ b < u + a)
          BY <1>6
        <4>2. h = (IF b < start THEN b + Total - start ELSE b - start)
          BY DEF Behind
        <4> HIDE DEF h
        <4>3. ~(h >= d + cut /\ h < e)
          <5>1. CASE block < start
            BY <1>2, <1>4, <1>5, <2>1, <3>2, <3>3, <3>7, <3>8, <4>1, <4>2, <5>1
          <5>2. CASE ~(block < start) /\ past >= Total
            BY <1>2, <1>3, <1>4, <1>5, <2>1, <3>2, <3>3, <3>7, <3>8, <4>1, <4>2, <5>2
          <5>3. CASE ~(block < start) /\ ~(past >= Total)
            BY <1>2, <1>4, <1>5, <2>1, <3>2, <3>3, <3>7, <3>8, <4>1, <4>2, <5>3
          <5>4. QED
            BY <5>1, <5>2, <5>3
        <4>4. QED
          BY <4>3 DEF h
      <3>11. next \in Volume
        BY <3>6 DEF Volume
      <3>12. QED
        BY <3>9, <3>10, <3>11 DEF e
    <2> DEFINE z == [block |-> next, list |-> found, done |-> ends \/ full]
    <2>6. y = z
      BY <1>1, <1>8
    <2>7. found = IF n > 0 THEN Append(at.list, Fragment(block, cut)) ELSE at.list
      OBVIOUS
    <2>8. next \in Volume
      BY <1>2, <1>4, <1>5 DEF Volume
    <2>9. ends \in BOOLEAN /\ full \in BOOLEAN
      OBVIOUS
    <2> HIDE DEF y, next, ends, cut, found, d, block
    <2>10. ends => FragmentsOK(F, found) /\ Scanned(F, needed, start, found, Total)
      BY <1>2, <2>1, <2>2, <2>4, <2>7, ScannedOn DEF d
    <2>11. ~ends => FragmentsOK(F, found)
                    /\ Scanned(F, needed, start, found, Behind(start, next))
      BY <1>2, <2>1, <2>2, <2>5, <2>7, ScannedOn DEF d
    <2>12. found \in Lists
      BY <2>9, <2>10, <2>11 DEF FragmentsOK
    <2>13. z \in Finds
      <3>1. (ends \/ full) \in BOOLEAN
        BY <2>9
      <3> HIDE DEF full
      <3>2. QED
        BY <2>8, <2>12, <3>1 DEF Finds
    <2>14. z.block = next /\ z.list = found /\ z.done = (ends \/ full)
      OBVIOUS
    <2> HIDE DEF z
    <2>15. FindsOK(F, needed, start, z)
      BY <2>9, <2>10, <2>11, <2>14 DEF FindsOK
    <2>16. z.done \/ d < Behind(start, z.block)
      BY <2>3, <2>5, <2>9, <2>14
    <2>17. QED
      BY <2>6, <2>13, <2>15, <2>16 DEF y, d, block
  <1>9. QED
    BY <1>7, <1>8

\* The search ends: with a full list, a fragment that is large enough, or all the
\* free blocks of the volume.
LEMMA FragmentsIs ==
  ASSUME NEW F, F \subseteq Volume, NEW needed \in Nat \ {0}, NEW start \in Volume
  PROVE  LET list == Fragments(F, start, needed)
         IN /\ FragmentsOK(F, list)
            /\ \/ Len(list) = SpaceListMax
               \/ Len(list) = 1 /\ SumOf(list) >= needed
               \/ Scanned(F, needed, start, list, Total)
  <1> DEFINE S == {x \in Finds : FindsOK(F, needed, start, x)}
             s == [block |-> start, list |-> <<>>, done |-> FALSE]
             turn(x) == FragmentTurn(F, start, needed, x)
             g == [x \in S |-> turn(x)]
             left == [x \in S |-> IF x.done THEN 0 ELSE Total - Behind(start, x.block)]
             at == CHOOSE at : at = [i \in 0..Total |-> IF i = 0 THEN s ELSE turn(at[i - 1])]
  <1>1. Fragments(F, start, needed) = at[Total].list
    BY DEF Fragments, Repeat
  <1>2. Total \in Nat \ {0} /\ start \in Nat /\ start < Total
    BY SizesAssumption DEF Volume
  <1>3. \A b \in Volume : Behind(start, b) \in 0..(Total - 1)
    BY <1>2 DEF Volume, Behind
  <1>4. s \in S /\ s.done = FALSE /\ Behind(start, s.block) = 0
    <2>1. <<>> \in Lists /\ Len(<<>>) = 0
      BY DEF Lists
    <2> DEFINE e == <<>>
    <2>2. e \in Lists /\ Len(e) = 0
      BY <2>1
    <2> HIDE DEF e
    <2>3. s \in Finds /\ s.block = start /\ s.list = e /\ s.done = FALSE
      BY <2>2 DEF Finds, e
    <2> HIDE DEF s
    <2>4. FragmentsOK(F, e)
      BY <2>2 DEF FragmentsOK
    <2>5. Behind(start, start) = 0
      BY <1>2 DEF Behind
    <2>6. BlocksOf(e) = {}
      <3>1. DOMAIN e = {}
        BY <2>2, ListIs
      <3>2. QED
        BY <3>1 DEF BlocksOf
    <2>7. \A b \in Volume : ~(Behind(start, b) < 0)
      BY <1>3
    <2>8. {b \in F : Behind(start, b) < 0} = {}
      BY <2>7
    <2>9. Scanned(F, needed, start, e, 0)
      BY <2>6, <2>7, <2>8 DEF Scanned
    <2>10. FindsOK(F, needed, start, s)
      BY <2>3, <2>4, <2>5, <2>9 DEF FindsOK
    <2>11. QED
      BY <2>3, <2>5, <2>10
  <1>5. ASSUME NEW x \in S
        PROVE  /\ turn(x) \in S
               /\ turn(x).done \/ (~x.done /\ Behind(start, x.block)
                                                < Behind(start, turn(x).block))
    <2>1. CASE x.done
      <3>1. turn(x) = x
        BY <2>1 DEF FragmentTurn
      <3> HIDE DEF turn
      <3>2. QED
        BY <2>1, <3>1
    <2>2. CASE ~x.done
      <3>1. x \in Finds /\ FindsOK(F, needed, start, x)
        OBVIOUS
      <3>2. /\ turn(x) \in Finds /\ FindsOK(F, needed, start, turn(x))
            /\ turn(x).done \/ Behind(start, x.block) < Behind(start, turn(x).block)
        BY <2>2, <3>1, FragmentTurnIs
      <3> HIDE DEF turn
      <3>3. QED
        BY <2>2, <3>2
    <2>3. QED
      BY <2>1, <2>2
  <1> HIDE DEF turn
  <1>6. g \in [S -> S] /\ \A x \in S : g[x] = turn(x)
    BY <1>5
  <1>7. \A x \in S : Behind(start, x.block) \in 0..(Total - 1)
    BY <1>3 DEF Finds
  <1>8. left \in [S -> Nat] /\ left[s] = Total
    <2>1. \A x \in S : (IF x.done THEN 0 ELSE Total - Behind(start, x.block)) \in Nat
      BY <1>2, <1>7
    <2>2. left[s] = Total - 0
      BY <1>4
    <2> HIDE DEF S
    <2>3. QED
      BY <1>2, <2>1, <2>2
  <1>9. \A x \in S : left[g[x]] < left[x] \/ left[g[x]] = 0
    <2>1. ASSUME NEW x \in S PROVE left[turn(x)] < left[x] \/ left[turn(x)] = 0
      <3>1. turn(x) \in S
        BY <1>5
      <3> HIDE DEF S
      <3>2. CASE turn(x).done
        BY <3>1, <3>2
      <3>3. CASE ~turn(x).done
        <4>1. /\ ~x.done /\ Behind(start, x.block) < Behind(start, turn(x).block)
              /\ Behind(start, x.block) \in 0..(Total - 1)
              /\ Behind(start, turn(x).block) \in 0..(Total - 1)
          BY <1>5, <1>7, <3>1, <3>3
        <4>2. left[turn(x)] = Total - Behind(start, turn(x).block)
              /\ left[x] = Total - Behind(start, x.block)
          BY <3>1, <3>3, <4>1
        <4>3. QED
          BY <1>2, <4>1, <4>2
      <3>4. QED
        BY <3>2, <3>3
    <2> HIDE DEF S, left, g
    <2>2. QED
      BY <1>6, <2>1
  <1>10. \A x \in S : left[x] = 0 => x.done
    <2>1. \A x \in S : ~x.done => left[x] = Total - Behind(start, x.block)
      OBVIOUS
    <2> HIDE DEF S, left
    <2>2. QED
      BY <1>2, <1>7, <2>1
  <1>11. \A x \in S : x.done => /\ FragmentsOK(F, x.list)
                                /\ \/ Len(x.list) = SpaceListMax
                                   \/ Len(x.list) = 1 /\ SumOf(x.list) >= needed
                                   \/ Scanned(F, needed, start, x.list, Total)
    BY DEF FindsOK
  <1> HIDE DEF S, s, g, left, at
  <1>12. PICK f : f \in Loops(S, s, g, Total)
    BY <1>2, <1>4, <1>6, RepeatExists
  <1>13. /\ f \in [0..Total -> S] /\ f[0] = s
         /\ \A i \in 1..Total : f[i - 1] \in S /\ f[i] = g[f[i - 1]]
    BY <1>2, <1>4, <1>6, <1>12, LoopIs
  <1>14. \A i \in 1..Total : f[i] = turn(f[i - 1])
    BY <1>6, <1>13
  <1>15. f = [i \in 0..Total |-> IF i = 0 THEN s ELSE turn(f[i - 1])]
    <2>1. f = [i \in 0..Total |-> f[i]] /\ \A i \in 0..Total : i # 0 => i \in 1..Total
      BY <1>2, <1>13
    <2>2. \A i \in 0..Total : f[i] = IF i = 0 THEN s ELSE turn(f[i - 1])
      BY <1>13, <1>14, <2>1
    <2>3. QED
      BY <2>1, <2>2, Zenon
  <1>16. at = [i \in 0..Total |-> IF i = 0 THEN s ELSE turn(at[i - 1])]
    BY <1>15, Zenon DEF at
  <1>17. at[Total] = f[Total]
    <2>1. at[0] = s /\ \A i \in 1..Total : at[i] = turn(at[i - 1])
      <3>1. 0 \in 0..Total /\ \A i \in 1..Total : i \in 0..Total /\ i # 0
        BY <1>2
      <3>2. QED
        BY <1>16, <3>1
    <2>2. \A i \in 1..Total : f[i - 1] = at[i - 1] => f[i] = at[i]
      BY <1>14, <2>1
    <2>3. Total \in Nat /\ f[0] = at[0]
      BY <1>2, <1>13, <2>1
    <2>4. QED
      BY <2>2, <2>3, RepeatSame
  <1>18. f[Total] \in S /\ left[f[Total]] = 0
    <2>1. \A i \in 1..Total : f[i - 1] \in S => f[i] = g[f[i - 1]]
      BY <1>13
    <2>2. /\ Total \in Nat /\ s \in S /\ left[s] <= Total /\ f[0] = s
          /\ g \in [S -> S] /\ left \in [S -> Nat]
      BY <1>2, <1>4, <1>6, <1>8, <1>13
    <2>3. QED
      BY <1>9, <2>1, <2>2, RepeatEnds
  <1>19. QED
    BY <1>1, <1>10, <1>11, <1>17, <1>18

\* What is left of fragments, and marked of them, is free and does not overlap.
LEMMA FragmentsLess ==
  ASSUME NEW F, NEW p, FragmentsOK(F, p), NEW q \in Lists, Len(q) = Len(p),
         \A i \in 1..Len(p) : q[i].block = p[i].block /\ q[i].blocks <= p[i].blocks
  PROVE  FragmentsOK(F, q)
  <1> DEFINE B(l, i) == Blocks(l[i].block, l[i].blocks)
             k == Len(p)
  <1>1. p \in Lists /\ (\A i \in 1..k : B(p, i) \subseteq F)
        /\ \A i, j \in 1..k : i # j => B(p, i) \cap B(p, j) = {}
    BY DEF FragmentsOK
  <1>2. \A i \in 1..k : /\ p[i].block \in Nat /\ p[i].blocks \in Nat
                        /\ q[i].block \in Nat /\ q[i].blocks \in Nat
    BY <1>1, ListIs
  <1>3. \A i \in 1..k : B(q, i) \subseteq B(p, i)
    BY <1>2 DEF Blocks
  <1> HIDE DEF B
  <1>4. \A i \in 1..k : B(q, i) \subseteq F
    BY <1>1, <1>3
  <1>5. \A i, j \in 1..k : i # j => B(q, i) \cap B(q, j) = {}
    <2>1. ASSUME NEW i \in 1..k, NEW j \in 1..k, i # j PROVE B(q, i) \cap B(q, j) = {}
      <3>1. B(q, i) \subseteq B(p, i) /\ B(q, j) \subseteq B(p, j)
            /\ B(p, i) \cap B(p, j) = {}
        BY <1>1, <1>3, <2>1
      <3>2. QED
        BY <3>1
    <2>2. QED
      BY <2>1
  <1>6. QED
    BY <1>4, <1>5 DEF FragmentsOK, B

\* smartfindandmarkspace.
LEMMA SpaceListIs ==
  ASSUME NEW F, F \subseteq Volume, NEW needed \in Nat \ {0}, NEW start \in Volume
  PROVE  LET list == SpaceList(F, start, needed)
         IN /\ BlocksOf(list) \subseteq F
            /\ Cardinality(BlocksOf(list)) = SumOf(list)
            /\ SumOf(list) <= needed
            /\ Len(list) < SpaceListMax =>
                 /\ SumOf(list) = Lesser(needed, Cardinality(F))
                 /\ (\E c \in Volume : Blocks(c, needed) \subseteq F) => Len(list) = 1
  <1> DEFINE p == Fragments(F, start, needed)
             q == Drop(p, needed)
             list == Marked(q, needed)
  <1>1. /\ FragmentsOK(F, p)
        /\ \/ Len(p) = SpaceListMax
           \/ Len(p) = 1 /\ SumOf(p) >= needed
           \/ Scanned(F, needed, start, p, Total)
    BY FragmentsIs
  <1>2. SpaceList(F, start, needed) = list
    BY DEF SpaceList
  <1> HIDE DEF p
  <1>3. p \in Lists
    BY <1>1 DEF FragmentsOK
  <1>4. /\ q \in Left(p)
        /\ IF SumOf(p) >= needed THEN SumOf(q) >= needed ELSE q = p
    BY <1>3, DropIs
  <1> HIDE DEF q
  <1>5. q \in Lists /\ Len(q) = Len(p)
        /\ \A i \in 1..Len(p) : q[i].block = p[i].block /\ q[i].blocks \in {0, p[i].blocks}
    BY <1>4 DEF Left
  <1>6. FragmentsOK(F, q)
    <2>1. \A i \in 1..Len(p) : q[i].block = p[i].block /\ q[i].blocks <= p[i].blocks
      BY <1>3, <1>5, ListIs
    <2>2. QED
      BY <1>1, <1>5, <2>1, FragmentsLess
  <1>7. /\ list \in Lists /\ Len(list) = Len(q)
        /\ \A i \in 1..Len(q) : list[i].block = q[i].block /\ list[i].blocks <= q[i].blocks
        /\ SumOf(list) = Lesser(needed, SumOf(q))
    BY <1>5, MarkedIs
  <1> HIDE DEF list
  <1>8. FragmentsOK(F, list)
    BY <1>6, <1>7, FragmentsLess
  <1>9. Cardinality(BlocksOf(list)) = SumOf(list)
    BY <1>7, <1>8, CardIs DEF FragmentsOK
  <1>10. IsFiniteSet(BlocksOf(p)) /\ Cardinality(BlocksOf(p)) = SumOf(p)
    BY <1>1, <1>3, CardIs DEF FragmentsOK
  <1>11. \A l \in Lists : FragmentsOK(F, l) => BlocksOf(l) \subseteq F
    <2>1. ASSUME NEW l \in Lists, FragmentsOK(F, l), NEW b \in BlocksOf(l) PROVE b \in F
      <3>1. PICK i \in DOMAIN l : b \in Blocks(l[i].block, l[i].blocks)
        BY <2>1 DEF BlocksOf
      <3>2. i \in 1..Len(l)
        BY ListIs
      <3>3. QED
        BY <2>1, <3>1, <3>2 DEF FragmentsOK
    <2>2. QED
      BY <2>1
  <1>12. \A l \in Lists : SumOf(l) \in Nat
    BY SumsIs, ListIs DEF SumOf
  <1>13. SumOf(p) \in Nat /\ SumOf(q) \in Nat
    BY <1>3, <1>5, <1>12
  <1>14. SumOf(list) = Lesser(needed, SumOf(p)) /\ SumOf(list) <= needed
    BY <1>4, <1>7, <1>13 DEF Lesser
  <1>15. IsFiniteSet(F) /\ Cardinality(F) \in Nat /\ SumOf(p) <= Cardinality(F)
    <2> DEFINE e == Total - 1
    <2>1. e \in Int /\ 0 \in Int
      BY SizesAssumption
    <2> HIDE DEF e
    <2>2. IsFiniteSet(0..e)
      BY <2>1, FS_Interval
    <2>3. F \in SUBSET (0..e)
      BY DEF Volume, e
    <2>4. IsFiniteSet(F)
      BY <2>2, <2>3, FS_Subset
    <2>5. BlocksOf(p) \in SUBSET F
      BY <1>1, <1>3, <1>11
    <2>6. QED
      BY <1>10, <2>4, <2>5, FS_Subset, FS_CardinalityType
  <1>16. ASSUME Len(list) < SpaceListMax
         PROVE  /\ SumOf(list) = Lesser(needed, Cardinality(F))
                /\ (\E c \in Volume : Blocks(c, needed) \subseteq F) => Len(list) = 1
    <2>1. Len(p) # SpaceListMax
      BY <1>3, <1>5, <1>7, <1>16, ListIs, SpaceListAssumption
    <2>2. CASE Len(p) = 1 /\ SumOf(p) >= needed
      <3>1. Len(list) = 1
        BY <1>5, <1>7, <2>2
      <3>2. QED
        BY <1>13, <1>14, <1>15, <2>2, <3>1 DEF Lesser
    <2>3. CASE Scanned(F, needed, start, p, Total)
      <3>1. \A b \in Volume : Behind(start, b) < Total
        BY SizesAssumption DEF Volume, Behind
      <3>2. BlocksOf(p) = F
        BY <2>3, <3>1 DEF Scanned
      <3>3. \A c \in Volume : ~(Blocks(c, needed) \subseteq F)
        BY <2>3, <3>1 DEF Scanned
      <3>4. QED
        BY <1>10, <1>14, <3>2, <3>3
    <2>4. QED
      BY <1>1, <2>1, <2>2, <2>3
  <1>17. QED
    BY <1>2, <1>7, <1>8, <1>9, <1>11, <1>14, <1>16

\* findspace2_backwards.
LEMMA BackwardsRight ==
  ASSUME NEW F, F \subseteq Volume, NEW needed \in Nat \ {0}, NEW start \in Volume
  PROVE  LET b == FindSpaceBackwards(F, needed, start, Total)
             Sizes == {n \in 0..needed : \E c \in start..(Total - n) :
                                           Blocks(c, n) \subseteq F}
         IN /\ b.blocks = Greatest(Sizes)
            /\ Blocks(b.block, b.blocks) \subseteq F
            /\ b.blocks > 0 =>
                 /\ b.block >= start
                 /\ \A c \in (b.block + 1)..(Total - b.blocks) :
                      ~(Blocks(c, b.blocks) \subseteq F)
  <1> DEFINE b == FindSpaceBackwards(F, needed, start, Total)
             Sizes == {n \in 0..needed : \E c \in start..(Total - n) :
                                           Blocks(c, n) \subseteq F}
  <1>1. SeenFrom(F, needed, start, b)
    BY BackwardsIs
  <1> HIDE DEF b
  <1>2. Total \in Nat \ {0} /\ start \in Nat /\ start < Total
    BY SizesAssumption DEF Volume
  <1>3. /\ b.block \in Nat /\ b.blocks \in 0..needed
        /\ Blocks(b.block, b.blocks) \subseteq F
        /\ b.blocks > 0 => b.block >= start
    BY <1>1 DEF SeenFrom, Frags
  <1>4. \A c \in Nat, m \in 1..needed :
          c >= start /\ Blocks(c, m) \subseteq F =>
            m < b.blocks \/ (m = b.blocks /\ c <= b.block)
    BY <1>1 DEF SeenFrom
  <1>5. b.blocks \in Sizes
    <2>1. CASE b.blocks = 0
      <3>1. start \in start..(Total - 0) /\ Blocks(start, 0) = {}
        BY <1>2 DEF Blocks
      <3>2. 0 \in Sizes
        BY <3>1
      <3>3. QED
        BY <2>1, <3>2
    <2>2. CASE b.blocks > 0
      <3>1. b.block + b.blocks - 1 \in Volume
        BY <1>3, <2>2 DEF Blocks
      <3>2. b.block \in start..(Total - b.blocks)
        BY <1>2, <1>3, <2>2, <3>1 DEF Volume
      <3>3. QED
        BY <1>3, <3>2
    <2>3. QED
      BY <1>3, <2>1, <2>2
  <1>6. \A n \in Sizes : n <= b.blocks
    <2>1. ASSUME NEW n \in Sizes PROVE n <= b.blocks
      <3>1. PICK c \in start..(Total - n) : Blocks(c, n) \subseteq F
        OBVIOUS
      <3>2. n \in 0..needed /\ c \in Nat /\ c >= start
        BY <1>2
      <3>3. CASE n = 0
        BY <1>3, <3>3
      <3>4. CASE n # 0
        BY <1>3, <1>4, <3>1, <3>2, <3>4
      <3>5. QED
        BY <3>3, <3>4
    <2>2. QED
      BY <2>1
  <1>7. \A n \in Sizes : n \in Nat
    OBVIOUS
  <1> HIDE DEF Sizes
  <1>8. Greatest(Sizes) = b.blocks
    <2>1. Greatest(Sizes) \in Sizes /\ \A n \in Sizes : n <= Greatest(Sizes)
      BY <1>5, <1>6 DEF Greatest
    <2>2. b.blocks <= Greatest(Sizes) /\ Greatest(Sizes) <= b.blocks
          /\ Greatest(Sizes) \in Nat /\ b.blocks \in Nat
      BY <1>5, <1>6, <1>7, <2>1
    <2>3. QED
      BY <2>2
  <1>9. ASSUME b.blocks > 0, NEW c \in (b.block + 1)..(Total - b.blocks),
               Blocks(c, b.blocks) \subseteq F
        PROVE  FALSE
    <2>1. b.blocks \in 1..needed /\ c \in Nat /\ c >= start /\ c > b.block
      BY <1>2, <1>3, <1>9
    <2>2. QED
      BY <1>3, <1>4, <1>9, <2>1
  <1>10. QED
    BY <1>3, <1>8, <1>9 DEF b, Sizes

\* bitmap.c's two other searches: smartfindandmarkspace marks free blocks, each
\* once, as many as are needed when there are as many and its list has room for
\* their fragments, and in one fragment when it can; findspace2_backwards finds the
\* last place that is large enough, or else the last of the largest ones.
THEOREM SpecSpacesRight == Spec => []SpacesRight
  <1>1. Inv => SpacesRight
    <2>1. SUFFICES ASSUME TypeOK PROVE SpacesRight
      BY DEF Inv
    <2>2. free \subseteq Volume /\ search.needed \in Nat \ {0} /\ search.from \in Volume
      BY <2>1 DEF TypeOK, Searches
    <2> DEFINE needed == search.needed
               from == search.from
    <2>3. /\ BlocksOf(SpaceList(free, from, needed)) \subseteq free
          /\ Cardinality(BlocksOf(SpaceList(free, from, needed)))
               = SumOf(SpaceList(free, from, needed))
          /\ SumOf(SpaceList(free, from, needed)) <= needed
          /\ Len(SpaceList(free, from, needed)) < SpaceListMax =>
               /\ SumOf(SpaceList(free, from, needed)) = Lesser(needed, Cardinality(free))
               /\ (\E c \in Volume : Blocks(c, needed) \subseteq free) =>
                    Len(SpaceList(free, from, needed)) = 1
      BY <2>2, SpaceListIs
    <2>4. LET b == FindSpaceBackwards(free, needed, from, Total)
              Sizes == {n \in 0..needed : \E c \in from..(Total - n) :
                                            Blocks(c, n) \subseteq free}
          IN /\ b.blocks = Greatest(Sizes)
             /\ Blocks(b.block, b.blocks) \subseteq free
             /\ b.blocks > 0 =>
                  /\ b.block >= from
                  /\ \A c \in (b.block + 1)..(Total - b.blocks) :
                       ~(Blocks(c, b.blocks) \subseteq free)
      BY <2>2, BackwardsRight
    <2>5. QED
      BY <2>3, <2>4 DEF SpacesRight
  <1>2. QED
    BY <1>1, SpecInv, PTL
=============================================================================
