---------------------------- MODULE IOCacheProofs ----------------------------
(***************************************************************************)
(* Proofs about IOCache, for every size of the volume and of the lines,    *)
(* every number of lines and every choice of transfers that fail.          *)
(***************************************************************************)
EXTENDS IOCache, FiniteSetTheorems, WellFoundedInduction, TLAPS

-----------------------------------------------------------------------------
(* Numbers. *)

\* Every set of natural numbers has a least element.
LEMMA LeastExists ==
  ASSUME NEW S, S \subseteq Nat, S # {}
  PROVE  \E a \in S : \A b \in S : a <= b
  <1> DEFINE R == OpToRel(<, Nat)
  <1>1. IsWellFoundedOn(R, Nat)
    BY NatLessThanWellFounded
  <1>2. \A a, b \in Nat : <<b, a>> \in R <=> b < a
    BY DEF OpToRel
  <1> HIDE DEF R
  <1>3. PICK a \in S : \A b \in S : <<b, a>> \notin R
    BY <1>1, WFMin
  <1>4. \A b \in S : ~(b < a)
    BY <1>2, <1>3, Zenon
  <1>5. \A b \in S : a <= b
    BY <1>4
  <1>6. QED
    BY <1>5

\* A set with 0 and with the successor of each of its members up to n has every
\* number up to n.
LEMMA UpTo ==
  ASSUME NEW n \in Nat, NEW S, 0 \in S,
         \A i \in 0..(n - 1) : i \in S => i + 1 \in S
  PROVE  0..n \subseteq S
  <1>1. SUFFICES ASSUME (0..n) \ S # {} PROVE FALSE
    OBVIOUS
  <1>2. PICK i \in (0..n) \ S : \A j \in (0..n) \ S : i <= j
    <2>1. (0..n) \ S \subseteq Nat
      OBVIOUS
    <2>2. QED
      BY <1>1, <2>1, LeastExists
  <1>3. i # 0 /\ i - 1 \in 0..(n - 1) /\ i - 1 \notin (0..n) \ S
    BY <1>2
  <1>4. QED
    BY <1>2, <1>3

\* Every set of natural numbers with a bound has a greatest element.
LEMMA GreatestExists ==
  ASSUME NEW n \in Nat, NEW S, S \subseteq 0..n, S # {}
  PROVE  \E a \in S : \A b \in S : a >= b
  <1> DEFINE T == {k \in Nat : n - k \in S}
  <1>1. T \subseteq Nat
    OBVIOUS
  <1>2. T # {}
    <2>1. PICK x \in S : TRUE
      OBVIOUS
    <2>2. n - x \in Nat /\ n - (n - x) = x
      BY <2>1
    <2>3. n - x \in T
      BY <2>1, <2>2
    <2>4. QED
      BY <2>3
  <1>3. PICK k \in T : \A j \in T : k <= j
    BY <1>1, <1>2, LeastExists
  <1>4. ASSUME NEW b \in S PROVE n - k >= b
    <2>1. n - b \in Nat /\ n - (n - b) = b
      OBVIOUS
    <2>2. n - b \in T
      BY <2>1
    <2>3. QED
      BY <2>2, <1>3
  <1>5. n - k \in S
    BY <1>3
  <1>6. QED
    BY <1>4, <1>5

LEMMA LowestIs ==
  ASSUME NEW S, S \subseteq Nat, S # {}
  PROVE  Lowest(S) \in S /\ \A b \in S : Lowest(S) <= b
  BY LeastExists DEF Lowest

LEMMA HighestIs ==
  ASSUME NEW n \in Nat, NEW S, S \subseteq 0..n, S # {}
  PROVE  Highest(S) \in S /\ \A b \in S : Highest(S) >= b
  BY GreatestExists DEF Highest

LEMMA Sizes == /\ Total \in Nat \ {0} /\ LineSize \in Nat \ {0, 1}
               /\ Lines \in Nat /\ Lines >= 4 /\ MaxTransfer \in Nat \ {0}
               /\ InLru \in Nat /\ InLru >= 3
  BY CacheAssumption DEF InLru

\* A block and its line.
LEMMA Division ==
  ASSUME NEW b \in Nat
  PROVE  /\ LineOf(b) \in Nat /\ LineOf(b) <= b
         /\ LineOf(b) * LineSize <= b /\ b < LineOf(b) * LineSize + LineSize
  <1>1. /\ b \div LineSize \in Nat /\ b % LineSize \in 0..(LineSize - 1)
        /\ (b \div LineSize) * LineSize + (b % LineSize) = b
    BY Sizes, SMT
  <1>2. b \div LineSize <= (b \div LineSize) * LineSize
    BY <1>1, Sizes
  <1>3. QED
    BY <1>1, <1>2, Sizes DEF LineOf

LEMMA Times ==
  ASSUME NEW k \in Nat, NEW l \in Nat, k < l
  PROVE  /\ k * LineSize + LineSize <= l * LineSize
         /\ k * LineSize \in Nat /\ l * LineSize \in Nat
  BY Sizes

\* The lines follow each other as their blocks do.
LEMMA LineOfMonotone ==
  ASSUME NEW a \in Nat, NEW b \in Nat, a <= b
  PROVE  LineOf(a) <= LineOf(b)
  <1>1. SUFFICES ASSUME LineOf(b) < LineOf(a) PROVE FALSE
    BY Division
  <1>2. LineOf(a) * LineSize <= a /\ b < LineOf(b) * LineSize + LineSize
    BY Division
  <1>3. LineOf(b) * LineSize + LineSize <= LineOf(a) * LineSize
        /\ LineOf(b) * LineSize \in Nat /\ LineOf(a) * LineSize \in Nat
    BY <1>1, Division, Times
  <1>4. QED
    BY <1>2, <1>3, Sizes

\* No further apart than a line is long: in the same line or in the next one.
LEMMA NextLine ==
  ASSUME NEW a \in Nat, NEW b \in Nat, a <= b, b < a + LineSize
  PROVE  LineOf(b) = LineOf(a) \/ LineOf(b) = LineOf(a) + 1
  <1>1. SUFFICES ASSUME LineOf(a) + 1 < LineOf(b) PROVE FALSE
    BY Division, LineOfMonotone
  <1>2. LineOf(b) * LineSize <= b /\ a < LineOf(a) * LineSize + LineSize
    BY Division
  <1>3. /\ LineOf(a) * LineSize + LineSize <= (LineOf(a) + 1) * LineSize
        /\ LineOf(a) * LineSize \in Nat
    BY Division, Times
  <1>4. (LineOf(a) + 1) * LineSize + LineSize <= LineOf(b) * LineSize
        /\ (LineOf(a) + 1) * LineSize \in Nat /\ LineOf(b) * LineSize \in Nat
    BY <1>1, Division, Times
  <1>5. QED
    BY <1>2, <1>3, <1>4, Sizes

LEMMA BlocksAre ==
  /\ Blocks \subseteq Nat /\ Blocks = 0..(Total - 1) /\ Total - 1 \in Nat
  /\ LineNumbers \subseteq Nat /\ Unused \in Nat /\ Unused \notin LineNumbers
  /\ \A l \in Nat : l \in LineNumbers <=> l < Unused
  /\ \A b \in Blocks : LineOf(b) \in LineNumbers /\ b \in Line(LineOf(b))
  /\ \A l : Line(l) \subseteq Blocks
  /\ \A l : \A b \in Line(l) : LineOf(b) = l
  <1>1. Total - 1 \in Nat
    BY Sizes
  <1>2. LineOf(Total - 1) \in Nat
    BY <1>1, Division
  <1>3. \A b \in Blocks : b \in Nat /\ b <= Total - 1
    BY <1>1 DEF Blocks
  <1>4. \A b \in Blocks : LineOf(b) \in Nat /\ LineOf(b) <= LineOf(Total - 1)
    BY <1>1, <1>3, Division, LineOfMonotone
  <1>5. \A b \in Blocks : LineOf(b) \in LineNumbers
    BY <1>2, <1>4 DEF LineNumbers
  <1>6. QED
    BY <1>1, <1>2, <1>3, <1>5 DEF Blocks, LineNumbers, Unused, Line

LEMMA Finite ==
  ASSUME NEW S, S \subseteq Blocks
  PROVE  IsFiniteSet(S) /\ Cardinality(S) \in Nat /\ Pieces(Cardinality(S)) \in Int
  <1>1. IsFiniteSet(Blocks)
    BY BlocksAre, FS_Interval
  <1>2. IsFiniteSet(S) /\ Cardinality(S) \in Nat
    BY <1>1, FS_Subset, FS_CardinalityType
  <1>3. \A n \in Nat : Pieces(n) \in Int
    BY Sizes DEF Pieces
  <1>4. QED
    BY <1>2, <1>3

\* What is between two blocks of a line belongs to it.
LEMMA SpanIs ==
  ASSUME NEW l, NEW x, x.dirty \subseteq Line(l), x.dirty # {}
  PROVE  x.dirty \subseteq Span(x) /\ Span(x) \subseteq Line(l)
  <1>1. x.dirty \subseteq 0..(Total - 1) /\ x.dirty \subseteq Nat /\ Total - 1 \in Nat
    BY BlocksAre
  <1> DEFINE low == Lowest(x.dirty)
  <1> DEFINE high == Highest(x.dirty)
  <1>2. low \in x.dirty /\ \A b \in x.dirty : low <= b
    BY <1>1, LowestIs
  <1>3. high \in x.dirty /\ \A b \in x.dirty : high >= b
    BY <1>1, HighestIs
  <1>4. /\ low \in Nat /\ high \in Nat /\ high <= Total - 1
        /\ LineOf(low) = l /\ LineOf(high) = l
    BY <1>1, <1>2, <1>3, BlocksAre
  <1>5. Span(x) = low..high
    BY DEF Span
  <1> HIDE DEF low, high
  <1>6. x.dirty \subseteq low..high
    BY <1>1, <1>2, <1>3, <1>4
  <1>7. ASSUME NEW b \in low..high PROVE b \in Line(l)
    <2>1. b \in Nat /\ low <= b /\ b <= high /\ b \in Blocks
      BY <1>4, BlocksAre
    <2>2. LineOf(low) <= LineOf(b) /\ LineOf(b) <= LineOf(high)
      BY <2>1, <1>4, LineOfMonotone
    <2>3. LineOf(b) = l
      BY <2>1, <2>2, <1>4, Division
    <2>4. QED
      BY <2>1, <2>3 DEF Line
  <1>8. QED
    BY <1>5, <1>6, <1>7

-----------------------------------------------------------------------------
(* The inductive invariant, of the state of an operation on its way: D is    *)
(* what is doubtful, or about to be written.                                 *)

Contents == [valid : SUBSET Blocks, fresh : SUBSET Blocks,
             dirty : SUBSET Blocks, changed : BOOLEAN]
Places == LineNumbers \cup {Unused}
States == [lru : [1..InLru -> Places], lines : [LineNumbers -> Contents],
           disk : SUBSET Blocks, left : Int, error : BOOLEAN]

\* No line is twice in the cache.
LruOK(order) == \A i, j \in 1..InLru :
                  order[i] = order[j] /\ order[i] # Unused => i = j

\* A line: only with copyback it has dirty blocks.  What is valid in it is what
\* was written last, and of the other blocks the device has that: a valid
\* block that is not fresh, or a block that is fresh nowhere, would be lost.
LineOK(x, l, device, D) ==
  /\ x.valid \subseteq Line(l) /\ x.dirty \subseteq x.valid
  /\ x.dirty # {} => x.changed /\ copyback
  /\ \A b \in x.valid \ D : b \in x.fresh
  /\ \A b \in Line(l) \ D : b \in device \cup x.dirty

LinesOK(s, D) == \A l \in LineNumbers : LineOK(s.lines[l], l, s.disk, D)

\* Only a line in the cache has contents, and all its blocks with readonwrite.
CachedOK(s) ==
  \A l \in LineNumbers :
    /\ ~Cached(s, l) => s.lines[l] = Empty
    /\ readonwrite /\ Cached(s, l) => s.lines[l].valid = Line(l)

Sound(s, D) == s \in States /\ LruOK(s.lru) /\ LinesOK(s, D) /\ CachedOK(s)

TypeOK ==
  /\ copyback \in BOOLEAN /\ readonwrite \in BOOLEAN
  /\ doubtful \subseteq Blocks /\ misread \in BOOLEAN

Inv == /\ TypeOK
       /\ ~copyback => readonwrite
       /\ Sound(Begin(0), doubtful)
       /\ ReadsReturnLatest

-----------------------------------------------------------------------------
(* The device. *)

\* What is on the device, but for what is in doubt, stays there.
LEMMA LineStays ==
  ASSUME NEW x, NEW l, NEW device, NEW after, NEW D,
         LineOK(x, l, device, D), device \ D \subseteq after
  PROVE  LineOK(x, l, after, D)
  BY DEF LineOK

\* More in doubt.
LEMMA LineDoubted ==
  ASSUME NEW x, NEW l, NEW device, NEW after, NEW D, NEW E,
         LineOK(x, l, device, D), D \subseteq E, device \ E \subseteq after
  PROVE  LineOK(x, l, after, E)
  BY DEF LineOK

LEMMA EmptyOK ==
  ASSUME NEW l, NEW device, NEW D, Line(l) \ D \subseteq device
  PROVE  LineOK(Empty, l, device, D) /\ Empty \in Contents
  BY DEF LineOK, Empty, Contents

LEMMA ReadDeviceIs ==
  ASSUME NEW s \in States, NEW area, area \subseteq Blocks
  PROVE  /\ ReadDevice(s, area) \in States
         /\ ReadDevice(s, area).lru = s.lru
         /\ ReadDevice(s, area).lines = s.lines
         /\ ReadDevice(s, area).disk = s.disk
         /\ s.error => ReadDevice(s, area) = s
  <1> DEFINE n == Pieces(Cardinality(area))
  <1>1. n \in Int
    BY Finite
  <1>2. ReadDevice(s, area) = IF s.error THEN s
                              ELSE IF s.left < n THEN Failed(s)
                              ELSE [s EXCEPT !.left = @ - n]
    BY DEF ReadDevice
  <1> HIDE DEF n
  <1>3. Failed(s) \in States /\ Failed(s) = [s EXCEPT !.error = TRUE]
    BY DEF Failed, States
  <1>4. [s EXCEPT !.left = @ - n] \in States
    BY <1>1 DEF States
  <1>5. QED
    BY <1>2, <1>3, <1>4 DEF States

LEMMA WriteDeviceIs ==
  ASSUME NEW s \in States, NEW area, area \subseteq Blocks, NEW latest,
         NEW t, t = WriteDevice(s, area, latest)
  PROVE  /\ t \in States
         /\ t.lru = s.lru /\ t.lines = s.lines
         /\ s.error => t = s
         /\ ~t.error => t.disk = (s.disk \ area) \cup (latest \cap area)
         /\ \E done \in SUBSET area :
              t.disk = (s.disk \ done) \cup (latest \cap done)
  <1> DEFINE n == Pieces(Cardinality(area))
  <1> DEFINE done == IF s.left < n
                       THEN {b \in area : b < Lowest(area) + s.left * MaxTransfer}
                       ELSE area
  <1> DEFINE written == [s EXCEPT !.disk = (@ \ done) \cup (latest \cap done)]
  <1>1. n \in Int
    BY Finite
  <1>2. done \in SUBSET area
    OBVIOUS
  <1>3. t = IF s.error THEN s
            ELSE IF s.left < n THEN Failed(written)
            ELSE [written EXCEPT !.left = @ - n]
    BY DEF WriteDevice
  <1>4. ~(s.left < n) => done = area
    OBVIOUS
  <1> HIDE DEF n, done
  <1>5. /\ written \in States
        /\ written.lru = s.lru /\ written.lines = s.lines
        /\ written.disk = (s.disk \ done) \cup (latest \cap done)
        /\ written.error = s.error
    <2>1. (s.disk \ done) \cup (latest \cap done) \in SUBSET Blocks
      BY <1>2 DEF States
    <2>2. QED
      BY <2>1 DEF States
  <1> HIDE DEF written
  <1>6. CASE s.error
    <2>1. s.disk = (s.disk \ {}) \cup (latest \cap {})
      OBVIOUS
    <2>2. t = s
      BY <1>3, <1>6
    <2>3. QED
      BY <1>6, <2>1, <2>2
  <1>7. CASE ~s.error /\ s.left < n
    <2>1. /\ t \in States /\ t.lru = s.lru /\ t.lines = s.lines /\ t.error
          /\ t.disk = (s.disk \ done) \cup (latest \cap done)
      BY <1>3, <1>5, <1>7 DEF Failed, States
    <2>2. QED
      BY <2>1, <1>2, <1>7
  <1>8. CASE ~s.error /\ ~(s.left < n)
    <2>1. /\ t \in States /\ t.lru = s.lru /\ t.lines = s.lines
          /\ t.disk = (s.disk \ done) \cup (latest \cap done)
      BY <1>1, <1>3, <1>5, <1>8 DEF States
    <2>2. done = area
      BY <1>4, <1>8
    <2>3. QED
      BY <2>1, <2>2, <1>8, <1>2
  <1>9. QED
    BY <1>6, <1>7, <1>8

-----------------------------------------------------------------------------
(* The lines. *)

LEMMA CompletedIs ==
  ASSUME NEW s \in States, NEW l \in LineNumbers, ~s.error,
         NEW t, t = Completed(s, l)
  PROVE  /\ t \in States
         /\ t.lru = s.lru /\ t.disk = s.disk /\ t.error = s.error
         /\ \A k \in LineNumbers \ {l} : t.lines[k] = s.lines[k]
         /\ t.lines[l].dirty = s.lines[l].dirty
         /\ t.lines[l].changed = s.lines[l].changed
         /\ t.lines[l].valid = Line(l)
         /\ t.lines[l].fresh = (s.lines[l].fresh \cap s.lines[l].dirty)
                                 \cup (s.disk \cap (Line(l) \ s.lines[l].dirty))
  <1> DEFINE line == Line(l)
  <1>1. line \subseteq Blocks
    BY BlocksAre
  <1>2. t = [s EXCEPT !.lines[l].valid = line,
                      !.lines[l].fresh =
                         (@ \cap s.lines[l].dirty) \cup (s.disk \cap (line \ s.lines[l].dirty))]
    BY DEF Completed
  <1> HIDE DEF line
  <1> DEFINE x == [s.lines[l] EXCEPT !.valid = line,
                      !.fresh = (@ \cap s.lines[l].dirty)
                                   \cup (s.disk \cap (line \ s.lines[l].dirty))]
  <1>3. s.lines \in [LineNumbers -> Contents] /\ s.lines[l] \in Contents
    BY DEF States
  <1>4. t = [s EXCEPT !.lines = [s.lines EXCEPT ![l] = x]]
    BY <1>2, <1>3 DEF States, Contents
  <1>5. /\ x \in Contents /\ x.dirty = s.lines[l].dirty
        /\ x.changed = s.lines[l].changed /\ x.valid = line
        /\ x.fresh = (s.lines[l].fresh \cap s.lines[l].dirty)
                        \cup (s.disk \cap (line \ s.lines[l].dirty))
    BY <1>1, <1>3 DEF Contents
  <1> HIDE DEF x
  <1>6. /\ t \in States
        /\ t.lru = s.lru /\ t.disk = s.disk /\ t.error = s.error
        /\ t.lines = [s.lines EXCEPT ![l] = x]
    BY <1>3, <1>4, <1>5 DEF States
  <1>7. QED
    BY <1>3, <1>5, <1>6 DEF line

\* A step that changes one line.
LEMMA OneLine ==
  ASSUME NEW s, NEW t \in States, NEW D, Sound(s, D), NEW l \in LineNumbers,
         t.lru = s.lru, s.disk \ D \subseteq t.disk,
         \A k \in LineNumbers \ {l} : t.lines[k] = s.lines[k],
         LineOK(t.lines[l], l, t.disk, D), Cached(s, l),
         readonwrite => t.lines[l].valid = Line(l)
  PROVE  Sound(t, D)
  <1>1. LruOK(t.lru) /\ \A k : Cached(t, k) <=> Cached(s, k)
    BY DEF Sound, Cached
  <1>2. LinesOK(t, D)
    <2>1. SUFFICES ASSUME NEW k \in LineNumbers, k # l
                   PROVE  LineOK(t.lines[k], k, t.disk, D)
      BY DEF LinesOK
    <2>2. LineOK(s.lines[k], k, s.disk, D) /\ t.lines[k] = s.lines[k]
      BY <2>1 DEF Sound, LinesOK
    <2>3. QED
      BY <2>2, LineStays
  <1>3. CachedOK(t)
    BY <1>1 DEF CachedOK, Sound
  <1>4. QED
    BY <1>1, <1>2, <1>3 DEF Sound

\* A step that changes neither lines nor device.
LEMMA SameLines ==
  ASSUME NEW s, NEW t \in States, NEW D, Sound(s, D),
         t.lru = s.lru, s.disk \ D \subseteq t.disk, t.lines = s.lines
  PROVE  Sound(t, D)
  <1>1. LruOK(t.lru) /\ \A k : Cached(t, k) <=> Cached(s, k)
    BY DEF Sound, Cached
  <1>2. LinesOK(t, D)
    <2>1. SUFFICES ASSUME NEW k \in LineNumbers
                   PROVE  LineOK(t.lines[k], k, t.disk, D)
      BY DEF LinesOK
    <2>2. LineOK(s.lines[k], k, s.disk, D) /\ t.lines[k] = s.lines[k]
      BY DEF Sound, LinesOK
    <2>3. QED
      BY <2>2, LineStays
  <1>3. CachedOK(t)
    BY <1>1 DEF CachedOK, Sound
  <1>4. QED
    BY <1>1, <1>2, <1>3 DEF Sound

LEMMA ValidateIs ==
  ASSUME NEW s, NEW D, Sound(s, D), NEW l \in LineNumbers, Cached(s, l),
         NEW blocks, blocks \subseteq Line(l), NEW t, t = Validate(s, l, blocks)
  PROVE  /\ Sound(t, D)
         /\ t.lru = s.lru /\ t.disk = s.disk
         /\ \A k \in LineNumbers \ {l} : t.lines[k] = s.lines[k]
         /\ t.lines[l].dirty = s.lines[l].dirty
         /\ t.lines[l].changed = s.lines[l].changed
         /\ s.error => t = s
         /\ ~t.error => blocks \subseteq t.lines[l].valid
  <1>0. s \in States
    BY DEF Sound
  <1>1. CASE s.error \/ readonwrite \/ blocks \subseteq s.lines[l].valid
    <2>1. t = s
      BY <1>1 DEF Validate
    <2>2. readonwrite => s.lines[l].valid = Line(l)
      BY DEF Sound, CachedOK
    <2>3. QED
      BY <1>1, <2>1, <2>2
  <1>2. CASE ~(s.error \/ readonwrite \/ blocks \subseteq s.lines[l].valid)
    <2> DEFINE r == ReadDevice(s, Line(l))
    <2>1. t = Completed(r, l)
      BY <1>2 DEF Validate
    <2>2. /\ r \in States /\ r.lru = s.lru /\ r.lines = s.lines
          /\ r.disk = s.disk
      BY <1>0, BlocksAre, ReadDeviceIs
    <2> HIDE DEF r
    <2>3. Sound(r, D)
      BY <2>2, SameLines
    <2>4. CASE r.error
      <3>1. t = r
        BY <2>1, <2>4 DEF Completed
      <3>2. QED
        BY <1>2, <2>2, <2>3, <2>4, <3>1
    <2>5. CASE ~r.error
      <3>1. /\ t \in States
            /\ t.lru = r.lru /\ t.disk = r.disk /\ t.error = r.error
            /\ \A k \in LineNumbers \ {l} : t.lines[k] = r.lines[k]
            /\ t.lines[l].dirty = r.lines[l].dirty
            /\ t.lines[l].changed = r.lines[l].changed
            /\ t.lines[l].valid = Line(l)
            /\ t.lines[l].fresh = (r.lines[l].fresh \cap r.lines[l].dirty)
                                 \cup (r.disk \cap (Line(l) \ r.lines[l].dirty))
        BY <2>1, <2>2, <2>5, CompletedIs
      <3>2. LineOK(r.lines[l], l, r.disk, D)
        BY <2>3 DEF Sound, LinesOK
      <3>3. LineOK(t.lines[l], l, t.disk, D)
        BY <3>1, <3>2 DEF LineOK
      <3>4. Cached(r, l)
        BY <2>2 DEF Cached
      <3>5. Sound(t, D)
        BY <2>3, <3>1, <3>3, <3>4, OneLine
      <3>6. QED
        BY <1>2, <2>2, <3>1, <3>5
    <2>6. QED
      BY <2>4, <2>5
  <1>3. QED
    BY <1>1, <1>2

-----------------------------------------------------------------------------
(* Copying back. *)

\* From s to t nothing happened to the lines that were not dirty, and the
\* device has lost nothing.
CopiedBack(s, t, D) ==
  /\ Sound(t, D)
  /\ t.lru = s.lru /\ s.disk \ D \subseteq t.disk
  /\ \A k \in LineNumbers : /\ s.lines[k].dirty = {} => t.lines[k] = s.lines[k]
                            /\ t.lines[k].dirty \subseteq s.lines[k].dirty
  /\ s.error => t = s

LEMMA CopiedBackAgain ==
  ASSUME NEW s, NEW t, NEW u, NEW D, CopiedBack(s, t, D), CopiedBack(t, u, D)
  PROVE  CopiedBack(s, u, D)
  BY DEF CopiedBack

LEMMA CleanedIs ==
  ASSUME NEW s \in States, NEW l \in LineNumbers, ~s.error,
         NEW t, t = Cleaned(s, l)
  PROVE  /\ t \in States
         /\ t.lru = s.lru /\ t.disk = s.disk /\ t.error = s.error
         /\ \A k \in LineNumbers \ {l} : t.lines[k] = s.lines[k]
         /\ t.lines[l].dirty = {}
         /\ t.lines[l].valid = s.lines[l].valid
         /\ t.lines[l].fresh = s.lines[l].fresh
  <1>1. t = [s EXCEPT !.lines[l].dirty = {}, !.lines[l].changed = FALSE]
    BY DEF Cleaned
  <1> DEFINE x == [s.lines[l] EXCEPT !.dirty = {}, !.changed = FALSE]
  <1>2. s.lines \in [LineNumbers -> Contents] /\ s.lines[l] \in Contents
    BY DEF States
  <1>3. t = [s EXCEPT !.lines = [s.lines EXCEPT ![l] = x]]
    BY <1>1, <1>2 DEF States, Contents
  <1>4. /\ x \in Contents /\ x.dirty = {}
        /\ x.fresh = s.lines[l].fresh /\ x.valid = s.lines[l].valid
    BY <1>2 DEF Contents
  <1> HIDE DEF x
  <1>5. /\ t \in States
        /\ t.lru = s.lru /\ t.disk = s.disk /\ t.error = s.error
        /\ t.lines = [s.lines EXCEPT ![l] = x]
    BY <1>2, <1>3, <1>4 DEF States
  <1>6. QED
    BY <1>2, <1>4, <1>5

LEMMA CopyBackLineIs ==
  ASSUME NEW s, NEW D, Sound(s, D), NEW l, NEW t, t = CopyBackLine(s, l)
  PROVE  /\ CopiedBack(s, t, D)
         /\ ~t.error /\ l \in LineNumbers => t.lines[l].dirty = {}
  <1>0. s \in States
    BY DEF Sound
  <1>1. CASE s.error \/ ~Unsaved(s, l)
    <2>1. t = s
      BY <1>1 DEF CopyBackLine
    <2>2. ~s.error /\ l \in LineNumbers => s.lines[l].dirty = {}
      BY <1>1 DEF Unsaved, Sound, LinesOK, LineOK
    <2>3. QED
      BY <2>1, <2>2 DEF CopiedBack
  <1>2. CASE ~s.error /\ Unsaved(s, l)
    <2>1. l \in LineNumbers /\ s.lines[l].dirty # {} /\ Cached(s, l)
      BY <1>2 DEF Unsaved, Sound, CachedOK, Empty
    <2>2. LineOK(s.lines[l], l, s.disk, D)
      BY <2>1 DEF Sound, LinesOK
    <2> DEFINE line == s.lines[l]
    <2> DEFINE span == Span(line)
    <2> DEFINE v == IF span \subseteq line.valid THEN s ELSE Validate(s, l, Line(l))
    <2> DEFINE w == IF v.error THEN v ELSE WriteDevice(v, span, v.lines[l].fresh)
    <2>3. t = Cleaned(w, l)
      BY <1>2 DEF CopyBackLine
    <2>4. line.dirty \subseteq span /\ span \subseteq Line(l) /\ span \subseteq Blocks
      <3>1. line.dirty \subseteq Line(l)
        BY <2>2 DEF LineOK
      <3>2. QED
        BY <3>1, <2>1, SpanIs, BlocksAre
    <2> HIDE DEF span
    <2>5. /\ Sound(v, D)
          /\ v.lru = s.lru /\ v.disk = s.disk
          /\ \A k \in LineNumbers \ {l} : v.lines[k] = s.lines[k]
          /\ v.lines[l].dirty = s.lines[l].dirty
          /\ ~v.error => span \subseteq v.lines[l].valid
      <3>1. CASE span \subseteq line.valid
        BY <3>1
      <3>2. CASE ~(span \subseteq line.valid)
        <4>1. v = Validate(s, l, Line(l))
          BY <3>2
        <4> HIDE DEF v
        <4>2. QED
          BY <4>1, <2>1, <2>4, ValidateIs
      <3>3. QED
        BY <3>1, <3>2
    <2> HIDE DEF v
    <2>6. v \in States /\ v.lines[l] \in Contents /\ LineOK(v.lines[l], l, v.disk, D)
          /\ Cached(v, l) /\ (readonwrite => v.lines[l].valid = Line(l))
      BY <2>1, <2>5 DEF Sound, States, LinesOK, CachedOK, Cached
    <2>7. CASE v.error
      <3>1. t = v
        BY <2>3, <2>7 DEF Cleaned
      <3>2. QED
        BY <1>2, <2>1, <2>5, <2>7, <3>1 DEF CopiedBack
    <2>8. CASE ~v.error
      <3>1. w = WriteDevice(v, span, v.lines[l].fresh)
        BY <2>8
      <3> HIDE DEF w
      <3>2. /\ w \in States /\ w.lru = v.lru /\ w.lines = v.lines
            /\ ~w.error => w.disk = (v.disk \ span) \cup (v.lines[l].fresh \cap span)
            /\ \E done \in SUBSET span :
                 w.disk = (v.disk \ done) \cup (v.lines[l].fresh \cap done)
        BY <2>4, <2>6, <3>1, WriteDeviceIs
      <3>3. v.disk \ D \subseteq w.disk
        <4>1. span \ D \subseteq v.lines[l].fresh
          BY <2>5, <2>6, <2>8 DEF LineOK
        <4>2. QED
          BY <3>2, <4>1
      <3>4. Sound(w, D)
        BY <2>5, <3>2, <3>3, SameLines
      <3>5. CASE w.error
        <4>1. t = w
          BY <2>3, <3>5 DEF Cleaned
        <4>2. QED
          BY <1>2, <2>1, <2>5, <3>2, <3>3, <3>4, <3>5, <4>1 DEF CopiedBack
      <3>6. CASE ~w.error
        <4>1. /\ t \in States
              /\ t.lru = w.lru /\ t.disk = w.disk /\ t.error = w.error
              /\ \A k \in LineNumbers \ {l} : t.lines[k] = w.lines[k]
              /\ t.lines[l].dirty = {}
              /\ t.lines[l].valid = w.lines[l].valid
              /\ t.lines[l].fresh = w.lines[l].fresh
          BY <2>1, <2>3, <3>2, <3>6, CleanedIs
        <4>2. LineOK(t.lines[l], l, t.disk, D)
          <5>1. t.disk = (v.disk \ span) \cup (v.lines[l].fresh \cap span)
            BY <3>2, <3>6, <4>1
          <5>2. span \subseteq v.lines[l].valid /\ v.lines[l].dirty \subseteq span
            BY <2>4, <2>5, <2>8
          <5>3. QED
            BY <2>6, <3>2, <4>1, <5>1, <5>2 DEF LineOK
        <4>3. Sound(t, D)
          <5>1. Cached(w, l)
            BY <2>6, <3>2 DEF Cached
          <5>2. readonwrite => t.lines[l].valid = Line(l)
            BY <2>6, <3>2, <4>1
          <5>3. QED
            BY <2>1, <3>4, <4>1, <4>2, <5>1, <5>2, OneLine
        <4>4. QED
          BY <1>2, <2>1, <2>5, <3>2, <3>3, <4>1, <4>3, <3>6 DEF CopiedBack
      <3>7. QED
        BY <3>5, <3>6
    <2>9. QED
      BY <2>7, <2>8
  <1>3. QED
    BY <1>1, <1>2

-----------------------------------------------------------------------------
(* Loops. *)

\* The function a loop is written with, and that it exists.
IsLoop(f, s, g, n) == f = [i \in 0..n |-> IF i = 0 THEN s ELSE g[<<f[i - 1], i>>]]
LEMMA LoopExists ==
  ASSUME NEW S, NEW s \in S, NEW g \in [S \X Nat -> S], NEW n \in Nat
  PROVE  \E f \in [0..n -> S] : IsLoop(f, s, g, n)
  <1> DEFINE Is(f, k) ==
        f \in [0..k -> S] /\ f[0] = s /\ \A i \in 1..k : f[i] = g[<<f[i - 1], i>>]
  <1> DEFINE T == {k \in 0..n : \E f : Is(f, k)}
  <1>1. 0 \in T
    <2>1. Is([i \in 0..0 |-> s], 0)
      OBVIOUS
    <2> HIDE DEF Is
    <2>2. QED
      BY <2>1
  <1>2. ASSUME NEW k \in 0..(n - 1), k \in T PROVE k + 1 \in T
    <2>1. PICK f : Is(f, k)
      BY <1>2
    <2> DEFINE h == [i \in 0..(k + 1) |-> IF i <= k THEN f[i] ELSE g[<<f[k], k + 1>>]]
    <2>2. f[k] \in S /\ <<f[k], k + 1>> \in S \X Nat /\ g[<<f[k], k + 1>>] \in S
      BY <2>1
    <2>3. h \in [0..(k + 1) -> S] /\ h[0] = s
      BY <2>1, <2>2
    <2>4. ASSUME NEW i \in 1..(k + 1) PROVE h[i] = g[<<h[i - 1], i>>]
      <3>1. CASE i <= k
        <4>1. h[i] = f[i] /\ h[i - 1] = f[i - 1] /\ i \in 1..k
          BY <3>1
        <4> HIDE DEF h
        <4>2. QED
          BY <4>1, <2>1
      <3>2. CASE ~(i <= k)
        <4>1. i = k + 1 /\ h[i - 1] = f[k] /\ h[i] = g[<<f[k], k + 1>>]
          BY <3>2
        <4>2. QED
          BY <4>1
      <3>3. QED
        BY <3>1, <3>2
    <2> HIDE DEF h
    <2>5. Is(h, k + 1)
      BY <2>3, <2>4
    <2> HIDE DEF Is
    <2>6. QED
      BY <2>5
  <1> HIDE DEF T
  <1>3. n \in T
    BY <1>1, <1>2, UpTo
  <1>4. PICK f : Is(f, n)
    BY <1>3 DEF T
  <1>5. f = [i \in 0..n |-> IF i = 0 THEN s ELSE g[<<f[i - 1], i>>]]
    <2>1. f = [i \in 0..n |-> f[i]]
      BY <1>4
    <2>2. \A i \in 0..n : i # 0 => i \in 1..n
      OBVIOUS
    <2>3. \A i \in 0..n : f[i] = IF i = 0 THEN s ELSE g[<<f[i - 1], i>>]
      BY <1>4, <2>2
    <2> HIDE DEF Is
    <2>4. QED
      BY <2>1, <2>3, Zenon
  <1>6. QED
    BY <1>4, <1>5 DEF IsLoop

\* What holds at first and is kept by every turn of a loop.
LEMMA LoopIn ==
  ASSUME NEW S, NEW n \in Nat, NEW f, f[0] \in S,
         \A i \in 0..(n - 1) : f[i] \in S => f[i + 1] \in S
  PROVE  \A i \in 0..n : f[i] \in S
  <1> DEFINE T == {i \in 0..n : f[i] \in S}
  <1>1. 0 \in T
    OBVIOUS
  <1>2. \A i \in 0..(n - 1) : i \in T => i + 1 \in T
    OBVIOUS
  <1> HIDE DEF T
  <1>3. 0..n \subseteq T
    BY <1>1, <1>2, UpTo
  <1>4. QED
    BY <1>3 DEF T

LEMMA CopyBackIs ==
  ASSUME NEW s, NEW D, Sound(s, D), NEW l \in Nat, NEW t, t = CopyBack(s, l)
  PROVE  /\ CopiedBack(s, t, D)
         /\ ~t.error /\ l \in LineNumbers => t.lines[l].dirty = {}
  <1> DEFINE many == Lowest({i \in 0..Total : ~Unsaved(s, l + i)})
  <1> DEFINE after[i \in 0..many] == IF i = 0 THEN s
                                     ELSE CopyBackLine(after[i - 1], l + i - 1)
  <1>1. many \in Nat /\ (many = 0 => ~Unsaved(s, l))
    <2> DEFINE stops == {i \in 0..Total : ~Unsaved(s, l + i)}
    <2>1. Total \in 0..Total /\ l + Total \notin LineNumbers
      BY Sizes, Division, BlocksAre DEF LineNumbers
    <2>2. stops \subseteq Nat /\ Total \in stops
      BY <2>1 DEF Unsaved
    <2>3. many \in stops
      BY <2>2, LowestIs
    <2>4. QED
      BY <2>3
  <1>2. t = after[many]
    BY DEF CopyBack
  <1> DEFINE S == {x \in States : CopiedBack(s, x, D)}
  <1>3. s \in S
    BY DEF Sound, CopiedBack
  <1>4. ASSUME NEW x \in S, NEW k PROVE CopyBackLine(x, k) \in S
    <2>1. CopiedBack(s, x, D) /\ Sound(x, D)
      BY DEF CopiedBack
    <2>2. CopiedBack(x, CopyBackLine(x, k), D)
      BY <2>1, CopyBackLineIs
    <2>3. CopiedBack(s, CopyBackLine(x, k), D)
      BY <2>1, <2>2, CopiedBackAgain
    <2>4. QED
      BY <2>3 DEF CopiedBack, Sound
  <1> DEFINE g == [p \in S \X Nat |-> CopyBackLine(p[1], l + p[2] - 1)]
  <1> HIDE DEF many, after
  <1>5. after = [i \in 0..many |-> IF i = 0 THEN s
                                   ELSE CopyBackLine(after[i - 1], l + i - 1)]
    <2> HIDE DEF S
    <2>1. g \in [S \X Nat -> S]
      BY <1>4
    <2>2. \A x \in S, i \in Nat : g[<<x, i>>] = CopyBackLine(x, l + i - 1)
      OBVIOUS
    <2> HIDE DEF g
    <2>3. PICK f \in [0..many -> S] : IsLoop(f, s, g, many)
      BY <1>1, <1>3, <2>1, LoopExists
    <2>4. \A i \in 0..many : i # 0 => i \in Nat /\ f[i - 1] \in S
      BY <1>1, <2>3
    <2>5. \A i \in 0..many : i # 0 => g[<<f[i - 1], i>>] = CopyBackLine(f[i - 1], l + i - 1)
      BY <2>2, <2>4, Zenon
    <2>6. f = [i \in 0..many |-> IF i = 0 THEN s ELSE CopyBackLine(f[i - 1], l + i - 1)]
      BY <2>3, <2>5, Zenon DEF IsLoop
    <2>7. QED
      BY <2>6 DEF after
  <1>6. after[0] = s /\ \A i \in 0..(many - 1) : after[i + 1] = CopyBackLine(after[i], l + i)
    BY <1>1, <1>5
  <1>7. \A i \in 0..many : after[i] \in S
    <2> HIDE DEF S
    <2>1. \A i \in 0..(many - 1) : after[i] \in S => after[i + 1] \in S
      BY <1>4, <1>6
    <2>2. QED
      BY <1>1, <1>3, <1>6, <2>1, LoopIn
  <1>8. CopiedBack(s, t, D)
    BY <1>1, <1>2, <1>7
  <1>9. ASSUME ~t.error, l \in LineNumbers PROVE t.lines[l].dirty = {}
    <2>1. CASE Unsaved(s, l)
      <3>1. 0 \in 0..(many - 1) /\ l + 0 = l
        BY <1>1, <2>1
      <3>2. after[1] = CopyBackLine(s, l)
        BY <1>6, <3>1
      <3>3. ~after[1].error => after[1].lines[l].dirty = {}
        BY <1>9, <3>2, CopyBackLineIs
      <3>4. CopiedBack(after[1], t, D)
        <4> DEFINE R == {x \in States : CopiedBack(after[1], x, D)}
        <4> DEFINE T == {i \in 0..many : i = 0 \/ after[i] \in R}
        <4>1. after[1] \in R
          <5>1. after[1] \in S
            BY <1>1, <1>7, <3>1
          <5>2. QED
            BY <5>1 DEF CopiedBack
        <4>2. ASSUME NEW i \in 0..(many - 1), i \in T PROVE i + 1 \in T
          <5>1. CASE i = 0
            BY <1>1, <3>1, <4>1, <5>1
          <5>2. CASE i # 0
            <6>1. after[i + 1] = CopyBackLine(after[i], l + i) /\ after[i] \in R
              BY <1>6, <4>2, <5>2
            <6>2. CopiedBack(after[1], after[i], D) /\ Sound(after[i], D)
              BY <6>1 DEF CopiedBack
            <6>3. CopiedBack(after[i], after[i + 1], D)
              BY <6>1, <6>2, CopyBackLineIs
            <6>4. CopiedBack(after[1], after[i + 1], D)
              BY <6>2, <6>3, CopiedBackAgain
            <6>5. after[i + 1] \in R
              BY <6>4 DEF CopiedBack, Sound
            <6>6. QED
              BY <1>1, <6>5
          <5>3. QED
            BY <5>1, <5>2
        <4>3. 0 \in T
          BY <1>1
        <4> HIDE DEF T
        <4>4. many \in T
          BY <1>1, <4>2, <4>3, UpTo
        <4>5. QED
          BY <1>1, <1>2, <3>1, <4>4 DEF T
      <3>5. QED
        BY <1>9, <3>3, <3>4 DEF CopiedBack
    <2>2. CASE ~Unsaved(s, l)
      <3>1. s.lines[l].dirty = {}
        BY <1>9, <2>2 DEF Unsaved, Sound, LinesOK, LineOK
      <3>2. QED
        BY <1>8, <1>9, <3>1 DEF CopiedBack
    <2>3. QED
      BY <2>1, <2>2
  <1>10. QED
    BY <1>8, <1>9

-----------------------------------------------------------------------------
(* The order of use. *)

Has(order, v) == \E i \in 1..InLru : order[i] = v

LEMMA ToTailIs ==
  ASSUME NEW order \in [1..InLru -> Places], LruOK(order),
         NEW place \in 1..InLru, NEW t, t = ToTail(order, place)
  PROVE  /\ t \in [1..InLru -> Places] /\ LruOK(t)
         /\ t[InLru] = order[place]
         /\ \A v : Has(t, v) <=> Has(order, v)
  <1> DEFINE from(i) == IF i < place THEN i ELSE IF i < InLru THEN i + 1 ELSE place
  <1>0. InLru \in Nat /\ InLru >= 3
    BY Sizes
  <1>1. \A i \in 1..InLru : from(i) \in 1..InLru
    BY <1>0
  <1>2. \A i, j \in 1..InLru : from(i) = from(j) => i = j
    BY <1>0
  <1>3. \A j \in 1..InLru : \E i \in 1..InLru : from(i) = j
    <2>1. TAKE j \in 1..InLru
    <2>2. CASE j < place
      BY <2>2
    <2>3. CASE j = place
      <3>1. InLru \in 1..InLru /\ from(InLru) = j
        BY <1>0, <2>3
      <3>2. QED
        BY <3>1
    <2>4. CASE j > place
      <3>1. j - 1 \in 1..InLru /\ from(j - 1) = j
        BY <1>0, <2>4
      <3>2. QED
        BY <3>1
    <2>5. QED
      BY <1>0, <2>2, <2>3, <2>4
  <1>4. t = [i \in 1..InLru |-> order[from(i)]]
    BY <1>0 DEF ToTail
  <1>5. from(InLru) = place /\ InLru \in 1..InLru
    BY <1>0
  <1> HIDE DEF from
  <1>6. t \in [1..InLru -> Places] /\ t[InLru] = order[place]
    BY <1>1, <1>4, <1>5
  <1>7. LruOK(t)
    BY <1>1, <1>2, <1>4 DEF LruOK
  <1>8. ASSUME NEW v PROVE Has(t, v) <=> Has(order, v)
    <2>1. \A i \in 1..InLru : t[i] = order[from(i)]
      BY <1>4
    <2>2. ASSUME Has(order, v) PROVE Has(t, v)
      <3>1. PICK j \in 1..InLru : order[j] = v
        BY <2>2 DEF Has
      <3>2. PICK i \in 1..InLru : from(i) = j
        BY <1>3
      <3>3. QED
        BY <2>1, <3>1, <3>2 DEF Has
    <2>3. QED
      BY <1>1, <2>1, <2>2 DEF Has
  <1>9. QED
    BY <1>6, <1>7, <1>8

\* The same lines, in another order.
LEMMA Reordered ==
  ASSUME NEW s, NEW D, Sound(s, D), NEW place \in 1..InLru,
         NEW t, t = Used(s, place)
  PROVE  /\ Sound(t, D) /\ t.lines = s.lines /\ t.disk = s.disk
         /\ t.error = s.error /\ t.left = s.left
         /\ t.lru[InLru] = s.lru[place]
         /\ \A k : Cached(t, k) <=> Cached(s, k)
  <1>1. s \in States /\ s.lru \in [1..InLru -> Places] /\ LruOK(s.lru)
    BY DEF Sound, States
  <1> DEFINE order == ToTail(s.lru, place)
  <1>2. /\ order \in [1..InLru -> Places] /\ LruOK(order)
        /\ order[InLru] = s.lru[place]
        /\ \A v : Has(order, v) <=> Has(s.lru, v)
    BY <1>1, ToTailIs
  <1> HIDE DEF order
  <1>3. t = [s EXCEPT !.lru = order]
    BY DEF order, Used
  <1>4. /\ t \in States /\ t.lru = order /\ t.lines = s.lines
        /\ t.disk = s.disk /\ t.error = s.error /\ t.left = s.left
    BY <1>1, <1>2, <1>3 DEF States
  <1>5. \A k : Cached(t, k) <=> Cached(s, k)
    BY <1>2, <1>4 DEF Cached, Has
  <1>6. LinesOK(t, D) /\ CachedOK(t)
    BY <1>4, <1>5 DEF Sound, LinesOK, CachedOK
  <1>7. QED
    BY <1>2, <1>4, <1>5, <1>6 DEF Sound

LEMMA LocateIs ==
  ASSUME NEW s, NEW D, Sound(s, D), NEW l, Cached(s, l),
         NEW t, t = Locate(s, l)
  PROVE  /\ Sound(t, D) /\ t.lines = s.lines /\ t.disk = s.disk
         /\ t.error = s.error /\ t.left = s.left
         /\ t.lru[InLru] = l
         /\ \A k : Cached(t, k) <=> Cached(s, k)
  <1> DEFINE place == CHOOSE i \in 1..InLru : s.lru[i] = l
  <1>1. place \in 1..InLru /\ s.lru[place] = l
    BY DEF Cached
  <1> HIDE DEF place
  <1>2. t = Used(s, place)
    BY DEF Locate, place
  <1>3. QED
    BY <1>1, <1>2, Reordered

LEMMA LruLineIs ==
  ASSUME NEW s, NEW D, Sound(s, D), NEW t, t = LruLine(s)
  PROVE  /\ Sound(t, D) /\ s.disk \ D \subseteq t.disk
         /\ s.error => t = s
         /\ \A k \in LineNumbers :
              s.lines[k].dirty = {} => t.lines[k] \in {s.lines[k], Empty}
         /\ ~t.error =>
              /\ t.lru[InLru] = Unused
              /\ \A k : Cached(t, k) <=> Cached(s, k) /\ k # s.lru[1]
  <1>0. /\ InLru \in Nat /\ InLru >= 3 /\ 1 \in 1..InLru /\ InLru \in 1..InLru
        /\ s \in States
    BY Sizes DEF Sound
  <1> DEFINE head == s.lru[1]
  <1> DEFINE r == Used(s, 1)
  <1> DEFINE c == CopyBack(r, head)
  <1> DEFINE emptied == [k \in LineNumbers |-> IF k = head THEN Empty ELSE c.lines[k]]
  <1>1. t = IF s.error THEN s ELSE IF c.error THEN c
            ELSE [c EXCEPT !.lru[InLru] = Unused, !.lines = emptied]
    BY DEF LruLine
  <1>2. head \in Places /\ head \in Nat
    BY <1>0, BlocksAre DEF States, Places
  <1>3. /\ Sound(r, D) /\ r.lines = s.lines /\ r.disk = s.disk
        /\ r.error = s.error /\ r.lru[InLru] = head
        /\ \A k : Cached(r, k) <=> Cached(s, k)
    BY <1>0, Reordered
  <1> HIDE DEF r
  <1>4. CopiedBack(r, c, D)
        /\ (~c.error /\ head \in LineNumbers => c.lines[head].dirty = {})
    BY <1>2, <1>3, CopyBackIs
  <1> HIDE DEF c
  <1>5. CASE s.error
    BY <1>1, <1>5
  <1>6. CASE ~s.error /\ c.error
    <2>1. t = c
      BY <1>1, <1>6
    <2>2. QED
      BY <2>1, <1>3, <1>4, <1>6 DEF CopiedBack
  <1>7. CASE ~s.error /\ ~c.error
    <2>1. /\ Sound(c, D) /\ c \in States /\ c.lru \in [1..InLru -> Places]
          /\ c.lines \in [LineNumbers -> Contents]
          /\ c.lru = r.lru /\ c.lru[InLru] = head /\ LruOK(c.lru)
      BY <1>3, <1>4 DEF CopiedBack, Sound, States
    <2> DEFINE order == [c.lru EXCEPT ![InLru] = Unused]
    <2>2. t = [c EXCEPT !.lru = order, !.lines = emptied]
      BY <1>1, <1>7, <2>1 DEF States
    <2>3. order \in [1..InLru -> Places] /\ order[InLru] = Unused
          /\ \A i \in 1..InLru : i # InLru => order[i] = c.lru[i]
      BY <1>0, <2>1 DEF Places
    <2>4. \A k \in LineNumbers :
            emptied[k] = IF k = head THEN Empty ELSE c.lines[k]
      OBVIOUS
    <2>5. emptied \in [LineNumbers -> Contents]
      BY <2>1 DEF Empty, Contents
    <2> HIDE DEF order, emptied
    <2>6. /\ t \in States /\ t.lru = order /\ t.lines = emptied
          /\ t.disk = c.disk /\ t.error = c.error
      BY <2>1, <2>2, <2>3, <2>5 DEF States
    <2>7. \A k : Cached(t, k) <=> Cached(s, k) /\ k # head
      <3>1. \A k : Cached(c, k) <=> Cached(s, k)
        BY <1>3, <2>1 DEF Cached
      <3>2. TAKE k
      <3>3. ASSUME Cached(t, k) PROVE Cached(c, k) /\ k # head
        <4>1. PICK i \in 1..InLru : order[i] = k /\ k # Unused
          BY <2>6, <3>3 DEF Cached
        <4>2. i # InLru /\ c.lru[i] = k
          BY <2>3, <4>1
        <4>3. k # head
          BY <1>0, <2>1, <4>1, <4>2 DEF LruOK
        <4>4. QED
          BY <4>1, <4>2, <4>3 DEF Cached
      <3>4. ASSUME Cached(c, k), k # head PROVE Cached(t, k)
        <4>1. PICK i \in 1..InLru : c.lru[i] = k /\ k # Unused
          BY <3>4 DEF Cached
        <4>2. i # InLru /\ order[i] = k
          BY <2>1, <2>3, <3>4, <4>1
        <4>3. QED
          BY <2>6, <4>1, <4>2 DEF Cached
      <3>5. QED
        BY <3>1, <3>3, <3>4
    <2>8. LruOK(t.lru)
      BY <2>1, <2>3, <2>6 DEF LruOK
    <2>9. LinesOK(t, D)
      <3>1. SUFFICES ASSUME NEW k \in LineNumbers
                     PROVE  LineOK(t.lines[k], k, t.disk, D)
        BY DEF LinesOK
      <3>2. LineOK(c.lines[k], k, c.disk, D)
        BY <2>1 DEF Sound, LinesOK
      <3>3. CASE k = head
        <4>1. Line(k) \ D \subseteq c.disk
          BY <1>4, <1>7, <3>2, <3>3 DEF LineOK
        <4>2. LineOK(Empty, k, c.disk, D)
          BY <4>1, EmptyOK
        <4>3. QED
          BY <2>4, <2>6, <3>3, <4>2
      <3>4. CASE k # head
        BY <2>4, <2>6, <3>2, <3>4
      <3>5. QED
        BY <3>3, <3>4
    <2>10. CachedOK(t)
      <3>1. SUFFICES ASSUME NEW k \in LineNumbers
                     PROVE /\ ~Cached(t, k) => t.lines[k] = Empty
                           /\ readonwrite /\ Cached(t, k) => t.lines[k].valid = Line(k)
        BY DEF CachedOK
      <3>2. Cached(c, k) <=> Cached(s, k)
        BY <1>3, <2>1 DEF Cached
      <3>3. /\ ~Cached(c, k) => c.lines[k] = Empty
            /\ readonwrite /\ Cached(c, k) => c.lines[k].valid = Line(k)
        BY <2>1 DEF Sound, CachedOK
      <3>4. QED
        BY <2>4, <2>6, <2>7, <3>2, <3>3
    <2>11. /\ s.disk \ D \subseteq t.disk
           /\ \A k \in LineNumbers :
                s.lines[k].dirty = {} => t.lines[k] \in {s.lines[k], Empty}
      BY <1>3, <1>4, <2>4, <2>6 DEF CopiedBack
    <2>12. QED
      BY <1>7, <2>3, <2>6, <2>7, <2>8, <2>9, <2>10, <2>11 DEF Sound
  <1>8. QED
    BY <1>5, <1>6, <1>7

-----------------------------------------------------------------------------
(* Lines into the cache. *)

LEMMA NewLineIs ==
  ASSUME NEW s, NEW D, Sound(s, D), ~s.error, NEW l \in LineNumbers,
         ~Cached(s, l), s.lru[InLru] = Unused,
         NEW valid \in {Line(l), {}}, readonwrite => valid = Line(l),
         NEW t, t = NewLine(s, l, valid)
  PROVE  /\ Sound(t, D) /\ t.disk = s.disk /\ t.error = s.error
         /\ t.lru[InLru] = l
         /\ \A k : Cached(t, k) <=> Cached(s, k) \/ k = l
  <1>0. /\ InLru \in Nat /\ InLru >= 3 /\ InLru \in 1..InLru
        /\ s \in States /\ s.lru \in [1..InLru -> Places] /\ LruOK(s.lru)
        /\ s.lines \in [LineNumbers -> Contents] /\ s.disk \subseteq Blocks
        /\ l \in Places /\ l # Unused /\ Line(l) \subseteq Blocks
    BY Sizes, BlocksAre DEF Sound, States, Places
  <1> DEFINE x == [valid |-> valid, fresh |-> s.disk \cap valid,
                   dirty |-> {}, changed |-> FALSE]
  <1> DEFINE order == [s.lru EXCEPT ![InLru] = l]
  <1> DEFINE contents == [s.lines EXCEPT ![l] = x]
  <1>1. t = [s EXCEPT !.lru = order, !.lines = contents]
    BY <1>0 DEF NewLine, States
  <1>2. x \in Contents /\ LineOK(x, l, s.disk, D) /\ x.valid = valid
    <2>1. LineOK(s.lines[l], l, s.disk, D) /\ s.lines[l] = Empty
      BY DEF Sound, LinesOK, CachedOK
    <2>2. Line(l) \ D \subseteq s.disk
      BY <2>1 DEF LineOK, Empty
    <2>3. x \in Contents
      BY <1>0 DEF Contents
    <2>4. valid \ D \subseteq s.disk
      BY <2>2
    <2>5. QED
      BY <2>2, <2>3, <2>4 DEF LineOK
  <1> HIDE DEF x
  <1>3. /\ order \in [1..InLru -> Places] /\ order[InLru] = l
        /\ \A i \in 1..InLru : i # InLru => order[i] = s.lru[i]
    BY <1>0
  <1>4. /\ contents \in [LineNumbers -> Contents] /\ contents[l] = x
        /\ \A k \in LineNumbers : k # l => contents[k] = s.lines[k]
    BY <1>0, <1>2
  <1> HIDE DEF order, contents
  <1>5. /\ t \in States /\ t.lru = order /\ t.lines = contents
        /\ t.disk = s.disk /\ t.error = s.error
    BY <1>0, <1>1, <1>3, <1>4 DEF States
  <1>6. ASSUME NEW k PROVE Cached(t, k) <=> Cached(s, k) \/ k = l
    <2>1. ASSUME Cached(s, k) PROVE Cached(t, k)
      <3>1. PICK i \in 1..InLru : s.lru[i] = k /\ k # Unused
        BY <2>1 DEF Cached
      <3>2. order[i] = k
        BY <1>3, <3>1
      <3>3. QED
        BY <1>5, <3>1, <3>2 DEF Cached
    <2>2. ASSUME k = l PROVE Cached(t, k)
      BY <1>0, <1>3, <1>5, <2>2 DEF Cached
    <2>3. ASSUME Cached(t, k), k # l PROVE Cached(s, k)
      BY <1>3, <1>5, <2>3 DEF Cached
    <2>4. QED
      BY <2>1, <2>2, <2>3
  <1>7. LruOK(t.lru)
    <2>1. \A i \in 1..InLru : s.lru[i] # l
      BY <1>0 DEF Cached
    <2>2. QED
      BY <1>0, <1>3, <1>5, <2>1 DEF LruOK
  <1>8. LinesOK(t, D)
    BY <1>2, <1>4, <1>5 DEF Sound, LinesOK
  <1>9. CachedOK(t)
    <2>1. SUFFICES ASSUME NEW k \in LineNumbers
                   PROVE /\ ~Cached(t, k) => t.lines[k] = Empty
                         /\ readonwrite /\ Cached(t, k) => t.lines[k].valid = Line(k)
      BY DEF CachedOK
    <2>2. /\ ~Cached(s, k) => s.lines[k] = Empty
          /\ readonwrite /\ Cached(s, k) => s.lines[k].valid = Line(k)
      BY DEF Sound, CachedOK
    <2>3. QED
      BY <1>2, <1>4, <1>5, <1>6, <2>2
  <1>10. QED
    BY <1>3, <1>5, <1>6, <1>7, <1>8, <1>9 DEF Sound

\* What bringing a line into the cache does: it is the one used last, and the
\* one that was that before is still there.
BroughtIn(s, t, l, D) ==
  /\ Sound(t, D)
  /\ s.error => t = s
  /\ ~t.error => /\ Cached(t, l) /\ t.lru[InLru] = l
                 /\ Cached(s, s.lru[InLru]) => Cached(t, s.lru[InLru])

LEMMA ReadIntoCacheIs ==
  ASSUME NEW s, NEW D, Sound(s, D), NEW l \in LineNumbers,
         NEW t, t = ReadIntoCache(s, l)
  PROVE  BroughtIn(s, t, l, D)
  <1>1. CASE s.error
    BY <1>1 DEF ReadIntoCache, BroughtIn
  <1>2. CASE ~s.error /\ Cached(s, l)
    <2>1. t = Locate(s, l)
      BY <1>2 DEF ReadIntoCache
    <2>2. QED
      BY <1>2, <2>1, LocateIs DEF BroughtIn
  <1>3. CASE ~s.error /\ ~Cached(s, l)
    <2> DEFINE c == LruLine(s)
    <2> DEFINE r == ReadDevice(c, Line(l))
    <2>1. t = NewLine(r, l, Line(l))
      BY <1>3 DEF ReadIntoCache
    <2>2. /\ Sound(c, D)
          /\ ~c.error =>
              /\ c.lru[InLru] = Unused
              /\ \A k : Cached(c, k) <=> Cached(s, k) /\ k # s.lru[1]
      BY LruLineIs
    <2> HIDE DEF c
    <2>3. /\ r \in States /\ r.lru = c.lru /\ r.lines = c.lines /\ r.disk = c.disk
          /\ c.error => r = c
      BY <2>2, BlocksAre, ReadDeviceIs DEF Sound
    <2> HIDE DEF r
    <2>4. Sound(r, D)
      BY <2>2, <2>3, SameLines
    <2>5. CASE r.error
      <3>1. t = r
        BY <2>1, <2>5 DEF NewLine
      <3>2. QED
        BY <1>3, <2>4, <2>5, <3>1 DEF BroughtIn
    <2>6. CASE ~r.error
      <3>1. ~c.error /\ \A k : Cached(r, k) <=> Cached(c, k)
        BY <2>3, <2>6 DEF Cached
      <3>2. ~Cached(r, l) /\ r.lru[InLru] = Unused
        BY <1>3, <2>2, <2>3, <3>1
      <3>3. /\ Sound(t, D) /\ t.error = r.error /\ t.lru[InLru] = l
            /\ \A k : Cached(t, k) <=> Cached(r, k) \/ k = l
        BY <2>1, <2>4, <2>6, <3>2, NewLineIs
      <3>4. Cached(s, s.lru[InLru]) => s.lru[InLru] # s.lru[1]
        BY Sizes DEF Sound, LruOK, Cached
      <3>5. QED
        BY <1>3, <2>2, <3>1, <3>3, <3>4 DEF BroughtIn
    <2>7. QED
      BY <2>5, <2>6
  <1>4. QED
    BY <1>1, <1>2, <1>3

LEMMA ReadOnWriteIntoCacheIs ==
  ASSUME NEW s, NEW D, Sound(s, D), NEW l \in LineNumbers,
         NEW t, t = ReadOnWriteIntoCache(s, l)
  PROVE  BroughtIn(s, t, l, D)
  <1>1. CASE readonwrite \/ Cached(s, l)
    BY <1>1, ReadIntoCacheIs DEF ReadOnWriteIntoCache
  <1>2. CASE ~(readonwrite \/ Cached(s, l))
    <2> DEFINE c == LruLine(s)
    <2>1. t = NewLine(c, l, {})
      BY <1>2 DEF ReadOnWriteIntoCache
    <2>2. /\ Sound(c, D)
          /\ ~c.error =>
              /\ c.lru[InLru] = Unused
              /\ \A k : Cached(c, k) <=> Cached(s, k) /\ k # s.lru[1]
      BY LruLineIs
    <2>3. CASE s.error
      <3>1. c = s
        BY <2>3 DEF LruLine
      <3> HIDE DEF c
      <3>2. t = s
        BY <2>1, <2>3, <3>1 DEF NewLine
      <3>3. QED
        BY <2>3, <3>2 DEF BroughtIn
    <2> HIDE DEF c
    <2>4. CASE ~s.error /\ c.error
      <3>1. t = c
        BY <2>1, <2>4 DEF NewLine
      <3>2. QED
        BY <2>2, <2>4, <3>1 DEF BroughtIn
    <2>5. CASE ~s.error /\ ~c.error
      <3>1. ~Cached(c, l) /\ c.lru[InLru] = Unused
        BY <1>2, <2>2, <2>5
      <3>2. ~readonwrite
        BY <1>2
      <3>3. /\ Sound(t, D) /\ t.error = c.error /\ t.lru[InLru] = l
            /\ \A k : Cached(t, k) <=> Cached(c, k) \/ k = l
        BY <2>1, <2>2, <2>5, <3>1, <3>2, NewLineIs
      <3>4. Cached(s, s.lru[InLru]) => s.lru[InLru] # s.lru[1]
        BY Sizes DEF Sound, LruOK, Cached
      <3>5. QED
        BY <2>2, <2>5, <3>3, <3>4 DEF BroughtIn
    <2>6. QED
      BY <2>3, <2>4, <2>5
  <1>3. QED
    BY <1>1, <1>2

\* The line of an area that is in one line.
LEMMA FirstIs ==
  ASSUME NEW l, NEW area, area \subseteq Line(l), area # {}
  PROVE  First(area) = l /\ l \in LineNumbers
  <1>1. area \subseteq Nat /\ \A b \in area : LineOf(b) = l /\ LineOf(b) \in LineNumbers
    BY BlocksAre
  <1>2. Lowest(area) \in area
    BY <1>1, LowestIs
  <1>3. QED
    BY <1>1, <1>2 DEF First

LEMMA ReadPartIs ==
  ASSUME NEW s, NEW D, Sound(s, D), NEW l, NEW area, area \subseteq Line(l),
         NEW t, t = ReadPart(s, area)
  PROVE  /\ Sound(t, D)
         /\ s.error => t.error
         /\ ~t.error /\ area # {} => /\ l \in LineNumbers /\ Cached(t, l)
                                     /\ area \subseteq t.lines[l].valid
  <1>1. CASE area = {}
    BY <1>1 DEF ReadPart
  <1>2. CASE area # {}
    <2>1. First(area) = l /\ l \in LineNumbers
      BY <1>2, FirstIs
    <2> DEFINE r == ReadIntoCache(s, l)
    <2>2. t = Validate(r, l, area)
      BY <1>2, <2>1 DEF ReadPart
    <2>3. BroughtIn(s, r, l, D)
      BY <2>1, ReadIntoCacheIs
    <2> HIDE DEF r
    <2>4. CASE r.error
      <3>1. t = r
        BY <2>2, <2>4 DEF Validate
      <3>2. QED
        BY <2>3, <2>4, <3>1 DEF BroughtIn
    <2>5. CASE ~r.error
      <3>1. Sound(r, D) /\ Cached(r, l) /\ ~s.error
        BY <2>3, <2>5 DEF BroughtIn
      <3>2. /\ Sound(t, D) /\ t.lru = r.lru
            /\ ~t.error => area \subseteq t.lines[l].valid
        BY <2>1, <2>2, <3>1, ValidateIs
      <3>3. QED
        BY <2>1, <3>1, <3>2 DEF Cached
    <2>6. QED
      BY <2>4, <2>5
  <1>3. QED
    BY <1>1, <1>2

-----------------------------------------------------------------------------
(* Writing through the lines. *)

\* A line that has the new data, or nothing, of the area.
Overwritten(x, area) == x.valid \cap area \subseteq x.fresh /\ x.dirty \cap area = {}

LEMMA AgedIs ==
  ASSUME NEW s, NEW D, Sound(s, D), ~s.error, NEW area \in SUBSET Blocks,
         NEW t, t = Aged(s, area)
  PROVE  /\ Sound(t, D \cup area)
         /\ t.lru = s.lru /\ t.disk = s.disk \ area /\ t.error = s.error
         /\ \A k \in LineNumbers : /\ t.lines[k].dirty = s.lines[k].dirty
                                   /\ t.lines[k].valid = s.lines[k].valid
  <1>0. s \in States /\ s.lines \in [LineNumbers -> Contents] /\ s.disk \subseteq Blocks
    BY DEF Sound, States
  <1> DEFINE contents == [l \in LineNumbers |-> [s.lines[l] EXCEPT !.fresh = @ \ area]]
  <1>1. t = [s EXCEPT !.disk = @ \ area, !.lines = contents]
    BY DEF Aged
  <1>2. ASSUME NEW k \in LineNumbers
        PROVE  /\ contents[k] \in Contents
               /\ contents[k].dirty = s.lines[k].dirty
               /\ contents[k].valid = s.lines[k].valid
               /\ contents[k].changed = s.lines[k].changed
               /\ contents[k].fresh = s.lines[k].fresh \ area
               /\ s.lines[k] = Empty => contents[k] = Empty
    <2>1. contents[k] = [s.lines[k] EXCEPT !.fresh = @ \ area]
      OBVIOUS
    <2>2. s.lines[k] \in Contents
      BY <1>0
    <2> HIDE DEF contents
    <2>3. QED
      BY <2>1, <2>2 DEF Contents, Empty
  <1>3. contents \in [LineNumbers -> Contents]
    BY <1>2
  <1> HIDE DEF contents
  <1>4. /\ t \in States /\ t.lru = s.lru /\ t.lines = contents
        /\ t.disk = s.disk \ area /\ t.error = s.error
    BY <1>0, <1>1, <1>3 DEF States
  <1>5. LinesOK(t, D \cup area)
    <2>1. SUFFICES ASSUME NEW k \in LineNumbers
                   PROVE  LineOK(t.lines[k], k, t.disk, D \cup area)
      BY DEF LinesOK
    <2>2. LineOK(s.lines[k], k, s.disk, D)
      BY DEF Sound, LinesOK
    <2>3. QED
      BY <1>2, <1>4, <2>2 DEF LineOK
  <1>6. CachedOK(t) /\ LruOK(t.lru)
    <2>1. \A k : Cached(t, k) <=> Cached(s, k)
      BY <1>4 DEF Cached
    <2>2. QED
      BY <1>2, <1>4, <2>1 DEF Sound, CachedOK
  <1>7. QED
    BY <1>2, <1>4, <1>5, <1>6 DEF Sound

\* From s to t one line was overwritten.
LineWritten(s, t, l, E, area) ==
  /\ Sound(t, E) /\ ~t.error
  /\ \A k : Cached(t, k) <=> Cached(s, k)
  /\ \A k \in LineNumbers \ {l} : t.lines[k] = s.lines[k]
  /\ l \in LineNumbers => /\ t.lines[l].dirty \subseteq s.lines[l].dirty
                          /\ Overwritten(t.lines[l], area)

LEMMA WriteThroughLineIs ==
  ASSUME NEW s, NEW E, Sound(s, E), NEW area \in SUBSET E, area \in SUBSET Blocks,
         ~s.error, NEW l, NEW t, t = WriteThroughLine(s, l, area)
  PROVE  LineWritten(s, t, l, E, area)
  <1>1. CASE ~Cached(s, l)
    <2>1. t = s
      BY <1>1 DEF WriteThroughLine
    <2>2. l \in LineNumbers => s.lines[l] = Empty
      BY <1>1 DEF Sound, CachedOK
    <2>3. QED
      BY <2>1, <2>2 DEF LineWritten, Overwritten, Empty
  <1>2. CASE Cached(s, l)
    <2>1. l \in LineNumbers
      BY <1>2 DEF Cached, Sound, States, Places
    <2> DEFINE o == Locate(s, l)
    <2>2. /\ Sound(o, E) /\ o.lines = s.lines /\ o.disk = s.disk
          /\ o.error = s.error
          /\ \A k : Cached(o, k) <=> Cached(s, k)
      BY <1>2, LocateIs
    <2> HIDE DEF o
    <2> DEFINE dirty == IF copyback /\ s.lines[l].changed THEN o.lines[l].dirty \ area
                                                          ELSE o.lines[l].dirty
    <2> DEFINE new == area \cap Line(l)
    <2>3. t = [o EXCEPT !.lines[l].dirty =
                           IF copyback /\ s.lines[l].changed THEN @ \ area ELSE @,
                        !.lines[l].valid = @ \cup (area \cap Line(l)),
                        !.lines[l].fresh = @ \cup (area \cap Line(l))]
      BY <1>2 DEF WriteThroughLine, o
    <2>4. t = [o EXCEPT !.lines[l].dirty = dirty,
                        !.lines[l].valid = @ \cup new,
                        !.lines[l].fresh = @ \cup new]
      BY <2>3
    <2>5. o \in States /\ o.lines \in [LineNumbers -> Contents] /\ o.lines[l] \in Contents
          /\ LineOK(o.lines[l], l, o.disk, E)
          /\ (readonwrite => o.lines[l].valid = Line(l))
      BY <1>2, <2>1, <2>2 DEF Sound, States, LinesOK, CachedOK
    <2>6. dirty \subseteq o.lines[l].dirty /\ dirty \cap area = {}
          /\ o.lines[l].dirty \ area \subseteq dirty
      BY <2>2, <2>5 DEF LineOK
    <2>7. new \subseteq Blocks /\ new \subseteq Line(l) /\ area \cap Line(l) = new
      OBVIOUS
    <2> HIDE DEF dirty, new
    <2> DEFINE x == [o.lines[l] EXCEPT !.dirty = dirty, !.valid = @ \cup new,
                                       !.fresh = @ \cup new]
    <2>8. t = [o EXCEPT !.lines = [o.lines EXCEPT ![l] = x]]
      BY <2>1, <2>4, <2>5 DEF States, Contents
    <2>9. /\ x \in Contents /\ x.dirty = dirty
          /\ x.valid = o.lines[l].valid \cup new
          /\ x.fresh = o.lines[l].fresh \cup new
          /\ x.changed = o.lines[l].changed
      BY <2>5, <2>6, <2>7 DEF Contents
    <2> HIDE DEF x
    <2>10. /\ t \in States /\ t.lru = o.lru /\ t.disk = o.disk /\ t.error = o.error
           /\ t.lines = [o.lines EXCEPT ![l] = x]
      BY <2>1, <2>5, <2>8, <2>9 DEF States
    <2>11. t.lines[l] = x /\ \A k \in LineNumbers \ {l} : t.lines[k] = o.lines[k]
      BY <2>1, <2>5, <2>10
    <2>12. LineOK(x, l, t.disk, E)
      <3>1. x.valid \subseteq Line(l) /\ x.dirty \subseteq x.valid
        BY <2>5, <2>6, <2>7, <2>9 DEF LineOK
      <3>2. x.dirty # {} => x.changed /\ copyback
        BY <2>5, <2>6, <2>9 DEF LineOK
      <3>3. \A b \in x.valid \ E : b \in x.fresh
        BY <2>5, <2>9 DEF LineOK
      <3>4. \A b \in Line(l) \ E : b \in t.disk \cup x.dirty
        BY <2>5, <2>6, <2>9, <2>10 DEF LineOK
      <3>5. QED
        BY <3>1, <3>2, <3>3, <3>4 DEF LineOK
    <2>13. Overwritten(x, area)
      <3>1. x.valid \subseteq Line(l) /\ o.lines[l].valid \subseteq Line(l)
        BY <2>5, <2>12 DEF LineOK
      <3>2. QED
        BY <2>6, <2>7, <2>9, <3>1 DEF Overwritten
    <2>14. readonwrite => x.valid = Line(l)
      BY <2>5, <2>7, <2>9
    <2>15. Cached(o, l) /\ \A k : Cached(t, k) <=> Cached(o, k)
      BY <1>2, <2>2, <2>10 DEF Cached
    <2>16. Sound(t, E)
      BY <2>1, <2>2, <2>10, <2>11, <2>12, <2>14, <2>15, OneLine
    <2>17. QED
      BY <2>2, <2>6, <2>9, <2>10, <2>11, <2>13, <2>15, <2>16 DEF LineWritten
  <1>3. QED
    BY <1>1, <1>2

\* An area of the volume, and its lines.
IsArea(area) ==
  /\ area \subseteq Blocks
  /\ First(area) \in Nat /\ LinesOf(area) \in Nat
  /\ \A b \in area : First(area) <= LineOf(b)
                     /\ LineOf(b) < First(area) + LinesOf(area)

\* What the code calls block and blocks.
LEMMA AreaIs ==
  ASSUME NEW a \in Nat, NEW n \in Nat \ {0}, a + n <= Total, NEW area,
         area = a..(a + n - 1)
  PROVE  /\ IsArea(area) /\ area # {} /\ Cardinality(area) = n
         /\ Lowest(area) = a /\ Highest(area) = a + n - 1
         /\ First(area) = LineOf(a)
  <1>1. /\ a + n - 1 \in Nat /\ a \in area /\ a + n - 1 \in area
        /\ area \subseteq 0..(a + n - 1) /\ area \subseteq Nat
        /\ \A b \in area : a <= b /\ b <= a + n - 1
    OBVIOUS
  <1>2. Lowest(area) \in area /\ \A b \in area : Lowest(area) <= b
    BY <1>1, LowestIs
  <1>3. Highest(area) \in area /\ \A b \in area : Highest(area) >= b
    BY <1>1, HighestIs
  <1>4. Lowest(area) = a /\ Highest(area) = a + n - 1
    BY <1>1, <1>2, <1>3
  <1>5. area \subseteq Blocks
    BY <1>1, Sizes DEF Blocks
  <1>6. Cardinality(area) = n
    BY <1>1, FS_Interval
  <1>7. LineOf(a) \in Nat /\ LineOf(a + n - 1) \in Nat /\ LineOf(a) <= LineOf(a + n - 1)
    BY <1>1, Division, LineOfMonotone
  <1>8. \A b \in area : /\ LineOf(b) \in Nat
                        /\ LineOf(a) <= LineOf(b) /\ LineOf(b) <= LineOf(a + n - 1)
    BY <1>1, Division, LineOfMonotone
  <1>9. First(area) = LineOf(a) /\ LinesOf(area) = LineOf(a + n - 1) - LineOf(a) + 1
    BY <1>4 DEF First, LinesOf
  <1> DEFINE low == LineOf(a)
  <1> DEFINE high == LineOf(a + n - 1)
  <1> HIDE DEF low, high
  <1>10. low \in Nat /\ high \in Nat /\ low <= high
    BY <1>7 DEF low, high
  <1>11. First(area) = low /\ LinesOf(area) = high - low + 1
    BY <1>9 DEF low, high
  <1>12. \A b \in area : LineOf(b) \in Nat /\ low <= LineOf(b) /\ LineOf(b) <= high
    BY <1>8 DEF low, high
  <1>13. First(area) \in Nat /\ LinesOf(area) \in Nat
    BY <1>10, <1>11
  <1>14. \A b \in area : First(area) <= LineOf(b)
                          /\ LineOf(b) < First(area) + LinesOf(area)
    BY <1>10, <1>11, <1>12
  <1>15. IsArea(area)
    BY <1>5, <1>13, <1>14 DEF IsArea
  <1>16. QED
    BY <1>1, <1>4, <1>6, <1>9, <1>15

\* From s to t the lines of an area were overwritten.
WrittenThrough(s, t, D, area) ==
  /\ Sound(t, D \cup area) /\ ~t.error
  /\ \A k : Cached(t, k) <=> Cached(s, k)
  /\ \A k \in LineNumbers : /\ t.lines[k].dirty \subseteq s.lines[k].dirty
                            /\ Overwritten(t.lines[k], area)

LEMMA WriteThroughOverlappingIs ==
  ASSUME NEW s, NEW D, Sound(s, D), ~s.error,
         NEW area, IsArea(area), NEW t, t = WriteThroughOverlapping(s, area)
  PROVE  WrittenThrough(s, t, D, area)
  <1>1. /\ area \subseteq Blocks /\ First(area) \in Nat /\ LinesOf(area) \in Nat
        /\ \A b \in area : First(area) <= LineOf(b)
                            /\ LineOf(b) < First(area) + LinesOf(area)
    BY DEF IsArea
  <1> DEFINE many == LinesOf(area)
  <1> DEFINE first == First(area)
  <1> DEFINE after[i \in 0..LinesOf(area)] ==
               IF i = 0 THEN Aged(s, area)
               ELSE WriteThroughLine(after[i - 1], First(area) + i - 1, area)
  <1>2. t = after[many]
    BY DEF WriteThroughOverlapping
  <1> DEFINE E == D \cup area
  <1> DEFINE o == Aged(s, area)
  <1> DEFINE S == {x \in States :
               /\ Sound(x, E) /\ ~x.error
               /\ \A k : Cached(x, k) <=> Cached(s, k)
               /\ \A k \in LineNumbers : x.lines[k].dirty \subseteq s.lines[k].dirty}
  <1>3. /\ Sound(o, D \cup area) /\ o.lru = s.lru /\ o.error = s.error
        /\ \A k \in LineNumbers : o.lines[k].dirty = s.lines[k].dirty
    <2>1. area \in SUBSET Blocks
      BY <1>1
    <2>2. QED
      BY <2>1, AgedIs
  <1> HIDE DEF o
  <1>4. o \in S
    BY <1>3 DEF Sound, Cached
  <1> HIDE DEF E
  <1>0. area \in SUBSET E /\ area \in SUBSET Blocks
    BY <1>1 DEF E
  <1>5. ASSUME NEW x \in S, NEW k PROVE WriteThroughLine(x, k, area) \in S
    <2> DEFINE y == WriteThroughLine(x, k, area)
    <2>0. Sound(x, E) /\ ~x.error
      OBVIOUS
    <2>1. LineWritten(x, y, k, E, area)
      <3> HIDE DEF S
      <3>1. QED
        BY <1>0, <2>0, WriteThroughLineIs
    <2> HIDE DEF y
    <2>2. \A j \in LineNumbers : y.lines[j].dirty \subseteq s.lines[j].dirty
      <3>1. TAKE j \in LineNumbers
      <3>2. CASE j = k
        BY <2>1, <3>2 DEF LineWritten
      <3>3. CASE j # k
        BY <2>1, <3>3 DEF LineWritten
      <3>4. QED
        BY <3>2, <3>3
    <2>3. y \in S
      BY <2>1, <2>2 DEF LineWritten, Sound
    <2>4. QED
      BY <2>3 DEF y
  <1> DEFINE g == [p \in S \X Nat |-> WriteThroughLine(p[1], first + p[2] - 1, area)]
  <1> HIDE DEF many, first, after
  <1>6. after = [i \in 0..many |-> IF i = 0 THEN o
                                   ELSE WriteThroughLine(after[i - 1], first + i - 1, area)]
    <2> HIDE DEF S
    <2>1. g \in [S \X Nat -> S]
      BY <1>5
    <2>2. \A x \in S, i \in Nat : g[<<x, i>>] = WriteThroughLine(x, first + i - 1, area)
      OBVIOUS
    <2> HIDE DEF g
    <2>3. many \in Nat
      BY <1>1 DEF many
    <2>4. PICK f \in [0..many -> S] : IsLoop(f, o, g, many)
      BY <1>4, <2>1, <2>3, LoopExists
    <2>5. \A i \in 0..many : i # 0 => i \in Nat /\ f[i - 1] \in S
      BY <2>3, <2>4
    <2>6. \A i \in 0..many :
            i # 0 => g[<<f[i - 1], i>>] = WriteThroughLine(f[i - 1], first + i - 1, area)
      BY <2>2, <2>5, Zenon
    <2>7. f = [i \in 0..many |-> IF i = 0 THEN o
                                 ELSE WriteThroughLine(f[i - 1], first + i - 1, area)]
      BY <2>4, <2>6, Zenon DEF IsLoop
    <2>8. QED
      BY <2>7 DEF after, many, first, o
  <1>7. /\ many \in Nat /\ first \in Nat
        /\ after[0] = o
        /\ \A i \in 0..(many - 1) : after[i + 1] = WriteThroughLine(after[i], first + i, area)
    BY <1>1, <1>6 DEF many, first
  <1>8. \A i \in 0..many : after[i] \in S
    <2> HIDE DEF S
    <2>1. \A i \in 0..(many - 1) : after[i] \in S => after[i + 1] \in S
      BY <1>5, <1>7
    <2>2. QED
      BY <1>4, <1>7, <2>1, LoopIn
  <1> DEFINE Done(i) == \A k \in LineNumbers :
               first <= k /\ k < first + i => Overwritten(after[i].lines[k], area)
  <1>9. \A i \in 0..many : Done(i)
    <2> DEFINE T == {i \in 0..many : Done(i)}
    <2>1. 0 \in T
      BY <1>7, BlocksAre
    <2>2. ASSUME NEW i \in 0..(many - 1), i \in T PROVE i + 1 \in T
      <3>1. /\ after[i + 1] = WriteThroughLine(after[i], first + i, area)
            /\ Sound(after[i], E) /\ ~after[i].error
        BY <1>7, <1>8
      <3>2. /\ \A k \in LineNumbers \ {first + i} :
                 after[i + 1].lines[k] = after[i].lines[k]
            /\ first + i \in LineNumbers =>
                 Overwritten(after[i + 1].lines[first + i], area)
        <4> DEFINE x == after[i]
        <4> DEFINE y == after[i + 1]
        <4> HIDE DEF x, y
        <4>1. y = WriteThroughLine(x, first + i, area) /\ Sound(x, E) /\ ~x.error
          BY <3>1 DEF x, y
        <4>2. LineWritten(x, y, first + i, E, area)
          BY <1>0, <4>1, WriteThroughLineIs
        <4>3. QED
          BY <4>2 DEF x, y, LineWritten
      <3>3. ASSUME NEW k \in LineNumbers, first <= k, k < first + (i + 1)
            PROVE  Overwritten(after[i + 1].lines[k], area)
        <4>1. CASE k = first + i
          BY <3>2, <4>1
        <4>2. CASE k # first + i
          <5>1. k < first + i
            BY <1>7, <3>3, <4>2, BlocksAre
          <5>2. Overwritten(after[i].lines[k], area)
            BY <2>2, <3>3, <5>1
          <5>3. QED
            BY <3>2, <4>2, <5>2
        <4>3. QED
          BY <4>1, <4>2
      <3>4. QED
        BY <1>7, <3>3
    <2> HIDE DEF T
    <2>3. 0..many \subseteq T
      BY <1>7, <2>1, <2>2, UpTo
    <2>4. QED
      BY <2>3 DEF T
  <1>10. t \in S /\ Done(many)
    <2>1. many \in 0..many
      BY <1>7
    <2> HIDE DEF S, Done
    <2>2. QED
      BY <1>2, <1>8, <1>9, <2>1
  <1>11. ASSUME NEW k \in LineNumbers PROVE Overwritten(t.lines[k], area)
    <2>1. CASE first <= k /\ k < first + many
      BY <1>2, <1>10, <2>1
    <2>2. CASE ~(first <= k /\ k < first + many)
      <3>1. LineOK(t.lines[k], k, t.disk, E)
        BY <1>10 DEF Sound, LinesOK
      <3>2. t.lines[k].valid \subseteq Line(k) /\ t.lines[k].dirty \subseteq Line(k)
        BY <3>1 DEF LineOK
      <3>3. \A b \in Line(k) : b \notin area
        BY <1>1, <2>2, BlocksAre DEF first, many
      <3>4. QED
        BY <3>2, <3>3 DEF Overwritten
    <2>3. QED
      BY <2>1, <2>2
  <1>12. Sound(t, D \cup area) /\ ~t.error
    BY <1>10 DEF E
  <1>13. QED
    BY <1>10, <1>11, <1>12 DEF WrittenThrough

-----------------------------------------------------------------------------
(* Copying back many lines. *)

LEMMA CopyBackCachedIs ==
  ASSUME NEW s, NEW D, Sound(s, D), NEW l \in Nat, NEW t, t = CopyBackCached(s, l)
  PROVE  /\ Sound(t, D) /\ s.disk \ D \subseteq t.disk
         /\ \A k \in LineNumbers : t.lines[k].dirty \subseteq s.lines[k].dirty
         /\ s.error => t.error
         /\ ~t.error /\ l \in LineNumbers => t.lines[l].dirty = {}
  <1>1. CASE s.error \/ ~Cached(s, l)
    <2>1. t = s
      BY <1>1 DEF CopyBackCached
    <2>2. ~Cached(s, l) /\ l \in LineNumbers => s.lines[l].dirty = {}
      BY DEF Sound, CachedOK, Empty
    <2>3. QED
      BY <1>1, <2>1, <2>2
  <1>2. CASE ~s.error /\ Cached(s, l)
    <2> DEFINE o == Locate(s, l)
    <2>1. t = CopyBack(o, l)
      BY <1>2 DEF CopyBackCached
    <2>2. Sound(o, D) /\ o.lines = s.lines /\ o.disk = s.disk /\ o.error = s.error
      BY <1>2, LocateIs
    <2> HIDE DEF o
    <2>3. /\ CopiedBack(o, t, D)
          /\ ~t.error /\ l \in LineNumbers => t.lines[l].dirty = {}
      BY <2>1, <2>2, CopyBackIs
    <2>4. QED
      BY <1>2, <2>2, <2>3 DEF CopiedBack
  <1>3. QED
    BY <1>1, <1>2

LEMMA CopyBackOverlappingIs ==
  ASSUME NEW s, NEW D, Sound(s, D), ~s.error,
         NEW area, IsArea(area), NEW t, t = CopyBackOverlapping(s, area)
  PROVE  /\ Sound(t, D)
         /\ ~t.error => area \ D \subseteq t.disk
  <1>1. /\ area \subseteq Blocks /\ First(area) \in Nat /\ LinesOf(area) \in Nat
        /\ \A b \in area : First(area) <= LineOf(b)
                            /\ LineOf(b) < First(area) + LinesOf(area)
    BY DEF IsArea
  <1> DEFINE many == LinesOf(area)
  <1> DEFINE first == First(area)
  <1> DEFINE after[i \in 0..LinesOf(area)] ==
               IF i = 0 THEN s ELSE CopyBackCached(after[i - 1], First(area) + i - 1)
  <1>2. t = after[many]
    BY DEF CopyBackOverlapping
  <1> DEFINE S == {x \in States : Sound(x, D)}
  <1>3. s \in S
    BY DEF Sound
  <1>4. ASSUME NEW x \in S, NEW k \in Nat PROVE CopyBackCached(x, k) \in S
    BY CopyBackCachedIs DEF Sound
  <1> DEFINE g == [p \in S \X Nat |-> CopyBackCached(p[1], first + p[2] - 1)]
  <1> HIDE DEF many, first, after
  <1>5. /\ many \in Nat /\ first \in Nat
        /\ \A i \in Nat : i # 0 => first + i - 1 \in Nat
    BY <1>1 DEF many, first
  <1>6. after = [i \in 0..many |-> IF i = 0 THEN s
                                   ELSE CopyBackCached(after[i - 1], first + i - 1)]
    <2> DEFINE h == [p \in S \X Nat |-> IF p[2] = 0 THEN s ELSE g[p]]
    <2> HIDE DEF S
    <2>1. \A x \in S, i \in Nat : i # 0 => h[<<x, i>>] = CopyBackCached(x, first + i - 1)
      OBVIOUS
    <2>2. h \in [S \X Nat -> S]
      BY <1>3, <1>4, <1>5
    <2> HIDE DEF h
    <2>3. PICK f \in [0..many -> S] : IsLoop(f, s, h, many)
      BY <1>3, <1>5, <2>2, LoopExists
    <2>4. \A i \in 0..many : i # 0 => i \in Nat /\ f[i - 1] \in S
      BY <1>5, <2>3
    <2>5. \A i \in 0..many :
            i # 0 => h[<<f[i - 1], i>>] = CopyBackCached(f[i - 1], first + i - 1)
      BY <2>1, <2>4, Zenon
    <2>6. f = [i \in 0..many |-> IF i = 0 THEN s
                                 ELSE CopyBackCached(f[i - 1], first + i - 1)]
      BY <2>3, <2>5, Zenon DEF IsLoop
    <2>7. QED
      BY <2>6 DEF after, many, first
  <1>7. /\ after[0] = s
        /\ \A i \in 0..(many - 1) : after[i + 1] = CopyBackCached(after[i], first + i)
    BY <1>5, <1>6
  <1>8. \A i \in 0..many : after[i] \in S
    <2> HIDE DEF S
    <2>1. \A i \in 0..(many - 1) : after[i] \in S => after[i + 1] \in S
      BY <1>4, <1>5, <1>7
    <2>2. QED
      BY <1>3, <1>5, <1>7, <2>1, LoopIn
  <1> DEFINE Done(i) ==
        ~after[i].error =>
          \A k \in LineNumbers : first <= k /\ k < first + i => after[i].lines[k].dirty = {}
  <1>9. \A i \in 0..many : Done(i)
    <2> DEFINE T == {i \in 0..many : Done(i)}
    <2>1. 0 \in T
      BY <1>5, BlocksAre
    <2>2. ASSUME NEW i \in 0..(many - 1), i \in T PROVE i + 1 \in T
      <3>1. /\ after[i + 1] = CopyBackCached(after[i], first + i)
            /\ Sound(after[i], D) /\ first + i \in Nat
        BY <1>5, <1>7, <1>8
      <3>2. /\ \A k \in LineNumbers :
                 after[i + 1].lines[k].dirty \subseteq after[i].lines[k].dirty
            /\ after[i].error => after[i + 1].error
            /\ ~after[i + 1].error /\ first + i \in LineNumbers =>
                 after[i + 1].lines[first + i].dirty = {}
        <4> DEFINE x == after[i]
        <4> DEFINE y == after[i + 1]
        <4> HIDE DEF x, y
        <4>1. y = CopyBackCached(x, first + i) /\ Sound(x, D) /\ first + i \in Nat
          BY <3>1 DEF x, y
        <4>2. /\ \A k \in LineNumbers : y.lines[k].dirty \subseteq x.lines[k].dirty
              /\ x.error => y.error
              /\ ~y.error /\ first + i \in LineNumbers => y.lines[first + i].dirty = {}
          BY <4>1, CopyBackCachedIs
        <4>3. QED
          BY <4>2 DEF x, y
      <3>3. ASSUME ~after[i + 1].error,
                   NEW k \in LineNumbers, first <= k, k < first + (i + 1)
            PROVE  after[i + 1].lines[k].dirty = {}
        <4>1. CASE k = first + i
          BY <3>2, <3>3, <4>1
        <4>2. CASE k # first + i
          <5>1. k < first + i
            BY <1>5, <3>3, <4>2, BlocksAre
          <5>2. after[i].lines[k].dirty = {}
            BY <2>2, <3>2, <3>3, <5>1
          <5>3. QED
            BY <3>2, <4>2, <5>2
        <4>3. QED
          BY <4>1, <4>2
      <3>4. QED
        BY <1>5, <3>3
    <2> HIDE DEF T
    <2>3. 0..many \subseteq T
      BY <1>5, <2>1, <2>2, UpTo
    <2>4. QED
      BY <2>3 DEF T
  <1>10. Sound(t, D) /\ Done(many)
    BY <1>2, <1>5, <1>8, <1>9
  <1>11. ASSUME ~t.error, NEW b \in area, b \notin D PROVE b \in t.disk
    <2>1. LineOf(b) \in LineNumbers /\ b \in Line(LineOf(b))
      BY <1>1, BlocksAre
    <2>2. t.lines[LineOf(b)].dirty = {}
      BY <1>1, <1>2, <1>10, <1>11, <2>1 DEF many, first
    <2>3. LineOK(t.lines[LineOf(b)], LineOf(b), t.disk, D)
      BY <1>10, <2>1 DEF Sound, LinesOK
    <2>4. QED
      BY <1>11, <2>1, <2>2, <2>3 DEF LineOK
  <1>12. QED
    BY <1>10, <1>11

LEMMA FlushedIs ==
  ASSUME NEW s, NEW D, Sound(s, D), NEW t, t = Flushed(s)
  PROVE  /\ Sound(t, D)
         /\ ~t.error => Blocks \ D \subseteq t.disk
  <1> DEFINE many == InLru
  <1> DEFINE after[i \in 0..InLru] == IF i = 0 THEN s
                                      ELSE CopyBack(after[i - 1], s.lru[i])
  <1>1. /\ many \in Nat /\ \A i \in 1..many : s.lru[i] \in Places /\ s.lru[i] \in Nat
    BY Sizes, BlocksAre DEF Sound, States, Places
  <1>2. t = after[many]
    BY DEF Flushed
  <1> DEFINE S == {x \in States : CopiedBack(s, x, D)}
  <1>3. s \in S
    BY DEF Sound, CopiedBack
  <1>4. ASSUME NEW x \in S, NEW k \in Nat PROVE CopyBack(x, k) \in S
    <2>1. CopiedBack(s, x, D) /\ Sound(x, D)
      BY DEF CopiedBack
    <2>2. CopiedBack(x, CopyBack(x, k), D)
      BY <2>1, CopyBackIs
    <2>3. CopiedBack(s, CopyBack(x, k), D)
      BY <2>1, <2>2, CopiedBackAgain
    <2>4. QED
      BY <2>3 DEF CopiedBack, Sound
  <1> HIDE DEF many, after
  <1>5. after = [i \in 0..many |-> IF i = 0 THEN s ELSE CopyBack(after[i - 1], s.lru[i])]
    <2> DEFINE h == [p \in S \X Nat |-> IF p[2] \in 1..many THEN CopyBack(p[1], s.lru[p[2]])
                                                            ELSE s]
    <2> HIDE DEF S
    <2>1. \A x \in S, i \in 1..many : h[<<x, i>>] = CopyBack(x, s.lru[i])
      OBVIOUS
    <2>2. h \in [S \X Nat -> S]
      BY <1>1, <1>3, <1>4
    <2> HIDE DEF h
    <2>3. PICK f \in [0..many -> S] : IsLoop(f, s, h, many)
      BY <1>1, <1>3, <2>2, LoopExists
    <2>4. \A i \in 0..many : i # 0 => i \in 1..many /\ f[i - 1] \in S
      BY <1>1, <2>3
    <2>5. \A i \in 0..many : i # 0 => h[<<f[i - 1], i>>] = CopyBack(f[i - 1], s.lru[i])
      BY <2>1, <2>4, Zenon
    <2>6. f = [i \in 0..many |-> IF i = 0 THEN s ELSE CopyBack(f[i - 1], s.lru[i])]
      BY <2>3, <2>5, Zenon DEF IsLoop
    <2>7. QED
      BY <2>6 DEF after, many
  <1>6. /\ after[0] = s
        /\ \A i \in 0..(many - 1) : i + 1 \in 1..many
                                    /\ after[i + 1] = CopyBack(after[i], s.lru[i + 1])
    BY <1>1, <1>5
  <1>7. \A i \in 0..many : after[i] \in S
    <2> HIDE DEF S
    <2>1. \A i \in 0..(many - 1) : after[i] \in S => after[i + 1] \in S
      BY <1>1, <1>4, <1>6
    <2>2. QED
      BY <1>1, <1>3, <1>6, <2>1, LoopIn
  <1> DEFINE Done(i) ==
        ~after[i].error =>
          \A j \in 1..i : s.lru[j] \in LineNumbers => after[i].lines[s.lru[j]].dirty = {}
  <1>8. \A i \in 0..many : Done(i)
    <2> DEFINE T == {i \in 0..many : Done(i)}
    <2>1. 0 \in T
      BY <1>1
    <2>2. ASSUME NEW i \in 0..(many - 1), i \in T PROVE i + 1 \in T
      <3>1. /\ after[i + 1] = CopyBack(after[i], s.lru[i + 1])
            /\ Sound(after[i], D) /\ s.lru[i + 1] \in Nat
        BY <1>1, <1>6, <1>7 DEF CopiedBack
      <3>2. /\ CopiedBack(after[i], after[i + 1], D)
            /\ ~after[i + 1].error /\ s.lru[i + 1] \in LineNumbers =>
                 after[i + 1].lines[s.lru[i + 1]].dirty = {}
        BY <3>1, CopyBackIs
      <3>3. ASSUME ~after[i + 1].error, NEW j \in 1..(i + 1), s.lru[j] \in LineNumbers
            PROVE  after[i + 1].lines[s.lru[j]].dirty = {}
        <4>1. CASE j = i + 1
          BY <3>2, <3>3, <4>1
        <4>2. CASE j # i + 1
          <5>1. j \in 1..i /\ ~after[i].error
            BY <3>2, <3>3, <4>2 DEF CopiedBack
          <5>2. after[i].lines[s.lru[j]].dirty = {}
            BY <2>2, <3>3, <5>1
          <5>3. QED
            BY <3>2, <3>3, <5>2 DEF CopiedBack
        <4>3. QED
          BY <4>1, <4>2
      <3>4. QED
        BY <1>1, <3>3
    <2> HIDE DEF T
    <2>3. 0..many \subseteq T
      BY <1>1, <2>1, <2>2, UpTo
    <2>4. QED
      BY <2>3 DEF T
  <1>9. CopiedBack(s, t, D) /\ Sound(t, D) /\ Done(many)
    <2>1. many \in 0..many
      BY <1>1
    <2>2. t \in S
      BY <1>2, <1>7, <2>1
    <2> HIDE DEF Done
    <2>3. Done(many)
      BY <1>8, <2>1
    <2>4. QED
      BY <2>2, <2>3 DEF CopiedBack
  <1>10. ASSUME ~t.error, NEW b \in Blocks, b \notin D PROVE b \in t.disk
    <2>1. LineOf(b) \in LineNumbers /\ b \in Line(LineOf(b))
      BY BlocksAre
    <2>2. LineOK(t.lines[LineOf(b)], LineOf(b), t.disk, D)
      BY <1>9, <2>1 DEF Sound, LinesOK
    <2>3. t.lines[LineOf(b)].dirty = {}
      <3>1. CASE Cached(t, LineOf(b))
        <4>1. PICK j \in 1..many : s.lru[j] = LineOf(b)
          BY <1>9, <3>1 DEF Cached, CopiedBack, many
        <4>2. QED
          BY <1>2, <1>9, <1>10, <2>1, <4>1
      <3>2. CASE ~Cached(t, LineOf(b))
        BY <1>9, <2>1, <3>2 DEF Sound, CachedOK, Empty
      <3>3. QED
        BY <3>1, <3>2
    <2>4. QED
      BY <1>10, <2>1, <2>2, <2>3 DEF LineOK
  <1>11. QED
    BY <1>9, <1>10

-----------------------------------------------------------------------------
(* The operations. *)

LEMMA DoubtMore ==
  ASSUME NEW s, NEW D, Sound(s, D), NEW E, D \subseteq E
  PROVE  Sound(s, E)
  <1>1. LinesOK(s, E)
    <2>1. SUFFICES ASSUME NEW k \in LineNumbers
                   PROVE  LineOK(s.lines[k], k, s.disk, E)
      BY DEF LinesOK
    <2>2. LineOK(s.lines[k], k, s.disk, D)
      BY DEF Sound, LinesOK
    <2>3. QED
      BY <2>2, LineDoubted
  <1>2. QED
    BY <1>1 DEF Sound

\* An area that every line and the device have is not in doubt any more.
LEMMA DoubtLess ==
  ASSUME NEW s, NEW E, Sound(s, E), NEW area, area \subseteq s.disk,
         \A k \in LineNumbers : Overwritten(s.lines[k], area)
  PROVE  Sound(s, E \ area)
  <1>1. LinesOK(s, E \ area)
    <2>1. SUFFICES ASSUME NEW k \in LineNumbers
                   PROVE  LineOK(s.lines[k], k, s.disk, E \ area)
      BY DEF LinesOK
    <2>2. LineOK(s.lines[k], k, s.disk, E) /\ Overwritten(s.lines[k], area)
      BY DEF Sound, LinesOK
    <2>3. QED
      BY <2>2 DEF LineOK, Overwritten
  <1>2. QED
    BY <1>1 DEF Sound

LEMMA DirtiedIs ==
  ASSUME NEW s, NEW E, Sound(s, E), ~s.error, copyback, NEW l \in LineNumbers,
         Cached(s, l), NEW area, area \subseteq Line(l),
         NEW t, t = Dirtied(s, l, area)
  PROVE  /\ Sound(t, E \ area) /\ ~t.error /\ t.lru = s.lru
  <1>1. CASE area = {}
    <2>1. t = s /\ E \ area = E
      BY <1>1 DEF Dirtied
    <2>2. QED
      BY <2>1
  <1>2. CASE area # {}
    <2> DEFINE x == [changed |-> TRUE, dirty |-> s.lines[l].dirty \cup area,
                     valid |-> s.lines[l].valid \cup area,
                     fresh |-> s.lines[l].fresh \cup area]
    <2>1. t = [s EXCEPT !.lines[l] = x]
      BY <1>2 DEF Dirtied
    <2>2. s \in States /\ s.lines \in [LineNumbers -> Contents] /\ s.lines[l] \in Contents
          /\ area \subseteq Blocks
          /\ (readonwrite => s.lines[l].valid = Line(l))
      BY BlocksAre DEF Sound, States, CachedOK
    <2>3. t = [s EXCEPT !.lines = [s.lines EXCEPT ![l] = x]]
      <3> HIDE DEF x
      <3>1. QED
        BY <2>1, <2>2 DEF States
    <2>4. /\ x \in Contents /\ x.dirty = s.lines[l].dirty \cup area
          /\ x.valid = s.lines[l].valid \cup area
          /\ x.fresh = s.lines[l].fresh \cup area /\ x.changed = TRUE
      BY <2>2 DEF Contents
    <2> HIDE DEF x
    <2>5. /\ t \in States /\ t.lru = s.lru /\ t.disk = s.disk /\ t.error = s.error
          /\ t.lines = [s.lines EXCEPT ![l] = x]
      BY <2>2, <2>3, <2>4 DEF States
    <2>6. t.lines[l] = x /\ \A k \in LineNumbers \ {l} : t.lines[k] = s.lines[k]
      BY <2>2, <2>5
    <2>7. LinesOK(t, E \ area)
      <3>1. SUFFICES ASSUME NEW k \in LineNumbers
                     PROVE  LineOK(t.lines[k], k, t.disk, E \ area)
        BY DEF LinesOK
      <3>2. LineOK(s.lines[k], k, s.disk, E)
        BY DEF Sound, LinesOK
      <3>3. CASE k = l
        <4>1. x.valid \subseteq Line(l) /\ x.dirty \subseteq x.valid
              /\ (x.dirty # {} => x.changed /\ copyback)
          BY <2>4, <3>2, <3>3 DEF LineOK
        <4>2. \A b \in x.valid \ (E \ area) : b \in x.fresh
          BY <2>4, <3>2, <3>3 DEF LineOK
        <4>3. \A b \in Line(l) \ (E \ area) : b \in s.disk \cup x.dirty
          BY <2>4, <3>2, <3>3 DEF LineOK
        <4>4. QED
          BY <2>5, <2>6, <3>3, <4>1, <4>2, <4>3 DEF LineOK
      <3>4. CASE k # l
        <4>1. t.lines[k] = s.lines[k] /\ t.disk = s.disk
          BY <2>5, <2>6, <3>4
        <4>2. \A b \in Line(k) : b \notin area
          BY <3>4, BlocksAre
        <4>3. QED
          BY <3>2, <4>1, <4>2 DEF LineOK
      <3>5. QED
        BY <3>3, <3>4
    <2>8. CachedOK(t)
      <3>1. SUFFICES ASSUME NEW k \in LineNumbers
                     PROVE /\ ~Cached(t, k) => t.lines[k] = Empty
                           /\ readonwrite /\ Cached(t, k) => t.lines[k].valid = Line(k)
        BY DEF CachedOK
      <3>2. Cached(t, k) <=> Cached(s, k)
        BY <2>5 DEF Cached
      <3>3. /\ ~Cached(s, k) => s.lines[k] = Empty
            /\ readonwrite /\ Cached(s, k) => s.lines[k].valid = Line(k)
        BY DEF Sound, CachedOK
      <3>4. CASE k = l
        <4>1. Cached(t, k) /\ t.lines[k] = x
          BY <2>6, <3>2, <3>4
        <4>2. readonwrite => x.valid = Line(l)
          BY <2>2, <2>4
        <4>3. QED
          BY <3>4, <4>1, <4>2
      <3>5. CASE k # l
        <4>1. t.lines[k] = s.lines[k]
          BY <2>6, <3>5
        <4>2. QED
          BY <3>2, <3>3, <4>1
      <3>6. QED
        BY <3>4, <3>5
    <2>9. QED
      BY <2>5, <2>7, <2>8 DEF Sound
  <1>3. QED
    BY <1>1, <1>2

LEMMA GetBufferIs ==
  ASSUME NEW s, NEW D, Sound(s, D), NEW t, t = GetBuffer(s)
  PROVE  /\ Sound(t, D) /\ s.disk \ D \subseteq t.disk
         /\ ~t.error => ~s.error
         /\ \A k \in LineNumbers :
              s.lines[k].dirty = {} => t.lines[k] \in {s.lines[k], Empty}
  <1> DEFINE c == LruLine(s)
  <1>1. /\ Sound(c, D) /\ s.disk \ D \subseteq c.disk
        /\ \A k \in LineNumbers :
             s.lines[k].dirty = {} => c.lines[k] \in {s.lines[k], Empty}
        /\ ~c.error => c.lru[InLru] = Unused
    BY LruLineIs
  <1>2. ~c.error => ~s.error
    BY DEF LruLine
  <1> DEFINE order == [i \in 1..InLru |-> IF i = 1 THEN Unused ELSE c.lru[i - 1]]
  <1>3. t = IF c.error THEN c ELSE [c EXCEPT !.lru = order]
    BY DEF GetBuffer
  <1> HIDE DEF c
  <1>4. CASE c.error
    BY <1>1, <1>3, <1>4
  <1>5. CASE ~c.error
    <2>1. /\ c \in States /\ c.lru \in [1..InLru -> Places] /\ LruOK(c.lru)
          /\ c.lru[InLru] = Unused /\ InLru \in Nat /\ InLru >= 3 /\ Unused \in Places
      BY <1>1, <1>5, Sizes DEF Sound, States, Places
    <2>2. \A i \in 1..InLru : i # 1 => i - 1 \in 1..InLru
      BY <2>1
    <2>3. order \in [1..InLru -> Places]
      BY <2>1, <2>2
    <2>4. /\ order[1] = Unused
          /\ \A i \in 1..InLru : i # 1 => order[i] = c.lru[i - 1]
      BY <2>1
    <2> HIDE DEF order
    <2>5. /\ t \in States /\ t.lru = order /\ t.lines = c.lines /\ t.disk = c.disk
          /\ t.error = c.error
      BY <1>3, <1>5, <2>1, <2>3 DEF States
    <2>6. ASSUME NEW k PROVE Cached(t, k) <=> Cached(c, k)
      <3>1. ASSUME Cached(t, k) PROVE Cached(c, k)
        <4>1. PICK i \in 1..InLru : order[i] = k /\ k # Unused
          BY <2>5, <3>1 DEF Cached
        <4>2. c.lru[i - 1] = k /\ i - 1 \in 1..InLru
          BY <2>2, <2>4, <4>1
        <4>3. QED
          BY <4>1, <4>2 DEF Cached
      <3>2. ASSUME Cached(c, k) PROVE Cached(t, k)
        <4>1. PICK i \in 1..InLru : c.lru[i] = k /\ k # Unused
          BY <3>2 DEF Cached
        <4>2. i # InLru
          BY <2>1, <4>1
        <4>3. i + 1 \in 1..InLru /\ i + 1 # 1 /\ (i + 1) - 1 = i
          BY <2>1, <4>2
        <4>4. order[i + 1] = k
          BY <2>4, <4>1, <4>3
        <4>5. QED
          BY <2>5, <4>1, <4>3, <4>4 DEF Cached
      <3>3. QED
        BY <3>1, <3>2
    <2>7. LruOK(order)
      <3>1. SUFFICES ASSUME NEW i \in 1..InLru, NEW j \in 1..InLru,
                            order[i] = order[j], order[i] # Unused
                     PROVE  i = j
        BY DEF LruOK
      <3>2. /\ c.lru[i - 1] = c.lru[j - 1] /\ c.lru[i - 1] # Unused
            /\ i - 1 \in 1..InLru /\ j - 1 \in 1..InLru
        BY <2>2, <2>4, <3>1
      <3>3. i - 1 = j - 1
        BY <2>1, <3>2 DEF LruOK
      <3>4. QED
        BY <3>3
    <2>8. LinesOK(t, D) /\ CachedOK(t)
      BY <1>1, <2>5, <2>6 DEF Sound, LinesOK, CachedOK
    <2>9. QED
      BY <1>1, <1>2, <1>5, <2>5, <2>7, <2>8 DEF Sound
  <1>6. QED
    BY <1>4, <1>5

\* An area no longer than a line is in one or two lines.
LEMMA SmallArea ==
  ASSUME NEW a \in Nat, NEW n \in Nat \ {0}, a + n <= Total, NEW area,
         area = a..(a + n - 1), n <= LineSize
  PROVE  /\ First(area) \in LineNumbers /\ LineOf(Highest(area)) \in LineNumbers
         /\ area \cap Line(First(area)) # {}
         /\ area \ Line(First(area)) \subseteq Line(LineOf(Highest(area)))
  <1>1. /\ area \subseteq Blocks /\ First(area) = LineOf(a)
        /\ Highest(area) = a + n - 1
    BY AreaIs DEF IsArea
  <1>2. /\ a \in area /\ a + n - 1 \in area
        /\ \A b \in area : b \in Nat /\ a <= b /\ b <= a + n - 1 /\ b < a + LineSize
    BY Sizes
  <1>3. a \in Line(LineOf(a)) /\ LineOf(a) \in LineNumbers /\ LineOf(a + n - 1) \in LineNumbers
    BY <1>1, <1>2, BlocksAre
  <1>4. ASSUME NEW b \in area, b \notin Line(LineOf(a)) PROVE b \in Line(LineOf(a + n - 1))
    <2>1. LineOf(b) = LineOf(a) \/ LineOf(b) = LineOf(a) + 1
      BY <1>2, NextLine
    <2>2. LineOf(b) # LineOf(a)
      BY <1>1, <1>4 DEF Line
    <2>3. a + n - 1 \in Nat /\ LineOf(b) <= LineOf(a + n - 1)
      BY <1>2, LineOfMonotone
    <2>4. LineOf(a + n - 1) = LineOf(a) \/ LineOf(a + n - 1) = LineOf(a) + 1
      BY <1>2, <2>3, NextLine
    <2>5. LineOf(a) \in Nat /\ LineOf(b) \in Nat
      BY <1>2, Division
    <2>6. LineOf(b) = LineOf(a + n - 1)
      BY <2>1, <2>2, <2>3, <2>4, <2>5
    <2>7. QED
      BY <1>1, <2>6 DEF Line
  <1>5. QED
    BY <1>1, <1>2, <1>3, <1>4

\* Where an operation begins.
LEMMA BeginIs ==
  ASSUME Inv, NEW left \in Lefts
  PROVE  Sound(Begin(left), doubtful) /\ ~Begin(left).error
         /\ Begin(left).lines = lines /\ doubtful \subseteq Blocks
  <1>1. left \in Nat /\ Sound(Begin(0), doubtful) /\ doubtful \subseteq Blocks
    BY CacheAssumption DEF Inv, TypeOK
  <1>2. Begin(0) \in States
    BY <1>1 DEF Sound
  <1>3. Begin(left) \in States
    BY <1>1, <1>2 DEF Begin, States
  <1>4. /\ Begin(left).lru = Begin(0).lru /\ Begin(left).lines = Begin(0).lines
        /\ Begin(left).disk = Begin(0).disk
        /\ Begin(left).lines = lines /\ ~Begin(left).error
    BY DEF Begin
  <1>5. Sound(Begin(left), doubtful)
    BY <1>1, <1>3, <1>4, SameLines
  <1>6. QED
    BY <1>1, <1>4, <1>5

\* Where it ends.
LEMMA ReturnIs ==
  ASSUME Inv, NEW s, NEW D, Sound(s, D), D \subseteq Blocks, Return(s),
         doubtful' = D, misread' = FALSE
  PROVE  Inv'
  <1> DEFINE t == [lru |-> s.lru, lines |-> s.lines, disk |-> s.disk,
                   left |-> 0, error |-> FALSE]
  <1>1. t \in States /\ t.lru = s.lru /\ t.lines = s.lines /\ t.disk = s.disk
    BY DEF Sound, States
  <1>2. Begin(0)' = t
    BY DEF Return, Begin
  <1> HIDE DEF t
  <1>3. Sound(t, D)
    BY <1>1, SameLines
  <1>4. copyback' = copyback /\ readonwrite' = readonwrite
    BY DEF Return
  <1>5. (InLru = InLru') /\ (\A k : Cached(t, k) <=> Cached(t, k)')
    BY <1>4 DEF InLru, Cached
  <1>6. Sound(Begin(0), doubtful)'
    BY <1>2, <1>3, <1>4, <1>5 DEF Sound, States, LruOK, LinesOK, LineOK, CachedOK
  <1>7. QED
    BY <1>4, <1>6 DEF Inv, TypeOK, ReadsReturnLatest

-----------------------------------------------------------------------------
(* The actions. *)

\* What is copied from a line that is valid there is the latest.
LEMMA CopiedIs ==
  ASSUME NEW s, NEW D, Sound(s, D), NEW l \in LineNumbers, NEW area,
         area \subseteq Line(l), area \subseteq s.lines[l].valid
  PROVE  area \ D \subseteq Copied(s, area)
  <1>1. LineOK(s.lines[l], l, s.disk, D)
    BY DEF Sound, LinesOK
  <1>2. \A b \in area : LineOf(b) = l
    BY BlocksAre
  <1>3. QED
    BY <1>1, <1>2 DEF LineOK, Copied

LEMMA ReadThroughCacheStep ==
  ASSUME Inv, NEW left \in Lefts,
         NEW a \in Nat, NEW n \in Nat \ {0}, a + n <= Total, NEW area,
         area = a..(a + n - 1), ReadThroughCache(area, left)
  PROVE  Inv'
  <1> DEFINE first == First(area)
  <1> DEFINE last == LineOf(Highest(area))
  <1> DEFINE part == area \cap Line(first)
  <1> DEFINE rest == area \ part
  <1> DEFINE p == ReadPart(Begin(left), part)
  <1> DEFINE s == ReadPart(p, rest)
  <1>1. n <= LineSize
    <2>1. Cardinality(area) = n /\ 2 * Cardinality(area) <= LineSize
      BY AreaIs DEF ReadThroughCache
    <2>2. QED
      BY <2>1, Sizes
  <1>2. first \in LineNumbers /\ last \in LineNumbers /\ part # {}
        /\ part \subseteq Line(first) /\ rest \subseteq Line(last)
    BY <1>1, SmallArea
  <1>3. /\ Return(s) /\ doubtful' = doubtful
        /\ misread' = (misread \/ (~s.error /\
                        ~(area \subseteq Copied(p, part) \cup Copied(s, rest) \cup doubtful)))
    BY DEF ReadThroughCache, Returned
  <1>4. part \cup rest = area
    OBVIOUS
  <1> HIDE DEF first, last, part, rest
  <1>5. Sound(Begin(left), doubtful) /\ doubtful \subseteq Blocks
    BY BeginIs
  <1>6. /\ Sound(p, doubtful)
        /\ ~p.error => part \subseteq p.lines[first].valid
    BY <1>2, <1>5, ReadPartIs
  <1> HIDE DEF p
  <1>7. /\ Sound(s, doubtful)
        /\ p.error => s.error
        /\ ~s.error /\ rest # {} => rest \subseteq s.lines[last].valid
    BY <1>2, <1>6, ReadPartIs
  <1> HIDE DEF s
  <1>8. ASSUME ~s.error
        PROVE  area \subseteq Copied(p, part) \cup Copied(s, rest) \cup doubtful
    <2>1. ~p.error
      BY <1>7, <1>8
    <2>2. part \ doubtful \subseteq Copied(p, part)
      BY <1>2, <1>6, <2>1, CopiedIs
    <2>3. rest \ doubtful \subseteq Copied(s, rest)
      <3>1. CASE rest = {}
        BY <3>1
      <3>2. CASE rest # {}
        <4>1. rest \subseteq s.lines[last].valid
          BY <1>7, <1>8, <3>2
        <4>2. QED
          BY <1>2, <1>7, <4>1, CopiedIs
      <3>3. QED
        BY <3>1, <3>2
    <2>4. QED
      BY <1>4, <2>2, <2>3
  <1>9. misread' = FALSE
    <2>1. misread = FALSE
      BY DEF Inv, TypeOK, ReadsReturnLatest
    <2>2. QED
      BY <1>3, <1>8, <2>1
  <1>10. QED
    BY <1>3, <1>5, <1>7, <1>9, ReturnIs

LEMMA ReadDirectlyStep ==
  ASSUME Inv, NEW left \in Lefts, NEW buffered \in BOOLEAN,
         NEW area, IsArea(area), ReadDirectly(area, left, buffered)
  PROVE  Inv'
  <1> DEFINE c == CopyBackOverlapping(Begin(left), area)
  <1> DEFINE u == IF buffered THEN GetBuffer(c) ELSE c
  <1> DEFINE s == ReadDevice(u, area)
  <1>1. /\ Return(s) /\ doubtful' = doubtful
        /\ misread' = (misread \/ (~s.error /\ ~(area \subseteq s.disk \cup doubtful)))
    BY DEF ReadDirectly, Returned
  <1>2. /\ Sound(Begin(left), doubtful) /\ ~Begin(left).error
        /\ doubtful \subseteq Blocks
    BY BeginIs
  <1>3. Sound(c, doubtful) /\ (~c.error => area \ doubtful \subseteq c.disk)
    BY <1>2, CopyBackOverlappingIs
  <1> HIDE DEF c
  <1>4. /\ Sound(u, doubtful)
        /\ ~u.error => area \ doubtful \subseteq u.disk
    <2>1. CASE buffered
      <3>1. u = GetBuffer(c)
        BY <2>1
      <3> HIDE DEF u
      <3>2. /\ Sound(u, doubtful) /\ c.disk \ doubtful \subseteq u.disk
            /\ ~u.error => ~c.error
        BY <1>3, <3>1, GetBufferIs
      <3>3. QED
        BY <1>3, <3>2
    <2>2. CASE ~buffered
      BY <1>3, <2>2
    <2>3. QED
      BY <2>1, <2>2
  <1> HIDE DEF u
  <1>5. u \in States /\ area \subseteq Blocks
    BY <1>4 DEF Sound, IsArea
  <1>6. /\ s \in States /\ s.lru = u.lru /\ s.lines = u.lines /\ s.disk = u.disk
        /\ u.error => s = u
    BY <1>5, ReadDeviceIs
  <1> HIDE DEF s
  <1>7. Sound(s, doubtful)
    BY <1>4, <1>6, SameLines
  <1>8. misread' = FALSE
    <2>1. misread = FALSE
      BY DEF Inv, TypeOK, ReadsReturnLatest
    <2>2. ~s.error => area \subseteq s.disk \cup doubtful
      BY <1>4, <1>6
    <2>3. QED
      BY <1>1, <2>1, <2>2
  <1>9. QED
    BY <1>1, <1>2, <1>7, <1>8, ReturnIs

LEMMA WriteIntoCacheStep ==
  ASSUME Inv, NEW left \in Lefts,
         NEW a \in Nat, NEW n \in Nat \ {0}, a + n <= Total, NEW area,
         area = a..(a + n - 1), WriteIntoCache(area, left)
  PROVE  Inv'
  <1> DEFINE first == First(area)
  <1> DEFINE last == LineOf(Highest(area))
  <1> DEFINE f == ReadOnWriteIntoCache(Begin(left), first)
  <1> DEFINE in == ReadOnWriteIntoCache(f, last)
  <1> DEFINE w == WriteThroughOverlapping(in, area)
  <1> DEFINE part == area \cap Line(first)
  <1> DEFINE rest == area \ Line(first)
  <1> DEFINE d == Dirtied(w, first, part)
  <1> DEFINE s == Dirtied(d, last, rest)
  <1>1. n <= LineSize
    <2>1. Cardinality(area) = n /\ Cardinality(area) <= SmallWrite
      BY AreaIs DEF WriteIntoCache
    <2>2. SmallWrite <= LineSize /\ SmallWrite \in Nat
      BY Sizes DEF SmallWrite
    <2>3. QED
      BY <2>1, <2>2, Sizes
  <1>2. first \in LineNumbers /\ last \in LineNumbers
        /\ part \subseteq Line(first) /\ rest \subseteq Line(last)
    BY <1>1, SmallArea
  <1>3. /\ Return(s) /\ misread' = misread /\ copyback
        /\ doubtful' = IF s.error THEN doubtful ELSE doubtful \ area
    BY DEF WriteIntoCache
  <1>4. IsArea(area)
    BY AreaIs
  <1>5. part \cup rest = area
    OBVIOUS
  <1> HIDE DEF first, last, part, rest
  <1>6. misread' = FALSE
    BY <1>3 DEF Inv, TypeOK, ReadsReturnLatest
  <1>7. Sound(Begin(left), doubtful) /\ doubtful \subseteq Blocks
    BY BeginIs
  <1>8. BroughtIn(Begin(left), f, first, doubtful)
    BY <1>2, <1>7, ReadOnWriteIntoCacheIs
  <1> HIDE DEF f
  <1>9. Sound(f, doubtful)
    BY <1>8 DEF BroughtIn
  <1>10. BroughtIn(f, in, last, doubtful)
    BY <1>2, <1>9, ReadOnWriteIntoCacheIs
  <1> HIDE DEF in
  <1>11. CASE in.error
    <2>1. w = in
      BY <1>11 DEF WriteThroughOverlapping
    <2> HIDE DEF w
    <2>2. d = in
      BY <1>11, <2>1 DEF Dirtied
    <2> HIDE DEF d
    <2>3. s = in
      BY <1>11, <2>2 DEF Dirtied
    <2> HIDE DEF s
    <2>4. Sound(s, doubtful) /\ doubtful' = doubtful
      BY <1>3, <1>10, <1>11, <2>3 DEF BroughtIn
    <2>5. QED
      BY <1>3, <1>6, <1>7, <2>4, ReturnIs
  <1>12. CASE ~in.error
    <2>1. ~f.error /\ Sound(in, doubtful) /\ Cached(in, first) /\ Cached(in, last)
      BY <1>8, <1>10, <1>12 DEF BroughtIn
    <2>2. WrittenThrough(in, w, doubtful, area)
      BY <1>4, <1>12, <2>1, WriteThroughOverlappingIs
    <2> HIDE DEF w
    <2>3. /\ Sound(w, doubtful \cup area) /\ ~w.error
          /\ Cached(w, first) /\ Cached(w, last)
      BY <2>1, <2>2 DEF WrittenThrough
    <2>4. Sound(d, (doubtful \cup area) \ part) /\ ~d.error /\ d.lru = w.lru
      BY <1>2, <1>3, <2>3, DirtiedIs
    <2> HIDE DEF d
    <2>5. Cached(d, last)
      BY <2>3, <2>4 DEF Cached
    <2>6. Sound(s, ((doubtful \cup area) \ part) \ rest) /\ ~s.error
      BY <1>2, <1>3, <2>4, <2>5, DirtiedIs
    <2> HIDE DEF s
    <2>7. ((doubtful \cup area) \ part) \ rest = doubtful \ area
      BY <1>5
    <2>8. Sound(s, doubtful \ area)
      BY <2>6, <2>7
    <2>9. doubtful' = doubtful \ area /\ doubtful \ area \subseteq Blocks
      BY <1>3, <1>7, <2>6
    <2>10. QED
      BY <1>3, <1>6, <2>8, <2>9, ReturnIs
  <1>13. QED
    BY <1>11, <1>12

\* The device gets what the lines have got.
LEMMA WrittenToDevice ==
  ASSUME NEW s, NEW D, NEW area, area \subseteq Blocks, Sound(s, D \cup area),
         \A k \in LineNumbers : Overwritten(s.lines[k], area),
         NEW t, t = WriteDevice(s, area, area)
  PROVE  Sound(t, IF t.error THEN D \cup area ELSE D \ area)
  <1>1. s \in States
    BY DEF Sound
  <1>2. /\ t \in States
        /\ t.lru = s.lru /\ t.lines = s.lines
        /\ ~t.error => t.disk = (s.disk \ area) \cup (area \cap area)
        /\ \E done \in SUBSET area : t.disk = (s.disk \ done) \cup (area \cap done)
    BY <1>1, WriteDeviceIs
  <1>3. s.disk \subseteq t.disk
    BY <1>2
  <1>4. Sound(t, D \cup area)
    BY <1>2, <1>3, SameLines
  <1>5. CASE t.error
    BY <1>4, <1>5
  <1>6. CASE ~t.error
    <2>1. area \subseteq t.disk
      BY <1>2, <1>6
    <2>2. \A k \in LineNumbers : Overwritten(t.lines[k], area)
      BY <1>2
    <2>3. Sound(t, (D \cup area) \ area)
      BY <1>4, <2>1, <2>2, DoubtLess
    <2>4. (D \cup area) \ area = D \ area
      OBVIOUS
    <2>5. QED
      BY <1>6, <2>3, <2>4
  <1>7. QED
    BY <1>5, <1>6

LEMMA WriteDirectlyStep ==
  ASSUME ~OverDirty, Inv, NEW left \in Lefts, NEW buffered \in BOOLEAN,
         NEW area, IsArea(area), WriteDirectly(area, left, buffered)
  PROVE  Inv'
  <1> DEFINE o == WriteThroughOverlapping(Begin(left), area)
  <1> DEFINE u == IF buffered THEN GetBuffer(o) ELSE o
  <1> DEFINE w == WriteDevice(u, area, area)
  <1> DEFINE E == doubtful \cup area
  <1>1. /\ Return(w) /\ misread' = misread
        /\ buffered => Harmless(area)
        /\ doubtful' = IF w.error THEN doubtful \cup area ELSE doubtful \ area
    BY DEF WriteDirectly
  <1>2. /\ Sound(Begin(left), doubtful) /\ ~Begin(left).error
        /\ Begin(left).lines = lines /\ doubtful \subseteq Blocks
        /\ area \subseteq Blocks
    BY BeginIs DEF IsArea
  <1>3. WrittenThrough(Begin(left), o, doubtful, area)
    BY <1>2, WriteThroughOverlappingIs
  <1> HIDE DEF o
  <1>4. Sound(o, E) /\ \A k \in LineNumbers : o.lines[k].dirty \subseteq lines[k].dirty
                                              /\ Overwritten(o.lines[k], area)
    BY <1>2, <1>3 DEF WrittenThrough
  <1>5. Sound(u, E) /\ \A k \in LineNumbers : Overwritten(u.lines[k], area)
    <2>1. CASE ~buffered
      BY <1>4, <2>1
    <2>2. CASE buffered
      <3>1. u = GetBuffer(o)
        BY <2>2
      <3> HIDE DEF u, E
      <3>2. /\ Sound(u, E)
            /\ \A k \in LineNumbers :
                 o.lines[k].dirty = {} => u.lines[k] \in {o.lines[k], Empty}
        BY <1>4, <3>1, GetBufferIs
      <3>3. ASSUME NEW k \in LineNumbers PROVE Overwritten(u.lines[k], area)
        <4>1. CASE Line(k) \cap area # {}
          <5>1. lines[k].dirty \subseteq area
            BY <1>1, <2>2, <4>1 DEF Harmless
          <5>2. o.lines[k].dirty = {}
            BY <1>4, <5>1 DEF Overwritten
          <5>3. u.lines[k] = o.lines[k] \/ u.lines[k] = Empty
            BY <3>2, <5>2
          <5>4. Overwritten(Empty, area)
            BY DEF Overwritten, Empty
          <5>5. QED
            BY <1>4, <5>3, <5>4
        <4>2. CASE Line(k) \cap area = {}
          <5>1. LineOK(u.lines[k], k, u.disk, E)
            BY <3>2 DEF Sound, LinesOK
          <5>2. QED
            BY <4>2, <5>1 DEF LineOK, Overwritten
        <4>3. QED
          BY <4>1, <4>2
      <3>4. QED
        BY <3>2, <3>3
    <2>3. QED
      BY <2>1, <2>2
  <1> HIDE DEF u
  <1>6. Sound(w, IF w.error THEN doubtful \cup area ELSE doubtful \ area)
    BY <1>2, <1>5, WrittenToDevice
  <1> HIDE DEF w
  <1>7. Sound(w, doubtful') /\ doubtful' \subseteq Blocks
    BY <1>1, <1>2, <1>6
  <1>8. misread' = FALSE
    BY <1>1 DEF Inv, TypeOK, ReadsReturnLatest
  <1>9. QED
    BY <1>1, <1>7, <1>8, ReturnIs

LEMMA WriteBytesStep ==
  ASSUME Inv, NEW left \in Lefts, NEW b \in Blocks, IsArea({b}),
         WriteBytes(b, left)
  PROVE  Inv'
  <1> DEFINE v == ReadPart(Begin(left), {b})
  <1> DEFINE s == IF copyback THEN Dirtied(Aged(v, {b}), LineOf(b), {b})
                  ELSE WriteDevice(WriteThroughOverlapping(v, {b}), {b}, {b})
  <1> DEFINE l == LineOf(b)
  <1>1. /\ Return(s) /\ misread' = misread
        /\ doubtful' = IF s.error /\ ~v.error THEN doubtful \cup {b} ELSE doubtful
    BY DEF WriteBytes
  <1>2. misread' = FALSE
    BY <1>1 DEF Inv, TypeOK, ReadsReturnLatest
  <1>3. Sound(Begin(left), doubtful) /\ doubtful \subseteq Blocks
    BY BeginIs
  <1>4. l \in LineNumbers /\ {b} \subseteq Line(l) /\ {b} \in SUBSET Blocks
    BY BlocksAre
  <1> HIDE DEF l
  <1>5. Sound(v, doubtful) /\ (~v.error => Cached(v, l))
    BY <1>3, <1>4, ReadPartIs
  <1> HIDE DEF v
  <1>6. SUFFICES \E D \in SUBSET Blocks : Sound(s, D) /\ D \subseteq doubtful'
                                          /\ doubtful' \subseteq Blocks
    <2>1. PICK D \in SUBSET Blocks : Sound(s, D) /\ D \subseteq doubtful'
                                     /\ doubtful' \subseteq Blocks
      BY <1>6
    <2> HIDE DEF s
    <2>2. Sound(s, doubtful')
      BY <2>1, DoubtMore
    <2>3. QED
      BY <1>1, <1>2, <2>1, <2>2, ReturnIs
  <1>7. CASE v.error
    <2>1. s = v
      <3>1. CASE copyback
        <4>1. Aged(v, {b}) = v
          BY <1>7 DEF Aged
        <4>2. QED
          BY <1>7, <3>1, <4>1 DEF Dirtied
      <3>2. CASE ~copyback
        <4>1. WriteThroughOverlapping(v, {b}) = v
          BY <1>7 DEF WriteThroughOverlapping
        <4>2. QED
          BY <1>7, <3>2, <4>1 DEF WriteDevice
      <3>3. QED
        BY <3>1, <3>2
    <2> HIDE DEF s
    <2>2. QED
      BY <1>1, <1>3, <1>5, <1>7, <2>1
  <1>8. CASE ~v.error /\ copyback
    <2> DEFINE o == Aged(v, {b})
    <2>1. Sound(o, doubtful \cup {b}) /\ o.lru = v.lru /\ o.error = v.error
      BY <1>4, <1>5, <1>8, AgedIs
    <2>2. s = Dirtied(o, l, {b})
      BY <1>8 DEF l
    <2> HIDE DEF o, s
    <2>3. Cached(o, l)
      BY <1>5, <1>8, <2>1 DEF Cached
    <2>4. Sound(s, (doubtful \cup {b}) \ {b}) /\ ~s.error
      BY <1>4, <1>8, <2>1, <2>2, <2>3, DirtiedIs
    <2>5. (doubtful \cup {b}) \ {b} \in SUBSET Blocks
          /\ (doubtful \cup {b}) \ {b} \subseteq doubtful
      BY <1>3
    <2>6. doubtful' = doubtful
      BY <1>1, <2>4
    <2>7. QED
      BY <1>3, <2>4, <2>5, <2>6
  <1>9. CASE ~v.error /\ ~copyback
    <2> DEFINE o == WriteThroughOverlapping(v, {b})
    <2>1. WrittenThrough(v, o, doubtful, {b})
      BY <1>5, <1>9, WriteThroughOverlappingIs
    <2>2. s = WriteDevice(o, {b}, {b})
      BY <1>9
    <2> HIDE DEF o, s
    <2>3. Sound(o, doubtful \cup {b})
          /\ \A k \in LineNumbers : Overwritten(o.lines[k], {b})
      BY <2>1 DEF WrittenThrough
    <2>4. Sound(s, IF s.error THEN doubtful \cup {b} ELSE doubtful \ {b})
      BY <1>4, <2>2, <2>3, WrittenToDevice
    <2>5. CASE s.error
      <3>1. doubtful' = doubtful \cup {b} /\ Sound(s, doubtful \cup {b})
        BY <1>1, <1>9, <2>4, <2>5
      <3>2. doubtful \cup {b} \in SUBSET Blocks
        BY <1>3
      <3>3. QED
        BY <3>1, <3>2
    <2>6. CASE ~s.error
      <3>1. doubtful' = doubtful /\ Sound(s, doubtful \ {b})
        BY <1>1, <2>4, <2>6
      <3>2. doubtful \ {b} \in SUBSET Blocks
        BY <1>3
      <3>3. QED
        BY <1>3, <3>1, <3>2
    <2>7. QED
      BY <2>5, <2>6
  <1>10. QED
    BY <1>7, <1>8, <1>9

LEMMA StateIs ==
  ASSUME NEW order \in [1..InLru -> Places],
         NEW contents \in [LineNumbers -> Contents],
         NEW device \in SUBSET Blocks, NEW n \in Int, NEW e \in BOOLEAN
  PROVE  [lru |-> order, lines |-> contents, disk |-> device,
          left |-> n, error |-> e] \in States
  BY DEF States

\* Nothing in the cache, and all but what is in doubt on the device.
EmptyCacheSound ==
  /\ copyback \in BOOLEAN /\ readonwrite \in BOOLEAN
  /\ lru = NoLines(InLru) /\ lines = NoContents
  /\ disk \subseteq Blocks /\ Blocks \ doubtful \subseteq disk
  => Sound(Begin(0), doubtful)

LEMMA EmptyCacheIs == EmptyCacheSound
  <1>1. SUFFICES ASSUME copyback \in BOOLEAN, readonwrite \in BOOLEAN,
                        lru = NoLines(InLru), lines = NoContents,
                        disk \subseteq Blocks, Blocks \ doubtful \subseteq disk
                 PROVE  Sound(Begin(0), doubtful)
    BY DEF EmptyCacheSound
  <1> DEFINE s == Begin(0)
  <1>2. s = [lru |-> lru, lines |-> lines, disk |-> disk, left |-> 0, error |-> FALSE]
    BY DEF Begin
  <1>3. s.lru = lru /\ s.lines = lines /\ s.disk = disk
    BY <1>2
  <1>4. lru \in [1..InLru -> Places] /\ \A i \in 1..InLru : lru[i] = Unused
    BY <1>1 DEF NoLines, Places
  <1>5. lines \in [LineNumbers -> Contents] /\ \A k \in LineNumbers : lines[k] = Empty
    BY <1>1 DEF NoContents, Contents, Empty
  <1>6. s \in States
    <2>1. lru \in [1..InLru -> Places] /\ lines \in [LineNumbers -> Contents]
      BY <1>4, <1>5
    <2>2. disk \in SUBSET Blocks /\ 0 \in Int /\ FALSE \in BOOLEAN
      BY <1>1
    <2>3. [lru |-> lru, lines |-> lines, disk |-> disk, left |-> 0, error |-> FALSE]
            \in States
      BY <2>1, <2>2, StateIs
    <2>4. QED
      BY <1>2, <2>3
  <1> HIDE DEF s
  <1>7. LruOK(s.lru)
    BY <1>3, <1>4 DEF LruOK
  <1>8. LinesOK(s, doubtful)
    <2>1. SUFFICES ASSUME NEW k \in LineNumbers
                   PROVE  LineOK(s.lines[k], k, s.disk, doubtful)
      BY DEF LinesOK
    <2>2. Line(k) \ doubtful \subseteq disk
      BY <1>1, BlocksAre
    <2>3. QED
      BY <1>3, <1>5, <2>2, EmptyOK
  <1>9. CachedOK(s)
    BY <1>3, <1>4, <1>5 DEF CachedOK, Cached
  <1>10. QED
    BY <1>6, <1>7, <1>8, <1>9 DEF Sound, s

LEMMA FlushStep ==
  ASSUME Inv, NEW left \in Lefts, FlushIOCache(left)
  PROVE  Inv'
  <1> DEFINE s == Flushed(Begin(left))
  <1>1. Return(s) /\ doubtful' = doubtful /\ misread' = misread
    BY DEF FlushIOCache
  <1>2. Sound(Begin(left), doubtful) /\ doubtful \subseteq Blocks
    BY BeginIs
  <1>3. Sound(s, doubtful)
    BY <1>2, FlushedIs
  <1>4. misread' = FALSE
    BY <1>1 DEF Inv, TypeOK, ReadsReturnLatest
  <1> HIDE DEF s
  <1>5. QED
    BY <1>1, <1>2, <1>3, <1>4, ReturnIs

LEMMA InvalidateStep ==
  ASSUME Inv, Invalidate
  PROVE  Inv'
  <1>1. EmptyCacheSound'
    BY EmptyCacheIs, PTL
  <1>2. /\ copyback' = copyback /\ readonwrite' = readonwrite /\ disk' = disk
        /\ doubtful' = doubtful /\ misread' = misread
        /\ lru' = NoLines(InLru) /\ lines' = NoContents
        /\ \A l \in LineNumbers : lines[l].dirty = {}
    BY DEF Invalidate
  <1>3. Sound(Begin(0), doubtful)
    BY DEF Inv
  <1>4. disk \subseteq Blocks /\ Begin(0).lines = lines /\ Begin(0).disk = disk
    BY <1>3 DEF Sound, States, Begin
  <1>5. Blocks \ doubtful \subseteq disk
    <2>1. SUFFICES ASSUME NEW b \in Blocks, b \notin doubtful PROVE b \in disk
      OBVIOUS
    <2>2. LineOf(b) \in LineNumbers /\ b \in Line(LineOf(b))
      BY BlocksAre
    <2>3. LineOK(lines[LineOf(b)], LineOf(b), disk, doubtful)
      BY <1>3, <1>4, <2>2 DEF Sound, LinesOK
    <2>4. QED
      BY <1>2, <2>1, <2>2, <2>3 DEF LineOK
  <1>6. InLru' = InLru
    BY <1>2 DEF InLru
  <1>7. Sound(Begin(0), doubtful)'
    BY <1>1, <1>2, <1>4, <1>5, <1>6 DEF EmptyCacheSound, Inv, TypeOK
  <1>8. QED
    BY <1>2, <1>7 DEF Inv, TypeOK, ReadsReturnLatest

LEMMA SetIOCacheStep ==
  ASSUME Inv, NEW left \in Lefts, NEW newcopyback \in BOOLEAN,
         SetIOCache(newcopyback, left)
  PROVE  Inv'
  <1> DEFINE s == Flushed(Begin(left))
  <1>1. /\ IF s.error THEN Return(s) ELSE NewCache(newcopyback) /\ disk' = s.disk
        /\ doubtful' = doubtful /\ misread' = misread
    BY DEF SetIOCache
  <1>2. Sound(Begin(left), doubtful) /\ doubtful \subseteq Blocks
    BY BeginIs
  <1>3. Sound(s, doubtful) /\ (~s.error => Blocks \ doubtful \subseteq s.disk)
    BY <1>2, FlushedIs
  <1>4. misread' = FALSE
    BY <1>1 DEF Inv, TypeOK, ReadsReturnLatest
  <1> HIDE DEF s
  <1>5. CASE s.error
    <2>1. Return(s)
      BY <1>1, <1>5
    <2>2. QED
      BY <1>1, <1>2, <1>3, <1>4, <2>1, ReturnIs
  <1>6. CASE ~s.error
    <2>1. /\ copyback' = newcopyback
          /\ readonwrite' = (readonwrite \/ ~newcopyback)
          /\ lru' = NoLines(IF readonwrite' THEN Lines ELSE Lines - 1)
          /\ lines' = NoContents /\ disk' = s.disk
      BY <1>1, <1>6 DEF NewCache
    <2>2. EmptyCacheSound'
      BY EmptyCacheIs, PTL
    <2>3. copyback' \in BOOLEAN /\ readonwrite' \in BOOLEAN /\ (~copyback' => readonwrite')
      BY <2>1 DEF Inv, TypeOK
    <2>4. lru' = NoLines(InLru)'
      BY <2>1 DEF InLru, NoLines
    <2>5. disk' \subseteq Blocks /\ Blocks \ doubtful' \subseteq disk'
      BY <1>1, <1>3, <1>6, <2>1 DEF Sound, States
    <2>6. Sound(Begin(0), doubtful)'
      BY <2>1, <2>2, <2>3, <2>4, <2>5 DEF EmptyCacheSound, NoContents
    <2>7. QED
      BY <1>1, <1>2, <1>4, <2>3, <2>6 DEF Inv, TypeOK, ReadsReturnLatest
  <1>7. QED
    BY <1>5, <1>6

-----------------------------------------------------------------------------
(* The specification. *)

LEMMA InitInv == Init => Inv
  <1>1. SUFFICES ASSUME Init PROVE Inv
    OBVIOUS
  <1>2. /\ copyback = TRUE /\ readonwrite = FALSE /\ doubtful = {} /\ misread = FALSE
        /\ lru = NoLines(InLru) /\ lines = NoContents /\ disk = Blocks
    BY <1>1 DEF Init, InLru
  <1>3. Sound(Begin(0), doubtful)
    BY <1>2, EmptyCacheIs DEF EmptyCacheSound
  <1>4. QED
    BY <1>2, <1>3 DEF Inv, TypeOK, ReadsReturnLatest

\* The areas that are read and written.
LEMMA AreasAre ==
  ASSUME NEW a \in Reads \cup Writes
  PROVE  /\ a[1] \in Nat /\ a[2] \in Nat \ {0} /\ a[1] + a[2] <= Total
         /\ Area(a) = a[1]..(a[1] + a[2] - 1) /\ IsArea(Area(a))
  <1>1. a[1] \in Nat /\ a[2] \in Nat \ {0} /\ a[1] + a[2] <= Total
    BY CacheAssumption
  <1>2. Area(a) = a[1]..(a[1] + a[2] - 1)
    BY DEF Area
  <1>3. IsArea(Area(a))
    BY <1>1, <1>2, AreaIs
  <1>4. QED
    BY <1>1, <1>2, <1>3

LEMMA WordsAre ==
  ASSUME NEW b \in Words
  PROVE  /\ b \in Nat /\ b + 1 <= Total /\ {b} = b..(b + 1 - 1)
         /\ IsArea({b}) /\ b \in Blocks
  <1>1. b \in Nat /\ b + 1 <= Total /\ b \in Blocks
    BY CacheAssumption, Sizes DEF Blocks
  <1>2. {b} = b..(b + 1 - 1)
    BY <1>1
  <1>3. IsArea({b})
    <2> DEFINE n == 1
    <2>1. n \in Nat \ {0} /\ b + n <= Total /\ {b} = b..(b + n - 1)
      BY <1>1, <1>2
    <2> HIDE DEF n
    <2>2. QED
      BY <1>1, <2>1, AreaIs
  <1>4. QED
    BY <1>1, <1>2, <1>3

LEMMA InvStep ==
  ASSUME ~OverDirty PROVE Inv /\ [Next]_vars => Inv'
  <1>1. SUFFICES ASSUME Inv, [Next]_vars PROVE Inv'
    OBVIOUS
  <1>2. CASE UNCHANGED vars
    BY <1>1, <1>2 DEF vars, Inv, TypeOK, ReadsReturnLatest, Sound, States, LruOK,
                      LinesOK, LineOK, CachedOK, Cached, Begin, InLru
  <1>3. ASSUME NEW left \in Lefts, NEW a \in Reads, ReadThroughCache(Area(a), left)
        PROVE  Inv'
    BY <1>1, <1>3, AreasAre, ReadThroughCacheStep
  <1>4. ASSUME NEW left \in Lefts, NEW a \in Reads, NEW buffered \in BOOLEAN,
               ReadDirectly(Area(a), left, buffered)
        PROVE  Inv'
    BY <1>1, <1>4, AreasAre, ReadDirectlyStep
  <1>5. ASSUME NEW left \in Lefts, NEW b \in Words, ReadThroughCache({b}, left)
        PROVE  Inv'
    <2> DEFINE n == 1
    <2>1. b \in Nat /\ n \in Nat \ {0} /\ b + n <= Total /\ {b} = b..(b + n - 1)
      <3>1. b \in Nat /\ b + 1 <= Total /\ {b} = b..(b + 1 - 1)
        BY <1>5, WordsAre
      <3>2. QED
        BY <3>1
    <2> HIDE DEF n
    <2>2. QED
      BY <1>1, <1>5, <2>1, ReadThroughCacheStep
  <1>6. ASSUME NEW left \in Lefts, NEW b \in Words, WriteBytes(b, left)
        PROVE  Inv'
    BY <1>1, <1>6, WordsAre, WriteBytesStep
  <1>7. ASSUME NEW left \in Lefts, NEW a \in Writes, WriteIntoCache(Area(a), left)
        PROVE  Inv'
    BY <1>1, <1>7, AreasAre, WriteIntoCacheStep
  <1>8. ASSUME NEW left \in Lefts, NEW a \in Writes, NEW buffered \in BOOLEAN,
               WriteDirectly(Area(a), left, buffered)
        PROVE  Inv'
    BY <1>1, <1>8, AreasAre, WriteDirectlyStep
  <1>9. ASSUME NEW left \in Lefts, FlushIOCache(left) PROVE Inv'
    BY <1>1, <1>9, FlushStep
  <1>10. ASSUME Invalidate PROVE Inv'
    BY <1>1, <1>10, InvalidateStep
  <1>11. ASSUME NEW left \in Lefts, NEW newcopyback \in BOOLEAN,
                SetIOCache(newcopyback, left)
         PROVE  Inv'
    BY <1>1, <1>11, SetIOCacheStep
  <1>12. QED
    BY <1>1, <1>2, <1>3, <1>4, <1>5, <1>6, <1>7, <1>8, <1>9, <1>10, <1>11 DEF Next

LEMMA SpecInv == ASSUME ~OverDirty PROVE Spec => []Inv
  <1>1. Init => Inv
    BY InitInv
  <1>2. Inv /\ [Next]_vars => Inv'
    BY InvStep
  <1>3. QED
    BY <1>1, <1>2, PTL DEF Spec

LEMMA BeginParts ==
  /\ Begin(0).lru = lru /\ Begin(0).lines = lines /\ Begin(0).disk = disk
  BY DEF Begin

\* What is valid in a line is the latest, and on the device unless it is dirty.
THEOREM SpecValidIsDisk == ASSUME ~OverDirty PROVE Spec => []ValidIsDisk
  <1>1. Inv => ValidIsDisk
    <2>1. SUFFICES ASSUME Inv, NEW l \in LineNumbers,
                          NEW b \in lines[l].valid, b \notin doubtful
                   PROVE  b \in lines[l].fresh /\ b \in disk \cup lines[l].dirty
      BY DEF ValidIsDisk
    <2>2. LineOK(lines[l], l, disk, doubtful)
      BY <2>1, BeginParts DEF Inv, Sound, LinesOK
    <2>3. QED
      BY <2>1, <2>2 DEF LineOK
  <1>2. QED
    BY <1>1, SpecInv, PTL

\* What the device does not have is dirty in a line that will be copied back.
THEOREM SpecNothingLost == ASSUME ~OverDirty PROVE Spec => []NothingLost
  <1>1. Inv => NothingLost
    <2>1. SUFFICES ASSUME Inv, NEW b \in Blocks, b \notin disk, b \notin doubtful
                   PROVE  /\ b \in lines[LineOf(b)].dirty
                          /\ \E i \in 1..InLru : lru[i] = LineOf(b)
      BY DEF NothingLost
    <2>2. LineOf(b) \in LineNumbers /\ b \in Line(LineOf(b))
      BY BlocksAre
    <2>3. LineOK(lines[LineOf(b)], LineOf(b), disk, doubtful)
      BY <2>1, <2>2, BeginParts DEF Inv, Sound, LinesOK
    <2>4. b \in lines[LineOf(b)].dirty
      BY <2>1, <2>2, <2>3 DEF LineOK
    <2>5. lines[LineOf(b)] # Empty
      BY <2>4 DEF Empty
    <2>6. Cached(Begin(0), LineOf(b))
      BY <2>1, <2>2, <2>5, BeginParts DEF Inv, Sound, CachedOK
    <2>7. QED
      BY <2>4, <2>6, BeginParts DEF Cached
  <1>2. QED
    BY <1>1, SpecInv, PTL

\* No read that succeeds returns anything but what was written last.
THEOREM SpecReadsReturnLatest == ASSUME ~OverDirty PROVE Spec => []ReadsReturnLatest
  <1>1. Inv => ReadsReturnLatest
    BY DEF Inv
  <1>2. QED
    BY <1>1, SpecInv, PTL

\* After a flush that returns no error the device has everything.
THEOREM SpecFlushIsComplete == ASSUME ~OverDirty PROVE Spec => FlushIsComplete
  <1>1. ASSUME Inv, NEW left \in Lefts, FlushIOCache(left), ~Flushed(Begin(left)).error
        PROVE  Blocks \ doubtful \subseteq disk'
    <2>1. Sound(Begin(left), doubtful)
      BY <1>1, BeginIs
    <2>2. Blocks \ doubtful \subseteq Flushed(Begin(left)).disk
      BY <1>1, <2>1, FlushedIs
    <2>3. disk' = Flushed(Begin(left)).disk
      BY <1>1 DEF FlushIOCache, Return
    <2>4. QED
      BY <2>2, <2>3
  <1> DEFINE Complete ==
        ~(Blocks \ doubtful \subseteq disk')
          => \A left \in Lefts :
               FlushIOCache(left) => Flushed(Begin(left)).error
  <1>2. Inv => Complete
    BY <1>1
  <1>3. Inv /\ [Next]_vars => [Complete]_vars
    BY <1>2
  <1>4. FlushIsComplete <=> [][Complete]_vars
    BY DEF FlushIsComplete
  <1> HIDE DEF Complete
  <1>5. QED
    BY <1>3, <1>4, SpecInv, PTL DEF Spec

=============================================================================
