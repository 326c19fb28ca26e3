---------------------------- MODULE NodeTreeProofs ----------------------------
(***************************************************************************)
(* Proofs about NodeTree and AdminSpaces, for every size of the areas and  *)
(* of the containers, every room on the volume and every number of nodes.  *)
(***************************************************************************)
EXTENDS NodeTree, FiniteSetTheorems, WellFoundedInduction, TLAPS

-----------------------------------------------------------------------------
(* Numbers. *)

\* Every set of natural numbers has a least element.
LEMMA LeastExists ==
  ASSUME NEW S, S \subseteq Nat, S # {}
  PROVE  \E a \in S : \A b \in S : a <= b
  <1> DEFINE R == OpToRel(<, Nat)
  <1>1. IsWellFoundedOn(R, Nat)
    BY NatLessThanWellFounded
  <1>2. \A a, b \in Nat : <<b, a>> \in R <=> b < a
    BY DEF OpToRel
  <1> HIDE DEF R
  <1>3. PICK a \in S : \A b \in S : <<b, a>> \notin R
    BY <1>1, WFMin
  <1>4. \A b \in S : ~(b < a)
    BY <1>2, <1>3, Zenon
  <1>5. \A b \in S : a <= b
    BY <1>4
  <1>6. QED
    BY <1>5

\* A set with 0 and with the successor of each of its members up to n has every
\* number up to n.
LEMMA UpTo ==
  ASSUME NEW n \in Nat, NEW S, 0 \in S,
         \A i \in 0..(n - 1) : i \in S => i + 1 \in S
  PROVE  0..n \subseteq S
  <1>1. SUFFICES ASSUME (0..n) \ S # {} PROVE FALSE
    OBVIOUS
  <1>2. PICK i \in (0..n) \ S : \A j \in (0..n) \ S : i <= j
    <2>1. (0..n) \ S \subseteq Nat
      OBVIOUS
    <2>2. QED
      BY <1>1, <2>1, LeastExists
  <1>3. i # 0 /\ i - 1 \in 0..(n - 1) /\ i - 1 \notin (0..n) \ S
    BY <1>2
  <1>4. QED
    BY <1>2, <1>3

\* Every set of natural numbers with a bound has a greatest element.
LEMMA GreatestExists ==
  ASSUME NEW n \in Nat, NEW S, S \subseteq 0..n, S # {}
  PROVE  \E a \in S : \A b \in S : a >= b
  <1> DEFINE T == {k \in Nat : n - k \in S}
  <1>1. T \subseteq Nat
    OBVIOUS
  <1>2. T # {}
    <2>1. PICK x \in S : TRUE
      OBVIOUS
    <2>2. n - x \in Nat /\ n - (n - x) = x
      BY <2>1
    <2>3. n - x \in T
      BY <2>1, <2>2
    <2>4. QED
      BY <2>3
  <1>3. PICK k \in T : \A j \in T : k <= j
    BY <1>1, <1>2, LeastExists
  <1>4. ASSUME NEW b \in S PROVE n - k >= b
    <2>1. n - b \in Nat /\ n - (n - b) = b
      OBVIOUS
    <2>2. n - b \in T
      BY <2>1
    <2>3. QED
      BY <2>2, <1>3
  <1>5. n - k \in S
    BY <1>3
  <1>6. QED
    BY <1>4, <1>5

\* Products keep the order.
LEMMA Products ==
  ASSUME NEW a \in Nat, NEW b \in Nat, NEW k \in Nat
  PROVE  /\ a * k \in Nat
         /\ a <= b => a * k <= b * k
         /\ a < b => a * k + k <= b * k
         /\ a + 1 <= b => a * k + k <= b * k
         /\ a * k < b * k => a < b
         /\ k # 0 /\ a * k <= b * k => a <= b
         /\ k # 0 /\ a * k = b * k => a = b
         /\ (a + 1) * k = a * k + k
  <1>1. a * k \in Nat /\ b * k \in Nat /\ (a + 1) * k = a * k + k
    BY SMT
  <1>2. a <= b => a * k <= b * k
    BY SMT
  <1>3. a < b => a * k + k <= b * k
    BY SMT
  <1>4. b <= a => b * k <= a * k
    BY SMT
  <1>5. b < a => b * k + k <= a * k
    BY SMT
  <1>6. QED
    BY <1>1, <1>2, <1>3, <1>4, <1>5

\* Division by what is not 0.
LEMMA Division ==
  ASSUME NEW a \in Nat, NEW k \in Nat \ {0}
  PROVE  /\ a \div k \in Nat
         /\ (a \div k) * k <= a /\ a < (a \div k) * k + k
  <1>1. a \div k \in Nat /\ a % k \in 0..(k - 1) /\ (a \div k) * k + (a % k) = a
    BY SMT
  <1>2. QED
    BY <1>1

\* What is assumed of the constants, in one place.
LEMMA Sizes ==
  /\ LeafNodes \in Nat \ {0, 1} /\ NodeContainers \in Nat \ {0, 1}
  /\ LeafNodes < 2 * NodeContainers
  /\ Reserved \subseteq 1..LeafNodes /\ Reserved # {}
  /\ AreaSize \in Nat \ {0, 1} /\ MaxEntries \in Nat \ {0}
  /\ FirstArea \in Nat \ {0} /\ MoreAreas \subseteq Nat
  /\ \A a \in MoreAreas : a >= FirstArea + AreaSize
  /\ \A a, b \in MoreAreas : a < b => a + AreaSize <= b
  /\ Root \in Nat \ {0}
  BY NodesAssumption, AreasAssumption DEF Root

-----------------------------------------------------------------------------
(* Loops. *)

\* The function that a loop is.
Loops(S, s, g, n) ==
  {f \in [0..n -> S] : f = [i \in 0..n |-> IF i = 0 THEN s ELSE g[f[i - 1]]]}

\* A loop's function exists.
LEMMA RepeatExists ==
  ASSUME NEW S, NEW s \in S, NEW g \in [S -> S], NEW n \in Nat
  PROVE  \E f : f \in Loops(S, s, g, n)
  <1> DEFINE Is(f, k) ==
        f \in [0..k -> S] /\ f[0] = s /\ \A i \in 1..k : f[i] = g[f[i - 1]]
  <1> DEFINE T == {k \in 0..n : \E f : Is(f, k)}
  <1>1. 0 \in T
    <2>1. Is([i \in 0..0 |-> s], 0)
      OBVIOUS
    <2> HIDE DEF Is
    <2>2. QED
      BY <2>1
  <1>2. ASSUME NEW k \in 0..(n - 1), k \in T PROVE k + 1 \in T
    <2>1. PICK f : Is(f, k)
      BY <1>2
    <2> DEFINE h == [i \in 0..(k + 1) |-> IF i <= k THEN f[i] ELSE g[f[k]]]
    <2>2. f[k] \in S /\ g[f[k]] \in S
      BY <2>1
    <2>3. h \in [0..(k + 1) -> S] /\ h[0] = s
      BY <2>1, <2>2
    <2>4. ASSUME NEW i \in 1..(k + 1) PROVE h[i] = g[h[i - 1]]
      <3>1. CASE i <= k
        <4>1. h[i] = f[i] /\ h[i - 1] = f[i - 1] /\ i \in 1..k
          BY <3>1
        <4> HIDE DEF h
        <4>2. QED
          BY <4>1, <2>1
      <3>2. CASE ~(i <= k)
        <4>1. i = k + 1 /\ h[i - 1] = f[k] /\ h[i] = g[f[k]]
          BY <3>2
        <4>2. QED
          BY <4>1
      <3>3. QED
        BY <3>1, <3>2
    <2> HIDE DEF h
    <2>5. Is(h, k + 1)
      BY <2>3, <2>4
    <2> HIDE DEF Is
    <2>6. QED
      BY <2>5
  <1> HIDE DEF T
  <1>3. n \in T
    BY <1>1, <1>2, UpTo
  <1>4. PICK f : Is(f, n)
    BY <1>3 DEF T
  <1>5. f = [i \in 0..n |-> IF i = 0 THEN s ELSE g[f[i - 1]]]
    <2>1. f = [i \in 0..n |-> f[i]]
      BY <1>4
    <2>2. \A i \in 0..n : i # 0 => i \in 1..n
      OBVIOUS
    <2>3. \A i \in 0..n : f[i] = IF i = 0 THEN s ELSE g[f[i - 1]]
      BY <1>4, <2>2
    <2> HIDE DEF Is
    <2>4. QED
      BY <2>1, <2>3, Zenon
  <1>6. f \in [0..n -> S]
    BY <1>4
  <1> HIDE DEF Is
  <1>7. QED
    BY <1>5, <1>6 DEF Loops

\* The turns left get fewer, and there are enough of them.
LEMMA RepeatEnds ==
  ASSUME NEW S, NEW s \in S, NEW g \in [S -> S], NEW n \in Nat,
         NEW left \in [S -> Nat], left[s] <= n,
         \A x \in S : left[g[x]] < left[x] \/ left[g[x]] = 0,
         NEW f, f[0] = s, \A i \in 1..n : f[i - 1] \in S => f[i] = g[f[i - 1]]
  PROVE  f[n] \in S /\ left[f[n]] = 0
  <1> DEFINE T == {i \in 0..n : f[i] \in S /\ (left[f[i]] = 0 \/ left[f[i]] <= n - i)}
  <1>1. 0 \in T
    OBVIOUS
  <1>2. ASSUME NEW i \in 0..(n - 1), i \in T PROVE i + 1 \in T
    <2>1. f[i] \in S /\ f[i + 1] = g[f[i]]
      <3>1. i + 1 \in 1..n /\ (i + 1) - 1 = i
        OBVIOUS
      <3>2. QED
        BY <1>2, <3>1
    <2>2. g[f[i]] \in S
      BY <2>1
    <2>3. left[g[f[i]]] \in Nat /\ left[f[i]] \in Nat
      BY <2>1, <2>2
    <2>4. left[g[f[i]]] < left[f[i]] \/ left[g[f[i]]] = 0
      BY <2>1
    <2>5. QED
      BY <1>2, <2>1, <2>2, <2>3, <2>4
  <1> HIDE DEF T
  <1>3. n \in T
    <2>1. \A i \in 0..(n - 1) : i \in T => i + 1 \in T
      BY <1>2
    <2>2. 0..n \subseteq T
      BY <1>1, <2>1, UpTo, Zenon
    <2>3. QED
      BY <2>2
  <1>4. f[n] \in S /\ left[f[n]] \in Nat /\ (left[f[n]] = 0 \/ left[f[n]] <= n - n)
    BY <1>3 DEF T
  <1>5. QED
    BY <1>4

-----------------------------------------------------------------------------
(* The sizes of containers. *)

\* LeafNodes times a power of NodeContainers: the nodes a container can have
\* room for.
SizesOfContainers ==
  {n \in Nat : \A S \in SUBSET Nat :
     LeafNodes \in S /\ (\A m \in S : m * NodeContainers \in S) => n \in S}

\* A level more: as many times larger as there are pointers.
LEMMA LegalClosed ==
  /\ LeafNodes \in SizesOfContainers
  /\ \A m \in SizesOfContainers : m * NodeContainers \in SizesOfContainers
  <1>1. LeafNodes \in SizesOfContainers
    BY Sizes DEF SizesOfContainers
  <1>2. ASSUME NEW m \in SizesOfContainers PROVE m * NodeContainers \in SizesOfContainers
    <2>1. m * NodeContainers \in Nat
      BY Sizes, Products DEF SizesOfContainers
    <2>2. ASSUME NEW S \in SUBSET Nat, LeafNodes \in S, \A k \in S : k * NodeContainers \in S
          PROVE m * NodeContainers \in S
      BY <2>2 DEF SizesOfContainers
    <2>3. QED
      BY <2>1, <2>2 DEF SizesOfContainers
  <1>3. QED
    BY <1>1, <1>2

\* Induction over the sizes.
LEMMA LegalInduction ==
  ASSUME NEW S, S \subseteq SizesOfContainers, LeafNodes \in S,
         \A m \in S : m * NodeContainers \in S
  PROVE  S = SizesOfContainers
  <1>1. S \in SUBSET Nat
    BY DEF SizesOfContainers
  <1>2. \A n \in SizesOfContainers : n \in S
    BY <1>1 DEF SizesOfContainers
  <1>3. QED
    BY <1>2

\* A size is a leaf's, or that of a level above another size.
LEMMA LegalIs ==
  ASSUME NEW n \in SizesOfContainers
  PROVE  /\ n \in Nat /\ n >= LeafNodes /\ n > 1
         /\ n = LeafNodes \/ \E m \in SizesOfContainers : n = m * NodeContainers
  <1> DEFINE S == {k \in SizesOfContainers :
                     /\ k >= LeafNodes
                     /\ k = LeafNodes \/ \E m \in SizesOfContainers : k = m * NodeContainers}
  <1>1. LeafNodes \in S
    BY LegalClosed, Sizes
  <1>2. ASSUME NEW m \in S PROVE m * NodeContainers \in S
    <2>1. m \in Nat /\ m * NodeContainers \in SizesOfContainers
      BY LegalClosed DEF SizesOfContainers
    <2>2. m <= m * NodeContainers
      BY <2>1, Sizes
    <2>3. m * NodeContainers \in Nat
      BY <2>1 DEF SizesOfContainers
    <2>4. QED
      BY <2>1, <2>2, <2>3, Sizes
  <1>3. S = SizesOfContainers
    <2> HIDE DEF S
    <2>1. S \subseteq SizesOfContainers
      BY DEF S
    <2>2. QED
      BY <1>1, <1>2, <2>1, LegalInduction
  <1>4. n \in Nat /\ n \in S
    BY <1>3 DEF SizesOfContainers
  <1>5. QED
    BY <1>4, Sizes

\* There is no size between one and the next one.
LEMMA LegalGap ==
  ASSUME NEW n \in SizesOfContainers, NEW m \in SizesOfContainers, n < m
  PROVE  n * NodeContainers <= m
  <1> DEFINE S == {k \in SizesOfContainers :
                     \A l \in SizesOfContainers : l < k => l * NodeContainers <= k}
  <1>1. LeafNodes \in S
    <2>1. \A l \in SizesOfContainers : ~(l < LeafNodes)
      BY LegalIs, Sizes
    <2>2. QED
      BY <2>1, LegalClosed
  <1>2. ASSUME NEW k \in S PROVE k * NodeContainers \in S
    <2>1. k \in Nat /\ k >= LeafNodes /\ k * NodeContainers \in SizesOfContainers
      BY LegalClosed, LegalIs
    <2>2. ASSUME NEW l \in SizesOfContainers, l < k * NodeContainers
          PROVE  l * NodeContainers <= k * NodeContainers
      <3>1. l \in Nat
        BY LegalIs
      <3>2. l <= k
        <4>1. CASE l = LeafNodes
          BY <4>1, <2>1, Sizes
        <4>2. CASE \E j \in SizesOfContainers : l = j * NodeContainers
          <5>1. PICK j \in SizesOfContainers : l = j * NodeContainers
            BY <4>2
          <5>2. j \in Nat /\ j * NodeContainers < k * NodeContainers
            BY <5>1, <2>2, LegalIs
          <5>3. j < k
            BY <5>2, <2>1, Products, Sizes
          <5>4. QED
            BY <5>1, <5>3
        <4>3. QED
          BY <4>1, <4>2, LegalIs
      <3>3. QED
        BY <3>1, <3>2, <2>1, Products, Sizes
    <2>3. QED
      BY <2>1, <2>2
  <1>3. S = SizesOfContainers
    <2> HIDE DEF S
    <2>1. S \subseteq SizesOfContainers
      BY DEF S
    <2>2. QED
      BY <1>1, <1>2, <2>1, LegalInduction
  <1>4. m \in S
    BY <1>3
  <1>5. QED
    BY <1>4

-----------------------------------------------------------------------------
(* Containers. *)

Pointers == [block : Nat, full : BOOLEAN]
Leaves == [nodenumber : Nat, nodes : {1}, node : [1..LeafNodes -> BOOLEAN]]
Indices == [nodenumber : Nat, nodes : SizesOfContainers,
            node : [1..NodeContainers -> Pointers]]

\* A container has room for node n, in it or below it.
Has(c, n) == c.nodenumber <= n /\ n < c.nodenumber + Span(c)

\* The first node below pointer p.
FirstBelow(c, p) == c.nodenumber + (p - 1) * c.nodes

\* What there is in a container, and how many nodes it spans.
LEMMA ContainerIs ==
  ASSUME NEW c \in Leaves \cup Indices
  PROVE  /\ c.nodenumber \in Nat /\ c.nodes \in Nat \ {0}
         /\ Span(c) \in SizesOfContainers /\ Span(c) \in Nat /\ Span(c) > c.nodes
         /\ Span(c) >= LeafNodes
         /\ IsLeaf(c) => /\ c \in Leaves /\ c.node \in [1..LeafNodes -> BOOLEAN]
                         /\ Span(c) = LeafNodes
         /\ ~IsLeaf(c) => /\ c \in Indices
                          /\ c.node \in [1..NodeContainers -> Pointers]
                          /\ c.nodes \in SizesOfContainers /\ c.nodes > 1
                          /\ c.nodes >= LeafNodes
                          /\ Span(c) = c.nodes * NodeContainers
                          /\ Span(c) > LeafNodes
  <1>1. CASE c \in Leaves
    <2>1. IsLeaf(c) /\ c.nodes = 1
      BY <1>1 DEF Leaves, IsLeaf
    <2>2. Span(c) = LeafNodes
      BY <2>1 DEF Span
    <2>3. QED
      BY <1>1, <2>1, <2>2, Sizes, LegalClosed DEF Leaves
  <1>2. CASE c \in Indices
    <2>1. c.nodes \in SizesOfContainers /\ c.nodenumber \in Nat
          /\ c.node \in [1..NodeContainers -> Pointers]
      BY <1>2 DEF Indices
    <2>2. c.nodes \in Nat /\ c.nodes > 1 /\ c.nodes >= LeafNodes
      BY <2>1, LegalIs
    <2>3. ~IsLeaf(c)
      BY <2>2 DEF IsLeaf
    <2>4. Span(c) = c.nodes * NodeContainers
      BY <2>3 DEF Span
    <2>5. Span(c) \in SizesOfContainers
      BY <2>1, <2>4, LegalClosed
    <2>6. Span(c) \in Nat /\ Span(c) >= LeafNodes
      BY <2>5, LegalIs
    <2>7. c.nodes < c.nodes * NodeContainers
      BY <2>2, Sizes
    <2>8. QED
      BY <1>2, <2>1, <2>2, <2>3, <2>4, <2>5, <2>6, <2>7, Sizes
  <1>3. QED
    BY <1>1, <1>2

\* The slot of a node, and the nodes of a slot.
LEMMA SlotIs ==
  ASSUME NEW c \in Indices, NEW p \in 1..NodeContainers, NEW n \in Nat,
         FirstBelow(c, p) <= n, n < FirstBelow(c, p) + c.nodes
  PROVE  SlotOf(c, n) = p
  <1>1. c.nodenumber \in Nat /\ c.nodes \in Nat \ {0}
    BY ContainerIs
  <1> DEFINE k == p - 1
             m == n - c.nodenumber
  <1>2. k \in Nat /\ k * c.nodes \in Nat
    BY <1>1, Sizes, Products
  <1>3. m \in Nat /\ k * c.nodes <= m /\ m < k * c.nodes + c.nodes
    BY <1>1, <1>2 DEF FirstBelow
  <1> HIDE DEF k, m
  <1>4. /\ m \div c.nodes \in Nat
        /\ (m \div c.nodes) * c.nodes <= m /\ m < (m \div c.nodes) * c.nodes + c.nodes
    BY <1>1, <1>3, Division
  <1>5. ~(m \div c.nodes < k)
    <2>1. m \div c.nodes < k => (m \div c.nodes) * c.nodes + c.nodes <= k * c.nodes
      BY <1>1, <1>2, <1>4, Products
    <2>2. (m \div c.nodes) * c.nodes \in Nat
      BY <1>1, <1>4, Products
    <2>3. QED
      BY <1>1, <1>2, <1>3, <1>4, <2>1, <2>2
  <1>6. ~(k < m \div c.nodes)
    <2>1. k < m \div c.nodes => k * c.nodes + c.nodes <= (m \div c.nodes) * c.nodes
      BY <1>1, <1>2, <1>4, Products
    <2>2. (m \div c.nodes) * c.nodes \in Nat
      BY <1>1, <1>4, Products
    <2>3. QED
      BY <1>1, <1>2, <1>3, <1>4, <2>1, <2>2
  <1>7. m \div c.nodes = k
    BY <1>2, <1>4, <1>5, <1>6
  <1>8. SlotOf(c, n) = 1 + m \div c.nodes
    BY DEF SlotOf, m
  <1>9. QED
    BY <1>7, <1>8 DEF k

\* A node of a container is below the pointer that SlotOf says.
LEMMA SlotHas ==
  ASSUME NEW c \in Indices, NEW n \in Nat, Has(c, n)
  PROVE  /\ SlotOf(c, n) \in 1..NodeContainers
         /\ FirstBelow(c, SlotOf(c, n)) <= n
         /\ n < FirstBelow(c, SlotOf(c, n)) + c.nodes
  <1>1. /\ c.nodenumber \in Nat /\ c.nodes \in Nat \ {0}
        /\ Span(c) = c.nodes * NodeContainers
    <2>1. c.nodes > 1 \/ IsLeaf(c)
      BY ContainerIs DEF IsLeaf
    <2>2. c.nodes # 1
      BY LegalIs DEF Indices
    <2>3. QED
      BY <2>2, ContainerIs DEF IsLeaf
  <1> DEFINE m == n - c.nodenumber
             k == m \div c.nodes
  <1>2. m \in Nat /\ m < c.nodes * NodeContainers
    BY <1>1, Sizes, Products DEF Has
  <1>3. k \in Nat /\ k * c.nodes <= m /\ m < k * c.nodes + c.nodes
    <2> HIDE DEF m
    <2>1. QED
      BY <1>1, <1>2, Division
  <1>4. SlotOf(c, n) = 1 + k
    BY DEF SlotOf
  <1>5. n = c.nodenumber + m
    BY <1>1
  <1> HIDE DEF k, m
  <1>6. k * c.nodes < NodeContainers * c.nodes
    <2>1. c.nodes * NodeContainers = NodeContainers * c.nodes /\ k * c.nodes \in Nat
      BY <1>1, <1>3, Sizes, Products, SMT
    <2>2. c.nodes * NodeContainers \in Nat
      BY <1>1, Sizes, Products
    <2>3. QED
      BY <1>2, <1>3, <2>1, <2>2
  <1>7. k < NodeContainers
    BY <1>1, <1>3, <1>6, Sizes, Products
  <1>8. (1 + k) - 1 = k /\ k * c.nodes \in Nat
    BY <1>1, <1>3, Products
  <1>9. QED
    BY <1>1, <1>2, <1>3, <1>4, <1>5, <1>7, <1>8, Sizes DEF FirstBelow

\* What is below a pointer is within the container.
LEMMA BelowHas ==
  ASSUME NEW c \in Indices, NEW p \in 1..NodeContainers
  PROVE  /\ FirstBelow(c, p) \in Nat /\ FirstBelow(c, p) >= c.nodenumber
         /\ FirstBelow(c, p) + c.nodes <= c.nodenumber + Span(c)
         /\ FirstBelow(c, p) + c.nodes = c.nodenumber + p * c.nodes
  <1>1. /\ c.nodenumber \in Nat /\ c.nodes \in Nat \ {0}
        /\ Span(c) = c.nodes * NodeContainers
    <2>1. c.nodes # 1
      BY LegalIs DEF Indices
    <2>2. QED
      BY <2>1, ContainerIs DEF IsLeaf
  <1> DEFINE k == p - 1
  <1>2. k \in Nat /\ k + 1 <= NodeContainers /\ k + 1 = p
    BY Sizes
  <1> HIDE DEF k
  <1>3. k * c.nodes \in Nat /\ k * c.nodes + c.nodes <= NodeContainers * c.nodes
        /\ (k + 1) * c.nodes = k * c.nodes + c.nodes
    BY <1>1, <1>2, Sizes, Products
  <1>4. NodeContainers * c.nodes = c.nodes * NodeContainers
    BY <1>1, Sizes, SMT
  <1>5. FirstBelow(c, p) = c.nodenumber + k * c.nodes
    BY DEF FirstBelow, k
  <1>6. c.nodes * NodeContainers \in Nat
    BY <1>1, Sizes, Products
  <1>7. QED
    BY <1>1, <1>2, <1>3, <1>4, <1>5, <1>6

-----------------------------------------------------------------------------
(* Trees. *)

\* Pointer p of the index container in block a is to block b.
PointsTo(t, a, p, b) == /\ a \in DOMAIN t /\ ~IsLeaf(t[a]) /\ p \in 1..NodeContainers
                        /\ t[a].node[p].block = b

Typed(t) == DOMAIN t \subseteq Nat \ {0} /\ t \in [DOMAIN t -> Leaves \cup Indices]
Rooted(t) == /\ Root \in DOMAIN t /\ t[Root].nodenumber = 1
             /\ \A b \in DOMAIN t \ {Root} : Span(t[b]) <= t[Root].nodes
Linked(t) ==
  \A a \in DOMAIN t, p \in 1..NodeContainers, b \in Nat :
    PointsTo(t, a, p, b) =>
      IF b = 0 THEN ~t[a].node[p].full
      ELSE /\ b \in DOMAIN t \ {Root} /\ Span(t[b]) = t[a].nodes
           /\ t[b].nodenumber = FirstBelow(t[a], p)
Reached(t) ==
  \A b \in DOMAIN t \ {Root} :
    \E a \in DOMAIN t, p \in 1..NodeContainers : PointsTo(t, a, p, b)
Apart(t) ==
  \A a, b \in DOMAIN t, n \in Nat :
    Has(t[a], n) /\ Has(t[b], n) /\ Span(t[a]) = Span(t[b]) => a = b

\* The containers are put together as they should be.
Shape(t) == Typed(t) /\ Rooted(t) /\ Linked(t) /\ Reached(t) /\ Apart(t)

\* A block of the tree has a container, and is not block 0.
LEMMA BlockIs ==
  ASSUME NEW t, Typed(t), NEW b \in DOMAIN t
  PROVE  t[b] \in Leaves \cup Indices /\ b \in Nat /\ b # 0
  BY DEF Typed

\* A container that is pointed to.
LEMMA PointedTo ==
  ASSUME NEW t, Shape(t), NEW a, NEW p, NEW b, PointsTo(t, a, p, b), b # 0
  PROVE  /\ a \in DOMAIN t /\ t[a] \in Indices /\ p \in 1..NodeContainers
         /\ b \in DOMAIN t \ {Root} /\ Span(t[b]) = t[a].nodes
         /\ t[b].nodenumber = FirstBelow(t[a], p)
         /\ Span(t[a]) = Span(t[b]) * NodeContainers
         /\ \A n \in Nat : Has(t[b], n) => Has(t[a], n) /\ SlotOf(t[a], n) = p
  <1>1. a \in DOMAIN t /\ ~IsLeaf(t[a]) /\ p \in 1..NodeContainers
        /\ t[a].node[p].block = b
    BY DEF PointsTo
  <1>2. t[a] \in Indices /\ t[a].node[p] \in Pointers
        /\ Span(t[a]) = t[a].nodes * NodeContainers
        /\ t[a].nodenumber \in Nat /\ Span(t[a]) \in Nat /\ t[a].nodes \in Nat
    BY <1>1, BlockIs, ContainerIs DEF Shape
  <1>3. b \in Nat
    BY <1>1, <1>2 DEF Pointers
  <1>4. b \in DOMAIN t \ {Root} /\ Span(t[b]) = t[a].nodes
        /\ t[b].nodenumber = FirstBelow(t[a], p)
    BY <1>1, <1>3 DEF Shape, Linked
  <1>5. ASSUME NEW n \in Nat, Has(t[b], n)
        PROVE  Has(t[a], n) /\ SlotOf(t[a], n) = p
    <2>1. FirstBelow(t[a], p) <= n /\ n < FirstBelow(t[a], p) + t[a].nodes
      BY <1>4, <1>5 DEF Has
    <2>2. SlotOf(t[a], n) = p
      BY <1>1, <1>2, <2>1, SlotIs
    <2>3. Has(t[a], n)
      BY <1>1, <1>2, <2>1, BelowHas DEF Has
    <2>4. QED
      BY <2>2, <2>3
  <1>6. QED
    BY <1>1, <1>2, <1>4, <1>5

\* Each container has its own nodenumber, and the root all that there are.
LEMMA HasOwn ==
  ASSUME NEW t, Typed(t), NEW b \in DOMAIN t
  PROVE  t[b].nodenumber \in Nat /\ Has(t[b], t[b].nodenumber)
  BY BlockIs, ContainerIs, Sizes DEF Has

\* There is one pointer to a container.
LEMMA OnePointer ==
  ASSUME NEW t, Shape(t), NEW b, b # 0, NEW a, NEW p, PointsTo(t, a, p, b),
         NEW c, NEW q, PointsTo(t, c, q, b)
  PROVE  a = c /\ p = q
  <1>1. b \in DOMAIN t /\ a \in DOMAIN t /\ c \in DOMAIN t
    BY PointedTo
  <1> DEFINE n == t[b].nodenumber
  <1>2. n \in Nat /\ Has(t[b], n)
    BY <1>1, HasOwn DEF Shape
  <1> HIDE DEF n
  <1>3. Has(t[a], n) /\ SlotOf(t[a], n) = p /\ Span(t[a]) = Span(t[b]) * NodeContainers
    BY <1>2, PointedTo
  <1>4. Has(t[c], n) /\ SlotOf(t[c], n) = q /\ Span(t[c]) = Span(t[b]) * NodeContainers
    BY <1>2, PointedTo
  <1>5. a = c
    BY <1>1, <1>2, <1>3, <1>4 DEF Shape, Apart
  <1>6. QED
    BY <1>3, <1>4, <1>5

\* The root spans more than any other container.
LEMMA RootIs ==
  ASSUME NEW t, Shape(t)
  PROVE  /\ Root \in DOMAIN t /\ t[Root].nodes \in Nat \ {0}
         /\ \A b \in DOMAIN t : b # Root => Span(t[b]) <= t[Root].nodes
         /\ \A b \in DOMAIN t : Span(t[b]) <= Span(t[Root])
         /\ \A b \in DOMAIN t : Span(t[b]) = Span(t[Root]) => b = Root
  <1>1. Root \in DOMAIN t /\ \A b \in DOMAIN t : b # Root => Span(t[b]) <= t[Root].nodes
    BY DEF Shape, Rooted
  <1>2. t[Root].nodes \in Nat \ {0} /\ t[Root].nodes < Span(t[Root])
        /\ Span(t[Root]) \in Nat
    BY <1>1, BlockIs, ContainerIs DEF Shape
  <1>3. \A b \in DOMAIN t : Span(t[b]) \in Nat
    BY BlockIs, ContainerIs DEF Shape
  <1>4. QED
    BY <1>1, <1>2, <1>3

\* Above each container there is one of each size up to the root's.
LEMMA Ancestor ==
  ASSUME NEW t, Shape(t), NEW x \in DOMAIN t, NEW m \in SizesOfContainers,
         Span(t[x]) <= m, m <= Span(t[Root])
  PROVE  \E a \in DOMAIN t : /\ Span(t[a]) = m
                             /\ \A n \in Nat : Has(t[x], n) => Has(t[a], n)
  <1> DEFINE Above == {a \in DOMAIN t : \A n \in Nat : Has(t[x], n) => Has(t[a], n)}
             Spans == {k \in 0..m : \E a \in Above : Span(t[a]) = k}
  <1>1. m \in Nat /\ \A b \in DOMAIN t : Span(t[b]) \in SizesOfContainers /\ Span(t[b]) \in Nat
    BY LegalIs, BlockIs, ContainerIs DEF Shape
  <1>2. Span(t[x]) \in Spans
    BY <1>1
  <1>3. PICK k \in Spans : \A l \in Spans : k >= l
    <2> HIDE DEF Above
    <2>1. Spans \subseteq 0..m
      OBVIOUS
    <2> HIDE DEF Spans
    <2>2. QED
      BY <1>1, <1>2, <2>1, GreatestExists
  <1>4. PICK a \in Above : Span(t[a]) = k
    BY <1>3
  <1>5. SUFFICES ASSUME k # m PROVE FALSE
    BY <1>4
  <1>6. k < m /\ k \in Nat
    BY <1>1, <1>3, <1>5
  <1>7. a \in DOMAIN t \ {Root}
    BY <1>4, <1>6, <1>1, RootIs
  <1>8. PICK c \in DOMAIN t, p \in 1..NodeContainers : PointsTo(t, c, p, a)
    BY <1>7 DEF Shape, Reached
  <1>9. /\ Span(t[c]) = k * NodeContainers
        /\ \A n \in Nat : Has(t[a], n) => Has(t[c], n)
    <2>1. a # 0
      BY <1>7, BlockIs DEF Shape
    <2>2. QED
      BY <1>4, <1>8, <2>1, PointedTo
  <1>10. k * NodeContainers <= m
    BY <1>1, <1>4, <1>6, <1>7, LegalGap
  <1>11. c \in Above
    BY <1>4, <1>9
  <1>12. k * NodeContainers \in Spans
    BY <1>1, <1>9, <1>10, <1>11
  <1>13. k >= k * NodeContainers
    BY <1>3, <1>12
  <1>14. k < k * NodeContainers
    <2>1. k >= 1
      BY <1>1, <1>4, <1>7, LegalIs
    <2>2. QED
      BY <1>6, <2>1, Sizes
  <1>15. k * NodeContainers \in Nat
    BY <1>6, Sizes
  <1>16. QED
    BY <1>6, <1>13, <1>14, <1>15

\* Of two containers with room for a node the smaller one is below the other.
LEMMA Within ==
  ASSUME NEW t, Shape(t), NEW x \in DOMAIN t, NEW b \in DOMAIN t, NEW n \in Nat,
         Has(t[x], n), Has(t[b], n), Span(t[x]) <= Span(t[b])
  PROVE  \A k \in Nat : Has(t[x], k) => Has(t[b], k)
  <1>1. Span(t[b]) \in SizesOfContainers /\ Span(t[b]) <= Span(t[Root])
    BY BlockIs, ContainerIs, RootIs DEF Shape
  <1>2. PICK a \in DOMAIN t : /\ Span(t[a]) = Span(t[b])
                              /\ \A k \in Nat : Has(t[x], k) => Has(t[a], k)
    BY <1>1, Ancestor
  <1>3. a = b
    BY <1>2 DEF Shape, Apart
  <1>4. QED
    BY <1>2, <1>3

\* What a container goes on with, on the way to one below it.
LEMMA OnTheWay ==
  ASSUME NEW t, Shape(t), NEW b \in DOMAIN t, NEW x \in DOMAIN t, NEW n \in Nat,
         Has(t[b], n), Has(t[x], n), Span(t[x]) < Span(t[b])
  PROVE  LET child == t[b].node[SlotOf(t[b], n)].block
         IN /\ PointsTo(t, b, SlotOf(t[b], n), child)
            /\ child \in DOMAIN t \ {Root} /\ Has(t[child], n)
            /\ Span(t[x]) <= Span(t[child])
            /\ Span(t[child]) = t[b].nodes
            /\ t[child].nodes < t[b].nodes
  <1>1. /\ Span(t[b]) \in SizesOfContainers /\ Span(t[b]) \in Nat
        /\ Span(t[x]) \in SizesOfContainers /\ Span(t[x]) \in Nat
        /\ Span(t[x]) >= LeafNodes
    BY BlockIs, ContainerIs DEF Shape
  <1>2. ~IsLeaf(t[b])
    BY <1>1, BlockIs, ContainerIs DEF Shape
  <1>3. /\ t[b] \in Indices /\ t[b].nodes \in SizesOfContainers /\ t[b].nodes \in Nat
        /\ Span(t[b]) = t[b].nodes * NodeContainers /\ t[b].nodes < Span(t[b])
    BY <1>2, BlockIs, ContainerIs DEF Shape
  <1>4. Span(t[x]) <= t[b].nodes
    <2>1. Span(t[x]) * NodeContainers <= t[b].nodes * NodeContainers
      BY <1>1, <1>3, LegalGap
    <2>2. QED
      BY <1>1, <1>3, <2>1, Products, Sizes
  <1>5. t[b].nodes < Span(t[Root])
    <2>1. Span(t[b]) <= Span(t[Root]) /\ Span(t[Root]) \in Nat
      BY RootIs, BlockIs, ContainerIs DEF Shape
    <2>2. QED
      BY <1>1, <1>3, <2>1
  <1>6. PICK a \in DOMAIN t : Span(t[a]) = t[b].nodes /\ Has(t[a], n)
    <2>1. Span(t[Root]) \in Nat
      BY RootIs, BlockIs, ContainerIs DEF Shape
    <2>2. t[b].nodes <= Span(t[Root])
      BY <1>3, <1>5, <2>1
    <2>3. QED
      BY <1>3, <1>4, <2>2, Ancestor
  <1>7. a # Root /\ a # 0
    BY <1>5, <1>6, <1>3, BlockIs DEF Shape
  <1>8. PICK c \in DOMAIN t, p \in 1..NodeContainers : PointsTo(t, c, p, a)
    BY <1>6, <1>7 DEF Shape, Reached
  <1>9. Span(t[c]) = Span(t[b]) /\ Has(t[c], n) /\ SlotOf(t[c], n) = p
    BY <1>3, <1>6, <1>7, <1>8, PointedTo
  <1>10. c = b
    BY <1>9 DEF Shape, Apart
  <1>11. t[b].node[SlotOf(t[b], n)].block = a /\ PointsTo(t, b, SlotOf(t[b], n), a)
    BY <1>8, <1>9, <1>10 DEF PointsTo
  <1>12. t[a].nodes < t[b].nodes
    BY <1>6, BlockIs, ContainerIs DEF Shape
  <1>13. QED
    BY <1>4, <1>6, <1>7, <1>11, <1>12

\* The root has room for all nodes.
LEMMA RootHas ==
  ASSUME NEW t, Shape(t), NEW x \in DOMAIN t
  PROVE  \A n \in Nat : Has(t[x], n) => Has(t[Root], n)
  <1>1. Span(t[Root]) \in SizesOfContainers /\ Span(t[Root]) \in Nat
        /\ Span(t[x]) <= Span(t[Root])
    BY RootIs, BlockIs, ContainerIs DEF Shape
  <1>2. PICK a \in DOMAIN t : /\ Span(t[a]) = Span(t[Root])
                              /\ \A n \in Nat : Has(t[x], n) => Has(t[a], n)
    BY <1>1, Ancestor
  <1>3. a = Root
    BY <1>2, RootIs
  <1>4. QED
    BY <1>2, <1>3

-----------------------------------------------------------------------------
(* The ways down. *)

\* findnode finds the leaf that has room for a node.
LEMMA FindNodeIs ==
  ASSUME NEW t, Shape(t), NEW x \in DOMAIN t, IsLeaf(t[x]), NEW n \in Nat, Has(t[x], n)
  PROVE  FindNode(t, n) = x
  <1> DEFINE turns == Turns(t)
             below == [b \in DOMAIN t |->
                         IF IsLeaf(t[b]) THEN b
                         ELSE t[b].node[SlotOf(t[b], n)].block]
             at == CHOOSE at : at = [i \in 0..turns |->
                                       IF i = 0 THEN Root ELSE below[at[i - 1]]]
             S == {b \in DOMAIN t : Has(t[b], n)}
             g == [b \in S |-> below[b]]
             left == [b \in S |-> IF IsLeaf(t[b]) THEN 0 ELSE t[b].nodes]
  <1>1. FindNode(t, n) = at[turns]
    BY DEF FindNode, Repeat
  <1>2. turns \in Nat /\ Root \in S /\ left[Root] <= turns
    <2>1. turns \in Nat \ {0}
      BY RootIs DEF Turns
    <2>2. Root \in S
      BY RootIs, RootHas
    <2>3. left[Root] = IF IsLeaf(t[Root]) THEN 0 ELSE turns
      BY <2>2 DEF Turns
    <2>4. QED
      BY <2>1, <2>2, <2>3
  <1>3. ASSUME NEW b \in S
        PROVE  /\ below[b] \in S /\ left[b] \in Nat
               /\ left[below[b]] < left[b] \/ left[below[b]] = 0
    <2>1. CASE IsLeaf(t[b])
      <3>1. below[b] = b /\ left[b] = 0
        BY <2>1
      <3>2. QED
        BY <3>1
    <2>2. CASE ~IsLeaf(t[b])
      <3>1. Span(t[x]) < Span(t[b])
        BY <2>2, BlockIs, ContainerIs, Sizes DEF Shape
      <3>2. below[b] = t[b].node[SlotOf(t[b], n)].block
        BY <2>2
      <3> HIDE DEF below
      <3>3. below[b] \in S /\ t[below[b]].nodes < t[b].nodes
        BY <3>1, <3>2, OnTheWay
      <3>4. left[b] = t[b].nodes
            /\ left[below[b]] = IF IsLeaf(t[below[b]]) THEN 0 ELSE t[below[b]].nodes
        BY <3>3, <2>2
      <3>5. t[b].nodes \in Nat \ {0} /\ t[below[b]].nodes \in Nat
        BY <3>3, BlockIs, ContainerIs DEF Shape
      <3>6. QED
        BY <3>3, <3>4, <3>5
    <2>3. QED
      BY <2>1, <2>2
  <1>4. g \in [S -> S] /\ left \in [S -> Nat] /\ \A b \in S : g[b] = below[b]
    BY <1>3
  <1> HIDE DEF S, g, left, turns, below, at
  <1>5. PICK f : f \in Loops(S, Root, g, turns)
    BY <1>2, <1>4, RepeatExists
  <1>6. f = [i \in 0..turns |-> IF i = 0 THEN Root ELSE below[f[i - 1]]]
    <2>1. /\ f \in [0..turns -> S]
          /\ f = [i \in 0..turns |-> IF i = 0 THEN Root ELSE g[f[i - 1]]]
      BY <1>5 DEF Loops
    <2>2. \A i \in 0..turns : i # 0 => f[i - 1] \in S
      BY <1>2, <2>1
    <2>3. \A i \in 0..turns : i # 0 => g[f[i - 1]] = below[f[i - 1]]
      BY <1>4, <2>2
    <2>4. QED
      BY <2>1, <2>3, Zenon
  <1>7. at = [i \in 0..turns |-> IF i = 0 THEN Root ELSE below[at[i - 1]]]
    BY <1>6, Zenon DEF at
  <1>8. at[0] = Root /\ \A i \in 1..turns : at[i] = below[at[i - 1]]
    BY <1>2, <1>7
  <1>9. at[turns] \in S /\ left[at[turns]] = 0
    <2>1. \A b \in S : left[g[b]] < left[b] \/ left[g[b]] = 0
      BY <1>3, <1>4
    <2>2. \A i \in 1..turns : at[i - 1] \in S => at[i] = g[at[i - 1]]
      BY <1>4, <1>8
    <2>3. /\ turns \in Nat /\ Root \in S /\ left[Root] <= turns /\ at[0] = Root
          /\ g \in [S -> S] /\ left \in [S -> Nat]
      BY <1>2, <1>4, <1>8
    <2>4. QED
      BY <2>1, <2>2, <2>3, RepeatEnds
  <1>10. IsLeaf(t[at[turns]])
    <2>1. at[turns] \in DOMAIN t
      BY <1>9 DEF S
    <2>2. t[at[turns]].nodes # 0
      BY <2>1, BlockIs, ContainerIs DEF Shape
    <2>3. QED
      BY <1>9, <2>1, <2>2 DEF left
  <1>11. Span(t[at[turns]]) = Span(t[x])
    BY <1>9, <1>10, BlockIs, ContainerIs DEF S, Shape
  <1>12. at[turns] = x
    BY <1>9, <1>11 DEF S, Shape, Apart
  <1>13. QED
    BY <1>1, <1>12

\* parentnodecontainer finds the container with the pointer to this one.
LEMMA ParentIs ==
  ASSUME NEW t, Shape(t), NEW x \in DOMAIN t
  PROVE  IF x = Root THEN Parent(t, x) = NoParent
         ELSE /\ Parent(t, x) \in DOMAIN t /\ Parent(t, x) # NoParent
              /\ PointsTo(t, Parent(t, x),
                          SlotOf(t[Parent(t, x)], t[x].nodenumber), x)
  <1> DEFINE n == t[x].nodenumber
             turns == Turns(t)
             c(at) == t[at.noderoot]
             Turn(at) == IF at.noderoot = x THEN at
                         ELSE [cb |-> at.noderoot,
                               noderoot |-> c(at).node[SlotOf(c(at), n)].block]
             start == [cb |-> NoParent, noderoot |-> Root]
             at == CHOOSE at : at = [i \in 0..turns |->
                                       IF i = 0 THEN start ELSE Turn(at[i - 1])]
             Good(s) == /\ Has(t[s.noderoot], n) /\ Span(t[x]) <= Span(t[s.noderoot])
                        /\ IF s.noderoot = Root THEN s.cb = NoParent
                           ELSE PointsTo(t, s.cb, SlotOf(t[s.cb], n), s.noderoot)
             S == {s \in [cb : Nat, noderoot : DOMAIN t] : Good(s)}
             g == [s \in S |-> Turn(s)]
             left == [s \in S |-> IF s.noderoot = x THEN 0 ELSE t[s.noderoot].nodes]
  <1>1. Parent(t, x) = at[turns].cb
    BY DEF Parent, Repeat
  <1>2. n \in Nat /\ Has(t[x], n)
    BY HasOwn DEF Shape
  <1>3. turns \in Nat /\ start \in S /\ left[start] <= turns
    <2>1. turns \in Nat \ {0}
      BY RootIs DEF Turns
    <2>2. Has(t[Root], n) /\ Span(t[x]) <= Span(t[Root]) /\ Root \in DOMAIN t
      BY <1>2, RootIs, RootHas
    <2>3. start \in S
      BY <2>2 DEF NoParent
    <2>4. left[start] = IF Root = x THEN 0 ELSE turns
      BY <2>3 DEF Turns
    <2>5. QED
      BY <2>1, <2>3, <2>4
  <1>4. ASSUME NEW s \in S
        PROVE  /\ Turn(s) \in S /\ left[s] \in Nat
               /\ left[Turn(s)] < left[s] \/ left[Turn(s)] = 0
    <2>1. /\ s.noderoot \in DOMAIN t /\ s.cb \in Nat /\ Has(t[s.noderoot], n)
          /\ Span(t[x]) <= Span(t[s.noderoot])
      OBVIOUS
    <2>2. t[s.noderoot].nodes \in Nat \ {0} /\ Span(t[s.noderoot]) \in Nat
          /\ Span(t[x]) \in Nat
      BY <2>1, BlockIs, ContainerIs DEF Shape
    <2>3. CASE s.noderoot = x
      <3>1. Turn(s) = s /\ left[s] = 0
        BY <2>3
      <3> HIDE DEF Turn, left, S
      <3>2. QED
        BY <3>1
    <2>4. CASE s.noderoot # x
      <3> DEFINE b == s.noderoot
                 child == t[b].node[SlotOf(t[b], n)].block
      <3>1. Span(t[x]) < Span(t[b])
        <4>1. Span(t[x]) # Span(t[b])
          BY <1>2, <2>1, <2>4 DEF Shape, Apart
        <4>2. QED
          BY <2>1, <2>2, <4>1
      <3>2. Turn(s) = [cb |-> b, noderoot |-> child]
        BY <2>4
      <3>3. /\ PointsTo(t, b, SlotOf(t[b], n), child)
            /\ child \in DOMAIN t \ {Root} /\ Has(t[child], n)
            /\ Span(t[x]) <= Span(t[child])
            /\ t[child].nodes < t[b].nodes
        BY <1>2, <2>1, <3>1, OnTheWay
      <3>4. b \in Nat
        BY <2>1, BlockIs DEF Shape
      <3> DEFINE r == [cb |-> b, noderoot |-> child]
      <3>5. r.cb = b /\ r.noderoot = child /\ r \in [cb : Nat, noderoot : DOMAIN t]
        BY <3>3, <3>4
      <3> HIDE DEF r, child, b
      <3>6. Good(r)
        BY <3>3, <3>5
      <3>7. r \in S
        BY <3>5, <3>6
      <3>8. left[r] = IF child = x THEN 0 ELSE t[child].nodes
        BY <3>5, <3>7
      <3>9. left[s] = t[b].nodes
        BY <2>4 DEF b
      <3>10. t[child].nodes \in Nat
        BY <3>3, BlockIs, ContainerIs DEF Shape
      <3>11. t[b].nodes \in Nat \ {0}
        BY <2>2 DEF b
      <3>12. Turn(s) = r
        BY <3>2 DEF r
      <3> HIDE DEF left, Good, S, Turn
      <3>13. QED
        BY <3>3, <3>7, <3>8, <3>9, <3>10, <3>11, <3>12
    <2>5. QED
      BY <2>3, <2>4
  <1>5. g \in [S -> S] /\ left \in [S -> Nat] /\ \A s \in S : g[s] = Turn(s)
    <2> HIDE DEF S, Turn
    <2>1. g \in [S -> S]
      BY <1>4
    <2>2. \A s \in S : left[s] \in Nat
      BY <1>4
    <2>3. QED
      BY <2>1, <2>2
  <1> HIDE DEF S, g, left, turns, Turn, at, start
  <1>6. PICK f : f \in Loops(S, start, g, turns)
    BY <1>3, <1>5, RepeatExists
  <1>7. f = [i \in 0..turns |-> IF i = 0 THEN start ELSE Turn(f[i - 1])]
    <2>1. /\ f \in [0..turns -> S]
          /\ f = [i \in 0..turns |-> IF i = 0 THEN start ELSE g[f[i - 1]]]
      BY <1>6 DEF Loops
    <2>2. \A i \in 0..turns : i # 0 => f[i - 1] \in S
      BY <1>3, <2>1
    <2>3. \A i \in 0..turns : i # 0 => g[f[i - 1]] = Turn(f[i - 1])
      BY <1>5, <2>2
    <2>4. QED
      BY <2>1, <2>3, Zenon
  <1>8. at = [i \in 0..turns |-> IF i = 0 THEN start ELSE Turn(at[i - 1])]
    BY <1>7, Zenon DEF at
  <1>9. at[0] = start /\ \A i \in 1..turns : at[i] = Turn(at[i - 1])
    BY <1>3, <1>8
  <1>10. at[turns] \in S /\ left[at[turns]] = 0
    <2>1. \A s \in S : left[g[s]] < left[s] \/ left[g[s]] = 0
      BY <1>4, <1>5
    <2>2. \A i \in 1..turns : at[i - 1] \in S => at[i] = g[at[i - 1]]
      BY <1>5, <1>9
    <2>3. /\ turns \in Nat /\ start \in S /\ left[start] <= turns /\ at[0] = start
          /\ g \in [S -> S] /\ left \in [S -> Nat]
      BY <1>3, <1>5, <1>9
    <2>4. QED
      BY <2>1, <2>2, <2>3, RepeatEnds
  <1> DEFINE r == at[turns]
  <1>11. r \in S /\ left[r] = 0
    BY <1>10
  <1> HIDE DEF r
  <1>12. r.noderoot \in DOMAIN t /\ Good(r)
    BY <1>11 DEF S
  <1>13. r.noderoot = x
    <2>1. t[r.noderoot].nodes # 0
      BY <1>12, BlockIs, ContainerIs DEF Shape
    <2>2. left[r] = IF r.noderoot = x THEN 0 ELSE t[r.noderoot].nodes
      BY <1>11 DEF left
    <2>3. QED
      BY <1>11, <2>1, <2>2
  <1>14. Parent(t, x) = r.cb
    BY <1>1 DEF r
  <1>15. IF x = Root THEN r.cb = NoParent ELSE PointsTo(t, r.cb, SlotOf(t[r.cb], n), x)
    BY <1>12, <1>13
  <1>16. x # Root => r.cb \in DOMAIN t /\ r.cb # NoParent
    BY <1>15, BlockIs DEF PointsTo, NoParent, Shape
  <1>17. QED
    BY <1>14, <1>15, <1>16

-----------------------------------------------------------------------------
(* The bits of full containers. *)

Full(c) == IF IsLeaf(c) THEN \A n \in 1..LeafNodes : c.node[n] ELSE IsFull(c)

\* Each bit says whether the container is full; that of block x may be wrong.
Bits(t, x) ==
  \A a \in DOMAIN t, p \in 1..NodeContainers, b \in Nat \ {0, x} :
    PointsTo(t, a, p, b) => t[a].node[p].full = Full(t[b])

\* The containers of u are where those of t are.
SamePlaces(t, u) ==
  /\ DOMAIN u = DOMAIN t
  /\ \A b \in DOMAIN t :
       /\ u[b].nodenumber = t[b].nodenumber /\ u[b].nodes = t[b].nodes
       /\ ~IsLeaf(t[b]) => \A p \in 1..NodeContainers :
                              u[b].node[p].block = t[b].node[p].block

\* The leaves are the same too.
SameNodes(t, u) ==
  SamePlaces(t, u) /\ \A b \in DOMAIN t : IsLeaf(t[b]) => u[b] = t[b]

\* Containers in the same places have the same nodes and pointers.
LEMMA SamePlacesIs ==
  ASSUME NEW t, NEW u, SamePlaces(t, u)
  PROVE  /\ DOMAIN u = DOMAIN t
         /\ \A b \in DOMAIN t : /\ IsLeaf(u[b]) = IsLeaf(t[b]) /\ Span(u[b]) = Span(t[b])
                                /\ u[b].nodenumber = t[b].nodenumber
                                /\ u[b].nodes = t[b].nodes
                                /\ \A n : Has(u[b], n) = Has(t[b], n)
                                /\ \A n : SlotOf(u[b], n) = SlotOf(t[b], n)
                                /\ \A n : FirstBelow(u[b], n) = FirstBelow(t[b], n)
         /\ \A a, p, b : PointsTo(u, a, p, b) = PointsTo(t, a, p, b)
  <1>1. DOMAIN u = DOMAIN t
    BY DEF SamePlaces
  <1>2. \A b \in DOMAIN t : u[b].nodenumber = t[b].nodenumber /\ u[b].nodes = t[b].nodes
    BY DEF SamePlaces
  <1>3. \A b \in DOMAIN t : IsLeaf(u[b]) = IsLeaf(t[b]) /\ Span(u[b]) = Span(t[b])
    BY <1>2 DEF IsLeaf, Span
  <1>4. ASSUME NEW b \in DOMAIN t, NEW n
        PROVE  /\ Has(u[b], n) = Has(t[b], n) /\ SlotOf(u[b], n) = SlotOf(t[b], n)
               /\ FirstBelow(u[b], n) = FirstBelow(t[b], n)
    BY <1>2, <1>3 DEF Has, SlotOf, FirstBelow
  <1>5. ASSUME NEW a, NEW p, NEW b
        PROVE  PointsTo(u, a, p, b) = PointsTo(t, a, p, b)
    <2>1. CASE a \in DOMAIN t /\ ~IsLeaf(t[a]) /\ p \in 1..NodeContainers
      <3>1. u[a].node[p].block = t[a].node[p].block
        BY <2>1 DEF SamePlaces
      <3>2. QED
        BY <2>1, <1>1, <1>3, <3>1 DEF PointsTo
    <2>2. CASE ~(a \in DOMAIN t /\ ~IsLeaf(t[a]) /\ p \in 1..NodeContainers)
      BY <2>2, <1>1, <1>3 DEF PointsTo
    <2>3. QED
      BY <2>1, <2>2
  <1>6. QED
    BY <1>1, <1>2, <1>3, <1>4, <1>5

\* A change of full bits and slots alone keeps the shape.
LEMMA SameShape ==
  ASSUME NEW t, Shape(t), NEW u, Typed(u), SamePlaces(t, u),
         \A a \in DOMAIN t, p \in 1..NodeContainers :
           PointsTo(t, a, p, 0) => ~u[a].node[p].full
  PROVE  Shape(u)
  <1> USE SamePlacesIs
  <1>1. Rooted(u)
    BY DEF Shape, Rooted
  <1>2. Linked(u)
    <2>1. ASSUME NEW a \in DOMAIN u, NEW p \in 1..NodeContainers, NEW b \in Nat,
                 PointsTo(u, a, p, b)
          PROVE  IF b = 0 THEN ~u[a].node[p].full
                 ELSE /\ b \in DOMAIN u \ {Root} /\ Span(u[b]) = u[a].nodes
                      /\ u[b].nodenumber = FirstBelow(u[a], p)
      <3>1. a \in DOMAIN t /\ PointsTo(t, a, p, b)
        BY <2>1
      <3>2. CASE b = 0
        BY <3>1, <3>2
      <3>3. CASE b # 0
        <4>1. b \in DOMAIN t \ {Root} /\ Span(t[b]) = t[a].nodes
              /\ t[b].nodenumber = FirstBelow(t[a], p)
          BY <3>1, <3>3 DEF Shape, Linked
        <4>2. QED
          BY <3>1, <3>3, <4>1
      <3>4. QED
        BY <3>2, <3>3
    <2>2. QED
      BY <2>1 DEF Linked
  <1>3. Reached(u)
    BY DEF Shape, Reached
  <1>4. Apart(u)
    BY DEF Shape, Apart
  <1>5. QED
    BY <1>1, <1>2, <1>3, <1>4 DEF Shape

\* Two changes after each other.
LEMMA SamePlacesAgain ==
  ASSUME NEW t, NEW u, NEW v, SameNodes(t, u), SameNodes(u, v)
  PROVE  SameNodes(t, v)
  <1>1. DOMAIN u = DOMAIN t /\ DOMAIN v = DOMAIN t
    BY DEF SameNodes, SamePlaces
  <1>2. ASSUME NEW b \in DOMAIN t
        PROVE  /\ v[b].nodenumber = t[b].nodenumber /\ v[b].nodes = t[b].nodes
               /\ ~IsLeaf(t[b]) => \A p \in 1..NodeContainers :
                                      v[b].node[p].block = t[b].node[p].block
               /\ IsLeaf(t[b]) => v[b] = t[b]
    BY <1>1 DEF SameNodes, SamePlaces, IsLeaf
  <1>3. QED
    BY <1>1, <1>2 DEF SameNodes, SamePlaces

\* A bit is set or cleared.
LEMMA SetFullIs ==
  ASSUME NEW t, Shape(t), NEW a, NEW b, b # 0, NEW full \in BOOLEAN,
         PointsTo(t, a, SlotOf(t[a], t[b].nodenumber), b)
  PROVE  LET u == SetFull(t, a, b, full)
             p == SlotOf(t[a], t[b].nodenumber)
         IN /\ Shape(u) /\ SameNodes(t, u)
            /\ u \in [DOMAIN t -> Leaves \cup Indices]
            /\ \A c \in DOMAIN t \ {a} : u[c] = t[c]
            /\ \A q \in 1..NodeContainers :
                 u[a].node[q].full = IF q = p THEN full ELSE t[a].node[q].full
  <1> DEFINE p == SlotOf(t[a], t[b].nodenumber)
             u == SetFull(t, a, b, full)
             new == [t[a] EXCEPT !.node[p].full = full]
  <1>1. a \in DOMAIN t /\ ~IsLeaf(t[a]) /\ p \in 1..NodeContainers
        /\ t[a].node[p].block = b
    BY DEF PointsTo
  <1> HIDE DEF p
  <1>2. t[a] \in Indices /\ t \in [DOMAIN t -> Leaves \cup Indices]
        /\ DOMAIN t \subseteq Nat \ {0}
    BY <1>1, BlockIs, ContainerIs DEF Shape, Typed
  <1>3. /\ new \in Indices /\ new.nodenumber = t[a].nodenumber /\ new.nodes = t[a].nodes
        /\ \A q \in 1..NodeContainers :
             /\ new.node[q].block = t[a].node[q].block
             /\ new.node[q].full = IF q = p THEN full ELSE t[a].node[q].full
    BY <1>1, <1>2 DEF Indices, Pointers
  <1>4. u = [t EXCEPT ![a] = new]
    BY DEF SetFull, p
  <1> HIDE DEF u, new
  <1>5. DOMAIN u = DOMAIN t /\ u[a] = new /\ \A c \in DOMAIN t \ {a} : u[c] = t[c]
    BY <1>1, <1>2, <1>4
  <1>6. u \in [DOMAIN t -> Leaves \cup Indices]
    BY <1>1, <1>2, <1>3, <1>4
  <1>7. SamePlaces(t, u)
    <2>1. ASSUME NEW c \in DOMAIN t
          PROVE  /\ u[c].nodenumber = t[c].nodenumber /\ u[c].nodes = t[c].nodes
                 /\ ~IsLeaf(t[c]) => \A q \in 1..NodeContainers :
                                        u[c].node[q].block = t[c].node[q].block
      BY <1>3, <1>5
    <2>2. QED
      BY <1>5, <2>1 DEF SamePlaces
  <1>8. SameNodes(t, u)
    BY <1>1, <1>5, <1>7 DEF SameNodes
  <1>9. Shape(u)
    <2>1. ASSUME NEW c \in DOMAIN t, NEW q \in 1..NodeContainers, PointsTo(t, c, q, 0)
          PROVE  ~u[c].node[q].full
      <3>1. ~t[c].node[q].full /\ t[c].node[q].block = 0
        BY <2>1 DEF Shape, Linked, PointsTo
      <3>2. CASE c = a
        <4>1. q # p
          BY <1>1, <3>1, <3>2
        <4>2. QED
          BY <1>3, <1>5, <3>1, <3>2, <4>1
      <3>3. CASE c # a
        BY <1>5, <3>1, <3>3
      <3>4. QED
        BY <3>2, <3>3
    <2>2. Typed(u)
      BY <1>2, <1>5, <1>6 DEF Typed
    <2>3. QED
      BY <1>7, <2>1, <2>2, SameShape
  <1>10. \A q \in 1..NodeContainers :
           u[a].node[q].full = IF q = p THEN full ELSE t[a].node[q].full
    BY <1>3, <1>5
  <1>11. QED
    BY <1>5, <1>6, <1>8, <1>9, <1>10 DEF u, p

\* A turn of markparentfull or markparentempty.
LEMMA MarkIs ==
  ASSUME NEW t, Shape(t), NEW x \in DOMAIN t \ {Root}, Bits(t, x),
         NEW full \in BOOLEAN, Full(t[x]) = full
  PROVE  LET parent == Parent(t, x)
             m == SetFull(t, parent, x, full)
         IN /\ parent \in DOMAIN t /\ parent # NoParent
            /\ Span(t[x]) < Span(t[parent])
            /\ Shape(m) /\ SameNodes(t, m)
            /\ m \in [DOMAIN t -> Leaves \cup Indices]
            /\ Bits(m, parent)
            /\ full /\ IsFull(m[parent]) => Full(m[parent])
            /\ ~full => ~Full(m[parent])
            /\ full /\ ~IsFull(m[parent]) => Bits(m, Root)
            /\ ~full /\ ~IsFull(t[parent]) => Bits(m, Root)
  <1> DEFINE parent == Parent(t, x)
             slot == SlotOf(t[parent], t[x].nodenumber)
             m == SetFull(t, parent, x, full)
  <1>1. /\ parent \in DOMAIN t /\ parent # NoParent
        /\ PointsTo(t, parent, slot, x)
    BY ParentIs
  <1>2. x # 0 /\ x \in Nat /\ parent # 0 /\ parent \in Nat
    BY <1>1, BlockIs DEF Shape
  <1>3. /\ t[parent] \in Indices /\ slot \in 1..NodeContainers
        /\ Span(t[x]) = t[parent].nodes /\ t[parent].node[slot].block = x
        /\ ~IsLeaf(t[parent])
    BY <1>1, <1>2, PointedTo DEF PointsTo
  <1>4. Span(t[x]) < Span(t[parent])
    BY <1>1, <1>3, BlockIs, ContainerIs DEF Shape
  <1>5. x # parent
    BY <1>1, <1>4, BlockIs, ContainerIs DEF Shape
  <1>6. /\ Shape(m) /\ SameNodes(t, m) /\ m \in [DOMAIN t -> Leaves \cup Indices]
        /\ \A c \in DOMAIN t \ {parent} : m[c] = t[c]
        /\ \A q \in 1..NodeContainers :
             m[parent].node[q].full = IF q = slot THEN full ELSE t[parent].node[q].full
    BY <1>1, <1>2, SetFullIs
  <1> HIDE DEF m, slot, parent
  <1>7. /\ \A a, p, b : PointsTo(m, a, p, b) = PointsTo(t, a, p, b)
        /\ DOMAIN m = DOMAIN t /\ ~IsLeaf(m[parent]) /\ m[parent] \in Indices
    <2>1. SamePlaces(t, m)
      BY <1>6 DEF SameNodes
    <2>2. DOMAIN m = DOMAIN t /\ ~IsLeaf(m[parent])
      BY <1>1, <1>3, <2>1, SamePlacesIs
    <2>3. m[parent] \in Leaves \cup Indices
      BY <1>1, <1>6
    <2>4. m[parent] \in Indices
      BY <2>2, <2>3, ContainerIs
    <2>5. QED
      BY <2>1, <2>2, <2>4, SamePlacesIs
  <1>8. \A q \in 1..NodeContainers : m[parent].node[q].block = t[parent].node[q].block
    BY <1>1, <1>3, <1>6 DEF SameNodes, SamePlaces
  <1>9. DOMAIN t[parent].node = 1..NodeContainers
        /\ DOMAIN m[parent].node = 1..NodeContainers
    BY <1>3, <1>7 DEF Indices
  <1>10. /\ full /\ IsFull(t[parent]) => IsFull(m[parent])
         /\ ~full => ~IsFull(m[parent])
    BY <1>3, <1>6, <1>8, <1>9 DEF IsFull
  <1>11. Full(m[parent]) = IsFull(m[parent]) /\ Full(t[parent]) = IsFull(t[parent])
    BY <1>3, <1>7 DEF Full
  <1>12. ASSUME NEW a \in DOMAIN t, NEW p \in 1..NodeContainers, NEW b \in Nat \ {0},
                PointsTo(t, a, p, b), b # x
         PROVE  m[a].node[p].full = Full(t[b])
    <2>1. t[a].node[p].full = Full(t[b])
      BY <1>12 DEF Bits
    <2>2. t[a].node[p].block = b
      BY <1>12 DEF PointsTo
    <2>3. CASE a = parent
      <3>1. p # slot
        BY <1>3, <1>12, <2>2, <2>3
      <3>2. QED
        BY <1>6, <2>1, <2>3, <3>1
    <2>4. CASE a # parent
      BY <1>6, <2>1, <2>4
    <2>5. QED
      BY <2>3, <2>4
  <1>13. Bits(m, parent)
    <2>1. ASSUME NEW a \in DOMAIN m, NEW p \in 1..NodeContainers,
                 NEW b \in Nat \ {0, parent}, PointsTo(m, a, p, b)
          PROVE  m[a].node[p].full = Full(m[b])
      <3>1. PointsTo(t, a, p, b) /\ a \in DOMAIN t /\ b \in DOMAIN t /\ m[b] = t[b]
        <4>1. PointsTo(t, a, p, b)
          BY <2>1, <1>7
        <4>2. b \in DOMAIN t
          BY <4>1, PointedTo
        <4>3. QED
          BY <1>6, <1>7, <4>1, <4>2
      <3>2. CASE b = x
        <4>1. a = parent /\ p = slot
          BY <1>1, <1>2, <3>1, <3>2, OnePointer
        <4>2. QED
          BY <1>3, <1>6, <3>1, <3>2, <4>1
      <3>3. CASE b # x
        BY <1>12, <3>1, <3>3
      <3>4. QED
        BY <3>2, <3>3
    <2>2. QED
      BY <2>1 DEF Bits
  <1>14. ASSUME Full(t[parent]) = Full(m[parent]) PROVE Bits(m, Root)
    <2>1. ASSUME NEW a \in DOMAIN m, NEW p \in 1..NodeContainers,
                 NEW b \in Nat \ {0, Root}, PointsTo(m, a, p, b)
          PROVE  m[a].node[p].full = Full(m[b])
      <3>1. CASE b = parent
        BY <1>5, <1>7, <1>12, <1>14, <2>1, <3>1
      <3>2. CASE b # parent
        BY <1>13, <2>1, <3>2 DEF Bits
      <3>3. QED
        BY <3>1, <3>2
    <2>2. QED
      BY <2>1 DEF Bits
  <1>15. IsFull(m[parent]) \in BOOLEAN /\ IsFull(t[parent]) \in BOOLEAN
    BY DEF IsFull
  <1>16. /\ full /\ ~IsFull(m[parent]) => Bits(m, Root)
         /\ ~full /\ ~IsFull(t[parent]) => Bits(m, Root)
    BY <1>10, <1>11, <1>14, <1>15
  <1>17. QED
    BY <1>1, <1>4, <1>6, <1>10, <1>11, <1>13, <1>16 DEF parent, m

\* MarkParentFull puts the bits right again, up to the root.
LEMMA MarkParentFullIs ==
  ASSUME NEW t, Shape(t), NEW x \in DOMAIN t, Bits(t, x), x # Root => Full(t[x])
  PROVE  LET u == MarkParentFull(t, x)
         IN Shape(u) /\ SameNodes(t, u) /\ Bits(u, Root)
  <1> DEFINE turns == Turns(t)
             parent(s) == Parent(s.tree, s.block)
             m(s) == SetFull(s.tree, parent(s), s.block, TRUE)
             Turn(s) == IF parent(s) = NoParent THEN s
                        ELSE [tree |-> m(s),
                              block |-> IF IsFull(m(s)[parent(s)]) THEN parent(s) ELSE Root]
             start == [tree |-> t, block |-> x]
             at == CHOOSE at : at = [i \in 0..turns |->
                                       IF i = 0 THEN start ELSE Turn(at[i - 1])]
             Good(s) == /\ Shape(s.tree) /\ SameNodes(t, s.tree) /\ Bits(s.tree, s.block)
                        /\ s.block # Root => Full(s.tree[s.block])
             S == {s \in [tree : [DOMAIN t -> Leaves \cup Indices], block : DOMAIN t] :
                     Good(s)}
             g == [s \in S |-> Turn(s)]
             left == [s \in S |-> IF s.block = Root THEN 0
                                  ELSE turns + 1 - Span(t[s.block])]
  <1>1. MarkParentFull(t, x) = at[turns].tree
    BY DEF MarkParentFull, Repeat
  <1>2. /\ turns \in Nat \ {0} /\ Root \in DOMAIN t
        /\ \A b \in DOMAIN t : Span(t[b]) \in Nat /\ Span(t[b]) >= 1
        /\ \A b \in DOMAIN t : b # Root => Span(t[b]) <= turns
    BY RootIs, BlockIs, ContainerIs DEF Turns, Shape
  <1>3. start \in S /\ left[start] <= turns
    <2>1. start \in [tree : [DOMAIN t -> Leaves \cup Indices], block : DOMAIN t]
      BY DEF Shape, Typed
    <2>2. SameNodes(t, t)
      BY DEF SameNodes, SamePlaces
    <2>3. start.tree = t /\ start.block = x
      OBVIOUS
    <2> HIDE DEF start
    <2>4. start \in S
      BY <2>1, <2>2, <2>3
    <2>5. left[start] = IF x = Root THEN 0 ELSE turns + 1 - Span(t[x])
      BY <2>3, <2>4
    <2>6. QED
      BY <1>2, <2>4, <2>5
  <1>4. ASSUME NEW s \in S
        PROVE  /\ Turn(s) \in S /\ left[s] \in Nat
               /\ left[Turn(s)] < left[s] \/ left[Turn(s)] = 0
    <2>1. /\ s.tree \in [DOMAIN t -> Leaves \cup Indices] /\ s.block \in DOMAIN t
          /\ Good(s)
      OBVIOUS
    <2>2. DOMAIN s.tree = DOMAIN t
      BY <2>1
    <2>3. CASE s.block = Root
      <3>1. parent(s) = NoParent
        BY <2>1, <2>2, <2>3, ParentIs
      <3>2. Turn(s) = s /\ left[s] = 0
        BY <2>3, <3>1
      <3> HIDE DEF Turn, left, S
      <3>3. QED
        BY <3>2
    <2>4. CASE s.block # Root
      <3> DEFINE r == Turn(s)
                 q == parent(s)
      <3>1. s.block \in DOMAIN s.tree \ {Root} /\ Bits(s.tree, s.block)
            /\ Shape(s.tree) /\ Full(s.tree[s.block]) = TRUE
        <4>1. Full(s.tree[s.block]) \in BOOLEAN
          BY DEF Full, IsFull
        <4>2. QED
          BY <2>1, <2>2, <2>4, <4>1
      <3>2. /\ q \in DOMAIN t /\ q # NoParent
            /\ Span(s.tree[s.block]) < Span(s.tree[q])
            /\ Shape(m(s)) /\ SameNodes(s.tree, m(s))
            /\ m(s) \in [DOMAIN t -> Leaves \cup Indices]
            /\ Bits(m(s), q)
            /\ IsFull(m(s)[q]) => Full(m(s)[q])
            /\ ~IsFull(m(s)[q]) => Bits(m(s), Root)
        BY <2>2, <3>1, MarkIs
      <3>3. /\ r.tree = m(s) /\ r.block = IF IsFull(m(s)[q]) THEN q ELSE Root
            /\ r \in [tree : [DOMAIN t -> Leaves \cup Indices], block : DOMAIN t]
        BY <1>2, <3>2
      <3>4. SameNodes(t, m(s))
        BY <2>1, <3>2, SamePlacesAgain
      <3>5. Span(t[s.block]) < Span(t[q])
        <4>1. SamePlaces(t, s.tree)
          BY <2>1 DEF SameNodes
        <4>2. QED
          BY <2>1, <3>2, <4>1, SamePlacesIs
      <3> HIDE DEF q, r, m, Turn
      <3>6. Good(r)
        BY <3>2, <3>3, <3>4
      <3>7. r \in S
        BY <3>3, <3>6
      <3>8. left[r] = IF r.block = Root THEN 0 ELSE turns + 1 - Span(t[r.block])
        BY <3>7
      <3>9. left[s] = turns + 1 - Span(t[s.block])
        BY <2>4
      <3>10. Turn(s) = r
        BY DEF r
      <3> HIDE DEF left, S
      <3>11. left[s] \in Nat
        BY <1>2, <2>1, <2>4, <3>9
      <3>12. left[r] < left[s] \/ left[r] = 0
        BY <1>2, <2>1, <3>2, <3>3, <3>5, <3>8, <3>9
      <3>13. QED
        BY <3>7, <3>10, <3>11, <3>12
    <2>5. QED
      BY <2>3, <2>4
  <1>5. g \in [S -> S] /\ left \in [S -> Nat] /\ \A s \in S : g[s] = Turn(s)
    <2> HIDE DEF S, Turn
    <2>1. g \in [S -> S]
      BY <1>4
    <2>2. \A s \in S : left[s] \in Nat
      BY <1>4
    <2>3. QED
      BY <2>1, <2>2
  <1> HIDE DEF S, g, left, turns, Turn, at, start
  <1>6. PICK f : f \in Loops(S, start, g, turns)
    BY <1>2, <1>3, <1>5, RepeatExists
  <1>7. f = [i \in 0..turns |-> IF i = 0 THEN start ELSE Turn(f[i - 1])]
    <2>1. /\ f \in [0..turns -> S]
          /\ f = [i \in 0..turns |-> IF i = 0 THEN start ELSE g[f[i - 1]]]
      BY <1>6 DEF Loops
    <2>2. \A i \in 0..turns : i # 0 => f[i - 1] \in S
      BY <1>2, <2>1
    <2>3. \A i \in 0..turns : i # 0 => g[f[i - 1]] = Turn(f[i - 1])
      BY <1>5, <2>2
    <2>4. QED
      BY <2>1, <2>3, Zenon
  <1>8. at = [i \in 0..turns |-> IF i = 0 THEN start ELSE Turn(at[i - 1])]
    BY <1>7, Zenon DEF at
  <1>9. at[0] = start /\ \A i \in 1..turns : at[i] = Turn(at[i - 1])
    BY <1>2, <1>8
  <1>10. at[turns] \in S /\ left[at[turns]] = 0
    <2>1. \A s \in S : left[g[s]] < left[s] \/ left[g[s]] = 0
      BY <1>4, <1>5
    <2>2. \A i \in 1..turns : at[i - 1] \in S => at[i] = g[at[i - 1]]
      BY <1>5, <1>9
    <2>3. /\ turns \in Nat /\ start \in S /\ left[start] <= turns /\ at[0] = start
          /\ g \in [S -> S] /\ left \in [S -> Nat]
      BY <1>2, <1>3, <1>5, <1>9
    <2>4. QED
      BY <2>1, <2>2, <2>3, RepeatEnds
  <1> DEFINE r == at[turns]
  <1>11. r \in S /\ left[r] = 0
    BY <1>10
  <1>12. MarkParentFull(t, x) = r.tree
    BY <1>1
  <1> HIDE DEF r
  <1>13. Good(r) /\ r.block \in DOMAIN t
    BY <1>11 DEF S
  <1>14. r.block = Root
    <2>1. left[r] = IF r.block = Root THEN 0 ELSE turns + 1 - Span(t[r.block])
      BY <1>11 DEF left
    <2>2. QED
      BY <1>2, <1>11, <1>13, <2>1
  <1>15. QED
    BY <1>12, <1>13, <1>14

\* MarkParentEmpty puts the bits right again, up to the root.
LEMMA MarkParentEmptyIs ==
  ASSUME NEW t, Shape(t), NEW x \in DOMAIN t, Bits(t, x), x # Root => ~Full(t[x])
  PROVE  LET u == MarkParentEmpty(t, x)
         IN Shape(u) /\ SameNodes(t, u) /\ Bits(u, Root)
  <1> DEFINE turns == Turns(t)
             parent(s) == Parent(s.tree, s.block)
             m(s) == SetFull(s.tree, parent(s), s.block, FALSE)
             Turn(s) == IF parent(s) = NoParent THEN s
                        ELSE [tree |-> m(s),
                              block |-> IF IsFull(s.tree[parent(s)]) THEN parent(s) ELSE Root]
             start == [tree |-> t, block |-> x]
             at == CHOOSE at : at = [i \in 0..turns |->
                                       IF i = 0 THEN start ELSE Turn(at[i - 1])]
             Good(s) == /\ Shape(s.tree) /\ SameNodes(t, s.tree) /\ Bits(s.tree, s.block)
                        /\ s.block # Root => ~Full(s.tree[s.block])
             S == {s \in [tree : [DOMAIN t -> Leaves \cup Indices], block : DOMAIN t] :
                     Good(s)}
             g == [s \in S |-> Turn(s)]
             left == [s \in S |-> IF s.block = Root THEN 0
                                  ELSE turns + 1 - Span(t[s.block])]
  <1>1. MarkParentEmpty(t, x) = at[turns].tree
    BY DEF MarkParentEmpty, Repeat
  <1>2. /\ turns \in Nat \ {0} /\ Root \in DOMAIN t
        /\ \A b \in DOMAIN t : Span(t[b]) \in Nat /\ Span(t[b]) >= 1
        /\ \A b \in DOMAIN t : b # Root => Span(t[b]) <= turns
    BY RootIs, BlockIs, ContainerIs DEF Turns, Shape
  <1>3. start \in S /\ left[start] <= turns
    <2>1. start \in [tree : [DOMAIN t -> Leaves \cup Indices], block : DOMAIN t]
      BY DEF Shape, Typed
    <2>2. SameNodes(t, t)
      BY DEF SameNodes, SamePlaces
    <2>3. start.tree = t /\ start.block = x
      OBVIOUS
    <2> HIDE DEF start
    <2>4. start \in S
      BY <2>1, <2>2, <2>3
    <2>5. left[start] = IF x = Root THEN 0 ELSE turns + 1 - Span(t[x])
      BY <2>3, <2>4
    <2>6. QED
      BY <1>2, <2>4, <2>5
  <1>4. ASSUME NEW s \in S
        PROVE  /\ Turn(s) \in S /\ left[s] \in Nat
               /\ left[Turn(s)] < left[s] \/ left[Turn(s)] = 0
    <2>1. /\ s.tree \in [DOMAIN t -> Leaves \cup Indices] /\ s.block \in DOMAIN t
          /\ Good(s)
      OBVIOUS
    <2>2. DOMAIN s.tree = DOMAIN t
      BY <2>1
    <2>3. CASE s.block = Root
      <3>1. parent(s) = NoParent
        BY <2>1, <2>2, <2>3, ParentIs
      <3>2. Turn(s) = s /\ left[s] = 0
        BY <2>3, <3>1
      <3> HIDE DEF Turn, left, S
      <3>3. QED
        BY <3>2
    <2>4. CASE s.block # Root
      <3> DEFINE r == Turn(s)
                 q == parent(s)
      <3>1. s.block \in DOMAIN s.tree \ {Root} /\ Bits(s.tree, s.block)
            /\ Shape(s.tree) /\ Full(s.tree[s.block]) = FALSE
        <4>1. Full(s.tree[s.block]) \in BOOLEAN
          BY DEF Full, IsFull
        <4>2. QED
          BY <2>1, <2>2, <2>4, <4>1
      <3>2. /\ q \in DOMAIN t /\ q # NoParent
            /\ Span(s.tree[s.block]) < Span(s.tree[q])
            /\ Shape(m(s)) /\ SameNodes(s.tree, m(s))
            /\ m(s) \in [DOMAIN t -> Leaves \cup Indices]
            /\ Bits(m(s), q)
            /\ ~Full(m(s)[q])
            /\ ~IsFull(s.tree[q]) => Bits(m(s), Root)
        BY <2>2, <3>1, MarkIs
      <3>3. /\ r.tree = m(s) /\ r.block = IF IsFull(s.tree[q]) THEN q ELSE Root
            /\ r \in [tree : [DOMAIN t -> Leaves \cup Indices], block : DOMAIN t]
        BY <1>2, <3>2
      <3>4. SameNodes(t, m(s))
        BY <2>1, <3>2, SamePlacesAgain
      <3>5. Span(t[s.block]) < Span(t[q])
        <4>1. SamePlaces(t, s.tree)
          BY <2>1 DEF SameNodes
        <4>2. QED
          BY <2>1, <3>2, <4>1, SamePlacesIs
      <3> HIDE DEF q, r, m, Turn
      <3>6. Good(r)
        BY <3>2, <3>3, <3>4
      <3>7. r \in S
        BY <3>3, <3>6
      <3>8. left[r] = IF r.block = Root THEN 0 ELSE turns + 1 - Span(t[r.block])
        BY <3>7
      <3>9. left[s] = turns + 1 - Span(t[s.block])
        BY <2>4
      <3>10. Turn(s) = r
        BY DEF r
      <3> HIDE DEF left, S
      <3>11. left[s] \in Nat
        BY <1>2, <2>1, <2>4, <3>9
      <3>12. left[r] < left[s] \/ left[r] = 0
        BY <1>2, <2>1, <3>2, <3>3, <3>5, <3>8, <3>9
      <3>13. QED
        BY <3>7, <3>10, <3>11, <3>12
    <2>5. QED
      BY <2>3, <2>4
  <1>5. g \in [S -> S] /\ left \in [S -> Nat] /\ \A s \in S : g[s] = Turn(s)
    <2> HIDE DEF S, Turn
    <2>1. g \in [S -> S]
      BY <1>4
    <2>2. \A s \in S : left[s] \in Nat
      BY <1>4
    <2>3. QED
      BY <2>1, <2>2
  <1> HIDE DEF S, g, left, turns, Turn, at, start
  <1>6. PICK f : f \in Loops(S, start, g, turns)
    BY <1>2, <1>3, <1>5, RepeatExists
  <1>7. f = [i \in 0..turns |-> IF i = 0 THEN start ELSE Turn(f[i - 1])]
    <2>1. /\ f \in [0..turns -> S]
          /\ f = [i \in 0..turns |-> IF i = 0 THEN start ELSE g[f[i - 1]]]
      BY <1>6 DEF Loops
    <2>2. \A i \in 0..turns : i # 0 => f[i - 1] \in S
      BY <1>2, <2>1
    <2>3. \A i \in 0..turns : i # 0 => g[f[i - 1]] = Turn(f[i - 1])
      BY <1>5, <2>2
    <2>4. QED
      BY <2>1, <2>3, Zenon
  <1>8. at = [i \in 0..turns |-> IF i = 0 THEN start ELSE Turn(at[i - 1])]
    BY <1>7, Zenon DEF at
  <1>9. at[0] = start /\ \A i \in 1..turns : at[i] = Turn(at[i - 1])
    BY <1>2, <1>8
  <1>10. at[turns] \in S /\ left[at[turns]] = 0
    <2>1. \A s \in S : left[g[s]] < left[s] \/ left[g[s]] = 0
      BY <1>4, <1>5
    <2>2. \A i \in 1..turns : at[i - 1] \in S => at[i] = g[at[i - 1]]
      BY <1>5, <1>9
    <2>3. /\ turns \in Nat /\ start \in S /\ left[start] <= turns /\ at[0] = start
          /\ g \in [S -> S] /\ left \in [S -> Nat]
      BY <1>2, <1>3, <1>5, <1>9
    <2>4. QED
      BY <2>1, <2>2, <2>3, RepeatEnds
  <1> DEFINE r == at[turns]
  <1>11. r \in S /\ left[r] = 0
    BY <1>10
  <1>12. MarkParentEmpty(t, x) = r.tree
    BY <1>1
  <1> HIDE DEF r
  <1>13. Good(r) /\ r.block \in DOMAIN t
    BY <1>11 DEF S
  <1>14. r.block = Root
    <2>1. left[r] = IF r.block = Root THEN 0 ELSE turns + 1 - Span(t[r.block])
      BY <1>11 DEF left
    <2>2. QED
      BY <1>2, <1>11, <1>13, <2>1
  <1>15. QED
    BY <1>12, <1>13, <1>14

-----------------------------------------------------------------------------
(* The administration spaces. *)

Areas == {FirstArea} \cup MoreAreas
AreaEntries == [space : Areas, bits : SUBSET (0..(AreaSize - 1))]
Lists == Seq(AreaEntries)
SpaceContainers == [block : Nat, entries : Lists]
Chains == Seq(SpaceContainers)
Used(chain, i, j) == i \in DOMAIN chain /\ j \in DOMAIN chain[i].entries
ChainBlocks(chain) == {chain[i].block : i \in DOMAIN chain}

\* The entries are of different areas that are not free, and the blocks marked
\* in use are those of the chain and the blocks D.
ChainOkay(chain, room) ==
  /\ chain \in Chains
  /\ \A i \in DOMAIN chain : Len(chain[i].entries) <= MaxEntries
  /\ Used(chain, 1, 1) /\ chain[1].entries[1].space = FirstArea
  /\ room \subseteq MoreAreas
  /\ \A i, j : Used(chain, i, j) => chain[i].entries[j].space \notin room
  /\ \A i, j, k, l :
       /\ Used(chain, i, j) /\ Used(chain, k, l)
       /\ chain[i].entries[j].space = chain[k].entries[l].space
       => i = k /\ j = l
SpacesOkay(chain, room, D) ==
  /\ ChainOkay(chain, room)
  /\ MarkedBlocks(chain) = D \cup ChainBlocks(chain)
  /\ D \cap ChainBlocks(chain) = {}

\* A block is in one area, at one bit.
LEMMA AreasApart ==
  ASSUME NEW a \in Areas, NEW b \in Areas, NEW k \in 0..(AreaSize - 1),
         NEW l \in 0..(AreaSize - 1), a + k = b + l
  PROVE  a = b /\ k = l
  BY Sizes DEF Areas

\* The areas are blocks, the first one is not among the others.
LEMMA AreasAre ==
  /\ Areas \subseteq Nat \ {0}
  /\ FirstArea \in Areas /\ FirstArea \notin MoreAreas /\ MoreAreas \subseteq Areas
  BY Sizes DEF Areas

\* A sequence is a function on its positions.
LEMMA SeqIs ==
  ASSUME NEW X, NEW s \in Seq(X)
  PROVE  /\ Len(s) \in Nat /\ DOMAIN s = 1..Len(s) /\ s \in [1..Len(s) -> X]
         /\ \A i \in 1..Len(s) : s[i] \in X
  OBVIOUS

\* What there is in a chain of space containers.
LEMMA ChainIs ==
  ASSUME NEW chain \in Chains
  PROVE  /\ Len(chain) \in Nat /\ DOMAIN chain = 1..Len(chain)
         /\ chain \in [1..Len(chain) -> SpaceContainers]
         /\ \A i \in DOMAIN chain :
              /\ i \in Nat \ {0} /\ chain[i] \in SpaceContainers
              /\ chain[i].block \in Nat
              /\ chain[i].entries \in Seq(AreaEntries)
              /\ Len(chain[i].entries) \in Nat
              /\ DOMAIN chain[i].entries = 1..Len(chain[i].entries)
              /\ chain[i].entries \in [1..Len(chain[i].entries) -> AreaEntries]
  <1>1. /\ Len(chain) \in Nat /\ DOMAIN chain = 1..Len(chain)
        /\ chain \in [1..Len(chain) -> SpaceContainers]
        /\ \A i \in 1..Len(chain) : chain[i] \in SpaceContainers
    BY SeqIs DEF Chains
  <1>2. ASSUME NEW i \in DOMAIN chain
        PROVE  /\ i \in Nat \ {0} /\ chain[i] \in SpaceContainers
               /\ chain[i].block \in Nat
               /\ chain[i].entries \in Seq(AreaEntries)
               /\ Len(chain[i].entries) \in Nat
               /\ DOMAIN chain[i].entries = 1..Len(chain[i].entries)
               /\ chain[i].entries \in [1..Len(chain[i].entries) -> AreaEntries]
    <2>1. chain[i] \in SpaceContainers
      BY <1>1
    <2>2. chain[i].block \in Nat /\ chain[i].entries \in Lists
      BY <2>1 DEF SpaceContainers
    <2>3. chain[i].entries \in Seq(AreaEntries)
      BY <2>2 DEF Lists
    <2>4. /\ Len(chain[i].entries) \in Nat
          /\ DOMAIN chain[i].entries = 1..Len(chain[i].entries)
          /\ chain[i].entries \in [1..Len(chain[i].entries) -> AreaEntries]
      BY <2>3, SeqIs
    <2>5. i \in Nat \ {0}
      BY <1>1
    <2>6. QED
      BY <2>1, <2>2, <2>3, <2>4, <2>5
  <1>3. QED
    BY <1>1, <1>2

\* What there is in an entry.
LEMMA EntryIs ==
  ASSUME NEW e \in AreaEntries
  PROVE  /\ e.space \in Areas /\ e.space \in Nat \ {0}
         /\ e.bits \in SUBSET (0..(AreaSize - 1))
  BY AreasAre DEF AreaEntries

\* What a place in use says of its container and its entry.
LEMMA UsedIs ==
  ASSUME NEW chain \in Chains, NEW i, NEW j, Used(chain, i, j)
  PROVE  /\ i \in Nat \ {0} /\ i \in DOMAIN chain
         /\ j \in Nat \ {0} /\ j \in DOMAIN chain[i].entries
         /\ chain[i].entries[j] \in AreaEntries
         /\ chain[i].entries[j].space \in Areas
         /\ chain[i].entries[j].space \in Nat \ {0}
         /\ chain[i].entries[j].bits \in SUBSET (0..(AreaSize - 1))
  <1>1. i \in DOMAIN chain /\ j \in DOMAIN chain[i].entries
    BY DEF Used
  <1>2. i \in Nat \ {0} /\ j \in Nat \ {0} /\ chain[i].entries[j] \in AreaEntries
    BY <1>1, ChainIs
  <1>3. QED
    BY <1>1, <1>2, EntryIs

\* The entries in use, as pairs of indexes.
LEMMA InUseIs ==
  ASSUME NEW chain \in Chains,
         \A i \in DOMAIN chain : Len(chain[i].entries) <= MaxEntries
  PROVE  /\ \A i, j : <<i, j>> \in InUse(chain) <=> Used(chain, i, j)
         /\ \A p \in InUse(chain) : p = <<p[1], p[2]>> /\ Used(chain, p[1], p[2])
         /\ \A p \in Entries(chain) : p = <<p[1], p[2]>> /\ p[1] \in Nat /\ p[2] \in Nat
  <1>1. ASSUME NEW i, NEW j, <<i, j>> \in InUse(chain) PROVE Used(chain, i, j)
    <2>1. i \in DOMAIN chain /\ j \in 1..MaxEntries /\ j <= Len(chain[i].entries)
      BY <1>1 DEF InUse, Entries
    <2>2. /\ DOMAIN chain[i].entries = 1..Len(chain[i].entries)
          /\ Len(chain[i].entries) \in Nat
      BY <2>1, ChainIs
    <2>3. QED
      BY <2>1, <2>2, Sizes DEF Used
  <1>2. ASSUME NEW i, NEW j, Used(chain, i, j) PROVE <<i, j>> \in InUse(chain)
    <2>1. j \in DOMAIN chain[i].entries /\ i \in DOMAIN chain /\ j \in Nat \ {0}
      BY <1>2, UsedIs
    <2>2. /\ Len(chain[i].entries) \in Nat /\ Len(chain[i].entries) <= MaxEntries
          /\ DOMAIN chain[i].entries = 1..Len(chain[i].entries)
      BY <2>1, ChainIs
    <2>3. j \in 1..MaxEntries /\ j <= Len(chain[i].entries)
      BY <2>1, <2>2, Sizes
    <2>4. QED
      BY <2>1, <2>3 DEF InUse, Entries
  <1>3. ASSUME NEW p \in Entries(chain)
        PROVE  p = <<p[1], p[2]>> /\ p[1] \in Nat /\ p[2] \in Nat
    <2>1. DOMAIN chain \subseteq Nat
      BY ChainIs
    <2>2. QED
      BY <2>1, Sizes DEF Entries
  <1>4. ASSUME NEW p \in InUse(chain)
        PROVE  p = <<p[1], p[2]>> /\ Used(chain, p[1], p[2])
    <2>1. p = <<p[1], p[2]>>
      BY <1>3 DEF InUse
    <2>2. QED
      BY <1>1, <2>1
  <1>5. QED
    BY <1>1, <1>2, <1>3, <1>4

\* The marked blocks are those of the bits set in the entries in use.
LEMMA MarkedIs ==
  ASSUME NEW chain \in Chains,
         \A i \in DOMAIN chain : Len(chain[i].entries) <= MaxEntries
  PROVE  \A x : x \in MarkedBlocks(chain) <=>
           \E i, j : /\ Used(chain, i, j)
                     /\ \E k \in chain[i].entries[j].bits :
                          x = chain[i].entries[j].space + k
  <1>1. ASSUME NEW x, x \in MarkedBlocks(chain)
        PROVE  \E i, j : /\ Used(chain, i, j)
                         /\ \E k \in chain[i].entries[j].bits :
                              x = chain[i].entries[j].space + k
    <2>1. PICK p \in InUse(chain) :
            x \in {chain[p[1]].entries[p[2]].space + k : k \in chain[p[1]].entries[p[2]].bits}
      BY <1>1 DEF MarkedBlocks
    <2>2. Used(chain, p[1], p[2])
      BY InUseIs
    <2>3. QED
      BY <2>1, <2>2
  <1>2. ASSUME NEW x, NEW i, NEW j, Used(chain, i, j),
               NEW k \in chain[i].entries[j].bits, x = chain[i].entries[j].space + k
        PROVE  x \in MarkedBlocks(chain)
    <2> DEFINE p == <<i, j>>
    <2>1. p \in InUse(chain) /\ p[1] = i /\ p[2] = j
      BY <1>2, InUseIs
    <2> HIDE DEF p
    <2>2. x \in {chain[p[1]].entries[p[2]].space + l : l \in chain[p[1]].entries[p[2]].bits}
      BY <1>2, <2>1
    <2>3. QED
      BY <2>1, <2>2 DEF MarkedBlocks
  <1>3. QED
    BY <1>1, <1>2

\* A function on 1..n is a sequence.
LEMMA IsSeq ==
  ASSUME NEW X, NEW n \in Nat, NEW s \in [1..n -> X]
  PROVE  s \in Seq(X) /\ Len(s) = n
  OBVIOUS

\* The bits of one entry are changed.
WithBits(chain, i, j, B) == [chain EXCEPT ![i].entries[j].bits = B]
\* A change of the bits of one entry leaves all other entries as they are.
LEMMA BitsChanged ==
  ASSUME NEW chain \in Chains, NEW i, NEW j, Used(chain, i, j),
         NEW B \in SUBSET (0..(AreaSize - 1)),
         NEW r, r = WithBits(chain, i, j, B)
  PROVE  /\ r \in Chains /\ DOMAIN r = DOMAIN chain
         /\ \A k \in DOMAIN chain :
              r[k].block = chain[k].block /\ Len(r[k].entries) = Len(chain[k].entries)
         /\ \A k, l : Used(r, k, l) = Used(chain, k, l)
         /\ \A k, l : Used(chain, k, l) =>
              /\ r[k].entries[l].space = chain[k].entries[l].space
              /\ r[k].entries[l].bits = IF k = i /\ l = j THEN B
                                        ELSE chain[k].entries[l].bits
  <1> DEFINE c == chain[i]
             e == c.entries[j]
             new == [e EXCEPT !.bits = B]
             list == [c.entries EXCEPT ![j] = new]
             d == [c EXCEPT !.entries = list]
  <1>1. /\ i \in DOMAIN chain /\ DOMAIN chain = 1..Len(chain) /\ Len(chain) \in Nat
        /\ chain \in [1..Len(chain) -> SpaceContainers] /\ c \in SpaceContainers
        /\ c.entries \in [1..Len(c.entries) -> AreaEntries] /\ Len(c.entries) \in Nat
        /\ j \in 1..Len(c.entries) /\ e \in AreaEntries
    BY ChainIs DEF Used
  <1>2. r = [chain EXCEPT ![i] = d]
    BY DEF WithBits
  <1> HIDE DEF e
  <1>3. new \in AreaEntries /\ new.space = e.space /\ new.bits = B
    BY <1>1 DEF AreaEntries
  <1> HIDE DEF new
  <1>4. /\ list \in [1..Len(c.entries) -> AreaEntries]
        /\ \A l \in 1..Len(c.entries) : list[l] = IF l = j THEN new ELSE c.entries[l]
    BY <1>1, <1>3
  <1> HIDE DEF list
  <1>5. list \in Lists /\ Len(list) = Len(c.entries)
    BY <1>1, <1>4, IsSeq DEF Lists
  <1>6. d \in SpaceContainers /\ d.block = c.block /\ d.entries = list
    BY <1>1, <1>5 DEF SpaceContainers
  <1> HIDE DEF d
  <1>7. /\ r \in [1..Len(chain) -> SpaceContainers]
        /\ \A k \in DOMAIN chain : r[k] = IF k = i THEN d ELSE chain[k]
    BY <1>1, <1>2, <1>6
  <1>8. r \in Chains /\ DOMAIN r = DOMAIN chain
    <2>1. r \in Chains
      BY <1>1, <1>7, IsSeq DEF Chains
    <2>2. QED
      BY <1>1, <1>7, <2>1
  <1>9. ASSUME NEW k \in DOMAIN chain
        PROVE  /\ r[k].block = chain[k].block
               /\ Len(r[k].entries) = Len(chain[k].entries)
               /\ DOMAIN r[k].entries = DOMAIN chain[k].entries
    <2>1. CASE k = i
      BY <1>1, <1>4, <1>5, <1>6, <1>7, <2>1
    <2>2. CASE k # i
      BY <1>7, <2>2
    <2>3. QED
      BY <2>1, <2>2
  <1>10. \A k, l : Used(r, k, l) = Used(chain, k, l)
    BY <1>8, <1>9 DEF Used
  <1>11. ASSUME NEW k, NEW l, Used(chain, k, l)
         PROVE  /\ r[k].entries[l].space = chain[k].entries[l].space
                /\ r[k].entries[l].bits = IF k = i /\ l = j THEN B
                                          ELSE chain[k].entries[l].bits
    <2>1. k \in DOMAIN chain /\ l \in DOMAIN chain[k].entries
      BY <1>11 DEF Used
    <2>2. CASE k = i
      <3>1. r[k].entries[l] = IF l = j THEN new ELSE chain[k].entries[l]
        BY <1>1, <1>4, <1>6, <1>7, <2>1, <2>2
      <3>2. QED
        BY <1>3, <2>2, <3>1 DEF e
    <2>3. CASE k # i
      BY <1>7, <2>1, <2>3
    <2>4. QED
      BY <2>2, <2>3
  <1>12. QED
    BY <1>8, <1>9, <1>10, <1>11

\* First is what its name says.
LEMMA FirstIs ==
  ASSUME NEW P, P \subseteq Nat, P # {}
  PROVE  First(P) \in P /\ \A b \in P : First(P) <= b
  BY LeastExists DEF First

\* FirstEntry is what its name says.
LEMMA FirstEntryIs ==
  ASSUME NEW P, P # {},
         \A p \in P : p = <<p[1], p[2]>> /\ p[1] \in Nat /\ p[2] \in Nat
  PROVE  FirstEntry(P) \in P /\ \A q \in P : Before(FirstEntry(P), q)
  <1> DEFINE I == {p[1] : p \in P}
  <1>1. PICK i \in I : \A k \in I : i <= k
    <2>1. I \subseteq Nat /\ I # {}
      OBVIOUS
    <2> HIDE DEF I
    <2>2. QED
      BY <2>1, LeastExists
  <1> DEFINE J == {p[2] : p \in {q \in P : q[1] = i}}
  <1>2. PICK j \in J : \A k \in J : j <= k
    <2>1. J \subseteq Nat /\ J # {}
      BY <1>1
    <2> HIDE DEF J
    <2>2. QED
      BY <2>1, LeastExists
  <1>3. PICK p \in P : p[1] = i /\ p[2] = j
    BY <1>2
  <1>4. ASSUME NEW q \in P PROVE Before(p, q)
    <2>1. i <= q[1]
      BY <1>1
    <2>2. q[1] = i => j <= q[2]
      BY <1>2
    <2>3. i \in Nat /\ q[1] \in Nat
      BY <1>3
    <2>4. QED
      BY <1>3, <2>1, <2>2, <2>3 DEF Before
  <1>5. QED
    BY <1>3, <1>4 DEF FirstEntry

\* No area has two entries.
LEMMA SameEntry ==
  ASSUME NEW chain, NEW room, ChainOkay(chain, room), NEW i, NEW j, NEW k, NEW l,
         Used(chain, i, j), Used(chain, k, l),
         chain[i].entries[j].space = chain[k].entries[l].space
  PROVE  i = k /\ j = l
  BY DEF ChainOkay

\* A block of an area is marked by the bit of the area's entry, and no other.
LEMMA MarkedBit ==
  ASSUME NEW chain, NEW room, ChainOkay(chain, room), NEW i, NEW j, Used(chain, i, j),
         NEW k \in 0..(AreaSize - 1)
  PROVE  chain[i].entries[j].space + k \in MarkedBlocks(chain)
           <=> k \in chain[i].entries[j].bits
  <1>1. chain \in Chains /\ \A n \in DOMAIN chain : Len(chain[n].entries) <= MaxEntries
    BY DEF ChainOkay
  <1>2. ASSUME k \in chain[i].entries[j].bits
        PROVE  chain[i].entries[j].space + k \in MarkedBlocks(chain)
    BY <1>1, <1>2, MarkedIs
  <1>3. ASSUME chain[i].entries[j].space + k \in MarkedBlocks(chain)
        PROVE  k \in chain[i].entries[j].bits
    <2>1. PICK m, n : /\ Used(chain, m, n)
                      /\ \E l \in chain[m].entries[n].bits :
                           chain[i].entries[j].space + k = chain[m].entries[n].space + l
      BY <1>1, <1>3, MarkedIs
    <2>2. PICK l \in chain[m].entries[n].bits :
            chain[i].entries[j].space + k = chain[m].entries[n].space + l
      BY <2>1
    <2>3. l \in 0..(AreaSize - 1) /\ chain[i].entries[j].space \in Areas
          /\ chain[m].entries[n].space \in Areas
      BY <1>1, <2>1, UsedIs
    <2>4. chain[i].entries[j].space = chain[m].entries[n].space /\ k = l
      BY <2>2, <2>3, AreasApart
    <2>5. i = m /\ j = n
      BY <2>1, <2>4 DEF ChainOkay
    <2>6. QED
      BY <2>4, <2>5
  <1>4. QED
    BY <1>2, <1>3

\* A bit is set, or cleared.
LEMMA BitSet ==
  ASSUME NEW chain, NEW room, ChainOkay(chain, room), NEW i, NEW j, Used(chain, i, j),
         NEW k \in 0..(AreaSize - 1), NEW B,
         B = chain[i].entries[j].bits \cup {k} \/ B = chain[i].entries[j].bits \ {k},
         NEW r, r = WithBits(chain, i, j, B)
  PROVE  /\ ChainOkay(r, room) /\ ChainBlocks(r) = ChainBlocks(chain)
         /\ B = chain[i].entries[j].bits \cup {k} =>
              MarkedBlocks(r) = MarkedBlocks(chain) \cup {chain[i].entries[j].space + k}
         /\ B = chain[i].entries[j].bits \ {k} =>
              MarkedBlocks(r) = MarkedBlocks(chain) \ {chain[i].entries[j].space + k}
  <1>1. chain \in Chains /\ \A n \in DOMAIN chain : Len(chain[n].entries) <= MaxEntries
    BY DEF ChainOkay
  <1>2. B \in SUBSET (0..(AreaSize - 1))
    BY <1>1, UsedIs
  <1>3. /\ r \in Chains /\ DOMAIN r = DOMAIN chain
        /\ \A m \in DOMAIN chain :
             r[m].block = chain[m].block /\ Len(r[m].entries) = Len(chain[m].entries)
        /\ \A m, n : Used(r, m, n) = Used(chain, m, n)
        /\ \A m, n : Used(chain, m, n) =>
             /\ r[m].entries[n].space = chain[m].entries[n].space
             /\ r[m].entries[n].bits = IF m = i /\ n = j THEN B
                                       ELSE chain[m].entries[n].bits
    BY <1>1, <1>2, BitsChanged
  <1>4. ChainOkay(r, room)
    <2>1. r \in Chains /\ \A n \in DOMAIN r : Len(r[n].entries) <= MaxEntries
      BY <1>1, <1>3
    <2>2. Used(r, 1, 1) /\ r[1].entries[1].space = FirstArea
      BY <1>3 DEF ChainOkay
    <2>3. \A m, n : Used(r, m, n) => r[m].entries[n].space \notin room
      BY <1>3 DEF ChainOkay
    <2>4. ASSUME NEW m, NEW n, NEW p, NEW q, Used(r, m, n), Used(r, p, q),
                 r[m].entries[n].space = r[p].entries[q].space
          PROVE  m = p /\ n = q
      BY <1>3, <2>4, SameEntry
    <2>5. QED
      BY <2>1, <2>2, <2>3, <2>4 DEF ChainOkay
  <1>5. ChainBlocks(r) = ChainBlocks(chain)
    BY <1>3 DEF ChainBlocks
  <1>6. \A n \in DOMAIN r : Len(r[n].entries) <= MaxEntries
    BY <1>1, <1>3
  <1> DEFINE here == chain[i].entries[j].space
  <1>7. ASSUME NEW x, x # here + k PROVE x \in MarkedBlocks(r) <=> x \in MarkedBlocks(chain)
    <2>1. ASSUME x \in MarkedBlocks(r) PROVE x \in MarkedBlocks(chain)
      <3>1. PICK m, n : /\ Used(r, m, n)
                        /\ \E l \in r[m].entries[n].bits : x = r[m].entries[n].space + l
        BY <1>3, <1>6, <2>1, MarkedIs
      <3>2. PICK l \in r[m].entries[n].bits : x = r[m].entries[n].space + l
        BY <3>1
      <3>3. l \in chain[m].entries[n].bits /\ x = chain[m].entries[n].space + l
            /\ Used(chain, m, n)
        BY <1>3, <1>7, <3>1, <3>2
      <3>4. QED
        BY <1>1, <3>3, MarkedIs
    <2>2. ASSUME x \in MarkedBlocks(chain) PROVE x \in MarkedBlocks(r)
      <3>1. PICK m, n : /\ Used(chain, m, n)
                        /\ \E l \in chain[m].entries[n].bits :
                             x = chain[m].entries[n].space + l
        BY <1>1, <2>2, MarkedIs
      <3>2. PICK l \in chain[m].entries[n].bits : x = chain[m].entries[n].space + l
        BY <3>1
      <3>3. l \in r[m].entries[n].bits /\ x = r[m].entries[n].space + l /\ Used(r, m, n)
        BY <1>3, <1>7, <3>1, <3>2
      <3>4. QED
        BY <1>3, <1>6, <3>3, MarkedIs
    <2>3. QED
      BY <2>1, <2>2
  <1>8. here + k \in MarkedBlocks(r) <=> k \in B
    <2>1. Used(r, i, j) /\ r[i].entries[j].space = here /\ r[i].entries[j].bits = B
      BY <1>3
    <2>2. QED
      BY <1>4, <2>1, MarkedBit
  <1> HIDE DEF here
  <1>9. B = chain[i].entries[j].bits \cup {k} =>
              MarkedBlocks(r) = MarkedBlocks(chain) \cup {here + k}
    BY <1>7, <1>8
  <1>10. B = chain[i].entries[j].bits \ {k} =>
              MarkedBlocks(r) = MarkedBlocks(chain) \ {here + k}
    BY <1>7, <1>8
  <1>11. QED
    BY <1>4, <1>5, <1>9, <1>10 DEF here

BitBlocks(area, B) == {area + k : k \in B}

\* An entry is added, for an area there was room for.
BitSets == SUBSET (0..(AreaSize - 1))
Added(chain, i, j, e, r) ==
  /\ r \in Chains /\ ~Used(chain, i, j) /\ r[i].entries[j] = e
  /\ \A n \in DOMAIN r : Len(r[n].entries) <= MaxEntries
  /\ \A m, n : Used(r, m, n) <=> Used(chain, m, n) \/ (m = i /\ n = j)
  /\ \A m, n : Used(chain, m, n) => r[m].entries[n] = chain[m].entries[n]
\* A new entry adds its own blocks to the marked ones, and no others.
LEMMA EntryMarks ==
  ASSUME NEW chain, chain \in Chains,
         \A n \in DOMAIN chain : Len(chain[n].entries) <= MaxEntries,
         NEW area, NEW B, NEW r, NEW i, NEW j, Added(chain, i, j, Entry(area, B), r)
  PROVE  MarkedBlocks(r) = MarkedBlocks(chain) \cup BitBlocks(area, B)
  <1> USE DEF Added
  <1>1. chain \in Chains /\ \A n \in DOMAIN chain : Len(chain[n].entries) <= MaxEntries
    OBVIOUS
  <1>2. r[i].entries[j].space = area /\ r[i].entries[j].bits = B
    BY DEF Entry
  <1>5. ASSUME NEW x
        PROVE  x \in MarkedBlocks(r) <=> x \in MarkedBlocks(chain) \/ x \in BitBlocks(area, B)
    <2>1. ASSUME x \in MarkedBlocks(r)
          PROVE  x \in MarkedBlocks(chain) \/ x \in BitBlocks(area, B)
      <3>1. PICK m, n : /\ Used(r, m, n)
                        /\ \E l \in r[m].entries[n].bits : x = r[m].entries[n].space + l
        BY <2>1, MarkedIs
      <3>2. CASE Used(chain, m, n)
        BY <1>1, <3>1, <3>2, MarkedIs
      <3>3. CASE ~Used(chain, m, n)
        BY <1>2, <3>1, <3>3 DEF BitBlocks
      <3>4. QED
        BY <3>2, <3>3
    <2>2. ASSUME x \in MarkedBlocks(chain) PROVE x \in MarkedBlocks(r)
      <3>1. PICK m, n : /\ Used(chain, m, n)
                        /\ \E l \in chain[m].entries[n].bits :
                             x = chain[m].entries[n].space + l
        BY <1>1, <2>2, MarkedIs
      <3>2. Used(r, m, n) /\ r[m].entries[n] = chain[m].entries[n]
        BY <3>1
      <3>3. QED
        BY <3>1, <3>2, MarkedIs
    <2>3. ASSUME x \in BitBlocks(area, B) PROVE x \in MarkedBlocks(r)
      <3>1. Used(r, i, j)
        OBVIOUS
      <3>2. \E k \in r[i].entries[j].bits : x = r[i].entries[j].space + k
        BY <1>2, <2>3 DEF BitBlocks
      <3>3. QED
        BY <3>1, <3>2, MarkedIs
    <2>4. QED
      BY <2>1, <2>2, <2>3
  <1>7. QED
    BY <1>5

\* An entry for an area that has none keeps the chain right; nothing of it was
\* marked before.
LEMMA EntryAdded ==
  ASSUME NEW chain, NEW room, ChainOkay(chain, room), NEW area \in room,
         NEW B \in BitSets,
         NEW i, NEW j, NEW r, Added(chain, i, j, Entry(area, B), r)
  PROVE  /\ ChainOkay(r, room \ {area})
         /\ BitBlocks(area, 0..(AreaSize - 1)) \cap MarkedBlocks(chain) = {}
  <1> USE DEF Added, BitSets
  <1>1. chain \in Chains /\ \A n \in DOMAIN chain : Len(chain[n].entries) <= MaxEntries
    BY DEF ChainOkay
  <1>2. r[i].entries[j].space = area /\ r[i].entries[j].bits = B
    BY DEF Entry
  <1>3. area \in MoreAreas
    BY DEF ChainOkay
  <1>4. ChainOkay(r, room \ {area})
    <2>1. Used(r, 1, 1) /\ r[1].entries[1].space = FirstArea
      BY DEF ChainOkay
    <2>2. room \ {area} \subseteq MoreAreas
      BY DEF ChainOkay
    <2>3. \A m, n : Used(r, m, n) => r[m].entries[n].space \notin room \ {area}
      BY <1>2 DEF ChainOkay
    <2>4. ASSUME NEW m, NEW n, NEW p, NEW q, Used(r, m, n), Used(r, p, q),
                 r[m].entries[n].space = r[p].entries[q].space
          PROVE  m = p /\ n = q
      <3>1. CASE Used(chain, m, n) /\ Used(chain, p, q)
        BY <2>4, <3>1, SameEntry
      <3>2. CASE Used(chain, m, n) /\ ~Used(chain, p, q)
        BY <1>2, <2>4, <3>2 DEF ChainOkay
      <3>3. CASE ~Used(chain, m, n) /\ Used(chain, p, q)
        BY <1>2, <2>4, <3>3 DEF ChainOkay
      <3>4. CASE ~Used(chain, m, n) /\ ~Used(chain, p, q)
        BY <2>4, <3>4
      <3>5. QED
        BY <3>1, <3>2, <3>3, <3>4
    <2>5. QED
      BY <2>1, <2>2, <2>3, <2>4 DEF ChainOkay
  <1>6. ASSUME NEW k \in 0..(AreaSize - 1), area + k \in MarkedBlocks(chain) PROVE FALSE
    <2>1. PICK m, n : /\ Used(chain, m, n)
                      /\ \E l \in chain[m].entries[n].bits :
                           area + k = chain[m].entries[n].space + l
      BY <1>1, <1>6, MarkedIs
    <2>2. PICK l \in chain[m].entries[n].bits : area + k = chain[m].entries[n].space + l
      BY <2>1
    <2>3. l \in 0..(AreaSize - 1) /\ chain[m].entries[n].space \in Areas /\ area \in Areas
      BY <1>1, <1>3, <2>1, UsedIs, AreasAre
    <2>4. area = chain[m].entries[n].space
      BY <2>2, <2>3, AreasApart
    <2>5. QED
      BY <2>1, <2>4 DEF ChainOkay
  <1>7. QED
    BY <1>4, <1>6 DEF BitBlocks

-----------------------------------------------------------------------------
(* The operations on the administration spaces. *)

Trees == UNION {[D -> Leaves \cup Indices] : D \in SUBSET Nat}

\* What the operations on their way can be.
States == [spaces : Chains, free : SUBSET MoreAreas, block : Nat, error : BOOLEAN,
           tree : Trees]

\* What there is in a new entry.
LEMMA EntryOf ==
  ASSUME NEW area \in Areas, NEW B \in SUBSET (0..(AreaSize - 1)), NEW e,
         e = Entry(area, B)
  PROVE  e \in AreaEntries /\ e.space = area /\ e.bits = B
  BY DEF Entry, AreaEntries

\* The entry of a new area goes to the end of a container's list.
WithEntry(chain, i, e) == [chain EXCEPT ![i].entries = Append(@, e)]
\* A new entry at the end of a container leaves the others where they are.
LEMMA EntryAppended ==
  ASSUME NEW chain \in Chains, NEW i \in DOMAIN chain, NEW e \in AreaEntries,
         NEW r, r = WithEntry(chain, i, e), NEW j, j = Len(chain[i].entries) + 1
  PROVE  /\ r \in Chains /\ DOMAIN r = DOMAIN chain
         /\ \A n \in DOMAIN chain : r[n].block = chain[n].block
         /\ \A n \in DOMAIN chain \ {i} : r[n] = chain[n]
         /\ Len(r[i].entries) = j /\ ~Used(chain, i, j) /\ r[i].entries[j] = e
         /\ \A m, n : Used(r, m, n) <=> Used(chain, m, n) \/ (m = i /\ n = j)
         /\ \A m, n : Used(chain, m, n) => r[m].entries[n] = chain[m].entries[n]
  <1> DEFINE c == chain[i]
             list == Append(c.entries, e)
             d == [c EXCEPT !.entries = list]
  <1>1. /\ DOMAIN chain = 1..Len(chain) /\ Len(chain) \in Nat
        /\ chain \in [1..Len(chain) -> SpaceContainers] /\ c \in SpaceContainers
        /\ c.entries \in Seq(AreaEntries) /\ Len(c.entries) \in Nat
        /\ DOMAIN c.entries = 1..Len(c.entries)
    BY ChainIs
  <1>2. r = [chain EXCEPT ![i] = d]
    BY DEF WithEntry
  <1>3. /\ list \in Seq(AreaEntries) /\ Len(list) = j /\ DOMAIN list = 1..j
        /\ list[j] = e /\ \A n \in 1..Len(c.entries) : list[n] = c.entries[n]
    <2> DEFINE q == c.entries
    <2>1. q \in Seq(AreaEntries) /\ Len(q) \in Nat /\ j = Len(q) + 1
      BY <1>1
    <2> HIDE DEF q
    <2>2. /\ Append(q, e) \in Seq(AreaEntries) /\ Len(Append(q, e)) = j
          /\ DOMAIN Append(q, e) = 1..j
          /\ Append(q, e)[j] = e /\ \A n \in 1..Len(q) : Append(q, e)[n] = q[n]
      BY <2>1
    <2>3. QED
      BY <2>2 DEF q
  <1> HIDE DEF list
  <1>4. d \in SpaceContainers /\ d.block = c.block /\ d.entries = list
    BY <1>1, <1>3 DEF SpaceContainers, Lists
  <1> HIDE DEF d
  <1>5. /\ r \in [1..Len(chain) -> SpaceContainers]
        /\ \A n \in DOMAIN chain : r[n] = IF n = i THEN d ELSE chain[n]
    BY <1>1, <1>2, <1>4
  <1>6. r \in Chains /\ DOMAIN r = DOMAIN chain
    <2>1. r \in Chains
      BY <1>1, <1>5, IsSeq DEF Chains
    <2>2. QED
      BY <1>1, <1>5, <2>1
  <1>7. \A n \in DOMAIN chain : r[n].block = chain[n].block
    BY <1>4, <1>5
  <1>8. r[i].entries = list
    BY <1>4, <1>5
  <1>9. ~Used(chain, i, j)
    BY <1>1 DEF Used
  <1>10. ASSUME NEW m, NEW n
         PROVE  Used(r, m, n) <=> Used(chain, m, n) \/ (m = i /\ n = j)
    <2>1. CASE m = i
      BY <1>1, <1>3, <1>6, <1>8, <2>1 DEF Used
    <2>2. CASE m # i
      BY <1>5, <1>6, <2>2 DEF Used
    <2>3. QED
      BY <2>1, <2>2
  <1>11. ASSUME NEW m, NEW n, Used(chain, m, n)
         PROVE  r[m].entries[n] = chain[m].entries[n]
    <2>1. m \in DOMAIN chain /\ n \in DOMAIN chain[m].entries
      BY <1>11 DEF Used
    <2>2. CASE m = i
      BY <1>1, <1>3, <1>8, <2>1, <2>2
    <2>3. CASE m # i
      BY <1>5, <2>1, <2>3
    <2>4. QED
      BY <2>2, <2>3
  <1>12. QED
    BY <1>3, <1>5, <1>6, <1>7, <1>8, <1>9, <1>10, <1>11

\* A new container, with one entry, goes to the end of the chain.
WithContainer(chain, block, e) == Append(chain, [block |-> block, entries |-> <<e>>])
\* A new container at the end of the chain leaves the others where they are.
LEMMA ContainerAppended ==
  ASSUME NEW chain \in Chains, NEW e \in AreaEntries, NEW block \in Nat, NEW r,
         r = WithContainer(chain, block, e),
         NEW i \in Nat, i = Len(chain) + 1
  PROVE  /\ r \in Chains /\ (\A n : n \in DOMAIN r <=> n \in DOMAIN chain \/ n = i)
         /\ \A n \in DOMAIN chain : r[n] = chain[n]
         /\ r[i].block = block /\ Len(r[i].entries) = 1
         /\ ~Used(chain, i, 1) /\ r[i].entries[1] = e
         /\ \A m, n : Used(r, m, n) <=> Used(chain, m, n) \/ (m = i /\ n = 1)
         /\ \A m, n : Used(chain, m, n) => r[m].entries[n] = chain[m].entries[n]
  <1> DEFINE d == [block |-> block, entries |-> <<e>>]
  <1>1. DOMAIN chain = 1..Len(chain) /\ Len(chain) \in Nat
    BY ChainIs
  <1>2. /\ <<e>> \in Seq(AreaEntries) /\ Len(<<e>>) = 1 /\ DOMAIN <<e>> = {1}
        /\ <<e>>[1] = e
    OBVIOUS
  <1>3. d \in SpaceContainers /\ d.block = block /\ d.entries = <<e>>
    BY <1>2 DEF SpaceContainers, Lists
  <1>4. r = Append(chain, d)
    BY DEF WithContainer
  <1> HIDE DEF d
  <1>5. /\ r \in Chains /\ Len(r) = i /\ DOMAIN r = 1..i
        /\ r[i] = d /\ \A n \in 1..Len(chain) : r[n] = chain[n]
    BY <1>1, <1>3, <1>4 DEF Chains
  <1>6. DOMAIN r = DOMAIN chain \cup {i} /\ i \notin DOMAIN chain
    BY <1>1, <1>5
  <1>7. \A n \in DOMAIN chain : r[n] = chain[n]
    BY <1>1, <1>5
  <1>8. \A m, n : Used(r, m, n) <=> Used(chain, m, n) \/ (m = i /\ n = 1)
    BY <1>2, <1>3, <1>5, <1>6, <1>7 DEF Used
  <1>9. \A m, n : Used(chain, m, n) => r[m].entries[n] = chain[m].entries[n]
    BY <1>7 DEF Used
  <1>10. r[i].block = block /\ Len(r[i].entries) = 1 /\ r[i].entries[1] = e
    BY <1>2, <1>3, <1>5
  <1>11. ~Used(chain, i, 1)
    BY <1>6 DEF Used
  <1>12. QED
    BY <1>5, <1>6, <1>7, <1>8, <1>9, <1>10, <1>11

\* What NewArea does, with the numbers of the containers with room.
LEMMA NewAreaDoes ==
  ASSUME NEW s \in States, NEW area, area = First(s.free), NEW roomy,
         roomy = {i \in DOMAIN s.spaces : Len(s.spaces[i].entries) < MaxEntries}
  PROVE  LET r == NewArea(s)
         IN /\ r.free = s.free \ {area} /\ r.block = s.block /\ r.error = s.error
            /\ r.tree = s.tree
            /\ r.spaces = IF roomy # {}
                            THEN WithEntry(s.spaces, First(roomy), Entry(area, {}))
                            ELSE WithContainer(s.spaces, area, Entry(area, {0}))
            /\ r = [spaces |-> r.spaces, free |-> r.free, block |-> r.block,
                    error |-> r.error, tree |-> r.tree]
  <1>1. CASE roomy # {}
    <2> DEFINE w == WithEntry(s.spaces, First(roomy), Entry(area, {}))
    <2>1. NewArea(s) = [s EXCEPT !.free = @ \ {area}, !.spaces = w]
      BY <1>1 DEF NewArea, WithEntry
    <2> HIDE DEF w
    <2>2. QED
      BY <1>1, <2>1 DEF States, w
  <1>2. CASE roomy = {}
    BY <1>2 DEF NewArea, States, WithContainer
  <1>3. QED
    BY <1>1, <1>2

\* An area in a container with room for it: nothing else is marked.
LEMMA AreaInContainer ==
  ASSUME NEW chain, NEW room, NEW D, SpacesOkay(chain, room, D), NEW area \in room,
         NEW i \in DOMAIN chain, Len(chain[i].entries) < MaxEntries,
         NEW t, t = WithEntry(chain, i, Entry(area, {}))
  PROVE  SpacesOkay(t, room \ {area}, D)
  <1>a. PICK B : B = {}
    OBVIOUS
  <1>b. PICK e : e = Entry(area, B)
    OBVIOUS
  <1>c. PICK j : j = Len(chain[i].entries) + 1
    OBVIOUS
  <1>1. /\ ChainOkay(chain, room) /\ MarkedBlocks(chain) = D \cup ChainBlocks(chain)
        /\ D \cap ChainBlocks(chain) = {}
    BY DEF SpacesOkay
  <1>2. /\ chain \in Chains /\ area \in Areas
        /\ \A n \in DOMAIN chain : Len(chain[n].entries) <= MaxEntries
    BY <1>1, AreasAre DEF ChainOkay
  <1>3. B \in BitSets
    BY <1>a DEF BitSets
  <1>4. e \in AreaEntries
    BY <1>2, <1>3, <1>b, EntryOf DEF BitSets
  <1>5. /\ t \in Chains /\ DOMAIN t = DOMAIN chain
        /\ \A n \in DOMAIN chain : t[n].block = chain[n].block
        /\ \A n \in DOMAIN chain \ {i} : t[n] = chain[n]
        /\ Len(t[i].entries) = j /\ ~Used(chain, i, j) /\ t[i].entries[j] = e
        /\ \A m, n : Used(t, m, n) <=> Used(chain, m, n) \/ (m = i /\ n = j)
        /\ \A m, n : Used(chain, m, n) => t[m].entries[n] = chain[m].entries[n]
    BY <1>2, <1>4, <1>a, <1>b, <1>c, EntryAppended
  <1>6. \A n \in DOMAIN t : Len(t[n].entries) <= MaxEntries
    <2>1. Len(chain[i].entries) \in Nat
      BY <1>2, ChainIs
    <2>2. j <= MaxEntries
      BY <1>c, <2>1, Sizes
    <2>3. QED
      BY <1>2, <1>5, <2>2
  <1>8. /\ ChainOkay(t, room \ {area})
        /\ MarkedBlocks(t) = MarkedBlocks(chain) \cup BitBlocks(area, B)
    <2>1. Added(chain, i, j, Entry(area, B), t)
      BY <1>5, <1>6, <1>b DEF Added
    <2>2. MarkedBlocks(t) = MarkedBlocks(chain) \cup BitBlocks(area, B)
      BY <1>2, <2>1, EntryMarks
    <2>3. QED
      BY <1>1, <1>3, <2>1, <2>2, EntryAdded
  <1>9. ChainBlocks(t) = ChainBlocks(chain)
    BY <1>5 DEF ChainBlocks
  <1>10. BitBlocks(area, B) = {}
    BY <1>a DEF BitBlocks
  <1>11. QED
    BY <1>1, <1>8, <1>9, <1>10 DEF SpacesOkay

\* An area that holds its own container: only that block is marked, and it is in
\* the chain.
LEMMA AreaInNewContainer ==
  ASSUME NEW chain, NEW room, NEW D, SpacesOkay(chain, room, D), NEW area \in room,
         NEW t, t = WithContainer(chain, area, Entry(area, {0}))
  PROVE  SpacesOkay(t, room \ {area}, D)
  <1>a. PICK B : B = {0}
    OBVIOUS
  <1>b. PICK e : e = Entry(area, B)
    OBVIOUS
  <1>c. PICK j : j = Len(chain) + 1
    OBVIOUS
  <1>1. /\ ChainOkay(chain, room) /\ MarkedBlocks(chain) = D \cup ChainBlocks(chain)
        /\ D \cap ChainBlocks(chain) = {}
    BY DEF SpacesOkay
  <1>2. /\ chain \in Chains /\ area \in Areas /\ area \in Nat
        /\ \A n \in DOMAIN chain : Len(chain[n].entries) <= MaxEntries
    BY <1>1, AreasAre DEF ChainOkay
  <1>3. 0 \in 0..(AreaSize - 1) /\ B \in BitSets
    BY <1>a, Sizes DEF BitSets
  <1>4. e \in AreaEntries
    BY <1>2, <1>3, <1>b, EntryOf DEF BitSets
  <1>5a. j \in Nat
    BY <1>2, <1>c, ChainIs
  <1>5. /\ t \in Chains /\ (\A n : n \in DOMAIN t <=> n \in DOMAIN chain \/ n = j)
        /\ \A n \in DOMAIN chain : t[n] = chain[n]
        /\ t[j].block = area /\ Len(t[j].entries) = 1
        /\ ~Used(chain, j, 1) /\ t[j].entries[1] = e
        /\ \A m, n : Used(t, m, n) <=> Used(chain, m, n) \/ (m = j /\ n = 1)
        /\ \A m, n : Used(chain, m, n) => t[m].entries[n] = chain[m].entries[n]
    <2>1. t = WithContainer(chain, area, e)
      BY <1>a, <1>b
    <2>2. chain \in Chains /\ area \in Nat
      BY <1>2
    <2>3. QED
      BY <1>4, <1>5a, <1>c, <2>1, <2>2, ContainerAppended
  <1>6. \A n \in DOMAIN t : Len(t[n].entries) <= MaxEntries
    <2>1. 1 <= MaxEntries
      BY Sizes
    <2>2. QED
      BY <1>2, <1>5, <2>1
  <1>8. /\ ChainOkay(t, room \ {area})
        /\ MarkedBlocks(t) = MarkedBlocks(chain) \cup BitBlocks(area, B)
        /\ BitBlocks(area, 0..(AreaSize - 1)) \cap MarkedBlocks(chain) = {}
    <2>1. Added(chain, j, 1, Entry(area, B), t)
      BY <1>5, <1>6, <1>b DEF Added
    <2>2. MarkedBlocks(t) = MarkedBlocks(chain) \cup BitBlocks(area, B)
      BY <1>2, <2>1, EntryMarks
    <2>3. QED
      BY <1>1, <1>3, <2>1, <2>2, EntryAdded
  <1>9. ChainBlocks(t) = ChainBlocks(chain) \cup {area}
    BY <1>5 DEF ChainBlocks
  <1>10. BitBlocks(area, B) = {area} /\ area \notin MarkedBlocks(chain)
    <2>1. area + 0 = area
      BY <1>2
    <2>2. QED
      BY <1>3, <1>8, <1>a, <2>1 DEF BitBlocks
  <1>11. QED
    BY <1>1, <1>8, <1>9, <1>10 DEF SpacesOkay

\* A new area keeps the spaces right.
LEMMA NewAreaIs ==
  ASSUME NEW s \in States, ~s.error, NEW D, SpacesOkay(s.spaces, s.free, D),
         s.free # {}, NEW r, r = NewArea(s)
  PROVE  /\ r \in States /\ ~r.error /\ r.tree = s.tree
         /\ SpacesOkay(r.spaces, r.free, D)
  <1>1. /\ s.spaces \in Chains /\ s.free \in SUBSET MoreAreas /\ s.block \in Nat
        /\ s.error \in BOOLEAN /\ s.tree \in Trees
    BY DEF States
  <1>2. PICK chain : chain = s.spaces
    OBVIOUS
  <1>3. PICK area : area = First(s.free)
    OBVIOUS
  <1>4. PICK roomy : roomy = {i \in DOMAIN s.spaces : Len(s.spaces[i].entries) < MaxEntries}
    OBVIOUS
  <1>5. area \in s.free
    <2>1. s.free \subseteq Nat
      BY <1>1, Sizes
    <2>2. QED
      BY <1>3, <2>1, FirstIs
  <1>6. /\ r.free = s.free \ {area} /\ r.block = s.block /\ r.error = s.error
        /\ r.tree = s.tree
        /\ r.spaces = IF roomy # {} THEN WithEntry(chain, First(roomy), Entry(area, {}))
                      ELSE WithContainer(chain, area, Entry(area, {0}))
        /\ r = [spaces |-> r.spaces, free |-> r.free, block |-> r.block,
                error |-> r.error, tree |-> r.tree]
    BY <1>2, <1>3, <1>4, NewAreaDoes
  <1>7. SpacesOkay(r.spaces, s.free \ {area}, D)
    <2>1. CASE roomy # {}
      <3>1. roomy \subseteq Nat
        BY <1>1, <1>4, ChainIs
      <3>2. First(roomy) \in roomy
        BY <2>1, <3>1, FirstIs
      <3>3. First(roomy) \in DOMAIN chain /\ Len(chain[First(roomy)].entries) < MaxEntries
        BY <1>2, <1>4, <3>2
      <3>4. r.spaces = WithEntry(chain, First(roomy), Entry(area, {}))
        BY <1>6, <2>1
      <3>5. QED
        BY <1>2, <1>5, <3>3, <3>4, AreaInContainer
    <2>2. CASE roomy = {}
      <3>1. r.spaces = WithContainer(chain, area, Entry(area, {0}))
        BY <1>6, <2>2
      <3>2. QED
        BY <1>2, <1>5, <3>1, AreaInNewContainer
    <2>3. QED
      BY <2>1, <2>2
  <1>8. r.spaces \in Chains
    BY <1>7 DEF SpacesOkay, ChainOkay
  <1>9. r \in States
    BY <1>1, <1>6, <1>8 DEF States
  <1>10. QED
    BY <1>6, <1>7, <1>9

\* Entries with a clear bit.
RoomyIn(chain) == {p \in InUse(chain) : Clear(chain[p[1]].entries[p[2]]) # {}}

WithBlock(r, p, bit) ==
  [r EXCEPT !.spaces = WithBits(r.spaces, p[1], p[2],
                                r.spaces[p[1]].entries[p[2]].bits \cup {bit}),
            !.block = r.spaces[p[1]].entries[p[2]].space + bit]
Failed(s) == [s EXCEPT !.error = TRUE]

\* allocadminspace: the first clear bit of the first entry that has one, in a new
\* area when there is none.
LEMMA AllocDoes ==
  ASSUME NEW s, ~s.error
  PROVE  LET r == IF RoomyIn(s.spaces) = {} /\ s.free # {} THEN NewArea(s) ELSE s
             p == FirstEntry(RoomyIn(r.spaces))
             bit == First(Clear(r.spaces[p[1]].entries[p[2]]))
         IN AllocAdminSpace(s) = IF RoomyIn(r.spaces) = {} THEN Failed(s)
                                 ELSE WithBlock(r, p, bit)
  BY DEF AllocAdminSpace, RoomyIn, WithBits, WithBlock, Failed

\* allocadminspace gives a block that was not in use.
LEMMA AllocIs ==
  ASSUME NEW s \in States, ~s.error, NEW D, SpacesOkay(s.spaces, s.free, D),
         NEW a, a = AllocAdminSpace(s)
  PROVE  /\ a \in States /\ a.tree = s.tree
         /\ ~a.error => /\ a.block \in Nat \ {0} /\ a.block \notin D
                        /\ SpacesOkay(a.spaces, a.free, D \cup {a.block})
  <1>1. PICK r : r = IF RoomyIn(s.spaces) = {} /\ s.free # {} THEN NewArea(s) ELSE s
    OBVIOUS
  <1>2. /\ r \in States /\ ~r.error /\ r.tree = s.tree
        /\ SpacesOkay(r.spaces, r.free, D)
    BY <1>1, NewAreaIs
  <1>3. PICK p : p = FirstEntry(RoomyIn(r.spaces))
    OBVIOUS
  <1>4. PICK bit : bit = First(Clear(r.spaces[p[1]].entries[p[2]]))
    OBVIOUS
  <1>5. a = IF RoomyIn(r.spaces) = {} THEN Failed(s) ELSE WithBlock(r, p, bit)
    BY <1>1, <1>3, <1>4, AllocDoes, Zenon
  <1>6. CASE RoomyIn(r.spaces) = {}
    BY <1>5, <1>6 DEF States, Failed
  <1>7. CASE RoomyIn(r.spaces) # {}
    <2>1. PICK chain : chain = r.spaces
      OBVIOUS
    <2>2. /\ ChainOkay(chain, r.free) /\ MarkedBlocks(chain) = D \cup ChainBlocks(chain)
          /\ D \cap ChainBlocks(chain) = {}
      BY <1>2, <2>1 DEF SpacesOkay
    <2>3. chain \in Chains /\ \A n \in DOMAIN chain : Len(chain[n].entries) <= MaxEntries
      BY <2>2 DEF ChainOkay
    <2>4. p \in RoomyIn(chain) /\ Used(chain, p[1], p[2])
      <3>1. \A q \in InUse(chain) : q = <<q[1], q[2]>> /\ Used(chain, q[1], q[2])
        BY <2>3, InUseIs
      <3>2. \A q \in InUse(chain) : q[1] \in Nat /\ q[2] \in Nat
        BY <2>3, <3>1, UsedIs
      <3>3. RoomyIn(chain) \subseteq InUse(chain) /\ RoomyIn(chain) # {}
        BY <1>7, <2>1 DEF RoomyIn
      <3>4. p \in RoomyIn(chain)
        BY <1>3, <2>1, <3>1, <3>2, <3>3, FirstEntryIs
      <3>5. QED
        BY <3>1, <3>3, <3>4
    <2>5. PICK entry : entry = chain[p[1]].entries[p[2]]
      OBVIOUS
    <2>6. /\ entry.space \in Areas /\ entry.space \in Nat \ {0}
          /\ entry.bits \in SUBSET (0..(AreaSize - 1))
      BY <2>3, <2>4, <2>5, UsedIs
    <2>7. bit \in 0..(AreaSize - 1) /\ bit \notin entry.bits
      <3>1. Clear(entry) # {} /\ Clear(entry) \subseteq Nat
        BY <2>4, <2>5, Sizes DEF RoomyIn, Clear
      <3>2. bit \in Clear(entry)
        BY <1>4, <2>1, <2>5, <3>1, FirstIs
      <3>3. QED
        BY <3>2 DEF Clear
    <2>8. PICK B : B = entry.bits \cup {bit}
      OBVIOUS
    <2>9. PICK new : new = WithBits(chain, p[1], p[2], B)
      OBVIOUS
    <2>10. a = [r EXCEPT !.spaces = new, !.block = entry.space + bit]
      BY <1>5, <1>7, <2>1, <2>5, <2>8, <2>9 DEF WithBlock
    <2>11. /\ ChainOkay(new, r.free) /\ ChainBlocks(new) = ChainBlocks(chain)
           /\ MarkedBlocks(new) = MarkedBlocks(chain) \cup {entry.space + bit}
      <3>1. B = chain[p[1]].entries[p[2]].bits \cup {bit}
        BY <2>5, <2>8
      <3>2. /\ ChainOkay(new, r.free) /\ ChainBlocks(new) = ChainBlocks(chain)
            /\ MarkedBlocks(new)
                 = MarkedBlocks(chain) \cup {chain[p[1]].entries[p[2]].space + bit}
        BY <2>2, <2>4, <2>7, <2>9, <3>1, BitSet
      <3>3. QED
        BY <2>5, <3>2
    <2>12. entry.space + bit \notin MarkedBlocks(chain)
      BY <2>2, <2>4, <2>5, <2>7, MarkedBit
    <2>13. entry.space + bit \in Nat \ {0}
      BY <2>6, <2>7, Sizes
    <2>14. new \in Chains
      BY <2>11 DEF ChainOkay
    <2>15. /\ a \in States /\ a.tree = r.tree /\ a.block = entry.space + bit
           /\ a.spaces = new /\ a.free = r.free
      BY <1>2, <2>10, <2>13, <2>14 DEF States
    <2>16. SpacesOkay(new, r.free, D \cup {entry.space + bit})
      BY <2>2, <2>11, <2>12 DEF SpacesOkay
    <2>17. QED
      BY <1>2, <2>2, <2>12, <2>13, <2>15, <2>16
  <1>8. QED
    BY <1>6, <1>7

\* The space of an entry, in use or not.
SpaceOf(chain, p) == IF p \in InUse(chain) THEN chain[p[1]].entries[p[2]].space ELSE 0

FoundIn(chain, block) == {q \in Entries(chain) : block \in AreaOf(SpaceOf(chain, q))}
WithoutBlock(s, p, block) ==
  [s EXCEPT !.spaces = WithBits(s.spaces, p[1], p[2],
               s.spaces[p[1]].entries[p[2]].bits \ {block - SpaceOf(s.spaces, p)})]

\* freeadminspace clears the bit of the entry it finds.
LEMMA FreeDoes ==
  ASSUME NEW s, ~s.error, NEW block, FoundIn(s.spaces, block) # {}
  PROVE  LET p == FirstEntry(FoundIn(s.spaces, block))
         IN SpaceOf(s.spaces, p) # 0 =>
              FreeAdminSpace(s, block) = WithoutBlock(s, p, block)
  BY DEF FreeAdminSpace, SpaceOf, WithBits, FoundIn, WithoutBlock

\* freeadminspace gives back a block that is in use.
LEMMA FreeIs ==
  ASSUME NEW s \in States, ~s.error, NEW D, SpacesOkay(s.spaces, s.free, D),
         NEW block \in D, NEW f, f = FreeAdminSpace(s, block)
  PROVE  /\ f \in States /\ ~f.error /\ f.tree = s.tree
         /\ SpacesOkay(f.spaces, f.free, D \ {block})
  <1>1. PICK chain : chain = s.spaces
    OBVIOUS
  <1>2. /\ ChainOkay(chain, s.free) /\ MarkedBlocks(chain) = D \cup ChainBlocks(chain)
        /\ D \cap ChainBlocks(chain) = {}
    BY <1>1 DEF SpacesOkay
  <1>3. chain \in Chains /\ \A n \in DOMAIN chain : Len(chain[n].entries) <= MaxEntries
    BY <1>2 DEF ChainOkay
  <1>4. PICK found : found = FoundIn(chain, block)
    OBVIOUS
  <1>4a. found = {q \in Entries(chain) : block \in AreaOf(SpaceOf(chain, q))}
    BY <1>4 DEF FoundIn
  <1>5. PICK p : p = FirstEntry(found)
    OBVIOUS
  <1>6. /\ \A i, j : <<i, j>> \in InUse(chain) <=> Used(chain, i, j)
        /\ \A q \in InUse(chain) : q = <<q[1], q[2]>> /\ Used(chain, q[1], q[2])
        /\ \A q \in Entries(chain) : q = <<q[1], q[2]>> /\ q[1] \in Nat /\ q[2] \in Nat
    BY <1>3, InUseIs
  <1>7. PICK m, n, k : /\ Used(chain, m, n) /\ k \in chain[m].entries[n].bits
                       /\ block = chain[m].entries[n].space + k
    <2>1. block \in MarkedBlocks(chain)
      BY <1>2
    <2>2. QED
      BY <1>3, <2>1, MarkedIs
  <1>8. /\ k \in 0..(AreaSize - 1) /\ chain[m].entries[n].space \in Areas
        /\ chain[m].entries[n].space \in Nat \ {0} /\ k \in Nat
        /\ block \in Nat
    BY <1>3, <1>7, UsedIs, Sizes
  <1>9. <<m, n>> \in found
    <2>1. <<m, n>> \in InUse(chain) /\ <<m, n>> \in Entries(chain)
      BY <1>6, <1>7 DEF InUse
    <2>2. SpaceOf(chain, <<m, n>>) = chain[m].entries[n].space
      BY <2>1 DEF SpaceOf
    <2>3. block \in AreaOf(chain[m].entries[n].space)
      BY <1>7, <1>8, Sizes DEF AreaOf
    <2>4. QED
      BY <1>4a, <2>1, <2>2, <2>3
  <1>10. p \in found /\ \A q \in found : Before(p, q)
    BY <1>4a, <1>5, <1>6, <1>9, FirstEntryIs
  \* Where no entry is in use there are the blocks below AreaSize: these are in
  \* no area but the first one, whose entry is the first one.
  <1>11. p \in InUse(chain)
    <2>1. SUFFICES ASSUME p \notin InUse(chain) PROVE FALSE
      OBVIOUS
    <2>2. SpaceOf(chain, p) = 0
      BY <2>1 DEF SpaceOf
    <2>3. block \in AreaOf(0)
      BY <1>4a, <1>10, <2>2
    <2>4. block <= AreaSize - 1
      BY <1>8, <2>3, Sizes DEF AreaOf
    <2>5. chain[m].entries[n].space = FirstArea
      <3>1. chain[m].entries[n].space <= AreaSize - 1
        BY <1>7, <1>8, <2>4, Sizes
      <3>2. chain[m].entries[n].space \notin MoreAreas
        BY <1>8, <3>1, Sizes
      <3>3. QED
        BY <1>8, <3>2 DEF Areas
    <2>6. Used(chain, 1, 1) /\ chain[1].entries[1].space = FirstArea
      BY <1>2 DEF ChainOkay
    <2>7. m = 1 /\ n = 1
      BY <1>2, <1>7, <2>5, <2>6, SameEntry
    <2>8. <<1, 1>> \in InUse(chain)
      BY <1>6, <2>6
    <2>9. Before(p, <<1, 1>>)
      BY <1>9, <1>10, <2>7
    <2>10. p = <<p[1], p[2]>> /\ p[1] \in Nat /\ p[2] \in Nat /\ p \in Entries(chain)
      BY <1>4a, <1>6, <1>10
    <2>11. p[1] >= 1 /\ p[2] >= 1
      <3>1. \A i \in DOMAIN chain : i >= 1
        BY <1>3, ChainIs
      <3>2. QED
        BY <2>10, <3>1 DEF Entries
    <2>12. p[1] = 1 /\ p[2] = 1
      BY <2>9, <2>10, <2>11 DEF Before
    <2>13. QED
      BY <2>1, <2>8, <2>10, <2>12
  <1>12. Used(chain, p[1], p[2]) /\ SpaceOf(chain, p) = chain[p[1]].entries[p[2]].space
    BY <1>6, <1>11 DEF SpaceOf
  <1>13. p[1] = m /\ p[2] = n
    <2>1. PICK a : a = chain[p[1]].entries[p[2]].space
      OBVIOUS
    <2>2. a \in Areas /\ a \in Nat
      BY <1>3, <1>12, <2>1, UsedIs
    <2>3. block \in AreaOf(a)
      BY <1>4a, <1>10, <1>12, <2>1
    <2>4. PICK l : l = block - a
      OBVIOUS
    <2>5. l \in 0..(AreaSize - 1) /\ a + l = block
      BY <1>8, <2>2, <2>3, <2>4, Sizes DEF AreaOf
    <2>6. a = chain[m].entries[n].space
      BY <1>7, <1>8, <2>2, <2>5, AreasApart
    <2>7. QED
      BY <1>2, <1>7, <1>12, <2>1, <2>6, SameEntry
  <1>14. PICK B : B = chain[m].entries[n].bits \ {k}
    OBVIOUS
  <1>15. PICK new : new = WithBits(chain, m, n, B)
    OBVIOUS
  <1>16. f = [s EXCEPT !.spaces = new]
    <2>1. SpaceOf(chain, p) = chain[m].entries[n].space /\ SpaceOf(chain, p) # 0
      BY <1>8, <1>12, <1>13
    <2>2. block - SpaceOf(chain, p) = k
      BY <1>7, <1>8, <2>1
    <2>3. f = WithoutBlock(s, p, block)
      <3>1. found # {} /\ SpaceOf(s.spaces, p) # 0 /\ found = FoundIn(s.spaces, block)
        BY <1>1, <1>4, <1>9, <2>1
      <3>2. QED
        BY <1>5, <3>1, FreeDoes, Zenon
    <2>4. QED
      BY <1>1, <1>13, <1>14, <1>15, <2>2, <2>3 DEF WithoutBlock
  <1>17. /\ ChainOkay(new, s.free) /\ ChainBlocks(new) = ChainBlocks(chain)
         /\ MarkedBlocks(new) = MarkedBlocks(chain) \ {block}
    <2>1. /\ ChainOkay(new, s.free) /\ ChainBlocks(new) = ChainBlocks(chain)
          /\ MarkedBlocks(new) = MarkedBlocks(chain) \ {chain[m].entries[n].space + k}
      BY <1>2, <1>7, <1>8, <1>14, <1>15, BitSet
    <2>2. QED
      BY <1>7, <2>1
  <1>18. new \in Chains
    BY <1>17 DEF ChainOkay
  <1>19. /\ f \in States /\ ~f.error /\ f.tree = s.tree /\ f.spaces = new
         /\ f.free = s.free
    BY <1>16, <1>18 DEF States
  <1>20. block \notin ChainBlocks(chain)
    BY <1>2
  <1>21. SpacesOkay(new, s.free, D \ {block})
    BY <1>2, <1>17, <1>20 DEF SpacesOkay
  <1>22. QED
    BY <1>19, <1>21

-----------------------------------------------------------------------------
(* The nodes in use. *)

Holds(t, x, i, n) == /\ x \in DOMAIN t /\ IsLeaf(t[x]) /\ i \in 1..LeafNodes
                     /\ t[x].node[i] /\ n = t[x].nodenumber + i - 1
NodesOf(t) == {n \in Nat : \E x, i : Holds(t, x, i, n)}

Empty(c) == IF IsLeaf(c) THEN \A i \in 1..LeafNodes : ~c.node[i]
            ELSE \A p \in 1..NodeContainers : c.node[p].block = 0

\* No container is empty but the root, and perhaps block x.
Kept(t, x) == \A b \in DOMAIN t \ {Root, x} : ~Empty(t[b])

\* The node of a slot.
LEMMA LeafSlot ==
  ASSUME NEW t, Typed(t), NEW x \in DOMAIN t, IsLeaf(t[x]), NEW i \in 1..LeafNodes,
         NEW n, n = t[x].nodenumber + i - 1
  PROVE  n \in Nat /\ Has(t[x], n) /\ SlotOf(t[x], n) = i
  <1>1. /\ t[x].nodenumber \in Nat /\ Span(t[x]) = LeafNodes /\ t[x].nodes = 1
    BY BlockIs, ContainerIs DEF IsLeaf
  <1>2. n \in Nat /\ Has(t[x], n)
    BY <1>1, Sizes DEF Has
  <1>3. SlotOf(t[x], n) = i
    <2>1. n - t[x].nodenumber = i - 1 /\ i - 1 \in Nat
      BY <1>1, Sizes
    <2>2. (i - 1) \div 1 = i - 1
      BY <2>1
    <2>3. QED
      BY <1>1, <2>1, <2>2, Sizes DEF SlotOf
  <1>4. QED
    BY <1>2, <1>3

\* A node is in one slot of one leaf.
LEMMA OneSlot ==
  ASSUME NEW t, Shape(t), NEW x \in DOMAIN t, NEW y \in DOMAIN t, IsLeaf(t[x]),
         IsLeaf(t[y]), NEW i \in 1..LeafNodes, NEW j \in 1..LeafNodes,
         t[x].nodenumber + i - 1 = t[y].nodenumber + j - 1
  PROVE  x = y /\ i = j
  <1>1. PICK n : n = t[x].nodenumber + i - 1
    OBVIOUS
  <1>2. Typed(t)
    BY DEF Shape
  <1>3. n \in Nat /\ Has(t[x], n) /\ Has(t[y], n)
        /\ SlotOf(t[x], n) = i /\ SlotOf(t[y], n) = j
    BY <1>1, <1>2, LeafSlot
  <1>4. Span(t[x]) = Span(t[y])
    BY DEF Span
  <1>5. x = y
    BY <1>3, <1>4 DEF Shape, Apart
  <1>6. QED
    BY <1>3, <1>5

\* A leaf has every number there is room for in one of its slots.
LEMMA SlotOfLeaf ==
  ASSUME NEW t, Typed(t), NEW x \in DOMAIN t, IsLeaf(t[x]), NEW n \in Nat, Has(t[x], n)
  PROVE  \E i \in 1..LeafNodes : n = t[x].nodenumber + i - 1
  <1>1. t[x].nodenumber \in Nat /\ Span(t[x]) = LeafNodes
    BY BlockIs, ContainerIs
  <1>2. PICK i : i = n - t[x].nodenumber + 1
    OBVIOUS
  <1>3. i \in 1..LeafNodes /\ n = t[x].nodenumber + i - 1
    BY <1>1, <1>2, Sizes DEF Has
  <1>4. QED
    BY <1>3

\* Full bits are not nodes.
LEMMA SameNodesOf ==
  ASSUME NEW t, NEW u, SameNodes(t, u)
  PROVE  NodesOf(u) = NodesOf(t) /\ \A x : Kept(t, x) => Kept(u, x)
  <1>1. /\ SamePlaces(t, u) /\ DOMAIN u = DOMAIN t
        /\ \A b \in DOMAIN t : IsLeaf(u[b]) = IsLeaf(t[b])
        /\ \A b \in DOMAIN t : IsLeaf(t[b]) => u[b] = t[b]
    BY SamePlacesIs DEF SameNodes
  <1>2. \A x, i, n : Holds(u, x, i, n) <=> Holds(t, x, i, n)
    BY <1>1 DEF Holds
  <1>3. \A b \in DOMAIN t : Empty(u[b]) <=> Empty(t[b])
    BY <1>1 DEF Empty, SamePlaces
  <1>4. QED
    BY <1>1, <1>2, <1>3 DEF NodesOf, Kept

\* A slot of a leaf is taken or given back.
WithSlot(t, x, i, v) == [t EXCEPT ![x].node[i] = v]
\* A slot of a leaf that is changed leaves the tree's shape as it is.
LEMMA WithSlotIs ==
  ASSUME NEW t, Shape(t), NEW x \in DOMAIN t, IsLeaf(t[x]), NEW i \in 1..LeafNodes,
         NEW v \in BOOLEAN, NEW u, u = WithSlot(t, x, i, v)
  PROVE  /\ Shape(u) /\ SamePlaces(t, u) /\ DOMAIN u = DOMAIN t
         /\ \A b \in DOMAIN t \ {x} : u[b] = t[b]
         /\ IsLeaf(u[x])
         /\ \A j \in 1..LeafNodes : u[x].node[j] = IF j = i THEN v ELSE t[x].node[j]
  <1> DEFINE c == t[x]
             slots == [c.node EXCEPT ![i] = v]
             d == [c EXCEPT !.node = slots]
  <1>1. /\ Typed(t) /\ c \in Leaves /\ c.node \in [1..LeafNodes -> BOOLEAN]
        /\ t \in [DOMAIN t -> Leaves \cup Indices] /\ DOMAIN t \subseteq Nat \ {0}
    BY BlockIs, ContainerIs DEF Shape, Typed
  <1>2. u = [t EXCEPT ![x] = d]
    BY DEF WithSlot
  <1>3. /\ slots \in [1..LeafNodes -> BOOLEAN]
        /\ \A j \in 1..LeafNodes : slots[j] = IF j = i THEN v ELSE c.node[j]
    BY <1>1
  <1> HIDE DEF slots
  <1>4. d \in Leaves /\ d.nodenumber = c.nodenumber /\ d.nodes = c.nodes /\ d.node = slots
    BY <1>1, <1>3 DEF Leaves
  <1> HIDE DEF d
  <1>5. /\ u \in [DOMAIN t -> Leaves \cup Indices] /\ DOMAIN u = DOMAIN t
        /\ \A b \in DOMAIN t : u[b] = IF b = x THEN d ELSE t[b]
    BY <1>1, <1>2, <1>4
  <1>6. SamePlaces(t, u)
    BY <1>4, <1>5 DEF SamePlaces
  <1>7. Typed(u)
    BY <1>1, <1>5 DEF Typed
  <1>8. \A a \in DOMAIN t, p \in 1..NodeContainers :
           PointsTo(t, a, p, 0) => ~u[a].node[p].full
    BY <1>5 DEF PointsTo, Shape, Linked
  <1>9. Shape(u)
    BY <1>6, <1>7, <1>8, SameShape
  <1>10. QED
    BY <1>3, <1>4, <1>5, <1>6, <1>9 DEF IsLeaf

\* Node n is in use, or not, and the others are as they were.
Changed(t, u, n, v) ==
  /\ \A m : m # n => (m \in NodesOf(u) <=> m \in NodesOf(t))
  /\ n \in NodesOf(u) <=> v

\* It changes one node.
LEMMA WithSlotNodes ==
  ASSUME NEW t, Shape(t), NEW x \in DOMAIN t, IsLeaf(t[x]), NEW i \in 1..LeafNodes,
         NEW v \in BOOLEAN, NEW u, u = WithSlot(t, x, i, v),
         NEW n, n = t[x].nodenumber + i - 1
  PROVE  Changed(t, u, n, v)
  <1>1. /\ Shape(u) /\ SamePlaces(t, u) /\ DOMAIN u = DOMAIN t
        /\ \A b \in DOMAIN t \ {x} : u[b] = t[b]
        /\ IsLeaf(u[x])
        /\ \A j \in 1..LeafNodes : u[x].node[j] = IF j = i THEN v ELSE t[x].node[j]
    BY WithSlotIs
  <1>2. n \in Nat
    BY LeafSlot DEF Shape
  <1>3. u[x].nodenumber = t[x].nodenumber
    BY <1>1 DEF SamePlaces
  <1>4. ASSUME NEW m, m # n
        PROVE  m \in NodesOf(u) <=> m \in NodesOf(t)
    <2>1. \A y, j : Holds(u, y, j, m) <=> Holds(t, y, j, m)
      BY <1>1, <1>3, <1>4 DEF Holds
    <2>2. QED
      BY <2>1 DEF NodesOf
  <1>5. n \in NodesOf(u) <=> v
    <2>1. v => Holds(u, x, i, n)
      BY <1>1, <1>3 DEF Holds
    <2>2. ASSUME NEW y, NEW j, Holds(u, y, j, n) PROVE v
      <3>1. /\ y \in DOMAIN u /\ IsLeaf(u[y]) /\ j \in 1..LeafNodes /\ u[y].node[j]
            /\ u[x].nodenumber + i - 1 = u[y].nodenumber + j - 1
        BY <1>3, <2>2 DEF Holds
      <3>2. y = x /\ j = i
        BY <1>1, <3>1, OneSlot
      <3>3. QED
        BY <1>1, <3>1, <3>2
    <2>3. QED
      BY <1>2, <2>1, <2>2 DEF NodesOf
  <1>6. QED
    BY <1>4, <1>5 DEF Changed

\* The bits stay right while the leaf does not become full, or stop being full.
LEMMA WithSlotBits ==
  ASSUME NEW t, Shape(t), Bits(t, Root), NEW x \in DOMAIN t, IsLeaf(t[x]),
         NEW i \in 1..LeafNodes, NEW v \in BOOLEAN, NEW u, u = WithSlot(t, x, i, v)
  PROVE  Bits(u, x) /\ (Full(u[x]) = Full(t[x]) => Bits(u, Root))
  <1>1. /\ Shape(u) /\ SamePlaces(t, u) /\ DOMAIN u = DOMAIN t
        /\ \A b \in DOMAIN t \ {x} : u[b] = t[b]
        /\ IsLeaf(u[x])
    BY WithSlotIs
  <1>2. \A a, p, b : PointsTo(u, a, p, b) => PointsTo(t, a, p, b) /\ a # x
    BY <1>1, SamePlacesIs DEF PointsTo
  <1>3. ASSUME NEW a \in DOMAIN u, NEW p \in 1..NodeContainers, NEW b \in Nat \ {0, Root},
               PointsTo(u, a, p, b)
        PROVE  b \in DOMAIN t /\ u[a].node[p].full = Full(t[b])
    <2>1. PointsTo(t, a, p, b) /\ a # x /\ u[a] = t[a]
      BY <1>1, <1>2, <1>3
    <2>2. b \in DOMAIN t
      BY <2>1, PointedTo
    <2>3. t[a].node[p].full = Full(t[b])
      BY <1>1, <2>1 DEF Bits
    <2>4. QED
      BY <2>1, <2>2, <2>3
  <1>4. ASSUME NEW a \in DOMAIN u, NEW p \in 1..NodeContainers, NEW b \in Nat \ {0, x},
               PointsTo(u, a, p, b)
        PROVE  u[a].node[p].full = Full(u[b])
    <2>1. b # Root
      BY <1>1, <1>4, PointedTo
    <2>2. b \in DOMAIN t /\ u[a].node[p].full = Full(t[b])
      BY <1>3, <1>4, <2>1
    <2>3. QED
      BY <1>1, <1>4, <2>2
  <1>5. ASSUME Full(u[x]) = Full(t[x]),
               NEW a \in DOMAIN u, NEW p \in 1..NodeContainers, NEW b \in Nat \ {0, Root},
               PointsTo(u, a, p, b)
        PROVE  u[a].node[p].full = Full(u[b])
    BY <1>1, <1>3, <1>5
  <1>6. QED
    BY <1>4, <1>5 DEF Bits

-----------------------------------------------------------------------------
(* A container is freed. *)

\* The tree without block x, that pointer p of block q was for.
Rest(t, x, q, p) == [b \in DOMAIN t \ {x} |-> Unlink(t, q, p)[b]]

IsRest(t, x, q, p, u) ==
  /\ q \in DOMAIN t \ {x} /\ Span(t[q]) > Span(t[x])
  /\ DOMAIN u = DOMAIN t \ {x}
  /\ \A b \in DOMAIN t \ {x, q} : u[b] = t[b]
  /\ u[q] \in Indices /\ u[q].nodenumber = t[q].nodenumber
  /\ u[q].nodes = t[q].nodes
  /\ \A r \in 1..NodeContainers :
       u[q].node[r] = IF r = p THEN NoPointer ELSE t[q].node[r]
  /\ Typed(u)
  /\ \A b \in DOMAIN t \ {x} :
       /\ IsLeaf(u[b]) = IsLeaf(t[b]) /\ Span(u[b]) = Span(t[b])
       /\ u[b].nodenumber = t[b].nodenumber /\ u[b].nodes = t[b].nodes
       /\ \A n : Has(u[b], n) = Has(t[b], n)
       /\ \A r : FirstBelow(u[b], r) = FirstBelow(t[b], r)

\* What is left when a container is freed.
LEMMA RestIs ==
  ASSUME NEW t, Shape(t), NEW x \in DOMAIN t \ {Root}, NEW q, NEW p,
         PointsTo(t, q, p, x), NEW u, u = Rest(t, x, q, p)
  PROVE  IsRest(t, x, q, p, u)
  <1>1. /\ q \in DOMAIN t /\ t[q] \in Indices /\ p \in 1..NodeContainers
        /\ Span(t[x]) = t[q].nodes /\ x # 0
    <2>1. x # 0
      BY BlockIs DEF Shape
    <2>2. QED
      BY <2>1, PointedTo
  <1>2. /\ t[q].nodes \in SizesOfContainers /\ t[q].node \in [1..NodeContainers -> Pointers]
        /\ t[q].nodenumber \in Nat /\ Span(t[q]) > t[q].nodes /\ t[q].nodes > 1
        /\ ~IsLeaf(t[q])
    <2>1. ~IsLeaf(t[q])
      BY DEF PointsTo
    <2>2. QED
      BY <1>1, <2>1, ContainerIs
  <1>3. q # x
    BY <1>1, <1>2, ContainerIs
  <1>4. t \in [DOMAIN t -> Leaves \cup Indices] /\ DOMAIN t \subseteq Nat \ {0}
    BY DEF Shape, Typed
  <1> DEFINE c == t[q]
             ps == [c.node EXCEPT ![p] = NoPointer]
             d == [c EXCEPT !.node = ps]
  <1>5. /\ ps \in [1..NodeContainers -> Pointers]
        /\ \A r \in 1..NodeContainers : ps[r] = IF r = p THEN NoPointer ELSE c.node[r]
    <2>1. NoPointer \in Pointers
      BY DEF NoPointer, Pointer, Pointers
    <2>2. QED
      BY <1>1, <1>2, <2>1
  <1>6. Unlink(t, q, p) = [t EXCEPT ![q] = d]
    BY DEF Unlink
  <1> HIDE DEF ps
  <1>7. d \in Indices /\ d.nodenumber = c.nodenumber /\ d.nodes = c.nodes /\ d.node = ps
    BY <1>1, <1>5 DEF Indices
  <1> HIDE DEF d
  <1>8. \A b \in DOMAIN t : Unlink(t, q, p)[b] = IF b = q THEN d ELSE t[b]
    BY <1>1, <1>4, <1>6
  <1>9. DOMAIN u = DOMAIN t \ {x} /\ \A b \in DOMAIN t \ {x} : u[b] = IF b = q THEN d ELSE t[b]
    BY <1>8 DEF Rest
  <1>10. Typed(u)
    <2>1. u = [b \in DOMAIN t \ {x} |-> u[b]]
      BY DEF Rest
    <2>2. \A b \in DOMAIN t \ {x} : u[b] \in Leaves \cup Indices
      BY <1>4, <1>7, <1>9
    <2>3. u \in [DOMAIN t \ {x} -> Leaves \cup Indices]
      BY <2>1, <2>2
    <2>4. QED
      BY <1>4, <1>9, <2>3 DEF Typed
  <1>11. ASSUME NEW b \in DOMAIN t \ {x}
         PROVE  u[b].nodenumber = t[b].nodenumber /\ u[b].nodes = t[b].nodes
    BY <1>7, <1>9
  <1>12. ASSUME NEW b \in DOMAIN t \ {x}
         PROVE  /\ IsLeaf(u[b]) = IsLeaf(t[b]) /\ Span(u[b]) = Span(t[b])
                /\ u[b].nodenumber = t[b].nodenumber /\ u[b].nodes = t[b].nodes
                /\ \A n : Has(u[b], n) = Has(t[b], n)
                /\ \A r : FirstBelow(u[b], r) = FirstBelow(t[b], r)
    <2>1. u[b].nodenumber = t[b].nodenumber /\ u[b].nodes = t[b].nodes
      BY <1>11
    <2>2. IsLeaf(u[b]) = IsLeaf(t[b]) /\ Span(u[b]) = Span(t[b])
      BY <2>1 DEF IsLeaf, Span
    <2>3. QED
      BY <2>1, <2>2 DEF Has, FirstBelow
  <1>13. /\ u[q] \in Indices /\ u[q].nodenumber = t[q].nodenumber
         /\ u[q].nodes = t[q].nodes
         /\ \A r \in 1..NodeContainers :
              u[q].node[r] = IF r = p THEN NoPointer ELSE t[q].node[r]
    BY <1>1, <1>3, <1>5, <1>7, <1>9
  <1>14. \A b \in DOMAIN t \ {x, q} : u[b] = t[b]
    BY <1>9
  <1>15. q \in DOMAIN t \ {x} /\ Span(t[q]) > Span(t[x])
    BY <1>1, <1>2, <1>3
  <1>16. QED
    BY <1>9, <1>10, <1>12, <1>13, <1>14, <1>15 DEF IsRest

\* The pointers that are left.
LEMMA RestPoints ==
  ASSUME NEW t, Shape(t), NEW x \in DOMAIN t \ {Root}, NEW q, NEW p,
         PointsTo(t, q, p, x), NEW u, u = Rest(t, x, q, p)
  PROVE  /\ \A a, r, b : b # 0 =>
              (PointsTo(u, a, r, b) <=> PointsTo(t, a, r, b) /\ a # x /\ b # x)
         /\ \A a, r, b : PointsTo(u, a, r, b) /\ b # 0 => u[a].node[r] = t[a].node[r]
         /\ \A a, r : PointsTo(u, a, r, 0) => PointsTo(t, a, r, 0) \/ u[a].node[r] = NoPointer
  <1>0. IsRest(t, x, q, p, u)
    BY RestIs
  <1>1. /\ q \in DOMAIN t \ {x} /\ DOMAIN u = DOMAIN t \ {x}
        /\ \A b \in DOMAIN t \ {x, q} : u[b] = t[b]
        /\ \A r \in 1..NodeContainers :
              u[q].node[r] = IF r = p THEN NoPointer ELSE t[q].node[r]
        /\ \A b \in DOMAIN t \ {x} : IsLeaf(u[b]) = IsLeaf(t[b])
    BY <1>0 DEF IsRest
  <1>2. x # 0 /\ NoPointer.block = 0
    BY BlockIs DEF Shape, NoPointer, Pointer
  <1>3. ASSUME NEW a, NEW r, NEW b, b # 0, PointsTo(u, a, r, b)
        PROVE  PointsTo(t, a, r, b) /\ a # x /\ b # x /\ u[a].node[r] = t[a].node[r]
    <2>1. a \in DOMAIN t \ {x} /\ ~IsLeaf(t[a]) /\ r \in 1..NodeContainers
          /\ u[a].node[r].block = b
      BY <1>1, <1>3 DEF PointsTo
    <2>2. ~(a = q /\ r = p) /\ u[a].node[r] = t[a].node[r]
      BY <1>1, <1>2, <1>3, <2>1
    <2>3. PointsTo(t, a, r, b)
      BY <2>1, <2>2 DEF PointsTo
    <2>4. b # x
      BY <1>2, <2>2, <2>3, OnePointer
    <2>5. QED
      BY <2>1, <2>2, <2>3, <2>4
  <1>4. ASSUME NEW a, NEW r, NEW b, b # 0, PointsTo(t, a, r, b), a # x, b # x
        PROVE  PointsTo(u, a, r, b)
    <2>1. a \in DOMAIN t \ {x} /\ ~IsLeaf(t[a]) /\ r \in 1..NodeContainers
          /\ t[a].node[r].block = b
      BY <1>4 DEF PointsTo
    <2>2. ~(a = q /\ r = p)
      BY <1>4, <2>1 DEF PointsTo
    <2>3. u[a].node[r] = t[a].node[r]
      BY <1>1, <2>1, <2>2
    <2>4. QED
      BY <1>1, <2>1, <2>3 DEF PointsTo
  <1>5. ASSUME NEW a, NEW r, PointsTo(u, a, r, 0)
        PROVE  PointsTo(t, a, r, 0) \/ u[a].node[r] = NoPointer
    BY <1>1, <1>5 DEF PointsTo
  <1>6. QED
    BY <1>3, <1>4, <1>5

\* The rest of the tree has its shape.
LEMMA RestShape ==
  ASSUME NEW t, Shape(t), NEW x \in DOMAIN t \ {Root}, Empty(t[x]), NEW q, NEW p,
         PointsTo(t, q, p, x), NEW u, u = Rest(t, x, q, p)
  PROVE  Shape(u)
  <1>0. IsRest(t, x, q, p, u)
    BY RestIs
  <1>1. /\ DOMAIN u = DOMAIN t \ {x} /\ Typed(u)
        /\ \A b \in DOMAIN t \ {x} :
              /\ IsLeaf(u[b]) = IsLeaf(t[b]) /\ Span(u[b]) = Span(t[b])
              /\ u[b].nodenumber = t[b].nodenumber /\ u[b].nodes = t[b].nodes
              /\ \A n : Has(u[b], n) = Has(t[b], n)
              /\ \A r : FirstBelow(u[b], r) = FirstBelow(t[b], r)
    BY <1>0 DEF IsRest
  <1>2. /\ \A a, r, b : b # 0 =>
              (PointsTo(u, a, r, b) <=> PointsTo(t, a, r, b) /\ a # x /\ b # x)
        /\ \A a, r, b : PointsTo(u, a, r, b) /\ b # 0 => u[a].node[r] = t[a].node[r]
        /\ \A a, r : PointsTo(u, a, r, 0) => PointsTo(t, a, r, 0) \/ u[a].node[r] = NoPointer
    BY RestPoints
  <1>3. Rooted(u)
    BY <1>1 DEF Shape, Rooted
  <1>4. Linked(u)
    <2>1. ASSUME NEW a \in DOMAIN u, NEW r \in 1..NodeContainers, PointsTo(u, a, r, 0)
          PROVE  ~u[a].node[r].full
      <3>1. CASE u[a].node[r] = NoPointer
        BY <3>1 DEF NoPointer, Pointer
      <3>2. CASE PointsTo(t, a, r, 0) /\ u[a].node[r] # NoPointer
        <4>1. a \in DOMAIN t /\ ~t[a].node[r].full
          BY <1>1, <3>2 DEF Shape, Linked
        <4>2. u[a].node[r] = t[a].node[r]
          <5>1. PICK s : s = q
            OBVIOUS
          <5>2. /\ \A b \in DOMAIN t \ {x, q} : u[b] = t[b]
                /\ \A k \in 1..NodeContainers :
                     u[q].node[k] = IF k = p THEN NoPointer ELSE t[q].node[k]
            BY <1>0 DEF IsRest
          <5>3. QED
            BY <1>1, <3>2, <5>2
        <4>3. QED
          BY <4>1, <4>2
      <3>3. QED
        BY <1>2, <2>1, <3>1, <3>2
    <2>2. ASSUME NEW a \in DOMAIN u, NEW r \in 1..NodeContainers, NEW b \in Nat, b # 0,
                 PointsTo(u, a, r, b)
          PROVE  /\ b \in DOMAIN u \ {Root} /\ Span(u[b]) = u[a].nodes
                 /\ u[b].nodenumber = FirstBelow(u[a], r)
      <3>1. PointsTo(t, a, r, b) /\ a # x /\ b # x
        BY <1>2, <2>2
      <3>2. /\ b \in DOMAIN t \ {Root} /\ Span(t[b]) = t[a].nodes
            /\ t[b].nodenumber = FirstBelow(t[a], r)
        BY <2>2, <3>1, PointedTo
      <3>3. QED
        BY <1>1, <3>1, <3>2
    <2>3. QED
      BY <2>1, <2>2 DEF Linked
  <1>5. Reached(u)
    <2>1. SUFFICES ASSUME NEW b \in DOMAIN u \ {Root}
                   PROVE  \E a \in DOMAIN u, r \in 1..NodeContainers : PointsTo(u, a, r, b)
      BY DEF Reached
    <2>2. b \in DOMAIN t \ {Root} /\ b # x /\ b # 0
      BY <1>1, BlockIs DEF Shape
    <2>3. PICK a \in DOMAIN t, r \in 1..NodeContainers : PointsTo(t, a, r, b)
      BY <2>2 DEF Shape, Reached
    <2>4. a # x
      BY <2>2, <2>3 DEF PointsTo, Empty
    <2>5. PointsTo(u, a, r, b)
      BY <1>2, <2>2, <2>3, <2>4
    <2>6. QED
      BY <1>1, <2>3, <2>4, <2>5
  <1>6. Apart(u)
    <2>1. SUFFICES ASSUME NEW a \in DOMAIN u, NEW b \in DOMAIN u, NEW n \in Nat,
                          Has(u[a], n), Has(u[b], n), Span(u[a]) = Span(u[b])
                   PROVE  a = b
      BY DEF Apart
    <2>2. Has(t[a], n) /\ Has(t[b], n) /\ Span(t[a]) = Span(t[b])
      BY <1>1, <2>1
    <2>3. QED
      BY <1>1, <2>2 DEF Shape, Apart
  <1>7. QED
    BY <1>1, <1>3, <1>4, <1>5, <1>6 DEF Shape

\* What is empty is not full.
LEMMA EmptyIs ==
  ASSUME NEW c \in Leaves \cup Indices, Empty(c)
  PROVE  ~Full(c)
  <1>1. 1 \in 1..LeafNodes /\ 1 \in 1..NodeContainers
    BY Sizes
  <1>2. CASE IsLeaf(c)
    BY <1>1, <1>2 DEF Full, Empty
  <1>3. CASE ~IsLeaf(c)
    <2>1. DOMAIN c.node = 1..NodeContainers
      BY <1>3, ContainerIs
    <2>2. QED
      BY <1>1, <1>3, <2>1 DEF Full, Empty, IsFull
  <1>4. QED
    BY <1>2, <1>3

\* The rest has its bits and nodes, and only the parent may be empty now.
LEMMA RestKeeps ==
  ASSUME NEW t, Shape(t), Bits(t, Root), NEW x \in DOMAIN t \ {Root}, Empty(t[x]),
         NEW q, NEW p, PointsTo(t, q, p, x), NEW u, u = Rest(t, x, q, p)
  PROVE  Bits(u, Root) /\ NodesOf(u) = NodesOf(t) /\ (Kept(t, x) => Kept(u, q))
  <1>0. IsRest(t, x, q, p, u)
    BY RestIs
  <1>1. /\ q \in DOMAIN t \ {x} /\ DOMAIN u = DOMAIN t \ {x}
        /\ \A b \in DOMAIN t \ {x, q} : u[b] = t[b]
        /\ u[q] \in Indices
        /\ \A r \in 1..NodeContainers :
              u[q].node[r] = IF r = p THEN NoPointer ELSE t[q].node[r]
        /\ \A b \in DOMAIN t \ {x} : IsLeaf(u[b]) = IsLeaf(t[b])
    BY <1>0 DEF IsRest
  <1>2. /\ \A a, r, b : b # 0 =>
              (PointsTo(u, a, r, b) <=> PointsTo(t, a, r, b) /\ a # x /\ b # x)
        /\ \A a, r, b : PointsTo(u, a, r, b) /\ b # 0 => u[a].node[r] = t[a].node[r]
    BY RestPoints
  <1>3. p \in 1..NodeContainers /\ ~IsLeaf(t[q]) /\ x \in Nat /\ x # 0
        /\ t[x] \in Leaves \cup Indices /\ t[q] \in Leaves \cup Indices
    BY <1>1, BlockIs DEF PointsTo, Shape
  <1>4. DOMAIN t[q].node = 1..NodeContainers /\ DOMAIN u[q].node = 1..NodeContainers
    BY <1>1, <1>3, ContainerIs DEF Indices
  <1>5. ~Full(t[q])
    <2>1. t[q].node[p].full = Full(t[x])
      BY <1>1, <1>3 DEF Bits
    <2>2. ~Full(t[x])
      BY <1>3, EmptyIs
    <2>3. QED
      BY <1>3, <1>4, <2>1, <2>2 DEF Full, IsFull
  <1>6. ~Full(u[q])
    <2>1. u[q].node[p].block = 0
      BY <1>1, <1>3 DEF NoPointer, Pointer
    <2>2. QED
      BY <1>1, <1>3, <1>4, <2>1 DEF Full, IsFull
  <1>7. Bits(u, Root)
    <2>1. SUFFICES ASSUME NEW a \in DOMAIN u, NEW r \in 1..NodeContainers,
                          NEW b \in Nat \ {0, Root}, PointsTo(u, a, r, b)
                   PROVE  u[a].node[r].full = Full(u[b])
      BY DEF Bits
    <2>2. PointsTo(t, a, r, b) /\ a # x /\ b # x /\ u[a].node[r] = t[a].node[r]
          /\ a \in DOMAIN t
      BY <1>1, <1>2, <2>1
    <2>3. b \in DOMAIN t
      BY <2>2, PointedTo
    <2>4. t[a].node[r].full = Full(t[b])
      BY <2>1, <2>2 DEF Bits
    <2>5. CASE b = q
      <3>1. Full(t[b]) \in BOOLEAN /\ Full(u[b]) \in BOOLEAN
        BY DEF Full, IsFull
      <3>2. QED
        BY <1>5, <1>6, <2>2, <2>4, <2>5, <3>1
    <2>6. CASE b # q
      BY <1>1, <2>2, <2>3, <2>4, <2>6
    <2>7. QED
      BY <2>5, <2>6
  <1>8. NodesOf(u) = NodesOf(t)
    <2>1. \A y, i, n : Holds(u, y, i, n) <=> Holds(t, y, i, n)
      <3>1. ASSUME NEW y, NEW i, NEW n, Holds(u, y, i, n) PROVE Holds(t, y, i, n)
        BY <1>1, <1>3, <3>1 DEF Holds
      <3>2. ASSUME NEW y, NEW i, NEW n, Holds(t, y, i, n) PROVE Holds(u, y, i, n)
        <4>1. y # x /\ y # q
          BY <1>3, <3>2 DEF Holds, Empty
        <4>2. QED
          BY <1>1, <3>2, <4>1 DEF Holds
      <3>3. QED
        BY <3>1, <3>2
    <2>2. QED
      BY <2>1 DEF NodesOf
  <1>9. Kept(t, x) => Kept(u, q)
    BY <1>1 DEF Kept
  <1>10. QED
    BY <1>7, <1>8, <1>9

\* An operation on its way, when only block x may be empty.
Okay(s, x) ==
  /\ s \in States /\ ~s.error
  /\ Shape(s.tree) /\ Bits(s.tree, Root) /\ Kept(s.tree, x)
  /\ SpacesOkay(s.spaces, s.free, DOMAIN s.tree)

\* Typed trees are in the set of trees.
LEMMA TreeIs ==
  ASSUME NEW t, Typed(t)
  PROVE  t \in Trees
  <1>1. DOMAIN t \in SUBSET Nat /\ t \in [DOMAIN t -> Leaves \cup Indices]
    BY DEF Typed
  <1>2. QED
    BY <1>1 DEF Trees

\* A state with another tree.
LEMMA WithTree ==
  ASSUME NEW s \in States, NEW t, Typed(t), NEW r, r = [s EXCEPT !.tree = t]
  PROVE  /\ r \in States /\ r.tree = t /\ r.error = s.error /\ r.spaces = s.spaces
         /\ r.free = s.free /\ r.block = s.block
  <1>1. t \in Trees
    BY TreeIs
  <1>2. QED
    BY <1>1 DEF States

\* An unused pointer has no full bit.
LEMMA LinkedNull ==
  ASSUME NEW t, Linked(t), NEW a \in DOMAIN t, NEW p \in 1..NodeContainers,
         ~IsLeaf(t[a]), t[a].node[p].block = 0
  PROVE  ~t[a].node[p].full
  BY DEF Linked, PointsTo

\* A turn of freecontainer.
FreedTree(s, x) ==
  Rest(s.tree, x, Parent(s.tree, x),
       SlotOf(s.tree[Parent(s.tree, x)], s.tree[x].nodenumber))
Freed(s, x) == [FreeAdminSpace(s, x) EXCEPT !.tree = FreedTree(s, x)]
FreedNext(s, x) == IF FreedTree(s, x)[Parent(s.tree, x)].node = NoPointers
                     THEN Parent(s.tree, x) ELSE Root

\* A turn of freecontainer: the block is given back, no error can come of it,
\* and what it goes on with is the empty parent, on a higher level.
LEMMA FreeTurn ==
  ASSUME NEW s, NEW x \in DOMAIN s.tree \ {Root}, Okay(s, x), Empty(s.tree[x])
  PROVE  /\ Parent(s.tree, x) # NoParent /\ ~FreeAdminSpace(s, x).error
         /\ Okay(Freed(s, x), FreedNext(s, x))
         /\ Freed(s, x).tree = FreedTree(s, x)
         /\ NodesOf(FreedTree(s, x)) = NodesOf(s.tree)
         /\ Turns(FreedTree(s, x)) = Turns(s.tree)
         /\ FreedNext(s, x) \in DOMAIN FreedTree(s, x)
         /\ FreedNext(s, x) # Root =>
              /\ Empty(FreedTree(s, x)[FreedNext(s, x)])
              /\ Span(FreedTree(s, x)[FreedNext(s, x)]) > Span(s.tree[x])
  <1>a. PICK t : t = s.tree
    OBVIOUS
  <1>b. PICK q : q = Parent(t, x)
    OBVIOUS
  <1>c. PICK f : f = FreeAdminSpace(s, x)
    OBVIOUS
  <1>d. PICK u : u = FreedTree(s, x)
    OBVIOUS
  <1>e. PICK r : r = Freed(s, x)
    OBVIOUS
  <1>f. PICK y : y = FreedNext(s, x)
    OBVIOUS
  <1>g. r = [f EXCEPT !.tree = u]
    BY <1>c, <1>d, <1>e DEF Freed
  <1>h. y = IF u[q].node = NoPointers THEN q ELSE Root
    BY <1>a, <1>b, <1>d, <1>f DEF FreedNext
  <1>1. /\ s \in States /\ ~s.error /\ Shape(t) /\ Bits(t, Root) /\ Kept(t, x)
        /\ SpacesOkay(s.spaces, s.free, DOMAIN t)
        /\ x \in DOMAIN t \ {Root} /\ Empty(t[x])
    BY <1>a DEF Okay
  <1>2. PICK p : p = SlotOf(t[q], t[x].nodenumber)
    OBVIOUS
  <1>3. q # NoParent /\ PointsTo(t, q, p, x)
    BY <1>1, <1>2, <1>b, ParentIs
  <1>4. u = Rest(t, x, q, p)
    BY <1>2, <1>a, <1>b, <1>d DEF FreedTree
  <1>5. IsRest(t, x, q, p, u)
    BY <1>1, <1>3, <1>4, RestIs
  <1>6. Shape(u)
    BY <1>1, <1>3, <1>4, RestShape
  <1>7. Bits(u, Root) /\ NodesOf(u) = NodesOf(t) /\ Kept(u, q)
    BY <1>1, <1>3, <1>4, RestKeeps
  <1>8. /\ f \in States /\ ~f.error /\ SpacesOkay(f.spaces, f.free, DOMAIN t \ {x})
    BY <1>1, <1>c, FreeIs
  <1>9. /\ r \in States /\ r.tree = u /\ ~r.error /\ r.spaces = f.spaces
        /\ r.free = f.free
    BY <1>6, <1>8, <1>g, WithTree DEF Shape
  <1>10. /\ DOMAIN u = DOMAIN t \ {x} /\ q \in DOMAIN u /\ Span(u[q]) > Span(t[x])
         /\ u[q] \in Indices /\ ~IsLeaf(u[q])
    <2>1. ~IsLeaf(t[q])
      BY <1>3 DEF PointsTo
    <2>2. QED
      BY <1>5, <2>1 DEF IsRest
  <1>11. Turns(u) = Turns(t)
    <2>1. Root \in DOMAIN t \ {x}
      BY <1>1, RootIs
    <2>2. QED
      BY <1>5, <2>1 DEF IsRest, Turns
  <1> DEFINE Goal == /\ q # NoParent /\ ~f.error /\ Okay(r, y) /\ r.tree = u
                     /\ NodesOf(u) = NodesOf(t) /\ Turns(u) = Turns(t) /\ y \in DOMAIN u
                     /\ y # Root => Empty(u[y]) /\ Span(u[y]) > Span(t[x])
  <1>12. ASSUME u[q].node = NoPointers PROVE Goal
    <2>1. Empty(u[q])
      BY <1>10, <1>12 DEF Empty, NoPointers, NoPointer, Pointer
    <2>2. QED
      BY <1>3, <1>6, <1>7, <1>8, <1>9, <1>10, <1>11, <1>12, <1>h, <2>1 DEF Okay
  <1>13. ASSUME u[q].node # NoPointers PROVE Goal
    <2>1. u[q].node \in [1..NodeContainers -> Pointers]
      BY <1>10 DEF Indices
    <2>2. PICK k \in 1..NodeContainers : u[q].node[k] # NoPointer
      BY <1>13, <2>1 DEF NoPointers
    <2>3. u[q].node[k].block # 0
      <3>1. u[q].node[k] \in Pointers
        BY <2>1
      <3>2. u[q].node[k].block = 0 => ~u[q].node[k].full
        BY <1>6, <1>10, LinkedNull DEF Shape
      <3>3. QED
        BY <2>2, <3>1, <3>2 DEF Pointers, NoPointer, Pointer
    <2>4. ~Empty(u[q])
      BY <1>10, <2>3 DEF Empty
    <2>5. Kept(u, Root)
      BY <1>7, <2>4 DEF Kept
    <2>6. Root \in DOMAIN u
      BY <1>6, RootIs
    <2>7. QED
      BY <1>3, <1>6, <1>7, <1>8, <1>9, <1>10, <1>11, <1>13, <1>h, <2>5, <2>6 DEF Okay
  <1>14. Goal
    BY <1>12, <1>13
  <1>15. QED
    BY <1>14, <1>a, <1>b, <1>c, <1>d, <1>e, <1>f

\* freecontainer leaves no empty container.
LEMMA FreeContainerIs ==
  ASSUME NEW s, NEW x \in DOMAIN s.tree, Okay(s, x), x # Root => Empty(s.tree[x]),
         NEW r, r = FreeContainer(s, x)
  PROVE  Okay(r, Root) /\ NodesOf(r.tree) = NodesOf(s.tree)
  <1> DEFINE turns == Turns(s.tree)
             freed(a) == FreeAdminSpace(a.s, a.block)
             Turn(a) == IF Parent(a.s.tree, a.block) = NoParent THEN a
                        ELSE IF freed(a).error THEN [s |-> freed(a), block |-> Root]
                        ELSE [s |-> Freed(a.s, a.block), block |-> FreedNext(a.s, a.block)]
             start == [s |-> s, block |-> x]
             at == CHOOSE at : at = [i \in 0..turns |->
                                       IF i = 0 THEN start ELSE Turn(at[i - 1])]
             Good(a) == /\ Okay(a.s, a.block) /\ NodesOf(a.s.tree) = NodesOf(s.tree)
                        /\ Turns(a.s.tree) = turns /\ a.block \in DOMAIN a.s.tree
                        /\ a.block # Root => Empty(a.s.tree[a.block])
             S == {a \in [s : States, block : Nat] : Good(a)}
             g == [a \in S |-> Turn(a)]
             left == [a \in S |-> IF a.block = Root THEN 0
                                  ELSE turns + 1 - Span(a.s.tree[a.block])]
  <1>1. r = at[turns].s
    BY DEF FreeContainer, Repeat, Rest, FreedTree, Freed, FreedNext
  <1>2. s \in States /\ Shape(s.tree) /\ turns \in Nat \ {0} /\ x \in Nat
    <2>1. s \in States /\ Shape(s.tree)
      BY DEF Okay
    <2>2. QED
      BY <2>1, RootIs, BlockIs DEF Turns, Shape
  <1>3. ASSUME NEW a \in S
        PROVE  /\ a.s \in States /\ a.block \in Nat /\ Shape(a.s.tree) /\ Good(a)
               /\ left[a] = IF a.block = Root THEN 0
                            ELSE turns + 1 - Span(a.s.tree[a.block])
               /\ left[a] \in Nat
               /\ a.block # Root => Span(a.s.tree[a.block]) \in Nat
                                    /\ Span(a.s.tree[a.block]) <= turns
    <2>1. a.s \in States /\ a.block \in Nat /\ Good(a)
      OBVIOUS
    <2>2. left[a] = IF a.block = Root THEN 0 ELSE turns + 1 - Span(a.s.tree[a.block])
      OBVIOUS
    <2> HIDE DEF left, S
    <2>3. Shape(a.s.tree)
      BY <2>1 DEF Okay
    <2>4. a.block # Root => Span(a.s.tree[a.block]) \in Nat
                            /\ Span(a.s.tree[a.block]) <= turns
      <3>1. a.block # Root => Span(a.s.tree[a.block]) <= Turns(a.s.tree)
        BY <2>1, <2>3, RootIs DEF Turns
      <3>2. a.s.tree[a.block] \in Leaves \cup Indices
        BY <2>1, <2>3, BlockIs DEF Shape
      <3>3. Span(a.s.tree[a.block]) \in Nat
        BY <3>2, ContainerIs
      <3>4. QED
        BY <2>1, <3>1, <3>3
    <2>5. left[a] \in Nat
      BY <1>2, <2>2, <2>4
    <2>6. QED
      BY <2>1, <2>2, <2>3, <2>4, <2>5
  <1>4. start \in S /\ left[start] <= turns
    <2>1. start \in [s : States, block : Nat]
      BY <1>2
    <2>2. Good(start)
      OBVIOUS
    <2>3. start \in S
      BY <2>1, <2>2
    <2>4. Span(s.tree[x]) >= 1 /\ Span(s.tree[x]) \in Nat
      <3>1. s.tree[x] \in Leaves \cup Indices
        BY <1>2, BlockIs DEF Shape
      <3>2. QED
        BY <3>1, ContainerIs
    <2>5. left[start] = IF x = Root THEN 0 ELSE turns + 1 - Span(s.tree[x])
      BY <2>3
    <2> HIDE DEF left, S, turns
    <2>6. QED
      BY <1>2, <2>3, <2>4, <2>5
  <1>5. ASSUME NEW a \in S
        PROVE  Turn(a) \in S /\ (left[Turn(a)] < left[a] \/ left[Turn(a)] = 0)
    <2>1. /\ a.s \in States /\ a.block \in Nat /\ Shape(a.s.tree) /\ Good(a)
      BY <1>3
    <2>2. CASE a.block = Root
      <3>1. Parent(a.s.tree, a.block) = NoParent
        BY <2>1, <2>2, ParentIs
      <3>2. Turn(a) = a
        BY <3>1
      <3>3. left[a] = 0
        BY <1>3, <2>2
      <3> HIDE DEF Turn, left, S
      <3>4. QED
        BY <3>2, <3>3
    <2>3. CASE a.block # Root
      <3>1. PICK t : t = a.s.tree
        OBVIOUS
      <3>2. PICK b : b = a.block
        OBVIOUS
      <3>3. PICK u : u = FreedTree(a.s, b)
        OBVIOUS
      <3>4. PICK v : v = Freed(a.s, b)
        OBVIOUS
      <3>5. PICK y : y = FreedNext(a.s, b)
        OBVIOUS
      <3>8. b \in DOMAIN a.s.tree \ {Root} /\ Okay(a.s, b) /\ Empty(a.s.tree[b])
        BY <2>1, <2>3, <3>1, <3>2
      <3>9. /\ Parent(a.s.tree, b) # NoParent /\ ~FreeAdminSpace(a.s, b).error
            /\ Okay(v, y) /\ v.tree = u /\ NodesOf(u) = NodesOf(t)
            /\ Turns(u) = Turns(t) /\ y \in DOMAIN u
            /\ y # Root => Empty(u[y]) /\ Span(u[y]) > Span(t[b])
        <4> HIDE DEF S, g, left, turns, Turn, at, start, Good, freed
        <4>1. QED
          BY <3>1, <3>3, <3>4, <3>5, <3>8, FreeTurn
      <3>10. Turn(a) = [s |-> v, block |-> y]
        BY <3>2, <3>4, <3>5, <3>9
      <3> HIDE DEF Turn
      <3>11. PICK z : z = Turn(a)
        OBVIOUS
      <3>12. z.s = v /\ z.block = y /\ z \in [s : States, block : Nat]
        <4>1. v \in States
          BY <3>9 DEF Okay
        <4>2. y \in Nat
          BY <3>9, BlockIs DEF Okay, Shape
        <4>3. QED
          BY <3>10, <3>11, <4>1, <4>2
      <3>13. Good(z)
        BY <2>1, <3>1, <3>8, <3>9, <3>12
      <3>14. z \in S
        BY <3>12, <3>13
      <3> HIDE DEF left, S, Good
      <3>15. left[z] = IF y = Root THEN 0 ELSE turns + 1 - Span(u[y])
        BY <1>3, <3>9, <3>12, <3>14
      <3>16. left[a] = turns + 1 - Span(t[b]) /\ Span(t[b]) \in Nat
        BY <1>3, <2>3, <3>1, <3>2
      <3>17. y # Root => Span(u[y]) \in Nat
        BY <1>3, <3>9, <3>12, <3>14
      <3> HIDE DEF turns
      <3>18. left[z] < left[a] \/ left[z] = 0
        BY <1>2, <3>9, <3>15, <3>16, <3>17
      <3>19. QED
        BY <3>11, <3>14, <3>18
    <2>4. QED
      BY <2>2, <2>3
  <1>6. g \in [S -> S] /\ left \in [S -> Nat] /\ \A a \in S : g[a] = Turn(a)
    <2> HIDE DEF S, Turn
    <2>1. g \in [S -> S]
      BY <1>5
    <2>2. \A a \in S : left[a] \in Nat
      BY <1>3
    <2>3. QED
      BY <2>1, <2>2
  <1> HIDE DEF S, g, left, turns, Turn, at, start, Good, freed
  <1>7. PICK f : f \in Loops(S, start, g, turns)
    BY <1>2, <1>4, <1>6, RepeatExists
  <1>8. f = [i \in 0..turns |-> IF i = 0 THEN start ELSE Turn(f[i - 1])]
    <2>1. f = [i \in 0..turns |-> IF i = 0 THEN start ELSE g[f[i - 1]]]
      BY <1>7 DEF Loops
    <2>2. f \in [0..turns -> S]
      BY <1>7 DEF Loops
    <2>3. \A i \in 0..turns : i # 0 => f[i - 1] \in S
      BY <1>2, <2>2
    <2>4. \A i \in 0..turns : i # 0 => g[f[i - 1]] = Turn(f[i - 1])
      BY <1>6, <2>3
    <2>5. QED
      BY <2>1, <2>4, Zenon
  <1>9. at = [i \in 0..turns |-> IF i = 0 THEN start ELSE Turn(at[i - 1])]
    BY <1>8, Zenon DEF at
  <1>10. at[0] = start /\ \A i \in 1..turns : at[i] = Turn(at[i - 1])
    BY <1>2, <1>9
  <1>11. at[turns] \in S /\ left[at[turns]] = 0
    <2>1. \A a \in S : left[g[a]] < left[a] \/ left[g[a]] = 0
      BY <1>5, <1>6
    <2>2. \A i \in 1..turns : at[i - 1] \in S => at[i] = g[at[i - 1]]
      BY <1>6, <1>10
    <2>3. /\ turns \in Nat /\ start \in S /\ left[start] <= turns /\ at[0] = start
          /\ g \in [S -> S] /\ left \in [S -> Nat]
      BY <1>2, <1>4, <1>6, <1>10
    <2>4. QED
      BY <2>1, <2>2, <2>3, RepeatEnds
  <1>12. PICK z : z = at[turns]
    OBVIOUS
  <1>13. Good(z) /\ r = z.s /\ left[z] = 0
    BY <1>1, <1>3, <1>11, <1>12
  <1>14. z.block = Root
    BY <1>2, <1>3, <1>11, <1>12, <1>13
  <1>15. QED
    BY <1>13, <1>14 DEF Good

-----------------------------------------------------------------------------
(* A level is added. *)

\* A container put into a block.
LEMMA WithIs ==
  ASSUME NEW t, Typed(t), NEW block \in Nat \ {0}, NEW c \in Leaves \cup Indices,
         NEW u, u = With(t, block, c)
  PROVE  /\ Typed(u) /\ u[block] = c
         /\ \A b : b \in DOMAIN u <=> b \in DOMAIN t \/ b = block
         /\ \A b \in DOMAIN t : b # block => u[b] = t[b]
  <1>1. t \in [DOMAIN t -> Leaves \cup Indices] /\ DOMAIN t \subseteq Nat \ {0}
    BY DEF Typed
  <1>2. DOMAIN u = DOMAIN t \cup {block}
        /\ \A b \in DOMAIN t \cup {block} : u[b] = IF b = block THEN c ELSE t[b]
    BY DEF With
  <1>3. u \in [DOMAIN t \cup {block} -> Leaves \cup Indices]
    BY <1>1 DEF With
  <1>4. QED
    BY <1>1, <1>2, <1>3 DEF Typed

\* The tree with the root's container in a block of its own, below a new root.
Levelled(t, block) ==
  With(With(t, block, t[Root]), Root,
       Index(t[Root].nodenumber, Span(t[Root]),
             [NoPointers EXCEPT ![1] = Pointer(block, TRUE)]))

IsLevelled(t, block, u) ==
  /\ Typed(u)
  /\ \A b : b \in DOMAIN u <=> b \in DOMAIN t \/ b = block
  /\ u[block] = t[Root] /\ block # Root
  /\ \A b \in DOMAIN t \ {Root} : u[b] = t[b]
  /\ u[Root] \in Indices /\ u[Root].nodenumber = t[Root].nodenumber
  /\ u[Root].nodes = Span(t[Root]) /\ Span(u[Root]) = Span(t[Root]) * NodeContainers
  /\ ~IsLeaf(u[Root])
  /\ \A k \in 1..NodeContainers :
       u[Root].node[k] = IF k = 1 THEN Pointer(block, TRUE) ELSE NoPointer

\* What addnewnodelevel makes of the tree.
LEMMA LevelledIs ==
  ASSUME NEW t, Shape(t), NEW block \in Nat \ {0}, block \notin DOMAIN t,
         NEW u, u = Levelled(t, block)
  PROVE  IsLevelled(t, block, u)
  <1>1. /\ Root \in DOMAIN t /\ Typed(t) /\ t[Root] \in Leaves \cup Indices
        /\ Root \in Nat \ {0}
    BY RootIs, BlockIs, Sizes DEF Shape
  <1>2. t[Root].nodenumber \in Nat /\ Span(t[Root]) \in SizesOfContainers
        /\ Span(t[Root]) > 1
    <2>1. Span(t[Root]) >= LeafNodes /\ Span(t[Root]) \in Nat
          /\ t[Root].nodenumber \in Nat /\ Span(t[Root]) \in SizesOfContainers
      BY <1>1, ContainerIs
    <2>2. QED
      BY <2>1, Sizes
  <1>3. PICK ps : ps = [NoPointers EXCEPT ![1] = Pointer(block, TRUE)]
    OBVIOUS
  <1>4. /\ ps \in [1..NodeContainers -> Pointers]
        /\ \A k \in 1..NodeContainers :
             ps[k] = IF k = 1 THEN Pointer(block, TRUE) ELSE NoPointer
    <2>1. Pointer(block, TRUE) \in Pointers /\ NoPointer \in Pointers
      BY DEF Pointer, Pointers, NoPointer
    <2>2. /\ NoPointers \in [1..NodeContainers -> Pointers]
          /\ \A k \in 1..NodeContainers : NoPointers[k] = NoPointer
      BY <2>1 DEF NoPointers
    <2>3. QED
      BY <1>3, <2>1, <2>2, Sizes
  <1>5. PICK d : d = Index(t[Root].nodenumber, Span(t[Root]), ps)
    OBVIOUS
  <1>6. /\ d \in Indices /\ d.nodenumber = t[Root].nodenumber /\ d.nodes = Span(t[Root])
        /\ d.node = ps
    BY <1>2, <1>4, <1>5 DEF Index, Indices
  <1>7. PICK v : v = With(t, block, t[Root])
    OBVIOUS
  <1>8. /\ Typed(v) /\ v[block] = t[Root]
        /\ \A b : b \in DOMAIN v <=> b \in DOMAIN t \/ b = block
        /\ \A b \in DOMAIN t : b # block => v[b] = t[b]
    BY <1>1, <1>7, WithIs
  <1>9. u = With(v, Root, d)
    BY <1>3, <1>5, <1>7 DEF Levelled
  <1>10. /\ Typed(u) /\ u[Root] = d
         /\ \A b : b \in DOMAIN u <=> b \in DOMAIN v \/ b = Root
         /\ \A b \in DOMAIN v : b # Root => u[b] = v[b]
    BY <1>1, <1>6, <1>8, <1>9, WithIs
  <1>11. block # Root
    BY <1>1
  <1>12. ~IsLeaf(u[Root]) /\ Span(u[Root]) = Span(t[Root]) * NodeContainers
    BY <1>2, <1>6, <1>10 DEF IsLeaf, Span
  <1>13. \A b \in DOMAIN t \ {Root} : u[b] = t[b]
    BY <1>8, <1>10
  <1>14. u[block] = t[Root]
    BY <1>8, <1>10, <1>11
  <1>15. \A b : b \in DOMAIN u <=> b \in DOMAIN t \/ b = block
    BY <1>1, <1>8, <1>10
  <1>16. QED
    BY <1>4, <1>6, <1>10, <1>11, <1>12, <1>13, <1>14, <1>15 DEF IsLevelled

\* The pointers of the new root, and of the others.
LEMMA LevelledPoints ==
  ASSUME NEW t, NEW block, NEW u, Shape(t), IsLevelled(t, block, u), block # 0
  PROVE  /\ \A p \in 1..NodeContainers : \A b :
              PointsTo(u, Root, p, b) <=> b = IF p = 1 THEN block ELSE 0
         /\ \A p \in 1..NodeContainers : \A b :
              /\ PointsTo(u, block, p, b) <=> PointsTo(t, Root, p, b)
              /\ PointsTo(t, Root, p, b) => u[block].node[p] = t[Root].node[p]
         /\ \A a \in DOMAIN t \ {Root}, p \in 1..NodeContainers : \A b :
              PointsTo(u, a, p, b) <=> PointsTo(t, a, p, b)
  <1>1. Root \in DOMAIN t /\ Root \in DOMAIN u /\ block \in DOMAIN u
    BY RootIs DEF IsLevelled
  <1>2. ASSUME NEW p \in 1..NodeContainers, NEW b
        PROVE  PointsTo(u, Root, p, b) <=> b = IF p = 1 THEN block ELSE 0
    <2>1. u[Root].node[p].block = IF p = 1 THEN block ELSE 0
      BY DEF IsLevelled, Pointer, NoPointer
    <2>2. ~IsLeaf(u[Root])
      BY DEF IsLevelled
    <2>3. QED
      BY <1>1, <2>1, <2>2 DEF PointsTo
  <1>3. ASSUME NEW p \in 1..NodeContainers, NEW b
        PROVE  /\ PointsTo(u, block, p, b) <=> PointsTo(t, Root, p, b)
               /\ PointsTo(t, Root, p, b) => u[block].node[p] = t[Root].node[p]
    <2>1. u[block] = t[Root]
      BY DEF IsLevelled
    <2>2. QED
      BY <1>1, <2>1 DEF PointsTo
  <1>4. ASSUME NEW a \in DOMAIN t \ {Root}, NEW p \in 1..NodeContainers, NEW b
        PROVE  PointsTo(u, a, p, b) <=> PointsTo(t, a, p, b)
    <2>1. a \in DOMAIN u /\ u[a] = t[a]
      BY DEF IsLevelled
    <2>2. QED
      BY <2>1 DEF PointsTo
  <1>5. QED
    BY <1>2, <1>3, <1>4

\* The root's old container is below the root in a tree of the same shape.
LEMMA LevelledShape ==
  ASSUME NEW t, NEW block, NEW u, Shape(t), IsLevelled(t, block, u),
         block \in Nat \ {0}, block \notin DOMAIN t
  PROVE  Shape(u)
  <1>1. /\ Typed(u)
        /\ \A b : b \in DOMAIN u <=> b \in DOMAIN t \/ b = block
        /\ u[block] = t[Root] /\ block # Root
        /\ \A b \in DOMAIN t \ {Root} : u[b] = t[b]
        /\ u[Root].nodenumber = t[Root].nodenumber
        /\ u[Root].nodes = Span(t[Root]) /\ Span(u[Root]) = Span(t[Root]) * NodeContainers
        /\ \A k \in 1..NodeContainers :
             u[Root].node[k] = IF k = 1 THEN Pointer(block, TRUE) ELSE NoPointer
    BY DEF IsLevelled
  <1>2. /\ \A p \in 1..NodeContainers : \A b :
              PointsTo(u, Root, p, b) <=> b = IF p = 1 THEN block ELSE 0
        /\ \A p \in 1..NodeContainers : \A b :
              /\ PointsTo(u, block, p, b) <=> PointsTo(t, Root, p, b)
              /\ PointsTo(t, Root, p, b) => u[block].node[p] = t[Root].node[p]
        /\ \A a \in DOMAIN t \ {Root}, p \in 1..NodeContainers : \A b :
              PointsTo(u, a, p, b) <=> PointsTo(t, a, p, b)
    BY LevelledPoints
  <1>3. /\ Root \in DOMAIN t /\ t[Root].nodenumber = 1
        /\ \A b \in DOMAIN t : Span(t[b]) <= Span(t[Root])
        /\ \A b \in DOMAIN t : Span(t[b]) \in Nat
        /\ Span(t[Root]) \in Nat \ {0}
    <2>1. \A b \in DOMAIN t : Span(t[b]) \in Nat
      BY BlockIs, ContainerIs DEF Shape
    <2>2. Root \in DOMAIN t /\ \A b \in DOMAIN t : Span(t[b]) <= Span(t[Root])
      BY RootIs
    <2>3. Span(t[Root]) > t[Root].nodes /\ t[Root].nodes \in Nat
      BY <2>2, BlockIs, ContainerIs DEF Shape
    <2>4. t[Root].nodenumber = 1
      BY DEF Shape, Rooted
    <2>5. QED
      BY <2>1, <2>2, <2>3, <2>4
  <1>4. \A b \in DOMAIN u : b # Root =>
          \E o \in DOMAIN t : u[b] = t[o] /\ (IF b = block THEN o = Root ELSE o = b)
    BY <1>1, <1>3
  <1>5. Rooted(u)
    <2>1. \A b \in DOMAIN u \ {Root} : Span(u[b]) <= u[Root].nodes
      BY <1>1, <1>3, <1>4
    <2>2. QED
      BY <1>1, <1>3, <2>1 DEF Rooted
  <1>6. Linked(u)
    <2>1. SUFFICES ASSUME NEW a \in DOMAIN u, NEW p \in 1..NodeContainers, NEW b \in Nat,
                          PointsTo(u, a, p, b)
                   PROVE  IF b = 0 THEN ~u[a].node[p].full
                          ELSE /\ b \in DOMAIN u \ {Root} /\ Span(u[b]) = u[a].nodes
                               /\ u[b].nodenumber = FirstBelow(u[a], p)
      BY DEF Linked
    <2>2. CASE a = Root
      <3>1. CASE p = 1
        <4>1. b = block
          BY <1>2, <2>1, <2>2, <3>1
        <4>2. FirstBelow(u[Root], 1) = 1
          <5>1. /\ u[Root].nodenumber = 1 /\ u[Root].nodes \in Nat
            BY <1>1, <1>3
          <5>2. (1 - 1) * u[Root].nodes = 0
            BY <5>1
          <5>3. QED
            BY <5>1, <5>2 DEF FirstBelow
        <4>3. QED
          BY <1>1, <1>3, <2>2, <3>1, <4>1, <4>2
      <3>2. CASE p # 1
        BY <1>1, <1>2, <2>1, <2>2, <3>2 DEF NoPointer, Pointer
      <3>3. QED
        BY <3>1, <3>2
    <2>3. CASE a # Root
      <3>1. PICK o \in DOMAIN t : u[a] = t[o] /\ (IF a = block THEN o = Root ELSE o = a)
        BY <1>4, <2>3
      <3>2. PointsTo(t, o, p, b)
        BY <1>2, <2>1, <2>3, <3>1
      <3>3. IF b = 0 THEN ~t[o].node[p].full
            ELSE /\ b \in DOMAIN t \ {Root} /\ Span(t[b]) = t[o].nodes
                 /\ t[b].nodenumber = FirstBelow(t[o], p)
        BY <2>1, <3>1, <3>2 DEF Shape, Linked
      <3>4. b # 0 => b \in DOMAIN u \ {Root} /\ u[b] = t[b]
        BY <1>1, <3>3
      <3>5. QED
        BY <3>1, <3>3, <3>4
    <2>4. QED
      BY <2>2, <2>3
  <1>7. Reached(u)
    <2>1. SUFFICES ASSUME NEW b \in DOMAIN u \ {Root}
                   PROVE  \E a \in DOMAIN u, p \in 1..NodeContainers : PointsTo(u, a, p, b)
      BY DEF Reached
    <2>2. CASE b = block
      <3>1. 1 \in 1..NodeContainers /\ Root \in DOMAIN u
        BY <1>1, <1>3, Sizes
      <3>2. QED
        BY <1>2, <2>2, <3>1
    <2>3. CASE b # block
      <3>1. b \in DOMAIN t \ {Root}
        BY <1>1, <2>3
      <3>2. PICK a \in DOMAIN t, p \in 1..NodeContainers : PointsTo(t, a, p, b)
        BY <3>1 DEF Shape, Reached
      <3>3. CASE a = Root
        BY <1>1, <1>2, <3>2, <3>3
      <3>4. CASE a # Root
        BY <1>1, <1>2, <3>2, <3>4
      <3>5. QED
        BY <3>3, <3>4
    <2>4. QED
      BY <2>2, <2>3
  <1>8. Apart(u)
    <2>1. SUFFICES ASSUME NEW a \in DOMAIN u, NEW b \in DOMAIN u, NEW n \in Nat,
                          Has(u[a], n), Has(u[b], n), Span(u[a]) = Span(u[b])
                   PROVE  a = b
      BY DEF Apart
    <2>2. \A c \in DOMAIN u \ {Root} : Span(u[c]) < Span(u[Root])
      <3>1. Span(t[Root]) < Span(t[Root]) * NodeContainers
        BY <1>3, Sizes, SMT
      <3>2. \A c \in DOMAIN u \ {Root} : Span(u[c]) \in Nat /\ Span(u[c]) <= Span(t[Root])
        BY <1>3, <1>4
      <3>3. QED
        BY <1>1, <1>3, <3>1, <3>2, Sizes
    <2>3. CASE a = Root \/ b = Root
      <3>1. Span(u[Root]) \in Nat
        BY <1>1, <1>3, Sizes
      <3>2. QED
        BY <2>1, <2>2, <2>3, <3>1
    <2>4. CASE a # Root /\ b # Root
      <3>1. PICK o \in DOMAIN t : u[a] = t[o] /\ (IF a = block THEN o = Root ELSE o = a)
        BY <1>4, <2>4
      <3>2. PICK m \in DOMAIN t : u[b] = t[m] /\ (IF b = block THEN m = Root ELSE m = b)
        BY <1>4, <2>4
      <3>3. o = m
        BY <2>1, <3>1, <3>2 DEF Shape, Apart
      <3>4. QED
        BY <2>4, <3>1, <3>2, <3>3
    <2>5. QED
      BY <2>3, <2>4
  <1>9. QED
    BY <1>1, <1>5, <1>6, <1>7, <1>8 DEF Shape

\* The new root has room, and nothing else changes.
LEMMA LevelledKeeps ==
  ASSUME NEW t, NEW block, NEW u, Shape(t), Bits(t, Root), Full(t[Root]),
         IsLevelled(t, block, u), block \in Nat \ {0}, block \notin DOMAIN t
  PROVE  /\ Bits(u, Root) /\ NodesOf(u) = NodesOf(t)
         /\ ~Full(u[Root])
         /\ \A b \in DOMAIN u \ {Root} : Empty(u[b]) => b \in DOMAIN t /\ Empty(t[b])
  <1>1. /\ \A b : b \in DOMAIN u <=> b \in DOMAIN t \/ b = block
        /\ u[block] = t[Root] /\ block # Root
        /\ \A b \in DOMAIN t \ {Root} : u[b] = t[b]
        /\ u[Root] \in Indices /\ ~IsLeaf(u[Root])
        /\ \A k \in 1..NodeContainers :
             u[Root].node[k] = IF k = 1 THEN Pointer(block, TRUE) ELSE NoPointer
    BY DEF IsLevelled
  <1>2. /\ \A p \in 1..NodeContainers : \A b :
              PointsTo(u, Root, p, b) <=> b = IF p = 1 THEN block ELSE 0
        /\ \A p \in 1..NodeContainers : \A b :
              /\ PointsTo(u, block, p, b) <=> PointsTo(t, Root, p, b)
              /\ PointsTo(t, Root, p, b) => u[block].node[p] = t[Root].node[p]
        /\ \A a \in DOMAIN t \ {Root}, p \in 1..NodeContainers : \A b :
              PointsTo(u, a, p, b) <=> PointsTo(t, a, p, b)
    BY LevelledPoints
  <1>3. Root \in DOMAIN t /\ t[Root] \in Leaves \cup Indices
    BY RootIs, BlockIs DEF Shape
  <1>4. ~Full(u[Root])
    <2>1. 2 \in 1..NodeContainers
      BY Sizes
    <2>2. DOMAIN u[Root].node = 1..NodeContainers
      BY <1>1 DEF Indices
    <2>3. u[Root].node[2].block = 0
      BY <1>1, <2>1 DEF NoPointer, Pointer
    <2>4. QED
      BY <1>1, <2>1, <2>2, <2>3 DEF Full, IsFull
  <1>5. Bits(u, Root)
    <2>1. SUFFICES ASSUME NEW a \in DOMAIN u, NEW p \in 1..NodeContainers,
                          NEW b \in Nat \ {0, Root}, PointsTo(u, a, p, b)
                   PROVE  u[a].node[p].full = Full(u[b])
      BY DEF Bits
    <2>2. CASE a = Root
      <3>1. p = 1 /\ b = block
        BY <1>2, <2>1, <2>2
      <3>2. u[a].node[p].full = TRUE
        BY <1>1, <2>2, <3>1 DEF Pointer
      <3>3. Full(u[b]) = TRUE
        <4>1. Full(u[b]) \in BOOLEAN
          BY DEF Full, IsFull
        <4>2. QED
          BY <1>1, <3>1, <4>1
      <3>4. QED
        BY <3>2, <3>3
    <2>3. CASE a # Root
      <3>1. PICK o \in DOMAIN t : u[a] = t[o] /\ PointsTo(t, o, p, b)
        BY <1>1, <1>2, <1>3, <2>1, <2>3
      <3>2. t[o].node[p].full = Full(t[b])
        BY <2>1, <3>1 DEF Bits
      <3>3. b \in DOMAIN t
        BY <2>1, <3>1, PointedTo
      <3>4. QED
        BY <1>1, <2>1, <3>1, <3>2, <3>3
    <2>4. QED
      BY <2>2, <2>3
  <1>6. NodesOf(u) = NodesOf(t)
    <2>1. ASSUME NEW x, NEW i, NEW n, Holds(u, x, i, n)
          PROVE  \E y : Holds(t, y, i, n)
      <3>1. x # Root /\ x \in DOMAIN u
        BY <1>1, <2>1 DEF Holds
      <3>2. PICK o \in DOMAIN t : u[x] = t[o]
        BY <1>1, <1>3, <3>1
      <3>3. Holds(t, o, i, n)
        BY <2>1, <3>2 DEF Holds
      <3>4. QED
        BY <3>3
    <2>2. ASSUME NEW x, NEW i, NEW n, Holds(t, x, i, n)
          PROVE  \E y : Holds(u, y, i, n)
      <3>1. PICK o : o \in DOMAIN u /\ u[o] = t[x]
        BY <1>1, <2>2 DEF Holds
      <3>2. Holds(u, o, i, n)
        BY <2>2, <3>1 DEF Holds
      <3>3. QED
        BY <3>2
    <2>3. QED
      BY <2>1, <2>2 DEF NodesOf
  <1>7. ASSUME NEW b \in DOMAIN u \ {Root}, Empty(u[b])
        PROVE  b \in DOMAIN t /\ Empty(t[b])
    <2>1. b # block
      BY <1>1, <1>3, <1>7, EmptyIs
    <2>2. QED
      BY <1>1, <1>7, <2>1
  <1>8. QED
    BY <1>4, <1>5, <1>6, <1>7

-----------------------------------------------------------------------------
(* A container is added, for an unused pointer. *)

NewBelow(c, p) ==
  IF c.nodes = LeafNodes THEN Leaf(FirstBelow(c, p), NoNodes)
  ELSE Index(FirstBelow(c, p), c.nodes \div NodeContainers, NoPointers)

\* The container that createnodecontainer makes is empty and of the right size.
LEMMA NewBelowIs ==
  ASSUME NEW c \in Indices, NEW p \in 1..NodeContainers, NEW d, d = NewBelow(c, p)
  PROVE  /\ d \in Leaves \cup Indices /\ Span(d) = c.nodes
         /\ d.nodenumber = FirstBelow(c, p) /\ Empty(d)
         /\ IsLeaf(d) => \A i \in 1..LeafNodes : ~d.node[i]
         /\ ~IsLeaf(d) => \A r \in 1..NodeContainers : d.node[r] = NoPointer
  <1>1. FirstBelow(c, p) \in Nat /\ c.nodes \in SizesOfContainers
    BY BelowHas DEF Indices
  <1>2. CASE c.nodes = LeafNodes
    <2>1. d = Leaf(FirstBelow(c, p), NoNodes)
      BY <1>2 DEF NewBelow
    <2>2. NoNodes \in [1..LeafNodes -> BOOLEAN] /\ \A i \in 1..LeafNodes : ~NoNodes[i]
      BY DEF NoNodes
    <2>3. d \in Leaves /\ d.nodenumber = FirstBelow(c, p) /\ d.nodes = 1 /\ d.node = NoNodes
      BY <1>1, <2>1, <2>2 DEF Leaf, Leaves
    <2>4. QED
      BY <1>2, <2>2, <2>3 DEF IsLeaf, Span, Empty
  <1>3. CASE c.nodes # LeafNodes
    <2>1. PICK m \in SizesOfContainers : c.nodes = m * NodeContainers
      BY <1>1, <1>3, LegalIs
    <2>2. m \in Nat /\ m > 1
      BY LegalIs
    <2>3. c.nodes \div NodeContainers = m
      <3>1. PICK n : n = c.nodes
        OBVIOUS
      <3>2. PICK k : k = n \div NodeContainers
        OBVIOUS
      <3>3. n \in Nat /\ n = m * NodeContainers
        BY <1>1, <2>1, <3>1, LegalIs
      <3>4. k \in Nat /\ k * NodeContainers <= n /\ n < k * NodeContainers + NodeContainers
        BY <3>2, <3>3, Sizes, Division
      <3>5. k <= m
        BY <2>2, <3>3, <3>4, Sizes, Products
      <3>6. ~(k < m)
        <4>1. k < m => k * NodeContainers + NodeContainers <= m * NodeContainers
          BY <2>2, <3>4, Sizes, Products
        <4>2. k * NodeContainers \in Nat /\ m * NodeContainers \in Nat
          BY <2>2, <3>4, Sizes, Products
        <4>3. QED
          BY <3>3, <3>4, <4>1, <4>2, Sizes
      <3>7. QED
        BY <2>2, <3>1, <3>2, <3>4, <3>5, <3>6
    <2>4. d = Index(FirstBelow(c, p), m, NoPointers)
      BY <1>3, <2>3 DEF NewBelow
    <2>5. NoPointers \in [1..NodeContainers -> Pointers]
          /\ \A r \in 1..NodeContainers : NoPointers[r] = NoPointer
      BY DEF NoPointers, NoPointer, Pointer, Pointers
    <2>6. /\ d \in Indices /\ d.nodenumber = FirstBelow(c, p) /\ d.nodes = m
          /\ d.node = NoPointers
      BY <1>1, <2>4, <2>5 DEF Index, Indices
    <2>7. ~IsLeaf(d) /\ Span(d) = c.nodes
      BY <2>1, <2>2, <2>6 DEF IsLeaf, Span
    <2>8. QED
      BY <2>5, <2>6, <2>7 DEF Empty, NoPointer, Pointer
  <1>4. QED
    BY <1>2, <1>3

\* The tree with a new container in a block, for pointer p of block cur.
Grown(t, cur, p, block) ==
  With(With(t, cur, [t[cur] EXCEPT !.node[p] = Pointer(block, FALSE)]), block,
       NewBelow(t[cur], p))

IsGrown(t, cur, p, block, u) ==
  /\ Typed(u)
  /\ \A b : b \in DOMAIN u <=> b \in DOMAIN t \/ b = block
  /\ u[block] = NewBelow(t[cur], p)
  /\ \A b \in DOMAIN t \ {cur} : u[b] = t[b]
  /\ u[cur] \in Indices /\ ~IsLeaf(u[cur]) /\ u[cur].nodenumber = t[cur].nodenumber
  /\ u[cur].nodes = t[cur].nodes /\ Span(u[cur]) = Span(t[cur])
  /\ \A r \in 1..NodeContainers :
       u[cur].node[r] = IF r = p THEN Pointer(block, FALSE) ELSE t[cur].node[r]

\* What createnodecontainer makes of the tree.
LEMMA GrownIs ==
  ASSUME NEW t, Shape(t), NEW cur \in DOMAIN t, ~IsLeaf(t[cur]),
         NEW p \in 1..NodeContainers, NEW block \in Nat \ {0}, block \notin DOMAIN t,
         NEW u, u = Grown(t, cur, p, block)
  PROVE  IsGrown(t, cur, p, block, u)
  <1>1. /\ Typed(t) /\ t[cur] \in Indices /\ cur \in Nat \ {0}
        /\ t[cur].node \in [1..NodeContainers -> Pointers]
    BY BlockIs, ContainerIs DEF Shape
  <1>2. PICK ps : ps = [t[cur].node EXCEPT ![p] = Pointer(block, FALSE)]
    OBVIOUS
  <1>3. /\ ps \in [1..NodeContainers -> Pointers]
        /\ \A r \in 1..NodeContainers :
             ps[r] = IF r = p THEN Pointer(block, FALSE) ELSE t[cur].node[r]
    <2>1. Pointer(block, FALSE) \in Pointers
      BY DEF Pointer, Pointers
    <2>2. QED
      BY <1>1, <1>2, <2>1
  <1>4. PICK d : d = [t[cur] EXCEPT !.node = ps]
    OBVIOUS
  <1>5. /\ d \in Indices /\ d.nodenumber = t[cur].nodenumber /\ d.nodes = t[cur].nodes
        /\ d.node = ps
    BY <1>1, <1>3, <1>4 DEF Indices
  <1>6. PICK v : v = With(t, cur, d)
    OBVIOUS
  <1>7. /\ Typed(v) /\ v[cur] = d
        /\ \A b : b \in DOMAIN v <=> b \in DOMAIN t \/ b = cur
        /\ \A b \in DOMAIN t : b # cur => v[b] = t[b]
    <2>1. Typed(t) /\ cur \in Nat \ {0} /\ d \in Leaves \cup Indices
      BY <1>1, <1>5
    <2>2. QED
      BY <1>6, <2>1, WithIs
  <1>8. u = With(v, block, NewBelow(t[cur], p))
    BY <1>2, <1>4, <1>6 DEF Grown
  <1>9. NewBelow(t[cur], p) \in Leaves \cup Indices
    BY <1>1, NewBelowIs
  <1>10. /\ Typed(u) /\ u[block] = NewBelow(t[cur], p)
         /\ \A b : b \in DOMAIN u <=> b \in DOMAIN v \/ b = block
         /\ \A b \in DOMAIN v : b # block => u[b] = v[b]
    BY <1>7, <1>8, <1>9, WithIs
  <1>11. u[cur] = d /\ \A b \in DOMAIN t \ {cur} : u[b] = t[b]
    BY <1>7, <1>10
  <1>12. \A b : b \in DOMAIN u <=> b \in DOMAIN t \/ b = block
    BY <1>7, <1>10
  <1>13. ~IsLeaf(u[cur]) /\ Span(u[cur]) = Span(t[cur])
    BY <1>5, <1>11 DEF IsLeaf, Span
  <1>14. QED
    BY <1>3, <1>5, <1>10, <1>11, <1>12, <1>13 DEF IsGrown

\* The pointers are those there were, but for one.
LEMMA GrownPoints ==
  ASSUME NEW t, NEW cur, NEW p, NEW block, NEW u, Shape(t), IsGrown(t, cur, p, block, u),
         cur \in DOMAIN t, ~IsLeaf(t[cur]), block # 0, block \notin DOMAIN t,
         p \in 1..NodeContainers
  PROVE  /\ \A a, r, b : PointsTo(u, a, r, b) =>
              \/ a = cur /\ r = p /\ b = block
              \/ PointsTo(t, a, r, b) /\ u[a].node[r] = t[a].node[r] /\ ~(a = cur /\ r = p)
              \/ a = block /\ b = 0 /\ u[a].node[r] = NoPointer
         /\ PointsTo(u, cur, p, block)
         /\ \A a, r, b : PointsTo(t, a, r, b) /\ ~(a = cur /\ r = p) => PointsTo(u, a, r, b)
  <1>1. /\ \A b : b \in DOMAIN u <=> b \in DOMAIN t \/ b = block
        /\ u[block] = NewBelow(t[cur], p)
        /\ \A b \in DOMAIN t \ {cur} : u[b] = t[b]
        /\ ~IsLeaf(u[cur])
        /\ \A r \in 1..NodeContainers :
             u[cur].node[r] = IF r = p THEN Pointer(block, FALSE) ELSE t[cur].node[r]
    BY DEF IsGrown
  <1>2. ASSUME NEW a, NEW r, NEW b, PointsTo(u, a, r, b)
        PROVE  \/ a = cur /\ r = p /\ b = block
               \/ PointsTo(t, a, r, b) /\ u[a].node[r] = t[a].node[r] /\ ~(a = cur /\ r = p)
               \/ a = block /\ b = 0 /\ u[a].node[r] = NoPointer
    <2>1. a \in DOMAIN u /\ ~IsLeaf(u[a]) /\ r \in 1..NodeContainers /\ u[a].node[r].block = b
      BY <1>2 DEF PointsTo
    <2>2. CASE a = cur
      BY <1>1, <2>1, <2>2 DEF PointsTo, Pointer
    <2>3. CASE a = block
      <3>1. t[cur] \in Indices
        BY BlockIs, ContainerIs DEF Shape
      <3>2. u[a].node[r] = NoPointer
        BY <1>1, <2>1, <2>3, <3>1, NewBelowIs
      <3>3. QED
        BY <2>1, <2>3, <3>2 DEF NoPointer, Pointer
    <2>4. CASE a # cur /\ a # block
      BY <1>1, <2>1, <2>4 DEF PointsTo
    <2>5. QED
      BY <2>2, <2>3, <2>4
  <1>3. PointsTo(u, cur, p, block)
    BY <1>1 DEF PointsTo, Pointer
  <1>4. ASSUME NEW a, NEW r, NEW b, PointsTo(t, a, r, b), ~(a = cur /\ r = p)
        PROVE  PointsTo(u, a, r, b)
    <2>1. CASE a = cur
      BY <1>1, <1>4, <2>1 DEF PointsTo
    <2>2. CASE a # cur
      BY <1>1, <1>4, <2>2 DEF PointsTo
    <2>3. QED
      BY <2>1, <2>2
  <1>5. QED
    BY <1>2, <1>3, <1>4

\* The new container is where it should be.
LEMMA GrownShape ==
  ASSUME NEW t, NEW cur, NEW p, NEW block, NEW u, Shape(t), IsGrown(t, cur, p, block, u),
         cur \in DOMAIN t, ~IsLeaf(t[cur]), block \in Nat \ {0}, block \notin DOMAIN t,
         p \in 1..NodeContainers, t[cur].node[p].block = 0
  PROVE  Shape(u)
  <1>1. /\ Typed(u)
        /\ \A b : b \in DOMAIN u <=> b \in DOMAIN t \/ b = block
        /\ u[block] = NewBelow(t[cur], p)
        /\ \A b \in DOMAIN t \ {cur} : u[b] = t[b]
        /\ u[cur].nodenumber = t[cur].nodenumber
        /\ u[cur].nodes = t[cur].nodes /\ Span(u[cur]) = Span(t[cur])
        /\ \A r \in 1..NodeContainers :
             u[cur].node[r] = IF r = p THEN Pointer(block, FALSE) ELSE t[cur].node[r]
    BY DEF IsGrown
  <1>2. /\ \A a, r, b : PointsTo(u, a, r, b) =>
              \/ a = cur /\ r = p /\ b = block
              \/ PointsTo(t, a, r, b) /\ u[a].node[r] = t[a].node[r] /\ ~(a = cur /\ r = p)
              \/ a = block /\ b = 0 /\ u[a].node[r] = NoPointer
        /\ PointsTo(u, cur, p, block)
        /\ \A a, r, b : PointsTo(t, a, r, b) /\ ~(a = cur /\ r = p) => PointsTo(u, a, r, b)
    BY GrownPoints
  <1>3. t[cur] \in Indices /\ Root \in DOMAIN t /\ block # Root
    BY BlockIs, ContainerIs, RootIs DEF Shape
  <1>4. Span(u[block]) = t[cur].nodes /\ u[block].nodenumber = FirstBelow(t[cur], p)
    BY <1>1, <1>3, NewBelowIs
  <1>5. \A b \in DOMAIN t : /\ Span(u[b]) = Span(t[b]) /\ u[b].nodes = t[b].nodes
                            /\ u[b].nodenumber = t[b].nodenumber
    BY <1>1
  <1>6. /\ Span(t[cur]) > t[cur].nodes /\ t[cur].nodes \in Nat /\ Span(t[cur]) \in Nat
        /\ t[Root].nodes \in Nat /\ Span(t[Root]) \in Nat /\ Span(t[Root]) > t[Root].nodes
    BY <1>3, BlockIs, ContainerIs DEF Shape
  <1>7. t[cur].nodes <= t[Root].nodes
    <2>1. cur # Root => Span(t[cur]) <= t[Root].nodes
      BY RootIs
    <2>2. QED
      BY <1>6, <2>1
  <1>8. Rooted(u)
    <2>1. ASSUME NEW b \in DOMAIN u \ {Root} PROVE Span(u[b]) <= u[Root].nodes
      <3>1. u[Root].nodes = t[Root].nodes
        BY <1>3, <1>5
      <3>2. CASE b = block
        BY <1>4, <1>7, <3>1, <3>2
      <3>3. CASE b # block
        <4>1. b \in DOMAIN t \ {Root}
          BY <1>1, <2>1, <3>3
        <4>2. Span(t[b]) <= t[Root].nodes
          BY <4>1, RootIs
        <4>3. QED
          BY <1>5, <3>1, <4>1, <4>2
      <3>4. QED
        BY <3>2, <3>3
    <2>2. u[Root].nodenumber = 1 /\ Root \in DOMAIN u
      BY <1>1, <1>3, <1>5 DEF Shape, Rooted
    <2>3. QED
      BY <2>1, <2>2 DEF Rooted
  <1>9. Linked(u)
    <2>1. SUFFICES ASSUME NEW a \in DOMAIN u, NEW r \in 1..NodeContainers, NEW b \in Nat,
                          PointsTo(u, a, r, b)
                   PROVE  IF b = 0 THEN ~u[a].node[r].full
                          ELSE /\ b \in DOMAIN u \ {Root} /\ Span(u[b]) = u[a].nodes
                               /\ u[b].nodenumber = FirstBelow(u[a], r)
      BY DEF Linked
    <2>2. CASE a = cur /\ r = p /\ b = block
      <3>1. FirstBelow(u[cur], p) = FirstBelow(t[cur], p)
        BY <1>1 DEF FirstBelow
      <3>2. QED
        BY <1>1, <1>3, <1>4, <2>2, <3>1
    <2>3. CASE PointsTo(t, a, r, b) /\ u[a].node[r] = t[a].node[r]
      <3>1. a \in DOMAIN t
        BY <2>3 DEF PointsTo
      <3>2. IF b = 0 THEN ~t[a].node[r].full
            ELSE /\ b \in DOMAIN t \ {Root} /\ Span(t[b]) = t[a].nodes
                 /\ t[b].nodenumber = FirstBelow(t[a], r)
        BY <2>1, <2>3, <3>1 DEF Shape, Linked
      <3>3. FirstBelow(u[a], r) = FirstBelow(t[a], r)
        BY <1>5, <3>1 DEF FirstBelow
      <3>4. QED
        BY <1>1, <1>5, <2>3, <3>1, <3>2, <3>3
    <2>4. CASE a = block /\ b = 0 /\ u[a].node[r] = NoPointer
      BY <2>4 DEF NoPointer, Pointer
    <2>5. QED
      BY <1>2, <2>1, <2>2, <2>3, <2>4
  <1>10. Reached(u)
    <2>1. SUFFICES ASSUME NEW b \in DOMAIN u \ {Root}
                   PROVE  \E a \in DOMAIN u, r \in 1..NodeContainers : PointsTo(u, a, r, b)
      BY DEF Reached
    <2>2. CASE b = block
      BY <1>1, <1>2, <2>2
    <2>3. CASE b # block
      <3>1. b \in DOMAIN t \ {Root} /\ b # 0
        BY <1>1, <2>3, BlockIs DEF Shape
      <3>2. PICK a \in DOMAIN t, r \in 1..NodeContainers : PointsTo(t, a, r, b)
        BY <3>1 DEF Shape, Reached
      <3>3. ~(a = cur /\ r = p)
        BY <3>1, <3>2 DEF PointsTo
      <3>4. QED
        BY <1>1, <1>2, <3>2, <3>3
    <2>4. QED
      BY <2>2, <2>3
  \* A container that has room for what the new one has room for would be
  \* below pointer p.
  <1>11. ASSUME NEW b \in DOMAIN t, NEW n \in Nat, Has(u[block], n), Has(t[b], n),
                Span(t[b]) = t[cur].nodes
         PROVE  FALSE
    <2>1. FirstBelow(t[cur], p) <= n /\ n < FirstBelow(t[cur], p) + t[cur].nodes
      BY <1>4, <1>11 DEF Has
    <2>2. SlotOf(t[cur], n) = p
      BY <1>3, <2>1, SlotIs
    <2>3. Has(t[cur], n)
      <3>1. /\ FirstBelow(t[cur], p) \in Nat /\ FirstBelow(t[cur], p) >= t[cur].nodenumber
            /\ FirstBelow(t[cur], p) + t[cur].nodes <= t[cur].nodenumber + Span(t[cur])
        BY <1>3, BelowHas
      <3>2. t[cur].nodenumber \in Nat
        BY <1>3, ContainerIs
      <3>3. QED
        BY <1>6, <2>1, <3>1, <3>2 DEF Has
    <2>4. Span(t[b]) < Span(t[cur])
      BY <1>6, <1>11
    <2>5. t[cur].node[p].block \in DOMAIN t
      BY <1>11, <2>2, <2>3, <2>4, OnTheWay
    <2>6. QED
      BY <2>5, BlockIs DEF Shape
  <1>12. Apart(u)
    <2>1. SUFFICES ASSUME NEW a \in DOMAIN u, NEW b \in DOMAIN u, NEW n \in Nat,
                          Has(u[a], n), Has(u[b], n), Span(u[a]) = Span(u[b])
                   PROVE  a = b
      BY DEF Apart
    <2>2. \A c \in DOMAIN t : Has(u[c], n) <=> Has(t[c], n)
      BY <1>5 DEF Has
    <2>3. CASE a # block /\ b # block
      <3>1. a \in DOMAIN t /\ b \in DOMAIN t
        BY <1>1, <2>3
      <3>2. Has(t[a], n) /\ Has(t[b], n) /\ Span(t[a]) = Span(t[b])
        BY <1>5, <2>1, <2>2, <3>1
      <3>3. QED
        BY <3>1, <3>2 DEF Shape, Apart
    <2>4. CASE a = block /\ b # block
      BY <1>1, <1>4, <1>5, <1>11, <2>1, <2>2, <2>4
    <2>5. CASE a # block /\ b = block
      BY <1>1, <1>4, <1>5, <1>11, <2>1, <2>2, <2>5
    <2>6. QED
      BY <2>3, <2>4, <2>5
  <1>13. QED
    BY <1>1, <1>8, <1>9, <1>10, <1>12 DEF Shape

\* The bits are right, the nodes the same, and only the new container is empty.
LEMMA GrownKeeps ==
  ASSUME NEW t, NEW cur, NEW p, NEW block, NEW u, Shape(t), Bits(t, Root),
         IsGrown(t, cur, p, block, u),
         cur \in DOMAIN t, ~IsLeaf(t[cur]), block \in Nat \ {0}, block \notin DOMAIN t,
         p \in 1..NodeContainers, t[cur].node[p].block = 0
  PROVE  /\ Bits(u, Root) /\ NodesOf(u) = NodesOf(t) /\ ~Full(u[cur])
         /\ \A b \in DOMAIN u : Empty(u[b]) => b = block \/ (b # cur /\ b \in DOMAIN t /\ Empty(t[b]))
  <1>1. /\ \A b : b \in DOMAIN u <=> b \in DOMAIN t \/ b = block
        /\ u[block] = NewBelow(t[cur], p)
        /\ \A b \in DOMAIN t \ {cur} : u[b] = t[b]
        /\ u[cur] \in Indices /\ ~IsLeaf(u[cur])
        /\ \A r \in 1..NodeContainers :
             u[cur].node[r] = IF r = p THEN Pointer(block, FALSE) ELSE t[cur].node[r]
    BY DEF IsGrown
  <1>2. /\ \A a, r, b : PointsTo(u, a, r, b) =>
              \/ a = cur /\ r = p /\ b = block
              \/ PointsTo(t, a, r, b) /\ u[a].node[r] = t[a].node[r] /\ ~(a = cur /\ r = p)
              \/ a = block /\ b = 0 /\ u[a].node[r] = NoPointer
    BY GrownPoints
  <1>3. t[cur] \in Indices /\ DOMAIN t[cur].node = 1..NodeContainers
        /\ DOMAIN u[cur].node = 1..NodeContainers
    <2>1. t[cur] \in Indices
      BY BlockIs, ContainerIs DEF Shape
    <2>2. QED
      BY <1>1, <2>1 DEF Indices
  <1>4. /\ Empty(u[block]) /\ u[block] \in Leaves \cup Indices
        /\ IsLeaf(u[block]) => \A i \in 1..LeafNodes : ~u[block].node[i]
    BY <1>1, <1>3, NewBelowIs
  <1>5. ~Full(u[block])
    BY <1>4, EmptyIs
  <1>6. ~Full(t[cur]) /\ ~Full(u[cur])
    <2>1. ~Full(t[cur])
      BY <1>3 DEF Full, IsFull
    <2>2. ~u[cur].node[p].full
      BY <1>1 DEF Pointer
    <2>3. ~Full(u[cur])
      BY <1>1, <1>3, <2>2 DEF Full, IsFull
    <2>4. QED
      BY <2>1, <2>3
  <1>7. Bits(u, Root)
    <2>1. SUFFICES ASSUME NEW a \in DOMAIN u, NEW r \in 1..NodeContainers,
                          NEW b \in Nat \ {0, Root}, PointsTo(u, a, r, b)
                   PROVE  u[a].node[r].full = Full(u[b])
      BY DEF Bits
    <2>2. Full(u[b]) \in BOOLEAN
      BY DEF Full, IsFull
    <2>3. CASE a = cur /\ r = p /\ b = block
      <3>1. u[a].node[r].full = FALSE
        BY <1>1, <2>3 DEF Pointer
      <3>2. Full(u[b]) = FALSE
        BY <1>5, <2>2, <2>3
      <3>3. QED
        BY <3>1, <3>2
    <2>4. CASE PointsTo(t, a, r, b) /\ u[a].node[r] = t[a].node[r]
      <3>1. a \in DOMAIN t /\ b \in DOMAIN t /\ t[a].node[r].full = Full(t[b])
        <4>1. a \in DOMAIN t
          BY <2>4 DEF PointsTo
        <4>2. b \in DOMAIN t
          BY <2>1, <2>4, PointedTo
        <4>3. QED
          BY <2>1, <2>4, <4>1, <4>2 DEF Bits
      <3>2. Full(t[b]) \in BOOLEAN
        BY DEF Full, IsFull
      <3>3. Full(u[b]) = Full(t[b])
        BY <1>1, <1>6, <2>2, <3>1, <3>2
      <3>4. QED
        BY <2>4, <3>1, <3>3
    <2>5. QED
      BY <1>2, <2>1, <2>3, <2>4
  <1>8. NodesOf(u) = NodesOf(t)
    <2>1. \A x, i, n : Holds(u, x, i, n) <=> Holds(t, x, i, n)
      <3>1. ASSUME NEW x, NEW i, NEW n, Holds(u, x, i, n) PROVE Holds(t, x, i, n)
        <4>1. x # cur /\ x # block /\ x \in DOMAIN t
          BY <1>1, <1>4, <3>1 DEF Holds
        <4>2. QED
          BY <1>1, <3>1, <4>1 DEF Holds
      <3>2. ASSUME NEW x, NEW i, NEW n, Holds(t, x, i, n) PROVE Holds(u, x, i, n)
        BY <1>1, <3>2 DEF Holds
      <3>3. QED
        BY <3>1, <3>2
    <2>2. QED
      BY <2>1 DEF NodesOf
  <1>9. ASSUME NEW b \in DOMAIN u, Empty(u[b]), b # block
        PROVE  b # cur /\ b \in DOMAIN t /\ Empty(t[b])
    <2>1. ~Empty(u[cur])
      BY <1>1 DEF Empty, Pointer
    <2>2. b # cur
      BY <1>9, <2>1
    <2>3. QED
      BY <1>1, <1>9, <2>2
  <1>10. QED
    BY <1>6, <1>7, <1>8, <1>9

-----------------------------------------------------------------------------
(* The turns of createnode's loop. *)

Unused(c) == {n \in DOMAIN c.node : ~c.node[n]}
Opens(c) == {p \in DOMAIN c.node : c.node[p].block # 0 /\ ~c.node[p].full}
Nulls(c) == {p \in DOMAIN c.node : c.node[p].block = 0}

\* Only the container the loop is at may be empty, or the one it goes on with.
Coming(t, cur) ==
  \A b \in DOMAIN t \ {Root} :
    Empty(t[b]) => b = cur \/ \E p : PointsTo(t, cur, p, b) /\ Opens(t[cur]) \subseteq {p}

\* The loop is at a container that has room, or at the root; N are the nodes.
Going(s, cur, N) ==
  /\ s \in States /\ ~s.error
  /\ Shape(s.tree) /\ Bits(s.tree, Root) /\ NodesOf(s.tree) = N
  /\ SpacesOkay(s.spaces, s.free, DOMAIN s.tree)
  /\ cur \in DOMAIN s.tree
  /\ cur # Root => ~Full(s.tree[cur]) /\ ~Full(s.tree[Root])
  /\ Coming(s.tree, cur)

\* The loop has ended, with a new node.
Made(s, N) ==
  s.error \/ (Okay(s, Root) /\ \E n \in Nat \ N : NodesOf(s.tree) = N \cup {n})

\* A bound of the turns left.
Left(t, cur) ==
  IF Full(t[Root]) THEN 2 * Span(t[Root]) + 3
  ELSE IF IsLeaf(t[cur]) THEN 1
  ELSE 2 * t[cur].nodes + (IF Opens(t[cur]) = {} THEN 1 ELSE 0)

\* A slot of the leaf is taken.
Taken(s, cur) ==
  LET c == s.tree[cur]
      u == WithSlot(s.tree, cur, First(Unused(c)), TRUE)
  IN [s EXCEPT !.tree = IF Cardinality(Unused(c)) = 1 THEN MarkParentFull(u, cur) ELSE u]

\* The first unused slot is taken, and the full bits follow.
LEMMA TakenIs ==
  ASSUME NEW s, NEW cur, NEW N, Going(s, cur, N), IsLeaf(s.tree[cur]),
         Unused(s.tree[cur]) # {}, NEW r, r = Taken(s, cur)
  PROVE  r \in States /\ Made(r, N)
  <1>a. PICK t : t = s.tree
    OBVIOUS
  <1>b. PICK i : i = First(Unused(t[cur]))
    OBVIOUS
  <1>c. PICK u : u = WithSlot(t, cur, i, TRUE)
    OBVIOUS
  <1>d. PICK v : v = IF Cardinality(Unused(t[cur])) = 1 THEN MarkParentFull(u, cur) ELSE u
    OBVIOUS
  <1>1. /\ s \in States /\ ~s.error /\ Shape(t) /\ Bits(t, Root) /\ NodesOf(t) = N
        /\ SpacesOkay(s.spaces, s.free, DOMAIN t) /\ cur \in DOMAIN t /\ Coming(t, cur)
        /\ IsLeaf(t[cur]) /\ Unused(t[cur]) # {}
    BY <1>a DEF Going
  <1>2. /\ t[cur].node \in [1..LeafNodes -> BOOLEAN]
        /\ \A j : j \in Unused(t[cur]) <=> j \in 1..LeafNodes /\ ~t[cur].node[j]
    <2>1. t[cur].node \in [1..LeafNodes -> BOOLEAN]
      BY <1>1, BlockIs, ContainerIs DEF Shape
    <2>2. DOMAIN t[cur].node = 1..LeafNodes
      BY <2>1
    <2>3. QED
      BY <2>1, <2>2 DEF Unused
  <1>3. i \in 1..LeafNodes /\ ~t[cur].node[i]
    <2>1. Unused(t[cur]) \subseteq Nat
      BY <1>2
    <2>2. i \in Unused(t[cur])
      BY <1>1, <1>b, <2>1, FirstIs
    <2>3. QED
      BY <1>2, <2>2
  <1>e. PICK yes \in BOOLEAN : yes = TRUE
    OBVIOUS
  <1>f. u = WithSlot(t, cur, i, yes)
    BY <1>c, <1>e
  <1>4. /\ Shape(u) /\ SamePlaces(t, u) /\ DOMAIN u = DOMAIN t
        /\ \A b \in DOMAIN t \ {cur} : u[b] = t[b]
        /\ IsLeaf(u[cur])
        /\ \A j \in 1..LeafNodes : u[cur].node[j] = IF j = i THEN yes ELSE t[cur].node[j]
    BY <1>1, <1>3, <1>f, WithSlotIs
  <1>5. PICK n : n = t[cur].nodenumber + i - 1
    OBVIOUS
  <1>6. n \in Nat \ N /\ NodesOf(u) = N \cup {n}
    <2>1. n \in Nat
      BY <1>1, <1>3, <1>5, LeafSlot DEF Shape
    <2>2. ASSUME n \in N PROVE FALSE
      <3>1. PICK x, j : Holds(t, x, j, n)
        BY <1>1, <2>2 DEF NodesOf
      <3>2. x = cur /\ j = i
        BY <1>1, <1>3, <1>5, <3>1, OneSlot DEF Holds
      <3>3. QED
        BY <1>3, <3>1, <3>2 DEF Holds
    <2>3. NodesOf(u) = NodesOf(t) \cup {n}
      <3>1. Changed(t, u, n, yes)
        BY <1>1, <1>3, <1>5, <1>f, WithSlotNodes
      <3>2. QED
        BY <3>1, <1>e DEF Changed
    <2>4. QED
      BY <1>1, <2>1, <2>2, <2>3
  <1>7. Kept(u, Root)
    <2>1. SUFFICES ASSUME NEW b \in DOMAIN u \ {Root}, Empty(u[b]) PROVE FALSE
      BY DEF Kept
    <2>2. b # cur
      BY <1>3, <1>4, <1>e, <2>1 DEF Empty
    <2>3. b \in DOMAIN t \ {Root} /\ Empty(t[b])
      BY <1>4, <2>1, <2>2
    <2>4. ~ \E p : PointsTo(t, cur, p, b)
      BY <1>1 DEF PointsTo
    <2>5. QED
      BY <1>1, <2>2, <2>3, <2>4 DEF Coming
  <1>8. Bits(u, cur) /\ (Full(u[cur]) = Full(t[cur]) => Bits(u, Root))
    BY <1>1, <1>3, <1>f, WithSlotBits
  <1>9. ~Full(t[cur])
    BY <1>1, <1>3 DEF Full
  <1>10. /\ Shape(v) /\ Bits(v, Root) /\ NodesOf(v) = NodesOf(u) /\ Kept(v, Root)
         /\ DOMAIN v = DOMAIN t
    <2>1. IsFiniteSet(Unused(t[cur]))
      <3>1. IsFiniteSet(1..LeafNodes)
        BY FS_Interval, Sizes
      <3>2. Unused(t[cur]) \in SUBSET (1..LeafNodes)
        BY <1>2
      <3>3. QED
        BY <3>1, <3>2, FS_Subset
    <2>2. CASE Cardinality(Unused(t[cur])) = 1
      <3>1. \E x : Unused(t[cur]) = {x}
        BY <2>1, <2>2, FS_Singleton
      <3>2. \A j \in 1..LeafNodes : j # i => t[cur].node[j]
        <4>1. i \in Unused(t[cur])
          BY <1>2, <1>3
        <4>2. Unused(t[cur]) = {i}
          BY <3>1, <4>1
        <4>3. QED
          BY <1>2, <4>2
      <3>3. Full(u[cur])
        BY <1>4, <1>e, <3>2 DEF Full
      <3>4. v = MarkParentFull(u, cur)
        BY <1>d, <2>2
      <3>5. Shape(v) /\ SameNodes(u, v) /\ Bits(v, Root)
        BY <1>4, <1>8, <3>3, <3>4, <1>1, MarkParentFullIs
      <3>6. NodesOf(v) = NodesOf(u) /\ Kept(v, Root)
        BY <1>7, <3>5, SameNodesOf
      <3>7. DOMAIN v = DOMAIN u
        BY <3>5 DEF SameNodes, SamePlaces
      <3>8. QED
        BY <1>4, <3>5, <3>6, <3>7
    <2>3. CASE Cardinality(Unused(t[cur])) # 1
      <3>1. Unused(t[cur]) # {i}
        BY <2>1, <2>3, FS_Singleton
      <3>2. i \in Unused(t[cur])
        BY <1>2, <1>3
      <3>3. PICK j \in Unused(t[cur]) : j # i
        BY <3>1, <3>2
      <3>4. j \in 1..LeafNodes /\ ~t[cur].node[j]
        BY <1>2
      <3>5. ~Full(u[cur])
        BY <1>4, <3>3, <3>4 DEF Full
      <3>6. Full(u[cur]) = Full(t[cur])
        <4>1. Full(u[cur]) \in BOOLEAN /\ Full(t[cur]) \in BOOLEAN
          BY DEF Full, IsFull
        <4>2. QED
          BY <1>9, <3>5, <4>1
      <3>7. v = u
        BY <1>d, <2>3
      <3>8. QED
        BY <1>4, <1>7, <1>8, <3>6, <3>7
    <2>4. QED
      BY <2>2, <2>3
  <1>11. r = [s EXCEPT !.tree = v]
    BY <1>a, <1>b, <1>c, <1>d DEF Taken
  <1>12. /\ r \in States /\ r.tree = v /\ r.error = s.error /\ r.spaces = s.spaces
         /\ r.free = s.free
    BY <1>1, <1>10, <1>11, WithTree DEF Shape
  <1>13. Okay(r, Root)
    BY <1>1, <1>10, <1>12 DEF Okay
  <1>14. \E m \in Nat \ N : NodesOf(r.tree) = N \cup {m}
    BY <1>6, <1>10, <1>12
  <1>15. QED
    BY <1>12, <1>13, <1>14 DEF Made

\* A level is added: the root has room again.
LEMMA LevelTurn ==
  ASSUME NEW s, NEW N, Going(s, Root, N), Full(s.tree[Root]), NEW r,
         r = AddNewNodeLevel(s)
  PROVE  /\ r \in States
         /\ ~r.error => Going(r, Root, N) /\ Left(r.tree, Root) < Left(s.tree, Root)
  <1>a. PICK t : t = s.tree
    OBVIOUS
  <1>b. PICK a : a = AllocAdminSpace(s)
    OBVIOUS
  <1>c. PICK D : D = DOMAIN t
    OBVIOUS
  <1>1. /\ s \in States /\ ~s.error /\ Shape(t) /\ Bits(t, Root) /\ NodesOf(t) = N
        /\ SpacesOkay(s.spaces, s.free, D) /\ Root \in DOMAIN t /\ Coming(t, Root)
        /\ Full(t[Root])
    BY <1>a, <1>c DEF Going
  <1>2. /\ a \in States /\ a.tree = s.tree
        /\ ~a.error => /\ a.block \in Nat \ {0} /\ a.block \notin D
                       /\ SpacesOkay(a.spaces, a.free, D \cup {a.block})
    BY <1>1, <1>b, AllocIs
  <1>3. CASE a.error
    <2>1. r = a
      BY <1>3, <1>b DEF AddNewNodeLevel
    <2>2. QED
      BY <1>2, <1>3, <2>1
  <1>4. CASE ~a.error
    <2>1. PICK u : u = Levelled(t, a.block)
      OBVIOUS
    <2>2. PICK block : block = a.block
      OBVIOUS
    <2>3. r = [a EXCEPT !.tree = u]
      <3>1. AddNewNodeLevel(s) = [a EXCEPT !.tree = Levelled(t, a.block)]
        BY <1>a, <1>b, <1>2, <1>4 DEF AddNewNodeLevel, Levelled
      <3>2. QED
        BY <2>1, <3>1
    <2>4. block \in Nat \ {0} /\ block \notin DOMAIN t
      BY <1>2, <1>4, <1>c, <2>2
    <2>5. IsLevelled(t, block, u)
      BY <1>1, <2>1, <2>2, <2>4, LevelledIs
    <2>6. Shape(u)
      BY <1>1, <2>4, <2>5, LevelledShape
    <2>7. /\ Bits(u, Root) /\ NodesOf(u) = NodesOf(t) /\ ~Full(u[Root])
          /\ \A b \in DOMAIN u \ {Root} : Empty(u[b]) => b \in DOMAIN t /\ Empty(t[b])
      BY <1>1, <2>4, <2>5, LevelledKeeps
    <2>8. /\ r \in States /\ r.tree = u /\ r.error = a.error /\ r.spaces = a.spaces
          /\ r.free = a.free
      BY <1>2, <2>3, <2>6, WithTree DEF Shape
    <2>9. SpacesOkay(r.spaces, r.free, DOMAIN u)
      <3>1. DOMAIN u = D \cup {a.block}
        BY <2>2, <2>5, <1>c DEF IsLevelled
      <3>2. QED
        BY <1>2, <1>4, <2>8, <3>1
    <2>10. Coming(u, Root)
      <3>1. SUFFICES ASSUME NEW b \in DOMAIN u \ {Root}, Empty(u[b]) PROVE FALSE
        BY DEF Coming
      <3>2. b \in DOMAIN t \ {Root} /\ Empty(t[b])
        BY <2>7, <3>1
      <3>3. PICK p : PointsTo(t, Root, p, b)
        BY <1>1, <3>2 DEF Coming
      <3>4. t[b] \in Leaves \cup Indices /\ b \in Nat \ {0, Root}
        BY <1>1, <3>2, BlockIs DEF Shape
      <3>5. ~Full(t[b])
        BY <3>2, <3>4, EmptyIs
      <3>6. t[Root].node[p].full = Full(t[b])
        BY <1>1, <3>3, <3>4 DEF Bits, PointsTo
      <3>7. t[Root].node[p].full
        <4>1. ~IsLeaf(t[Root]) /\ p \in 1..NodeContainers
          BY <3>3 DEF PointsTo
        <4>2. DOMAIN t[Root].node = 1..NodeContainers
          BY <1>1, <4>1, BlockIs, ContainerIs DEF Shape
        <4>3. QED
          BY <1>1, <4>1, <4>2 DEF Full, IsFull
      <3>8. QED
        BY <3>5, <3>6, <3>7
    <2>11. Going(r, Root, N)
      BY <1>1, <1>4, <2>6, <2>7, <2>8, <2>9, <2>10, RootIs DEF Going
    <2>12. Left(u, Root) < Left(t, Root)
      <3>1. Span(t[Root]) \in Nat
        BY <1>1, BlockIs, ContainerIs DEF Shape
      <3>2. u[Root].nodes = Span(t[Root]) /\ ~IsLeaf(u[Root])
        BY <2>5 DEF IsLevelled
      <3>3. Left(t, Root) = 2 * Span(t[Root]) + 3
        BY <1>1 DEF Left
      <3>4. Left(u, Root) = 2 * Span(t[Root]) + (IF Opens(u[Root]) = {} THEN 1 ELSE 0)
        BY <2>7, <3>2 DEF Left
      <3>5. QED
        BY <3>1, <3>3, <3>4
    <2>13. QED
      BY <1>a, <2>8, <2>11, <2>12
  <1>5. QED
    BY <1>3, <1>4

\* The pointers of the container the loop is at.
LEMMA OpensAre ==
  ASSUME NEW t, Shape(t), NEW cur \in DOMAIN t, ~IsLeaf(t[cur])
  PROVE  /\ \A p : p \in Opens(t[cur]) <=> /\ p \in 1..NodeContainers
                                          /\ t[cur].node[p].block # 0
                                          /\ ~t[cur].node[p].full
         /\ \A p : p \in Nulls(t[cur]) <=> /\ p \in 1..NodeContainers
                                          /\ t[cur].node[p].block = 0
         /\ Opens(t[cur]) \subseteq Nat /\ Nulls(t[cur]) \subseteq Nat
         /\ Opens(t[cur]) = {} /\ Nulls(t[cur]) = {} => Full(t[cur])
  <1>1. DOMAIN t[cur].node = 1..NodeContainers
    BY BlockIs, ContainerIs DEF Shape
  <1>2. \A p : p \in Opens(t[cur]) <=> /\ p \in 1..NodeContainers
                                       /\ t[cur].node[p].block # 0
                                       /\ ~t[cur].node[p].full
    BY <1>1 DEF Opens
  <1>3. \A p : p \in Nulls(t[cur]) <=> /\ p \in 1..NodeContainers
                                       /\ t[cur].node[p].block = 0
    BY <1>1 DEF Nulls
  <1>4. Opens(t[cur]) \subseteq Nat /\ Nulls(t[cur]) \subseteq Nat
    BY <1>2, <1>3, Sizes
  <1>5. ASSUME Opens(t[cur]) = {}, Nulls(t[cur]) = {} PROVE Full(t[cur])
    <2>1. \A p \in 1..NodeContainers : t[cur].node[p].block # 0 /\ t[cur].node[p].full
      BY <1>2, <1>3, <1>5
    <2>2. QED
      BY <1>1, <2>1 DEF Full, IsFull
  <1>6. QED
    BY <1>2, <1>3, <1>4, <1>5

\* The loop goes down, to a container that is not full.
LEMMA DownTurn ==
  ASSUME NEW s, NEW cur, NEW N, Going(s, cur, N), ~IsLeaf(s.tree[cur]),
         Opens(s.tree[cur]) # {}, NEW child,
         child = s.tree[cur].node[First(Opens(s.tree[cur]))].block
  PROVE  Going(s, child, N) /\ Left(s.tree, child) < Left(s.tree, cur)
  <1>a. PICK t : t = s.tree
    OBVIOUS
  <1>b. PICK p : p = First(Opens(t[cur]))
    OBVIOUS
  <1>1. /\ s \in States /\ ~s.error /\ Shape(t) /\ Bits(t, Root) /\ NodesOf(t) = N
        /\ SpacesOkay(s.spaces, s.free, DOMAIN t) /\ cur \in DOMAIN t /\ Coming(t, cur)
        /\ (cur # Root => ~Full(t[cur]) /\ ~Full(t[Root]))
        /\ ~IsLeaf(t[cur]) /\ Opens(t[cur]) # {}
    BY <1>a DEF Going
  <1>2. p \in 1..NodeContainers /\ t[cur].node[p].block # 0 /\ ~t[cur].node[p].full
    <2>1. p \in Opens(t[cur])
      BY <1>1, <1>b, OpensAre, FirstIs
    <2>2. QED
      BY <1>1, <2>1, OpensAre
  <1>3. PointsTo(t, cur, p, child) /\ child # 0
    BY <1>1, <1>2, <1>a, <1>b DEF PointsTo
  <1>4. /\ child \in DOMAIN t \ {Root} /\ Span(t[child]) = t[cur].nodes
        /\ t[cur] \in Indices
    BY <1>1, <1>3, PointedTo
  <1>5. t[child] \in Leaves \cup Indices /\ child \in Nat \ {0, Root}
    BY <1>1, <1>4, BlockIs DEF Shape
  <1>6. ~Full(t[child])
    <2>1. t[cur].node[p].full = Full(t[child])
      BY <1>1, <1>2, <1>3, <1>5 DEF Bits
    <2>2. QED
      BY <1>2, <2>1
  <1>7. ~Full(t[Root])
    <2>1. CASE cur = Root
      <3>1. DOMAIN t[cur].node = 1..NodeContainers
        BY <1>1, <1>4, BlockIs, ContainerIs DEF Shape
      <3>2. QED
        BY <1>1, <1>2, <2>1, <3>1 DEF Full, IsFull
    <2>2. CASE cur # Root
      BY <1>1, <2>2
    <2>3. QED
      BY <2>1, <2>2
  <1>8. Coming(t, child)
    <2>1. SUFFICES ASSUME NEW b \in DOMAIN t \ {Root}, Empty(t[b]) PROVE b = child
      BY DEF Coming
    <2>2. b # cur
      BY <1>1, <1>2, <2>1 DEF Empty
    <2>3. PICK q : PointsTo(t, cur, q, b) /\ Opens(t[cur]) \subseteq {q}
      BY <1>1, <2>1, <2>2 DEF Coming
    <2>4. p \in Opens(t[cur])
      BY <1>1, <1>2, OpensAre
    <2>5. p = q
      BY <2>3, <2>4
    <2>6. QED
      BY <1>3, <2>3, <2>5 DEF PointsTo
  <1>9. Left(t, child) < Left(t, cur)
    <2>1. t[cur].nodes > 1 /\ t[cur].nodes \in Nat
      BY <1>1, <1>4, ContainerIs
    <2>2. t[child].nodes < Span(t[child]) /\ t[child].nodes \in Nat
      BY <1>5, ContainerIs
    <2>3. Left(t, cur) = 2 * t[cur].nodes
      BY <1>1, <1>7, <2>1 DEF Left
    <2>4. Left(t, child) = IF IsLeaf(t[child]) THEN 1
                           ELSE 2 * t[child].nodes + (IF Opens(t[child]) = {} THEN 1 ELSE 0)
      BY <1>7 DEF Left
    <2>5. \/ Left(t, child) = 1
          \/ Left(t, child) = 2 * t[child].nodes + 1
          \/ Left(t, child) = 2 * t[child].nodes + 0
      BY <2>4
    <2>6. t[child].nodes < t[cur].nodes
      BY <1>4, <2>2
    <2>7. QED
      BY <2>1, <2>2, <2>3, <2>5, <2>6
  <1>10. QED
    BY <1>1, <1>4, <1>6, <1>7, <1>8, <1>9, <1>a DEF Going

\* A container is added: the loop goes on with it.
LEMMA ContainerTurn ==
  ASSUME NEW s, NEW cur, NEW N, Going(s, cur, N), ~IsLeaf(s.tree[cur]),
         Opens(s.tree[cur]) = {}, Nulls(s.tree[cur]) # {}, NEW r,
         r = CreateNodeContainer(s, cur, First(Nulls(s.tree[cur])))
  PROVE  /\ r \in States
         /\ ~r.error => Going(r, cur, N) /\ Left(r.tree, cur) < Left(s.tree, cur)
  <1>a. PICK t : t = s.tree
    OBVIOUS
  <1>b. PICK p : p = First(Nulls(t[cur]))
    OBVIOUS
  <1>c. PICK a : a = AllocAdminSpace(s)
    OBVIOUS
  <1>d. PICK D : D = DOMAIN t
    OBVIOUS
  <1>1. /\ s \in States /\ ~s.error /\ Shape(t) /\ Bits(t, Root) /\ NodesOf(t) = N
        /\ SpacesOkay(s.spaces, s.free, D) /\ cur \in DOMAIN t /\ Coming(t, cur)
        /\ (cur # Root => ~Full(t[cur]) /\ ~Full(t[Root]))
        /\ ~IsLeaf(t[cur]) /\ Opens(t[cur]) = {} /\ Nulls(t[cur]) # {}
    BY <1>a, <1>d DEF Going
  <1>2. p \in 1..NodeContainers /\ t[cur].node[p].block = 0
    <2>1. p \in Nulls(t[cur])
      BY <1>1, <1>b, OpensAre, FirstIs
    <2>2. QED
      BY <1>1, <2>1, OpensAre
  <1>3. /\ a \in States /\ a.tree = s.tree
        /\ ~a.error => /\ a.block \in Nat \ {0} /\ a.block \notin D
                       /\ SpacesOkay(a.spaces, a.free, D \cup {a.block})
    BY <1>1, <1>c, AllocIs
  <1>4. CASE a.error
    <2>1. r = a
      BY <1>4, <1>c DEF CreateNodeContainer
    <2>2. QED
      BY <1>3, <1>4, <2>1
  <1>5. CASE ~a.error
    <2>1. PICK u : u = Grown(t, cur, p, a.block)
      OBVIOUS
    <2>2. PICK block : block = a.block
      OBVIOUS
    <2>3. r = [a EXCEPT !.tree = u]
      <3>1. CreateNodeContainer(s, cur, p) = [a EXCEPT !.tree = Grown(t, cur, p, a.block)]
        BY <1>a, <1>c, <1>3, <1>5
           DEF CreateNodeContainer, Grown, NewBelow, FirstBelow
      <3>2. QED
        BY <2>1, <3>1, <1>a, <1>b
    <2>4. block \in Nat \ {0} /\ block \notin DOMAIN t
      BY <1>3, <1>5, <1>d, <2>2
    <2>5. IsGrown(t, cur, p, block, u)
      BY <1>1, <1>2, <2>1, <2>2, <2>4, GrownIs
    <2>6. Shape(u)
      BY <1>1, <1>2, <2>4, <2>5, GrownShape
    <2>7. /\ Bits(u, Root) /\ NodesOf(u) = NodesOf(t) /\ ~Full(u[cur])
          /\ \A b \in DOMAIN u : Empty(u[b]) =>
               b = block \/ (b # cur /\ b \in DOMAIN t /\ Empty(t[b]))
      BY <1>1, <1>2, <2>4, <2>5, GrownKeeps
    <2>8. /\ r \in States /\ r.tree = u /\ r.error = a.error /\ r.spaces = a.spaces
          /\ r.free = a.free
      BY <1>3, <2>3, <2>6, WithTree DEF Shape
    <2>9. SpacesOkay(r.spaces, r.free, DOMAIN u)
      <3>1. DOMAIN u = D \cup {a.block}
        BY <2>2, <2>5, <1>d DEF IsGrown
      <3>2. QED
        BY <1>3, <1>5, <2>8, <3>1
    <2>10. cur \in DOMAIN u /\ ~IsLeaf(u[cur]) /\ u[cur].nodes = t[cur].nodes
           /\ \A q \in 1..NodeContainers :
                u[cur].node[q] = IF q = p THEN Pointer(block, FALSE) ELSE t[cur].node[q]
      BY <1>1, <2>5 DEF IsGrown
    <2>11. Opens(u[cur]) = {p}
      <3>1. \A q \in 1..NodeContainers : q # p =>
              ~(u[cur].node[q].block # 0 /\ ~u[cur].node[q].full)
        <4>1. SUFFICES ASSUME NEW q \in 1..NodeContainers, q # p,
                              t[cur].node[q].block # 0, ~t[cur].node[q].full
                       PROVE  FALSE
          BY <2>10
        <4>2. q \in Opens(t[cur])
          BY <1>1, <4>1, OpensAre
        <4>3. QED
          BY <1>1, <4>2
      <3>2. u[cur].node[p].block # 0 /\ ~u[cur].node[p].full
        BY <1>2, <2>4, <2>10 DEF Pointer
      <3>3. \A q : q \in Opens(u[cur]) <=> q = p
        BY <1>2, <2>6, <2>10, <3>1, <3>2, OpensAre
      <3>4. QED
        BY <3>3
    <2>12. Coming(u, cur)
      <3>1. SUFFICES ASSUME NEW b \in DOMAIN u \ {Root}, Empty(u[b]) PROVE b = block
        <4>1. PointsTo(u, cur, p, block)
          BY <1>2, <2>10 DEF PointsTo, Pointer
        <4>2. QED
          BY <2>11, <3>1, <4>1 DEF Coming
      <3>2. SUFFICES ASSUME b # block PROVE FALSE
        OBVIOUS
      <3>3. b # cur /\ b \in DOMAIN t \ {Root} /\ Empty(t[b])
        BY <2>7, <3>1, <3>2
      <3>4. PICK q : PointsTo(t, cur, q, b)
        BY <1>1, <3>3 DEF Coming
      <3>5. t[b] \in Leaves \cup Indices /\ b \in Nat \ {0, Root}
        BY <1>1, <3>3, BlockIs DEF Shape
      <3>6. ~Full(t[b])
        BY <3>3, <3>5, EmptyIs
      <3>7. t[cur].node[q].full = Full(t[b])
        BY <1>1, <3>4, <3>5 DEF Bits, PointsTo
      <3>8. q \in Opens(t[cur])
        BY <1>1, <3>4, <3>5, <3>6, <3>7, OpensAre DEF PointsTo
      <3>9. QED
        BY <1>1, <3>8
    <2>13. cur # Root => ~Full(u[Root])
      <3>1. cur # Root => u[Root] = t[Root]
        BY <1>1, <2>5, RootIs DEF IsGrown
      <3>2. QED
        BY <1>1, <3>1
    <2>14. Going(r, cur, N)
      BY <1>1, <1>5, <2>6, <2>7, <2>8, <2>9, <2>10, <2>12, <2>13 DEF Going
    <2>15. Left(u, cur) < Left(t, cur)
      <3>1. t[cur].nodes \in Nat
        BY <1>1, BlockIs, ContainerIs DEF Shape
      <3>2. ~Full(t[Root])
        <4>1. CASE cur = Root
          <5>1. DOMAIN t[cur].node = 1..NodeContainers
            BY <1>1, BlockIs, ContainerIs DEF Shape
          <5>2. QED
            BY <1>1, <1>2, <4>1, <5>1 DEF Full, IsFull
        <4>2. CASE cur # Root
          BY <1>1, <4>2
        <4>3. QED
          BY <4>1, <4>2
      <3>3. ~Full(u[Root])
        BY <2>7, <2>13
      <3>4. Left(t, cur) = 2 * t[cur].nodes + 1
        BY <1>1, <3>2 DEF Left
      <3>5. Opens(u[cur]) # {}
        BY <2>11
      <3>6. Left(u, cur) = 2 * t[cur].nodes + 0
        BY <2>10, <3>3, <3>5 DEF Left
      <3>7. QED
        BY <3>1, <3>4, <3>6
    <2>16. QED
      BY <1>a, <2>8, <2>14, <2>15
  <1>6. QED
    BY <1>4, <1>5

\* Where the loop is, and the turns it has left.
At(at, N) ==
  /\ at \in [s : States, nodeindex : Nat, done : BOOLEAN]
  /\ IF at.done THEN Made(at.s, N) ELSE Going(at.s, at.nodeindex, N)
LeftAt(at) == IF at.done THEN 0 ELSE Left(at.s.tree, at.nodeindex)
GoingOn(r, index) == [s |-> r, nodeindex |-> index, done |-> r.error]

\* The number of turns createnode has left is within Create's.
LEMMA LeftIs ==
  ASSUME NEW s, NEW cur, NEW N, Going(s, cur, N)
  PROVE  /\ Left(s.tree, cur) \in Nat \ {0}
         /\ Left(s.tree, cur) <= 2 * Span(s.tree[Root]) + 3
  <1>1. Shape(s.tree) /\ cur \in DOMAIN s.tree /\ Root \in DOMAIN s.tree
    BY RootIs DEF Going
  <1>2. /\ Span(s.tree[Root]) \in Nat /\ s.tree[cur].nodes \in Nat
        /\ s.tree[cur].nodes < Span(s.tree[cur]) /\ Span(s.tree[cur]) \in Nat
    BY <1>1, BlockIs, ContainerIs DEF Shape
  <1>3. Span(s.tree[cur]) <= Span(s.tree[Root])
    BY <1>1, RootIs
  <1>4. \/ Left(s.tree, cur) = 2 * Span(s.tree[Root]) + 3
        \/ Left(s.tree, cur) = 1
        \/ ~IsLeaf(s.tree[cur]) /\ Left(s.tree, cur) = 2 * s.tree[cur].nodes + 1
        \/ ~IsLeaf(s.tree[cur]) /\ Left(s.tree, cur) = 2 * s.tree[cur].nodes + 0
    BY DEF Left
  <1>5. ~IsLeaf(s.tree[cur]) => s.tree[cur].nodes > 1
    BY <1>1, BlockIs, ContainerIs DEF Shape
  <1>6. QED
    BY <1>2, <1>3, <1>4, <1>5

\* createnode goes on with another container, or with an error is done.
LEMMA GoesOn ==
  ASSUME NEW r \in States, NEW index \in Nat, NEW N, ~r.error => Going(r, index, N)
  PROVE  /\ At(GoingOn(r, index), N)
         /\ LeftAt(GoingOn(r, index)) = IF r.error THEN 0 ELSE Left(r.tree, index)
  <1>1. r.error \in BOOLEAN
    BY DEF States
  <1>2. PICK z : z = GoingOn(r, index)
    OBVIOUS
  <1>3. /\ z \in [s : States, nodeindex : Nat, done : BOOLEAN]
        /\ z.s = r /\ z.nodeindex = index /\ z.done = r.error
    BY <1>1, <1>2 DEF GoingOn
  <1>4. At(z, N)
    BY <1>3 DEF At, Made
  <1>5. LeftAt(z) = IF r.error THEN 0 ELSE Left(r.tree, index)
    BY <1>3 DEF LeftAt
  <1>6. QED
    BY <1>2, <1>4, <1>5

\* What a turn does to the state it is at.
IsTurn(at, s, cur, c, z) ==
  /\ IsLeaf(c) /\ Unused(c) # {} =>
       z = [at EXCEPT !.s = Taken(s, cur), !.done = TRUE]
  /\ IsLeaf(c) /\ Unused(c) = {} /\ cur = Root => z = GoingOn(AddNewNodeLevel(s), Root)
  /\ ~IsLeaf(c) /\ Opens(c) # {} => z = GoingOn(s, c.node[First(Opens(c))].block)
  /\ ~IsLeaf(c) /\ Opens(c) = {} /\ Nulls(c) # {} =>
       z = GoingOn(CreateNodeContainer(s, cur, First(Nulls(c))), cur)
  /\ ~IsLeaf(c) /\ Opens(c) = {} /\ Nulls(c) = {} =>
       z = GoingOn(AddNewNodeLevel(s), Root)
\* The cases of a turn of createnode.
LEMMA CreateNodeTurnDoes ==
  ASSUME NEW at, ~at.done, NEW s, s = at.s, NEW cur, cur = at.nodeindex, NEW c,
         c = s.tree[cur], NEW z, z = CreateNodeTurn(at)
  PROVE  IsTurn(at, s, cur, c, z)
  <1>1. ASSUME IsLeaf(c), Unused(c) # {}
        PROVE  z = [at EXCEPT !.s = Taken(s, cur), !.done = TRUE]
    BY <1>1 DEF CreateNodeTurn, Unused, Taken, WithSlot
  <1>2. ASSUME IsLeaf(c), Unused(c) = {}, cur = Root
        PROVE  z = GoingOn(AddNewNodeLevel(s), Root)
    BY <1>2 DEF CreateNodeTurn, Unused, GoingOn
  <1>3. ASSUME ~IsLeaf(c), Opens(c) # {}
        PROVE  z = GoingOn(s, c.node[First(Opens(c))].block)
    BY <1>3 DEF CreateNodeTurn, Opens, GoingOn
  <1>4. ASSUME ~IsLeaf(c), Opens(c) = {}, Nulls(c) # {}
        PROVE  z = GoingOn(CreateNodeContainer(s, cur, First(Nulls(c))), cur)
    BY <1>4 DEF CreateNodeTurn, Opens, Nulls, GoingOn
  <1>5. ASSUME ~IsLeaf(c), Opens(c) = {}, Nulls(c) = {}
        PROVE  z = GoingOn(AddNewNodeLevel(s), Root)
    BY <1>5 DEF CreateNodeTurn, Opens, Nulls, GoingOn
  <1>6. QED
    BY <1>1, <1>2, <1>3, <1>4, <1>5 DEF IsTurn

\* A turn of createnode keeps the tree right and leaves fewer turns.
LEMMA CreateNodeTurnIs ==
  ASSUME NEW N, NEW at, At(at, N), NEW z, z = CreateNodeTurn(at)
  PROVE  At(z, N) /\ (LeftAt(z) < LeftAt(at) \/ LeftAt(z) = 0)
  <1>1. CASE at.done
    <2>1. z = at
      BY <1>1 DEF CreateNodeTurn
    <2>2. QED
      BY <1>1, <2>1 DEF LeftAt
  <1>2. CASE ~at.done
    <2>a. PICK s : s = at.s
      OBVIOUS
    <2>b. PICK cur : cur = at.nodeindex
      OBVIOUS
    <2>c. PICK c : c = s.tree[cur]
      OBVIOUS
    <2>d. IsTurn(at, s, cur, c, z)
      BY <1>2, <2>a, <2>b, <2>c, CreateNodeTurnDoes
    <2>1. /\ s \in States /\ cur \in Nat /\ Going(s, cur, N)
          /\ LeftAt(at) = Left(s.tree, cur)
          /\ at \in [s : States, nodeindex : Nat, done : BOOLEAN]
      BY <1>2, <2>a, <2>b DEF At, LeftAt
    <2>2. /\ Shape(s.tree) /\ cur \in DOMAIN s.tree /\ Root \in Nat
          /\ c \in Leaves \cup Indices /\ ~s.error
          /\ cur # Root => ~Full(s.tree[cur])
      BY <2>1, <2>c, BlockIs, Sizes DEF Going, Shape
    <2>3. ASSUME Full(c), cur = Root, z = GoingOn(AddNewNodeLevel(s), Root)
          PROVE  At(z, N) /\ (LeftAt(z) < LeftAt(at) \/ LeftAt(z) = 0)
      <3>1. PICK r : r = AddNewNodeLevel(s)
        OBVIOUS
      <3>2. /\ r \in States
            /\ ~r.error => Going(r, Root, N) /\ Left(r.tree, Root) < Left(s.tree, Root)
        BY <2>1, <2>3, <2>c, <3>1, LevelTurn
      <3>3. At(z, N) /\ LeftAt(z) = IF r.error THEN 0 ELSE Left(r.tree, Root)
        BY <2>2, <2>3, <3>1, <3>2, GoesOn
      <3>4. QED
        BY <2>1, <2>3, <3>2, <3>3
    <2>4. CASE IsLeaf(c) /\ Unused(c) # {}
      <3>1. PICK r : r = Taken(s, cur)
        OBVIOUS
      <3>2. z = [at EXCEPT !.s = r, !.done = TRUE]
        BY <2>4, <3>1, <2>d DEF IsTurn
      <3>3. r \in States /\ Made(r, N)
        BY <2>1, <2>4, <2>c, <3>1, TakenIs
      <3>4. /\ z \in [s : States, nodeindex : Nat, done : BOOLEAN]
            /\ z.s = r /\ z.done = TRUE
        BY <2>1, <3>2, <3>3
      <3>5. QED
        BY <3>3, <3>4 DEF At, LeftAt
    <2>5. CASE IsLeaf(c) /\ Unused(c) = {}
      <3>1. Full(c)
        <4>1. c.node \in [1..LeafNodes -> BOOLEAN]
          BY <2>2, <2>5, ContainerIs
        <4>2. \A n \in 1..LeafNodes : c.node[n]
          BY <2>5, <4>1 DEF Unused
        <4>3. QED
          BY <2>5, <4>2 DEF Full
      <3>2. cur = Root
        BY <2>2, <2>c, <3>1
      <3>3. z = GoingOn(AddNewNodeLevel(s), Root)
        BY <2>5, <3>2, <2>d DEF IsTurn
      <3>4. QED
        BY <2>3, <3>1, <3>2, <3>3
    <2>6. CASE ~IsLeaf(c) /\ Opens(c) # {}
      <3>1. PICK child : child = c.node[First(Opens(c))].block
        OBVIOUS
      <3>2. z = GoingOn(s, child)
        BY <2>6, <3>1, <2>d DEF IsTurn
      <3>3. Going(s, child, N) /\ Left(s.tree, child) < Left(s.tree, cur)
        BY <2>1, <2>6, <2>c, <3>1, DownTurn
      <3>4. child \in Nat
        BY <3>3, BlockIs DEF Going, Shape
      <3>5. At(z, N) /\ LeftAt(z) = IF s.error THEN 0 ELSE Left(s.tree, child)
        BY <2>1, <3>2, <3>3, <3>4, GoesOn
      <3>6. QED
        BY <2>1, <2>2, <3>3, <3>5
    <2>7. CASE ~IsLeaf(c) /\ Opens(c) = {} /\ Nulls(c) # {}
      <3>1. PICK r : r = CreateNodeContainer(s, cur, First(Nulls(c)))
        OBVIOUS
      <3>2. z = GoingOn(r, cur)
        BY <2>7, <3>1, <2>d DEF IsTurn
      <3>3. /\ r \in States
            /\ ~r.error => Going(r, cur, N) /\ Left(r.tree, cur) < Left(s.tree, cur)
        BY <2>1, <2>7, <2>c, <3>1, ContainerTurn
      <3>4. At(z, N) /\ LeftAt(z) = IF r.error THEN 0 ELSE Left(r.tree, cur)
        BY <2>1, <3>2, <3>3, GoesOn
      <3>5. QED
        BY <2>1, <3>3, <3>4
    <2>8. CASE ~IsLeaf(c) /\ Opens(c) = {} /\ Nulls(c) = {}
      <3>1. Full(c)
        BY <2>2, <2>8, <2>c, OpensAre
      <3>2. cur = Root
        BY <2>2, <2>c, <3>1
      <3>3. z = GoingOn(AddNewNodeLevel(s), Root)
        BY <2>8, <2>d DEF IsTurn
      <3>4. QED
        BY <2>3, <3>1, <3>2, <3>3
    <2>9. QED
      BY <2>4, <2>5, <2>6, <2>7, <2>8
  <1>3. QED
    BY <1>1, <1>2

\* createnode makes a node of its own, and puts the tree right.
LEMMA CreateIs ==
  ASSUME NEW s, Okay(s, Root), NEW r, r = Create(s)
  PROVE  Made(r, NodesOf(s.tree))
  <1> DEFINE N == NodesOf(s.tree)
             turns == 2 * Span(s.tree[Root]) + 3
             start == [s |-> s, nodeindex |-> Root, done |-> FALSE]
             at == CHOOSE at : at = [i \in 0..turns |->
                                       IF i = 0 THEN start ELSE CreateNodeTurn(at[i - 1])]
             S == {a \in [s : States, nodeindex : Nat, done : BOOLEAN] : At(a, N)}
             g == [a \in S |-> CreateNodeTurn(a)]
             left == [a \in S |-> LeftAt(a)]
  <1>1. r = at[turns].s
    BY DEF Create, Repeat
  <1>2. /\ s \in States /\ ~s.error /\ Shape(s.tree) /\ Root \in DOMAIN s.tree
        /\ turns \in Nat /\ Root \in Nat
    <2>1. s \in States /\ ~s.error /\ Shape(s.tree) /\ Root \in DOMAIN s.tree
      BY RootIs DEF Okay
    <2>2. Span(s.tree[Root]) \in Nat /\ Root \in Nat
      BY <2>1, BlockIs, ContainerIs DEF Shape
    <2>3. QED
      BY <2>1, <2>2
  <1>3. Going(s, Root, N)
    <2>1. Coming(s.tree, Root)
      BY DEF Okay, Kept, Coming
    <2>2. QED
      BY <1>2, <2>1 DEF Okay, Going
  <1>4. start \in S /\ LeftAt(start) <= turns
    <2>1. start \in [s : States, nodeindex : Nat, done : BOOLEAN]
      BY <1>2
    <2>2. At(start, N)
      BY <1>3, <2>1 DEF At
    <2>3. LeftAt(start) = Left(s.tree, Root)
      BY DEF LeftAt
    <2>4. Left(s.tree, Root) <= turns
      BY <1>3, LeftIs
    <2>5. start \in S
      BY <2>1, <2>2
    <2> HIDE DEF start, S, N, turns
    <2>6. QED
      BY <2>3, <2>4, <2>5
  <1>5. ASSUME NEW a \in S
        PROVE  At(a, N) /\ LeftAt(a) \in Nat /\ (LeftAt(a) = 0 => a.done)
    <2>1. At(a, N)
      OBVIOUS
    <2> HIDE DEF S, N
    <2>2. QED
      BY <2>1, LeftIs DEF At, LeftAt
  <1>6. ASSUME NEW a \in S
        PROVE  /\ CreateNodeTurn(a) \in S
               /\ LeftAt(CreateNodeTurn(a)) < LeftAt(a) \/ LeftAt(CreateNodeTurn(a)) = 0
    <2>1. PICK z : z = CreateNodeTurn(a)
      OBVIOUS
    <2>2. At(z, N) /\ (LeftAt(z) < LeftAt(a) \/ LeftAt(z) = 0)
      <3> HIDE DEF S, N
      <3>1. At(a, N)
        BY <1>5
      <3>2. QED
        BY <2>1, <3>1, CreateNodeTurnIs
    <2>3. z \in S
      BY <2>2 DEF At
    <2> HIDE DEF S, N
    <2>4. QED
      BY <2>1, <2>2, <2>3
  <1>7. /\ g \in [S -> S] /\ left \in [S -> Nat]
        /\ \A a \in S : g[a] = CreateNodeTurn(a) /\ left[a] = LeftAt(a)
    <2> HIDE DEF S
    <2>1. g \in [S -> S]
      BY <1>6
    <2>2. left \in [S -> Nat]
      BY <1>5
    <2>3. QED
      BY <2>1, <2>2
  <1> HIDE DEF S, g, left, turns, at, start, N
  <1>8. PICK f : f \in Loops(S, start, g, turns)
    BY <1>2, <1>4, <1>7, RepeatExists
  <1>9. f = [i \in 0..turns |-> IF i = 0 THEN start ELSE CreateNodeTurn(f[i - 1])]
    <2>1. f = [i \in 0..turns |-> IF i = 0 THEN start ELSE g[f[i - 1]]]
      BY <1>8 DEF Loops
    <2>2. f \in [0..turns -> S]
      BY <1>8 DEF Loops
    <2>3. \A i \in 0..turns : i # 0 => f[i - 1] \in S
      BY <1>2, <2>2
    <2>4. \A i \in 0..turns : i # 0 => g[f[i - 1]] = CreateNodeTurn(f[i - 1])
      BY <1>7, <2>3
    <2>5. QED
      BY <2>1, <2>4, Zenon
  <1>10. at = [i \in 0..turns |-> IF i = 0 THEN start ELSE CreateNodeTurn(at[i - 1])]
    BY <1>9, Zenon DEF at
  <1>11. at[0] = start /\ \A i \in 1..turns : at[i] = CreateNodeTurn(at[i - 1])
    BY <1>2, <1>10
  <1>12. at[turns] \in S /\ left[at[turns]] = 0
    <2>1. \A a \in S : left[g[a]] < left[a] \/ left[g[a]] = 0
      BY <1>6, <1>7
    <2>2. \A i \in 1..turns : at[i - 1] \in S => at[i] = g[at[i - 1]]
      BY <1>7, <1>11
    <2>3. /\ turns \in Nat /\ start \in S /\ left[start] <= turns /\ at[0] = start
          /\ g \in [S -> S] /\ left \in [S -> Nat]
      BY <1>2, <1>4, <1>7, <1>11
    <2>4. QED
      BY <2>1, <2>2, <2>3, RepeatEnds
  <1>13. PICK z : z = at[turns]
    OBVIOUS
  <1>14. At(z, N) /\ z.done
    BY <1>5, <1>7, <1>12, <1>13
  <1>15. Made(z.s, N)
    BY <1>14 DEF At
  <1>16. QED
    BY <1>1, <1>13, <1>15 DEF N

-----------------------------------------------------------------------------
(* A node is deleted. *)

Zeroed(t, x) == {n \in 1..LeafNodes : ~t[x].node[n]}

Deleted(s, x, i) ==
  LET t == WithSlot(s.tree, x, i, FALSE)
      empty == Cardinality(Zeroed(t, x))
      w == [s EXCEPT !.tree = t]
  IN IF empty = 1 THEN [w EXCEPT !.tree = MarkParentEmpty(t, x)]
     ELSE IF empty = LeafNodes THEN FreeContainer(w, x)
     ELSE w

\* deletenode's count of unused slots: one of them, or all.
LEMMA ZeroedIs ==
  ASSUME NEW t, NEW x, NEW i \in Zeroed(t, x)
  PROVE  /\ Cardinality(Zeroed(t, x)) = 1 <=> \A j \in Zeroed(t, x) : j = i
         /\ Cardinality(Zeroed(t, x)) = LeafNodes <=> \A j \in 1..LeafNodes : ~t[x].node[j]
  <1>1. IsFiniteSet(1..LeafNodes) /\ Cardinality(1..LeafNodes) = LeafNodes
    BY FS_Interval, Sizes
  <1>2. Zeroed(t, x) \in SUBSET (1..LeafNodes)
    BY DEF Zeroed
  <1>3. IsFiniteSet(Zeroed(t, x))
    BY <1>1, <1>2, FS_Subset
  <1>4. Cardinality(Zeroed(t, x)) = LeafNodes <=> Zeroed(t, x) = 1..LeafNodes
    BY <1>1, <1>2, FS_Subset
  <1>5. Cardinality(Zeroed(t, x)) = 1 <=> \A j \in Zeroed(t, x) : j = i
    <2>1. ASSUME Cardinality(Zeroed(t, x)) = 1 PROVE \A j \in Zeroed(t, x) : j = i
      <3>1. PICK y : Zeroed(t, x) = {y}
        BY <1>3, <2>1, FS_Singleton
      <3>2. QED
        BY <3>1
    <2>2. ASSUME \A j \in Zeroed(t, x) : j = i PROVE Cardinality(Zeroed(t, x)) = 1
      <3>1. Zeroed(t, x) = {i}
        BY <2>2
      <3>2. QED
        BY <3>1, FS_Singleton
    <2>3. QED
      BY <2>1, <2>2
  <1>6. Zeroed(t, x) = 1..LeafNodes <=> \A j \in 1..LeafNodes : ~t[x].node[j]
    BY DEF Zeroed
  <1>7. QED
    BY <1>4, <1>5, <1>6

\* deletenode leaves the other nodes, and puts the tree right.
LEMMA DeletedIs ==
  ASSUME NEW s, Okay(s, Root), NEW x, NEW i, NEW node, Holds(s.tree, x, i, node),
         NEW r, r = Deleted(s, x, i)
  PROVE  Okay(r, Root) /\ Changed(s.tree, r.tree, node, FALSE)
  <1>a. PICK t : t = s.tree
    OBVIOUS
  <1>b. PICK no \in BOOLEAN : no = FALSE
    OBVIOUS
  <1>c. PICK u : u = WithSlot(t, x, i, no)
    OBVIOUS
  <1>d. PICK w : w = [s EXCEPT !.tree = u]
    OBVIOUS
  <1>e. PICK empty : empty = Cardinality(Zeroed(u, x))
    OBVIOUS
  <1>1. /\ s \in States /\ ~s.error /\ Shape(t) /\ Bits(t, Root) /\ Kept(t, Root)
        /\ SpacesOkay(s.spaces, s.free, DOMAIN t)
    BY <1>a DEF Okay
  <1>2. /\ x \in DOMAIN t /\ IsLeaf(t[x]) /\ i \in 1..LeafNodes /\ t[x].node[i]
        /\ node = t[x].nodenumber + i - 1
    BY <1>a DEF Holds
  <1>3. /\ Shape(u) /\ SamePlaces(t, u) /\ DOMAIN u = DOMAIN t
        /\ \A b \in DOMAIN t \ {x} : u[b] = t[b]
        /\ IsLeaf(u[x])
        /\ \A j \in 1..LeafNodes : u[x].node[j] = IF j = i THEN no ELSE t[x].node[j]
    BY <1>1, <1>2, <1>c, WithSlotIs
  <1>4. \A m : m \in NodesOf(u) <=> m \in NodesOf(t) /\ m # node
    <2>1. Changed(t, u, node, no)
      BY <1>1, <1>2, <1>c, WithSlotNodes
    <2>2. QED
      BY <2>1, <1>b DEF Changed
  <1>5. Bits(u, x) /\ (Full(u[x]) = Full(t[x]) => Bits(u, Root))
    BY <1>1, <1>2, <1>c, WithSlotBits
  <1>6. /\ w \in States /\ w.tree = u /\ w.error = s.error /\ w.spaces = s.spaces
        /\ w.free = s.free
    BY <1>1, <1>3, <1>d, WithTree DEF Shape
  <1>7. r = IF empty = 1 THEN [w EXCEPT !.tree = MarkParentEmpty(u, x)]
            ELSE IF empty = LeafNodes THEN FreeContainer(w, x)
            ELSE w
    BY <1>a, <1>b, <1>c, <1>d, <1>e DEF Deleted
  <1>8. i \in Zeroed(u, x) /\ ~Full(u[x])
    BY <1>2, <1>3, <1>b DEF Zeroed, Full
  <1>9. ASSUME NEW j \in 1..LeafNodes, j # i
        PROVE  /\ t[x].node[j] => ~Empty(u[x])
               /\ ~t[x].node[j] => Bits(u, Root)
    <2>1. u[x].node[j] = t[x].node[j]
      BY <1>3, <1>9
    <2>2. t[x].node[j] => ~Empty(u[x])
      BY <1>3, <1>9, <2>1 DEF Empty
    <2>3. ASSUME ~t[x].node[j] PROVE Bits(u, Root)
      <3>1. ~Full(t[x])
        BY <1>2, <2>3 DEF Full
      <3>2. Full(t[x]) = Full(u[x])
        <4>1. Full(u[x]) \in BOOLEAN /\ Full(t[x]) \in BOOLEAN
          BY DEF Full, IsFull
        <4>2. QED
          BY <1>8, <3>1, <4>1
      <3>3. QED
        BY <1>5, <3>2
    <2>4. QED
      BY <2>2, <2>3
  <1>10. Kept(u, x) /\ (~Empty(u[x]) => Kept(u, Root))
    <2>1. \A b \in DOMAIN u \ {Root, x} : ~Empty(u[b])
      BY <1>1, <1>3 DEF Kept
    <2>2. QED
      BY <2>1 DEF Kept
  <1>11. \E j \in 1..LeafNodes : j # i
    <2>1. 1 \in 1..LeafNodes /\ 2 \in 1..LeafNodes
      BY Sizes
    <2>2. QED
      BY <2>1
  <1>12. CASE empty = 1
    <2>1. \A j \in Zeroed(u, x) : j = i
      BY <1>8, <1>12, <1>e, ZeroedIs
    <2>2. PICK j \in 1..LeafNodes : j # i
      BY <1>11
    <2>3. t[x].node[j]
      BY <1>3, <2>1, <2>2 DEF Zeroed
    <2>4. Kept(u, Root)
      BY <1>9, <1>10, <2>2, <2>3
    <2>5. PICK v : v = MarkParentEmpty(u, x)
      OBVIOUS
    <2>6. Shape(v) /\ SameNodes(u, v) /\ Bits(v, Root)
      BY <1>2, <1>3, <1>5, <1>8, <2>5, MarkParentEmptyIs
    <2>7. NodesOf(v) = NodesOf(u) /\ Kept(v, Root) /\ DOMAIN v = DOMAIN t
      <3>1. NodesOf(v) = NodesOf(u) /\ Kept(v, Root)
        BY <2>4, <2>6, SameNodesOf
      <3>2. DOMAIN v = DOMAIN t
        BY <1>3, <2>6 DEF SameNodes, SamePlaces
      <3>3. QED
        BY <3>1, <3>2
    <2>8. r = [w EXCEPT !.tree = v]
      BY <1>7, <1>12, <2>5
    <2>9. /\ r \in States /\ r.tree = v /\ r.error = w.error /\ r.spaces = w.spaces
          /\ r.free = w.free
      BY <1>6, <2>6, <2>8, WithTree DEF Shape
    <2>10. Okay(r, Root)
      BY <1>1, <1>6, <2>6, <2>7, <2>9 DEF Okay
    <2>11. QED
      BY <1>4, <1>a, <2>7, <2>9, <2>10 DEF Changed
  <1>13. CASE empty # 1 /\ empty = LeafNodes
    <2>1. \A j \in 1..LeafNodes : ~u[x].node[j]
      BY <1>8, <1>13, <1>e, ZeroedIs
    <2>2. Empty(u[x])
      BY <1>3, <2>1 DEF Empty
    <2>3. Bits(u, Root)
      BY <1>9, <1>11, <2>2
    <2>4. Okay(w, x)
      BY <1>1, <1>3, <1>6, <1>10, <2>3 DEF Okay
    <2>5. r = FreeContainer(w, x)
      BY <1>7, <1>13
    <2>6. Okay(r, Root) /\ NodesOf(r.tree) = NodesOf(w.tree)
      BY <1>2, <1>3, <1>6, <2>2, <2>4, <2>5, FreeContainerIs
    <2>7. QED
      BY <1>4, <1>6, <1>a, <2>6 DEF Changed
  <1>14. CASE empty # 1 /\ empty # LeafNodes
    <2>1. PICK j \in Zeroed(u, x) : j # i
      BY <1>8, <1>14, <1>e, ZeroedIs
    <2>2. Bits(u, Root)
      BY <1>3, <1>9, <2>1 DEF Zeroed
    <2>3. PICK k \in 1..LeafNodes : u[x].node[k]
      BY <1>8, <1>14, <1>e, ZeroedIs
    <2>4. ~Empty(u[x])
      BY <1>3, <2>3 DEF Empty
    <2>5. r = w
      BY <1>7, <1>14
    <2>6. Okay(w, Root)
      BY <1>1, <1>3, <1>6, <1>10, <2>2, <2>4 DEF Okay
    <2>7. QED
      BY <1>4, <1>6, <1>a, <2>5, <2>6 DEF Changed
  <1>15. QED
    BY <1>12, <1>13, <1>14

-----------------------------------------------------------------------------
(* The bits say where the room is. *)

\* All the numbers that there is room for are in use.
Crowded(t, x) == \A n \in Nat : Has(t[x], n) => n \in NodesOf(t)

\* A leaf is full when every number it spans is a node.
LEMMA LeafFull ==
  ASSUME NEW t, Shape(t), NEW x \in DOMAIN t, IsLeaf(t[x])
  PROVE  Full(t[x]) <=> Crowded(t, x)
  <1>1. ASSUME Full(t[x]), NEW n \in Nat, Has(t[x], n) PROVE n \in NodesOf(t)
    <2>1. PICK i \in 1..LeafNodes : n = t[x].nodenumber + i - 1
      BY <1>1, SlotOfLeaf DEF Shape
    <2>2. Holds(t, x, i, n)
      BY <1>1, <2>1 DEF Holds, Full
    <2>3. QED
      BY <2>2 DEF NodesOf
  <1>2. ASSUME Crowded(t, x), NEW i \in 1..LeafNodes PROVE t[x].node[i]
    <2>1. PICK n : n = t[x].nodenumber + i - 1
      OBVIOUS
    <2>2. n \in Nat /\ Has(t[x], n)
      BY <2>1, LeafSlot DEF Shape
    <2>3. PICK y, j : Holds(t, y, j, n)
      BY <1>2, <2>2 DEF Crowded, NodesOf
    <2>4. x = y /\ i = j
      BY <2>1, <2>3, OneSlot DEF Holds
    <2>5. QED
      BY <2>3, <2>4 DEF Holds
  <1>3. QED
    BY <1>1, <1>2 DEF Full, Crowded

\* The same for an index container, when it is so for those below it.
LEMMA IndexFull ==
  ASSUME NEW t, Shape(t), Bits(t, Root), NEW x \in DOMAIN t, ~IsLeaf(t[x]),
         \A y \in DOMAIN t : Span(t[y]) < Span(t[x]) => (Full(t[y]) <=> Crowded(t, y))
  PROVE  Full(t[x]) <=> Crowded(t, x)
  <1>1. /\ t[x] \in Indices /\ DOMAIN t[x].node = 1..NodeContainers
        /\ Span(t[x]) > t[x].nodes /\ t[x].nodes \in Nat /\ Span(t[x]) \in Nat
        /\ Span(t[x]) > LeafNodes /\ t[x].nodenumber \in Nat
    BY BlockIs, ContainerIs DEF Shape
  <1>2. ASSUME NEW p \in 1..NodeContainers, NEW child, PointsTo(t, x, p, child), child # 0
        PROVE  /\ child \in DOMAIN t /\ Span(t[child]) = t[x].nodes
               /\ t[child].nodenumber = FirstBelow(t[x], p)
               /\ \A n \in Nat : Has(t[child], n) => Has(t[x], n)
               /\ t[x].node[p].full <=> Crowded(t, child)
    <2>1. /\ child \in DOMAIN t \ {Root} /\ Span(t[child]) = t[x].nodes
          /\ t[child].nodenumber = FirstBelow(t[x], p)
          /\ \A n \in Nat : Has(t[child], n) => Has(t[x], n)
      BY <1>2, PointedTo
    <2>2. child \in Nat \ {0, Root}
      BY <2>1, BlockIs DEF Shape
    <2>3. t[x].node[p].full = Full(t[child])
      BY <1>2, <2>2 DEF Bits
    <2>4. Full(t[child]) <=> Crowded(t, child)
      BY <1>1, <2>1
    <2>5. QED
      BY <2>1, <2>3, <2>4
  <1>3. ASSUME Full(t[x]), NEW n \in Nat, Has(t[x], n) PROVE n \in NodesOf(t)
    <2>1. PICK p \in 1..NodeContainers : FirstBelow(t[x], p) <= n /\ n < FirstBelow(t[x], p) + t[x].nodes
      BY <1>1, <1>3, SlotHas
    <2>2. PICK child : child = t[x].node[p].block
      OBVIOUS
    <2>3. child # 0 /\ t[x].node[p].full
      BY <1>1, <1>3, <2>2 DEF Full, IsFull
    <2>4. PointsTo(t, x, p, child)
      BY <2>2 DEF PointsTo
    <2>5. /\ Crowded(t, child) /\ Span(t[child]) = t[x].nodes
          /\ t[child].nodenumber = FirstBelow(t[x], p)
      BY <1>2, <2>3, <2>4
    <2>6. Has(t[child], n)
      BY <2>1, <2>5 DEF Has
    <2>7. QED
      BY <2>5, <2>6 DEF Crowded
  <1>4. ASSUME Crowded(t, x), NEW p \in 1..NodeContainers
        PROVE  t[x].node[p].block # 0 /\ t[x].node[p].full
    <2>1. PICK n : n = FirstBelow(t[x], p)
      OBVIOUS
    <2>2. n \in Nat /\ n < n + t[x].nodes /\ Has(t[x], n)
      <3>1. /\ n \in Nat /\ n >= t[x].nodenumber
            /\ n + t[x].nodes <= t[x].nodenumber + Span(t[x])
        BY <1>1, <2>1, BelowHas
      <3>2. t[x].nodes > 0
        BY <1>1, ContainerIs
      <3>3. QED
        BY <1>1, <3>1, <3>2 DEF Has
    <2>3. PICK y, i : Holds(t, y, i, n)
      BY <1>4, <2>2 DEF Crowded, NodesOf
    <2>4. y \in DOMAIN t /\ IsLeaf(t[y]) /\ Has(t[y], n) /\ Span(t[y]) < Span(t[x])
      <3>1. y \in DOMAIN t /\ IsLeaf(t[y]) /\ Has(t[y], n)
        BY <2>3, LeafSlot DEF Holds, Shape
      <3>2. Span(t[y]) = LeafNodes
        BY <3>1 DEF Span
      <3>3. QED
        BY <1>1, <3>1, <3>2
    <2>5. SlotOf(t[x], n) = p
      BY <1>1, <2>1, <2>2, SlotIs
    <2>6. PICK child : child = t[x].node[p].block
      OBVIOUS
    <2>7. PointsTo(t, x, p, child) /\ child \in DOMAIN t
      BY <2>2, <2>4, <2>5, <2>6, OnTheWay
    <2>8. child # 0
      BY <2>7, BlockIs DEF Shape
    <2>9. /\ t[x].node[p].full <=> Crowded(t, child)
          /\ \A m \in Nat : Has(t[child], m) => Has(t[x], m)
      BY <1>2, <2>7, <2>8
    <2>10. Crowded(t, child)
      BY <1>4, <2>9 DEF Crowded
    <2>11. QED
      BY <2>6, <2>8, <2>9, <2>10
  <1>5. QED
    BY <1>1, <1>3, <1>4 DEF Full, IsFull, Crowded

\* With exact bits a container is full when every number it spans is a node: by
\* the least container that is not so.
LEMMA FullIs ==
  ASSUME NEW t, Shape(t), Bits(t, Root), NEW x \in DOMAIN t
  PROVE  Full(t[x]) <=> Crowded(t, x)
  <1> DEFINE Wrong == {b \in DOMAIN t : ~(Full(t[b]) <=> Crowded(t, b))}
             Spans == {Span(t[b]) : b \in Wrong}
  <1>1. SUFFICES ASSUME x \in Wrong PROVE FALSE
    OBVIOUS
  <1>2. \A b \in DOMAIN t : Span(t[b]) \in Nat
    BY BlockIs, ContainerIs DEF Shape
  <1>3. Spans \subseteq Nat /\ Spans # {}
    BY <1>1, <1>2
  <1>4. PICK m \in Spans : \A k \in Spans : m <= k
    BY <1>3, LeastExists
  <1>5. PICK b \in Wrong : m = Span(t[b])
    OBVIOUS
  <1>6. \A y \in DOMAIN t : Span(t[y]) < Span(t[b]) => (Full(t[y]) <=> Crowded(t, y))
    <2>1. SUFFICES ASSUME NEW y \in Wrong, Span(t[y]) < Span(t[b]) PROVE FALSE
      OBVIOUS
    <2>2. Span(t[y]) \in Spans /\ Span(t[y]) \in Nat /\ Span(t[b]) \in Nat
      BY <1>2, <2>1
    <2>3. QED
      BY <1>4, <1>5, <2>1, <2>2
  <1>7. b \in DOMAIN t /\ ~(Full(t[b]) <=> Crowded(t, b))
    OBVIOUS
  <1> HIDE DEF Wrong, Spans
  <1>8. QED
    BY <1>6, <1>7, LeafFull, IndexFull

-----------------------------------------------------------------------------
(* What SFScheck looks at. *)

\* The inductive invariant: containers are put together as they should be, the full
\* bits are right, none is empty but the root, and the spaces have exactly the
\* blocks of the tree and of their own chain in use.
IInv ==
  /\ Shape(tree) /\ Bits(tree, Root) /\ Kept(tree, Root)
  /\ SpacesOkay(spaces, free, DOMAIN tree)

\* The nodes in use are those held by the leaves.
LEMMA NodesAre ==
  ASSUME Shape(tree)
  PROVE  /\ Nodes = NodesOf(tree)
         /\ \A b \in LeafBlocks : \A n : n \in NodesIn(b) <=> \E i : Holds(tree, b, i, n)
  <1>1. ASSUME NEW b \in LeafBlocks, NEW n
        PROVE  n \in NodesIn(b) <=> \E i : Holds(tree, b, i, n)
    <2>1. b \in DOMAIN tree /\ IsLeaf(tree[b])
      BY DEF LeafBlocks
    <2>2. DOMAIN tree[b].node = 1..LeafNodes
      BY <2>1, BlockIs, ContainerIs DEF Shape
    <2>3. tree[b].nodenumber \in Nat
      BY <2>1, BlockIs, ContainerIs DEF Shape
    <2>4. \A i \in 1..LeafNodes : tree[b].nodenumber + i - 1 = tree[b].nodenumber + (i - 1)
      BY <2>3
    <2>5. QED
      BY <2>1, <2>2 DEF NodesIn, Holds
  <1>2. \A n : n \in Nodes <=> n \in NodesOf(tree)
    <2>1. ASSUME NEW n \in Nodes PROVE n \in NodesOf(tree)
      <3>1. PICK b \in LeafBlocks : n \in NodesIn(b)
        BY DEF Nodes
      <3>2. PICK i : Holds(tree, b, i, n)
        BY <1>1, <3>1
      <3>3. n \in Nat
        BY <3>2, LeafSlot DEF Holds, Shape
      <3>4. QED
        BY <3>2, <3>3 DEF NodesOf
    <2>2. ASSUME NEW n \in NodesOf(tree) PROVE n \in Nodes
      <3>1. PICK b, i : Holds(tree, b, i, n)
        BY DEF NodesOf
      <3>2. b \in LeafBlocks
        BY <3>1 DEF Holds, LeafBlocks
      <3>3. QED
        BY <1>1, <3>1, <3>2 DEF Nodes
    <2>3. QED
      BY <2>1, <2>2
  <1>3. QED
    BY <1>1, <1>2

\* The pointers in use of an index container.
LEMMA PointersAre ==
  ASSUME Shape(tree), NEW b \in IndexBlocks, NEW p
  PROVE  /\ b \in DOMAIN tree /\ ~IsLeaf(tree[b]) /\ tree[b] \in Indices
         /\ p \in UsedPointers(tree[b]) <=>
              p \in 1..NodeContainers /\ tree[b].node[p].block # 0
         /\ p \in UsedPointers(tree[b]) => PointsTo(tree, b, p, tree[b].node[p].block)
  <1>1. b \in DOMAIN tree /\ ~IsLeaf(tree[b])
    BY DEF IndexBlocks, LeafBlocks
  <1>2. tree[b] \in Indices /\ DOMAIN tree[b].node = 1..NodeContainers
    BY <1>1, BlockIs, ContainerIs DEF Shape
  <1>3. p \in UsedPointers(tree[b]) <=>
          p \in 1..NodeContainers /\ tree[b].node[p].block # 0
    BY <1>2 DEF UsedPointers
  <1>4. QED
    BY <1>1, <1>2, <1>3 DEF PointsTo

\* What checknodecontainers looks at.
LEMMA LevelsRight ==
  ASSUME IInv
  PROVE  NodeContainersOkay
  <1>1. Shape(tree) /\ Root \in DOMAIN tree /\ tree[Root].nodenumber = 1
    BY RootIs DEF IInv, Shape, Rooted
  <1>2. ASSUME NEW b \in IndexBlocks, NEW p \in UsedPointers(tree[b]), NEW child,
               child = tree[b].node[p].block
        PROVE  /\ child \in DOMAIN tree
               /\ tree[child].nodenumber = tree[b].nodenumber + (p - 1) * tree[b].nodes
               /\ tree[child].nodes = IF tree[b].nodes \div NodeContainers = 0 THEN 1
                                      ELSE tree[b].nodes \div NodeContainers
    <2>1. /\ PointsTo(tree, b, p, child) /\ child # 0 /\ p \in 1..NodeContainers
          /\ tree[b] \in Indices
      BY <1>1, <1>2, PointersAre
    <2>2. /\ child \in DOMAIN tree /\ Span(tree[child]) = tree[b].nodes
          /\ tree[child].nodenumber = FirstBelow(tree[b], p)
      BY <1>1, <2>1, PointedTo
    <2>3. tree[child] \in Leaves \cup Indices
      BY <1>1, <2>2, BlockIs DEF Shape
    <2>4. CASE IsLeaf(tree[child])
      <3>1. tree[b].nodes = LeafNodes
        BY <2>2, <2>4 DEF Span
      <3>2. LeafNodes \div NodeContainers \in {0, 1}
        <4>1. PICK q : q = LeafNodes \div NodeContainers
          OBVIOUS
        <4>2. q \in Nat /\ q * NodeContainers <= LeafNodes
          BY <4>1, Sizes, Division
        <4>3. q < 2
          BY <4>2, Sizes, Products
        <4>4. QED
          BY <4>1, <4>2, <4>3
      <3>3. tree[child].nodes = 1
        BY <2>4 DEF IsLeaf
      <3>4. QED
        BY <2>2, <3>1, <3>2, <3>3 DEF FirstBelow
    <2>5. CASE ~IsLeaf(tree[child])
      <3>1. PICK m : m = tree[child].nodes
        OBVIOUS
      <3>2. tree[b].nodes = m * NodeContainers /\ m \in Nat \ {0}
        BY <2>2, <2>3, <2>5, <3>1, ContainerIs
      <3>3. (m * NodeContainers) \div NodeContainers = m
        <4>1. PICK k : k = m * NodeContainers
          OBVIOUS
        <4>2. PICK q : q = k \div NodeContainers
          OBVIOUS
        <4>3. k \in Nat /\ q \in Nat /\ q * NodeContainers <= k /\ k < q * NodeContainers + NodeContainers
          BY <3>2, <4>1, <4>2, Sizes, Division, Products
        <4>4. q <= m
          BY <3>2, <4>1, <4>3, Sizes, Products
        <4>5. (q + 1) * NodeContainers = q * NodeContainers + NodeContainers /\ q + 1 \in Nat
          BY <4>3, Sizes, Products
        <4>6. m < q + 1
          BY <3>2, <4>1, <4>3, <4>5, Sizes, Products
        <4>7. q = m
          BY <3>2, <4>3, <4>4, <4>6
        <4>8. QED
          BY <4>1, <4>2, <4>7
      <3>4. QED
        BY <2>2, <3>1, <3>2, <3>3 DEF FirstBelow
    <2>6. QED
      BY <2>4, <2>5
  <1>3. QED
    BY <1>1, <1>2 DEF NodeContainersOkay

\* What SFScheck looks at in the spaces.
LEMMA SpacesRight ==
  ASSUME NEW chain, NEW room, NEW D, SpacesOkay(chain, room, D)
  PROVE  AdminSpaceContainersOkay(chain, D)
  <1>1. /\ ChainOkay(chain, room) /\ MarkedBlocks(chain) = D \cup ChainBlocks(chain)
        /\ chain \in Chains /\ \A i \in DOMAIN chain : Len(chain[i].entries) <= MaxEntries
    BY DEF SpacesOkay, ChainOkay
  <1>2. ASSUME NEW p \in InUse(chain), NEW q \in InUse(chain), p # q,
               NEW x \in AreaOf(chain[p[1]].entries[p[2]].space)
                           \cap AreaOf(chain[q[1]].entries[q[2]].space)
        PROVE  FALSE
    <2>1. PICK i, j : i = p[1] /\ j = p[2]
      OBVIOUS
    <2>2. PICK k, l : k = q[1] /\ l = q[2]
      OBVIOUS
    <2>3. p = <<i, j>> /\ Used(chain, i, j) /\ q = <<k, l>> /\ Used(chain, k, l)
      BY <1>1, <2>1, <2>2, InUseIs
    <2>4. PICK a, b : a = chain[i].entries[j].space /\ b = chain[k].entries[l].space
      OBVIOUS
    <2>5. a \in Areas /\ b \in Areas /\ a \in Nat /\ b \in Nat
      BY <1>1, <2>3, <2>4, UsedIs
    <2>6. x \in a..(a + AreaSize - 1) /\ x \in b..(b + AreaSize - 1)
      BY <2>1, <2>2, <2>4 DEF AreaOf
    <2>7. /\ x - a \in 0..(AreaSize - 1) /\ x - b \in 0..(AreaSize - 1)
          /\ a + (x - a) = b + (x - b)
      BY <2>5, <2>6, Sizes
    <2>8. a = b
      BY <2>5, <2>7, AreasApart
    <2>9. i = k /\ j = l
      BY <1>1, <2>3, <2>4, <2>8, SameEntry
    <2>10. QED
      BY <1>2, <2>3, <2>9
  <1>3. MarkedBlocks(chain) \subseteq D \cup {chain[i].block : i \in DOMAIN chain}
    BY <1>1 DEF ChainBlocks
  <1>4. QED
    BY <1>2, <1>3 DEF AdminSpaceContainersOkay

\* No block is lost, none is pointed to twice.
LEMMA NothingIsLeaked ==
  ASSUME IInv
  PROVE  NothingLeaked
  <1>1. Shape(tree) /\ Kept(tree, Root)
    BY DEF IInv
  <1>2. MarkedBlocks(spaces) = DOMAIN tree \cup {spaces[i].block : i \in DOMAIN spaces}
    BY DEF IInv, SpacesOkay, ChainBlocks
  <1>3. ASSUME NEW b \in DOMAIN tree \ {Root}
        PROVE  \E q \in IndexBlocks \X (1..NodeContainers) :
                 \A a \in IndexBlocks : \A p \in UsedPointers(tree[a]) :
                   tree[a].node[p].block = b <=> <<a, p>> = q
    <2>1. PICK c \in DOMAIN tree, k \in 1..NodeContainers : PointsTo(tree, c, k, b)
      BY <1>1 DEF Shape, Reached
    <2>2. c \in IndexBlocks
      BY <2>1 DEF IndexBlocks, LeafBlocks, PointsTo
    <2>3. b # 0
      BY <1>1, BlockIs DEF Shape
    <2>4. ASSUME NEW a \in IndexBlocks, NEW p \in UsedPointers(tree[a])
          PROVE  tree[a].node[p].block = b <=> <<a, p>> = <<c, k>>
      <3>1. PointsTo(tree, a, p, tree[a].node[p].block)
        BY <1>1, PointersAre
      <3>2. ASSUME tree[a].node[p].block = b PROVE a = c /\ p = k
        BY <1>1, <2>1, <2>3, <3>1, <3>2, OnePointer
      <3>3. ASSUME a = c, p = k PROVE tree[a].node[p].block = b
        BY <2>1, <3>3 DEF PointsTo
      <3>4. QED
        BY <3>2, <3>3
    <2>5. <<c, k>> \in IndexBlocks \X (1..NodeContainers)
      BY <2>1, <2>2
    <2>6. QED
      BY <2>4, <2>5
  <1>4. ASSUME NEW b \in DOMAIN tree \ {Root}
        PROVE  IF IsLeaf(tree[b]) THEN NodesIn(b) # {} ELSE UsedPointers(tree[b]) # {}
    <2>1. ~Empty(tree[b])
      BY <1>1 DEF Kept
    <2>2. CASE IsLeaf(tree[b])
      <3>1. PICK i \in 1..LeafNodes : tree[b].node[i]
        BY <2>1, <2>2 DEF Empty
      <3>2. b \in LeafBlocks
        BY <2>2 DEF LeafBlocks
      <3>3. Holds(tree, b, i, tree[b].nodenumber + i - 1)
        BY <2>2, <3>1 DEF Holds
      <3>4. tree[b].nodenumber + i - 1 \in NodesIn(b)
        BY <1>1, <3>2, <3>3, NodesAre
      <3>5. QED
        BY <2>2, <3>4
    <2>3. CASE ~IsLeaf(tree[b])
      <3>1. PICK p \in 1..NodeContainers : tree[b].node[p].block # 0
        BY <2>1, <2>3 DEF Empty
      <3>2. b \in IndexBlocks
        BY <2>3 DEF IndexBlocks, LeafBlocks
      <3>3. p \in UsedPointers(tree[b])
        BY <1>1, <3>1, <3>2, PointersAre
      <3>4. QED
        BY <2>3, <3>3
    <2>4. QED
      BY <2>2, <2>3
  <1>5. QED
    BY <1>2, <1>3, <1>4 DEF NothingLeaked

\* The numbers below a pointer.
LEMMA BelowIs ==
  ASSUME NEW c \in Indices, NEW p \in 1..NodeContainers, NEW n
  PROVE  n \in Below(c, p) <=>
           n \in Nat /\ FirstBelow(c, p) <= n /\ n < FirstBelow(c, p) + c.nodes
  <1>1. PICK a \in Nat, m \in Nat : a = c.nodenumber /\ m = c.nodes
    BY ContainerIs
  <1>2. p \in Nat /\ p - 1 \in Nat
    BY Sizes
  <1>3. PICK lo \in Nat, hi \in Nat : lo = a + (p - 1) * m /\ hi = a + p * m
    BY <1>1, <1>2, Products
  <1>4. n \in Below(c, p) <=> n \in lo..(hi - 1)
    BY <1>1, <1>2, <1>3 DEF Below
  <1>5. lo = FirstBelow(c, p) /\ hi = FirstBelow(c, p) + m
    <2>1. FirstBelow(c, p) + c.nodes = c.nodenumber + p * c.nodes
      BY BelowHas
    <2>2. QED
      BY <1>1, <1>3, <2>1 DEF FirstBelow
  <1>6. n \in lo..(hi - 1) <=> n \in Nat /\ lo <= n /\ n < hi
    BY <1>3
  <1>7. QED
    BY <1>1, <1>4, <1>5, <1>6

\* The full bits say exactly where there is room.
LEMMA BitsAreExact ==
  ASSUME IInv
  PROVE  FullBitsExact
  <1>1. Shape(tree) /\ Bits(tree, Root) /\ Nodes = NodesOf(tree)
    BY NodesAre DEF IInv
  <1>2. ASSUME NEW b \in IndexBlocks, NEW p \in UsedPointers(tree[b])
        PROVE  tree[b].node[p].full = (Below(tree[b], p) \subseteq Nodes)
    <2>1. PICK child : child = tree[b].node[p].block
      OBVIOUS
    <2>2. /\ PointsTo(tree, b, p, child) /\ child # 0 /\ p \in 1..NodeContainers
          /\ tree[b] \in Indices /\ b \in DOMAIN tree
      BY <1>1, <2>1, PointersAre
    <2>3. /\ child \in DOMAIN tree \ {Root} /\ Span(tree[child]) = tree[b].nodes
          /\ tree[child].nodenumber = FirstBelow(tree[b], p)
      BY <1>1, <2>2, PointedTo
    <2>4. child \in Nat \ {0, Root}
      BY <1>1, <2>3, BlockIs DEF Shape
    <2>5. tree[b].node[p].full = Full(tree[child])
      BY <1>1, <2>2, <2>4 DEF Bits
    <2>6. Full(tree[child]) <=> Crowded(tree, child)
      BY <1>1, <2>3, FullIs
    <2>7. \A n : n \in Below(tree[b], p) <=> n \in Nat /\ Has(tree[child], n)
      <3>1. \A n : n \in Below(tree[b], p) <=>
              /\ n \in Nat /\ FirstBelow(tree[b], p) <= n
              /\ n < FirstBelow(tree[b], p) + tree[b].nodes
        BY <2>2, BelowIs
      <3>2. QED
        BY <2>3, <3>1 DEF Has
    <2>8. Crowded(tree, child) <=> Below(tree[b], p) \subseteq Nodes
      BY <1>1, <2>7 DEF Crowded
    <2>9. Full(tree[child]) \in BOOLEAN
      BY DEF Full, IsFull
    <2>10. (Below(tree[b], p) \subseteq Nodes) = Full(tree[child])
      BY <2>6, <2>8, <2>9
    <2>11. QED
      BY <2>5, <2>10
  <1>3. QED
    BY <1>2 DEF FullBitsExact

\* The invariant says all of NodesInPlace.
LEMMA InPlace ==
  ASSUME IInv
  PROVE  NodesInPlace
  <1>1. AdminSpaceContainersOkay(spaces, DOMAIN tree)
    BY SpacesRight DEF IInv
  <1>2. QED
    BY <1>1, LevelsRight, NothingIsLeaked, BitsAreExact DEF NodesInPlace, SFScheckPasses

-----------------------------------------------------------------------------
(* The steps. *)

\* A formatted volume.
LEMMA FormattedTree ==
  ASSUME NEW t, t = [b \in {Root} |-> Leaf(1, [n \in 1..LeafNodes |-> n \in Reserved])]
  PROVE  Shape(t) /\ Bits(t, Root) /\ Kept(t, Root) /\ NodesOf(t) = Reserved
  <1>1. PICK c : c = Leaf(1, [n \in 1..LeafNodes |-> n \in Reserved])
    OBVIOUS
  <1>2. /\ c \in Leaves /\ IsLeaf(c) /\ c.nodenumber = 1
        /\ \A n \in 1..LeafNodes : c.node[n] = (n \in Reserved)
    BY <1>1 DEF Leaf, Leaves, IsLeaf
  <1>3. DOMAIN t = {Root} /\ t[Root] = c /\ Root \in Nat \ {0}
    BY <1>1, Sizes
  <1>4. Typed(t)
    <2>1. t \in [{Root} -> Leaves \cup Indices]
      BY <1>1, <1>2
    <2>2. QED
      BY <1>3, <2>1 DEF Typed
  <1>5. \A a, p, b : ~PointsTo(t, a, p, b)
    BY <1>2, <1>3 DEF PointsTo
  <1>6. Shape(t)
    BY <1>2, <1>3, <1>4, <1>5 DEF Shape, Rooted, Linked, Reached, Apart
  <1>7. Bits(t, Root) /\ Kept(t, Root)
    BY <1>3, <1>5 DEF Bits, Kept
  <1>8. ASSUME NEW n PROVE n \in NodesOf(t) <=> n \in Reserved
    <2>1. ASSUME n \in NodesOf(t) PROVE n \in Reserved
      <3>1. PICK x, i : Holds(t, x, i, n)
        BY <2>1 DEF NodesOf
      <3>2. i \in 1..LeafNodes /\ n = 1 + i - 1 /\ i \in Reserved
        BY <1>2, <1>3, <3>1 DEF Holds
      <3>3. n = i
        BY <3>2, Sizes
      <3>4. QED
        BY <3>2, <3>3
    <2>2. ASSUME n \in Reserved PROVE n \in NodesOf(t)
      <3>1. n \in 1..LeafNodes /\ n \in Nat /\ n = 1 + n - 1
        BY <2>2, Sizes
      <3>2. Holds(t, Root, n, n)
        BY <1>2, <1>3, <2>2, <3>1 DEF Holds
      <3>3. QED
        BY <3>1, <3>2 DEF NodesOf
    <2>3. QED
      BY <2>1, <2>2
  <1>9. QED
    BY <1>6, <1>7, <1>8

\* The spaces of a formatted volume.
LEMMA FormattedSpaces ==
  ASSUME NEW room, room \subseteq MoreAreas
  PROVE  SpacesOkay(Formatted({0, 1}), room, {Root})
  <1>1. PICK e : e = Entry(FirstArea, {0, 1})
    OBVIOUS
  <1>2. PICK c : c = [block |-> FirstArea, entries |-> <<e>>]
    OBVIOUS
  <1>3. PICK chain : chain = <<c>>
    OBVIOUS
  <1>4. chain = Formatted({0, 1})
    BY <1>1, <1>2, <1>3 DEF Formatted
  <1>5. e \in AreaEntries /\ e.space = FirstArea /\ e.bits = {0, 1}
    <2>1. {0, 1} \in SUBSET (0..(AreaSize - 1))
      BY Sizes
    <2>2. PICK B \in SUBSET (0..(AreaSize - 1)) : B = {0, 1}
      BY <2>1
    <2>3. e = Entry(FirstArea, B) /\ FirstArea \in Areas
      BY <1>1, <2>2, AreasAre
    <2>4. e \in AreaEntries /\ e.space = FirstArea /\ e.bits = B
      BY <2>3, EntryOf
    <2>5. QED
      BY <2>2, <2>4
  <1>6. /\ chain \in Chains /\ DOMAIN chain = {1} /\ chain[1] = c /\ c.block = FirstArea
        /\ Len(c.entries) = 1 /\ DOMAIN c.entries = {1} /\ c.entries[1] = e
    <2>1. c \in SpaceContainers /\ Len(c.entries) = 1 /\ c.entries[1] = e
          /\ c.block = FirstArea /\ DOMAIN c.entries = {1}
      BY <1>2, <1>5, Sizes DEF SpaceContainers, Lists
    <2>2. QED
      BY <1>3, <2>1 DEF Chains
  <1>7. \A i, j : Used(chain, i, j) <=> i = 1 /\ j = 1
    BY <1>6 DEF Used
  <1>8. ChainOkay(chain, room)
    <2>1. \A i \in DOMAIN chain : Len(chain[i].entries) <= MaxEntries
      <3>1. 1 <= MaxEntries
        BY Sizes
      <3>2. \A i \in DOMAIN chain : Len(chain[i].entries) = 1
        BY <1>6
      <3>3. QED
        BY <3>1, <3>2
    <2>2. chain[1].entries[1].space = FirstArea /\ FirstArea \notin room
      BY <1>5, <1>6, AreasAre
    <2>3. QED
      BY <1>6, <1>7, <2>1, <2>2 DEF ChainOkay
  <1>9. ASSUME NEW x PROVE x \in MarkedBlocks(chain) <=> x = FirstArea \/ x = Root
    <2>1. x \in MarkedBlocks(chain) <=> \E k \in {0, 1} : x = FirstArea + k
      BY <1>5, <1>6, <1>7, <1>8, MarkedIs DEF ChainOkay
    <2>2. FirstArea + 0 = FirstArea /\ Root = FirstArea + 1
      BY Sizes DEF Root
    <2>3. QED
      BY <2>1, <2>2
  <1>10. ChainBlocks(chain) = {FirstArea}
    BY <1>6 DEF ChainBlocks
  <1>11. Root # FirstArea
    BY Sizes DEF Root
  <1>12. SpacesOkay(chain, room, {Root})
    <2>1. MarkedBlocks(chain) = {Root} \cup ChainBlocks(chain)
      BY <1>9, <1>10
    <2>2. {Root} \cap ChainBlocks(chain) = {}
      BY <1>10, <1>11
    <2>3. QED
      BY <1>8, <2>1, <2>2 DEF SpacesOkay
  <1>13. QED
    BY <1>4, <1>12

\* A formatted volume satisfies the invariant.
LEMMA InitIs ==
  ASSUME Init
  PROVE  IInv /\ NodesOf(tree) = Reserved
  <1>1. Shape(tree) /\ Bits(tree, Root) /\ Kept(tree, Root) /\ NodesOf(tree) = Reserved
    BY FormattedTree DEF Init
  <1>2. DOMAIN tree = {Root} /\ spaces = Formatted({0, 1}) /\ free \subseteq MoreAreas
    BY DEF Init
  <1>3. SpacesOkay(spaces, free, DOMAIN tree)
    BY <1>2, FormattedSpaces
  <1>4. QED
    BY <1>1, <1>3 DEF IInv

\* The state in which createnode and deletenode begin.
LEMMA BeginIs ==
  ASSUME IInv
  PROVE  Okay(Begin, Root) /\ Begin.tree = tree
  <1>1. tree \in Trees
    BY TreeIs DEF IInv, Shape
  <1>2. spaces \in Chains /\ free \in SUBSET MoreAreas
    BY DEF IInv, SpacesOkay, ChainOkay
  <1>3. Begin \in States
    BY <1>1, <1>2 DEF Begin, States
  <1>4. /\ Begin.tree = tree /\ Begin.spaces = spaces /\ Begin.free = free
        /\ Begin.error = FALSE
    BY DEF Begin
  <1>5. QED
    BY <1>3, <1>4 DEF IInv, Okay

\* The state in which they return.
LEMMA ReturnIs ==
  ASSUME NEW r, Okay(r, Root), Return(r)
  PROVE  IInv' /\ tree' = r.tree
  BY DEF Okay, Return, IInv

\* createnode adds one node that was not in use, or fails and changes nothing.
LEMMA CreateStep ==
  ASSUME IInv, CreateNode
  PROVE  \/ UNCHANGED vars
         \/ IInv' /\ \E n \in Nat \ NodesOf(tree) : NodesOf(tree') = NodesOf(tree) \cup {n}
  <1>1. PICK r : r = Create(Begin)
    OBVIOUS
  <1>2. Return(r)
    BY <1>1 DEF CreateNode
  <1>3. Made(r, NodesOf(tree))
    BY <1>1, BeginIs, CreateIs
  <1>4. CASE r.error
    BY <1>2, <1>4 DEF Return
  <1>5. CASE ~r.error
    <2>1. /\ Okay(r, Root)
          /\ \E n \in Nat \ NodesOf(tree) : NodesOf(r.tree) = NodesOf(tree) \cup {n}
      BY <1>3, <1>5 DEF Made
    <2>2. IInv' /\ tree' = r.tree
      BY <1>2, <2>1, ReturnIs
    <2>3. QED
      BY <2>1, <2>2
  <1>6. QED
    BY <1>4, <1>5

\* Where a node is.
LEMMA WhereIs ==
  ASSUME NEW t, Shape(t), NEW x, NEW i, NEW n, Holds(t, x, i, n)
  PROVE  /\ n \in Nat /\ FindNode(t, n) = x /\ SlotOf(t[x], n) = i
         /\ i \in DOMAIN t[x].node /\ t[x].node[i]
  <1>1. x \in DOMAIN t /\ IsLeaf(t[x]) /\ i \in 1..LeafNodes /\ t[x].node[i]
        /\ n = t[x].nodenumber + i - 1
    BY DEF Holds
  <1>2. n \in Nat /\ Has(t[x], n) /\ SlotOf(t[x], n) = i
    BY <1>1, LeafSlot DEF Shape
  <1>3. FindNode(t, n) = x
    BY <1>1, <1>2, FindNodeIs
  <1>4. DOMAIN t[x].node = 1..LeafNodes
    BY <1>1, BlockIs, ContainerIs DEF Shape
  <1>5. QED
    BY <1>1, <1>2, <1>3, <1>4

\* deletenode takes away its node and no other.
LEMMA DeleteStep ==
  ASSUME IInv, NEW node, DeleteNode(node)
  PROVE  /\ node \in NodesOf(tree) \ Reserved
         /\ IInv' /\ NodesOf(tree') = NodesOf(tree) \ {node}
  <1>1. Shape(tree) /\ node \in NodesOf(tree) \ Reserved
    BY NodesAre DEF IInv, DeleteNode
  <1>2. PICK x, i : Holds(tree, x, i, node)
    BY <1>1 DEF NodesOf
  <1>3. FindNode(tree, node) = x /\ SlotOf(tree[x], node) = i
    BY <1>1, <1>2, WhereIs
  <1>4. PICK s : s = Begin
    OBVIOUS
  <1>5. PICK r : r = Deleted(s, x, i)
    OBVIOUS
  <1>6. Return(r)
    <2>1. s.tree = tree
      BY <1>4, BeginIs
    <2>2. QED
      BY <1>3, <1>4, <1>5, <2>1 DEF DeleteNode, Deleted, Zeroed, WithSlot
  <1>7. Okay(r, Root) /\ \A m : m \in NodesOf(r.tree) <=> m \in NodesOf(tree) /\ m # node
    <2>1. Okay(s, Root) /\ s.tree = tree
      BY <1>4, BeginIs
    <2>2. Holds(s.tree, x, i, node)
      BY <1>2, <2>1
    <2>3. Okay(r, Root) /\ Changed(s.tree, r.tree, node, FALSE)
      BY <1>5, <2>1, <2>2, DeletedIs
    <2>4. QED
      BY <2>1, <2>3 DEF Changed
  <1>8. IInv' /\ tree' = r.tree
    BY <1>6, <1>7, ReturnIs
  <1>9. NodesOf(tree') = NodesOf(tree) \ {node}
    BY <1>7, <1>8
  <1>10. QED
    BY <1>1, <1>8, <1>9

\* Every node in use is found.
LEMMA FoundAre ==
  IInv => {n \in Nodes : Found(n)} = NodesOf(tree)
  <1>1. SUFFICES ASSUME IInv, NEW n \in NodesOf(tree) PROVE n \in Nodes /\ Found(n)
    BY NodesAre DEF IInv
  <1>2. Shape(tree) /\ n \in Nodes
    BY <1>1, NodesAre DEF IInv
  <1>3. PICK x, i : Holds(tree, x, i, n)
    BY <1>1 DEF NodesOf
  <1>4. FindNode(tree, n) = x /\ SlotOf(tree[x], n) = i /\ i \in DOMAIN tree[x].node
        /\ tree[x].node[i]
    BY <1>2, <1>3, WhereIs
  <1>5. QED
    BY <1>2, <1>4 DEF Found

\* A step keeps the invariant, and changes the nodes as NodeSet says.
LEMMA StepIs ==
  ASSUME IInv, [Next]_vars
  PROVE  /\ IInv'
         /\ \/ NodesOf(tree') = NodesOf(tree)
            \/ \E n \in Nat \ NodesOf(tree) : NodesOf(tree') = NodesOf(tree) \cup {n}
            \/ \E n \in NodesOf(tree) \ Reserved : NodesOf(tree') = NodesOf(tree) \ {n}
  <1>1. CASE UNCHANGED vars
    BY <1>1 DEF vars, IInv
  <1>2. CASE CreateNode
    BY <1>1, <1>2, CreateStep
  <1>3. ASSUME NEW node, DeleteNode(node)
        PROVE  /\ IInv'
               /\ \E n \in NodesOf(tree) \ Reserved : NodesOf(tree') = NodesOf(tree) \ {n}
    BY <1>3, DeleteStep
  <1>4. QED
    BY <1>1, <1>2, <1>3 DEF Next

\* The invariant is one.
LEMMA SpecIInv == Spec => []IInv
  <1>1. Init => IInv
    BY InitIs
  <1>2. IInv /\ [Next]_vars => IInv'
    BY StepIs
  <1>3. QED
    BY <1>1, <1>2, PTL DEF Spec

\* createnode and deletenode keep what SFScheck looks at: every pointer leads to
\* the container that should be there, every block in use is a container, no
\* block is lost, no container but the root is empty, and the full bits say
\* exactly where the room is, for trees of every height.
THEOREM SpecNodesInPlace == Spec => []NodesInPlace
  <1>1. IInv => NodesInPlace
    BY InPlace
  <1>2. QED
    BY <1>1, SpecIInv, PTL

\* To its callers the tree is a set of node numbers: findnode finds every node in
\* use, createnode gives a number that was not in use, deletenode takes away the
\* one node it is asked to.
THEOREM SpecIsNodeSet == Spec => IsNodeSet
  <1>1. Init => Abstract!Init
    BY InitIs, FoundAre DEF Abstract!Init
  <1>2. (IInv => {n \in Nodes : Found(n)} = NodesOf(tree))'
    BY FoundAre, PTL
  <1>3. IInv /\ [Next]_vars => [Abstract!Next]_({n \in Nodes : Found(n)})
    <2>1. SUFFICES ASSUME IInv, [Next]_vars
                   PROVE  [Abstract!Next]_({n \in Nodes : Found(n)})
      OBVIOUS
    <2>2. {n \in Nodes : Found(n)} = NodesOf(tree)
      BY <2>1, FoundAre
    <2>3. {n \in Nodes : Found(n)}' = NodesOf(tree')
      BY <1>2, <2>1, StepIs
    <2>4. CASE NodesOf(tree') = NodesOf(tree)
      BY <2>2, <2>3, <2>4
    <2>5. CASE \E n \in Nat \ NodesOf(tree) : NodesOf(tree') = NodesOf(tree) \cup {n}
      <3>1. Abstract!CreateNode
        BY <2>2, <2>3, <2>5 DEF Abstract!CreateNode
      <3>2. QED
        BY <3>1 DEF Abstract!Next
    <2>6. CASE \E n \in NodesOf(tree) \ Reserved : NodesOf(tree') = NodesOf(tree) \ {n}
      <3>1. Abstract!DeleteNode
        BY <2>2, <2>3, <2>6 DEF Abstract!DeleteNode
      <3>2. QED
        BY <3>1 DEF Abstract!Next
    <2>7. QED
      BY <2>1, <2>4, <2>5, <2>6, StepIs
  <1>4. QED
    BY <1>1, <1>3, SpecIInv, PTL DEF Spec, IsNodeSet, Abstract!Spec
=============================================================================
