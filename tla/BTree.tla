-------------------------------- MODULE BTree --------------------------------
(***************************************************************************)
(* The B-tree of extents (btreenodes.c).  tree gives the BTreeContainer of *)
(* every administration block in use: whether it is a leaf, and its nodes  *)
(* in order.  A node has a key and, in an internal container, the block of *)
(* a child.  The root stays in its block: when it is split its contents    *)
(* move to a new block, and when one child is left they come back.         *)
(*                                                                         *)
(* An operation whose administration block cannot be allocated returns an  *)
(* error, and its transaction is deleted (the callers in filesystemmain.c):*)
(* the tree is then what it was.                                           *)
(***************************************************************************)
EXTENDS Integers, Sequences, FiniteSets, TLC

CONSTANTS Keys,          \* the keys of extents: block numbers, never zero
          Root,          \* block_extentbnoderoot
          AdminBlocks,   \* the blocks allocadminspace can return
          LeafBranches,  \* nodes that fit in a leaf
          NodeBranches   \* nodes that fit in an internal container

\* What the run's module assumes.
SizesRight ==
  /\ Keys \subseteq Nat \ {0} /\ AdminBlocks \subseteq Nat \ {0}
  /\ Root \in Nat \ (AdminBlocks \cup {0})
  /\ LeafBranches \in Nat /\ LeafBranches >= 4   \* 35 and 62 at least,
  /\ NodeBranches \in Nat /\ NodeBranches >= 4   \* in blocks of 512 bytes

VARIABLE tree

NoBlock == 0

Node(key, data) == [key |-> key, data |-> data]
Container(isleaf, nodes) == [isleaf |-> isleaf, nodes |-> nodes]
Branches(isleaf) == IF isleaf THEN LeafBranches ELSE NodeBranches
HasKey(nodes, key) == \E n \in DOMAIN nodes : nodes[n].key = key

\* The state of an operation: the containers, and whether it has failed.
Begin == [tree |-> tree, error |-> FALSE]
Failed(s) == [s EXCEPT !.error = TRUE]

Init == tree = [b \in {Root} |-> Container(TRUE, <<>>)]

-----------------------------------------------------------------------------
(* Search.                                                                   *)

\* searchforbnode: of the nodes, which are in order, the last one not above the
\* key, or else the first.
SearchForBNode(key, nodes) ==
  LET n == Cardinality({i \in DOMAIN nodes : nodes[i].key <= key})
  IN IF n = 0 THEN 1 ELSE n

RECURSIVE FindFrom(_, _, _)
FindFrom(t, block, key) ==
  IF t[block].isleaf \/ t[block].nodes = <<>> THEN block
  ELSE LET n == SearchForBNode(key, t[block].nodes)
       IN FindFrom(t, t[block].nodes[n].data, key)

\* findbnode: the container; the node in it is SearchForBNode's.
FindBNode(t, key) == FindFrom(t, Root, key)

RECURSIVE ParentFrom(_, _, _)
ParentFrom(t, block, child) ==
  LET nodes == t[block].nodes
      n == SearchForBNode(t[child].nodes[1].key, nodes)
  IN IF t[block].isleaf THEN NoBlock
     ELSE IF \E i \in DOMAIN nodes : nodes[i].data = child THEN block
     ELSE ParentFrom(t, nodes[n].data, child)

\* getparentbtreecontainer
Parent(t, child) == IF child = Root THEN NoBlock ELSE ParentFrom(t, Root, child)

\* nextbnode and previousbnode walk down to the key and remember the last
\* neighbour they saw on another branch (step is 1 or -1, other its block).
RECURSIVE NeighbourFrom(_, _, _, _, _)
NeighbourFrom(t, block, key, step, other) ==
  LET nodes == t[block].nodes
      n == SearchForBNode(key, nodes)
      near == n + step \in DOMAIN nodes
      seen == IF near THEN nodes[n + step].data ELSE other
      leaf == t[FindFrom(t, other, key)].nodes
  IN IF ~t[block].isleaf THEN NeighbourFrom(t, nodes[n].data, key, step, seen)
     ELSE IF near THEN nodes[n + step].key
     ELSE IF other = NoBlock THEN 0
     ELSE leaf[SearchForBNode(key, leaf)].key

\* Zero when there is none.
NextBNode(t, key) == NeighbourFrom(t, Root, key, 1, NoBlock)
PreviousBNode(t, key) == NeighbourFrom(t, Root, key, -1, NoBlock)

-----------------------------------------------------------------------------
(* Creation of a node.                                                       *)

\* allocadminspace; NoBlock when there is no block left.
NewBlock(t) ==
  LET unused == AdminBlocks \ DOMAIN t
  IN IF unused = {} THEN NoBlock
     ELSE CHOOSE b \in unused : \A c \in unused : b <= c

\* insertbnode
InsertBNode(nodes, key, data) ==
  LET Below(n) == n.key < key
      NotBelow(n) == ~Below(n)
  IN SelectSeq(nodes, Below) \o <<Node(key, data)>>
       \o SelectSeq(nodes, NotBelow)

\* The contents of the root move to a new block, its only child.
PushRoot(s) ==
  LET new == NewBlock(s.tree)
  IN IF new = NoBlock THEN Failed(s)
     ELSE [s EXCEPT !.tree = (new :> @[Root]) @@
             [@ EXCEPT ![Root] = Container(FALSE, <<Node(0, new)>>)]]

\* The upper half of a full container moves to a new one, which the parent
\* gets to know by its first key.
HalfTo(s, block, parent) ==
  LET c == s.tree[block]
      half == Branches(c.isleaf) \div 2
      new == NewBlock(s.tree)
      moved == SubSeq(c.nodes, half + 1, Len(c.nodes))
  IN IF new = NoBlock THEN Failed(s)
     ELSE [s EXCEPT !.tree = (new :> Container(c.isleaf, moved)) @@
             [@ EXCEPT ![block].nodes = SubSeq(c.nodes, 1, half),
                       ![parent].nodes = InsertBNode(@, moved[1].key, new)]]

\* splitbtreecontainer: the root's contents are moved first, and so is a full
\* parent split, after which the parent can be another one.
RECURSIVE SplitContainer(_, _)
SplitContainer(s, block) ==
  LET parent == Parent(s.tree, block)
      full == Len(s.tree[parent].nodes) = NodeBranches
      pushed == PushRoot(s)
      moved == CHOOSE b \in DOMAIN pushed.tree \ DOMAIN s.tree : TRUE
      split == SplitContainer(s, parent)
  IN IF parent = NoBlock
       THEN IF pushed.error THEN pushed ELSE HalfTo(pushed, moved, Root)
     ELSE IF ~full THEN HalfTo(s, block, parent)
     ELSE IF split.error THEN split
     ELSE HalfTo(split, block, Parent(split.tree, block))

\* createbnode
RECURSIVE Created(_, _)
Created(s, key) ==
  LET block == FindBNode(s.tree, key)
  IN IF s.error THEN s
     ELSE IF Len(s.tree[block].nodes) < LeafBranches
       THEN [s EXCEPT !.tree[block].nodes = InsertBNode(@, key, 0)]
     ELSE Created(SplitContainer(s, block), key)

-----------------------------------------------------------------------------
(* Deletion.                                                                 *)

RemoveBNode(nodes, key) ==
  LET Other(n) == n.key # key IN SelectSeq(nodes, Other)

FreeBlock(t, block) == [b \in DOMAIN t \ {block} |-> t[b]]

\* A wrong StealFromNext, for TLC: one node too many is cut off.
StealFromNextLosing(t, block, next, parent, n) ==
  LET a == t[block].nodes
      b == t[next].nodes
      steal == (Len(a) + Len(b)) \div 2 - Len(a)
  IN [t EXCEPT ![block].nodes = a \o SubSeq(b, 1, steal),
               ![next].nodes = SubSeq(b, steal + 2, Len(b)),
               ![parent].nodes[n + 1].key = b[steal + 2].key]

\* The container and the next one share their nodes: next is node n + 1 of
\* the parent.
StealFromNext(t, block, next, parent, n) ==
  LET a == t[block].nodes
      b == t[next].nodes
      steal == (Len(a) + Len(b)) \div 2 - Len(a)
  IN [t EXCEPT ![block].nodes = a \o SubSeq(b, 1, steal),
               ![next].nodes = SubSeq(b, steal + 1, Len(b)),
               ![parent].nodes[n + 1].key = b[steal + 1].key]

\* Previous is node n - 1 of the parent.
StealFromPrevious(t, block, previous, parent, n) ==
  LET a == t[block].nodes
      b == t[previous].nodes
      keep == Len(b) + Len(a) - (Len(a) + Len(b)) \div 2
  IN [t EXCEPT ![block].nodes = SubSeq(b, keep + 1, Len(b)) \o a,
               ![previous].nodes = SubSeq(b, 1, keep),
               ![parent].nodes[n].key = b[keep + 1].key]

\* A wrong Merge, for TLC: they go to its beginning.
MergeInFront(t, lower, upper) ==
  FreeBlock([t EXCEPT ![lower].nodes = t[upper].nodes \o @], upper)

\* The nodes of upper go to the end of lower.
Merge(t, lower, upper) ==
  FreeBlock([t EXCEPT ![lower].nodes = @ \o t[upper].nodes], upper)

\* The only child of the root becomes the root.
PromoteChild(t) ==
  LET child == t[Root].nodes[1].data
  IN FreeBlock([t EXCEPT ![Root] = t[child]], child)

\* deleteinternalnode
RECURSIVE DeleteInternalNode(_, _, _)
DeleteInternalNode(t, block, key) ==
  LET isleaf == t[block].isleaf
      r == [t EXCEPT ![block].nodes = RemoveBNode(@, key)]
      count == Len(r[block].nodes)
      parent == Parent(r, block)
      siblings == r[parent].nodes
      n == CHOOSE i \in DOMAIN siblings : siblings[i].data = block
      next == siblings[n + 1].data
      previous == siblings[n - 1].data
      Fits(sibling) == count + Len(r[sibling].nodes) <= Branches(isleaf)
  IN IF count >= (Branches(isleaf) + 1) \div 2 THEN r
     ELSE IF parent = NoBlock
       THEN IF count = 1 /\ ~isleaf THEN PromoteChild(r) ELSE r
     ELSE IF n < Len(siblings)
       THEN IF Fits(next)
              THEN DeleteInternalNode(Merge(r, block, next), parent,
                                      siblings[n + 1].key)
              ELSE StealFromNext(r, block, next, parent, n)
     ELSE IF n > 1
       THEN IF Fits(previous)
              THEN DeleteInternalNode(Merge(r, previous, block), parent,
                                      siblings[n].key)
              ELSE StealFromPrevious(r, block, previous, parent, n)
     ELSE r

-----------------------------------------------------------------------------
LeafKeys == UNION {{tree[b].nodes[n].key : n \in DOMAIN tree[b].nodes} :
                     b \in {c \in DOMAIN tree : tree[c].isleaf}}

CreateBNode(key) ==
  LET s == Created(Begin, key)
  IN /\ key \notin LeafKeys
     /\ tree' = IF s.error THEN tree ELSE s.tree

DeleteBNode(key) ==
  /\ key \in LeafKeys
  /\ tree' = DeleteInternalNode(tree, FindBNode(tree, key), key)

Next == \E key \in Keys : CreateBNode(key) \/ DeleteBNode(key)

Spec == Init /\ [][Next]_tree

-----------------------------------------------------------------------------
Children(b) == IF tree[b].isleaf THEN {}
               ELSE {tree[b].nodes[n].data : n \in DOMAIN tree[b].nodes}

\* The administration blocks in use are the root and the containers below it,
\* each the child of one parent: none is lost, freed too early, or shared.
EachBlockOnce ==
  /\ UNION {Children(b) : b \in DOMAIN tree} = DOMAIN tree \ {Root}
  /\ \A b \in DOMAIN tree : ~tree[b].isleaf =>
       /\ Cardinality(Children(b)) = Len(tree[b].nodes)
       /\ \A c \in DOMAIN tree \ {b} : Children(b) \cap Children(c) = {}

\* The nodes are in order, no container holds more than fits in its block, and
\* none but the root gets empty or, above the leaves, has an only child: "for
\* root and then we don't care" (deleteinternalnode).
Balanced ==
  \A b \in DOMAIN tree :
    LET nodes == tree[b].nodes
    IN /\ \A i \in 1..(Len(nodes) - 1) : nodes[i].key < nodes[i + 1].key
       /\ Len(nodes) <= Branches(tree[b].isleaf)
       /\ Len(nodes) >= IF b = Root THEN IF tree[b].isleaf THEN 0 ELSE 2
                        ELSE Branches(tree[b].isleaf) \div 2

\* A search from the root finds every key; and walking from node to node,
\* forwards and backwards, over the borders of the containers, visits them in
\* order.
NeighboursFound ==
  LET keys == LeafKeys
      Between(low, high) == \E k \in keys : low < k /\ k < high
  IN \A key \in keys :
       LET next == NextBNode(tree, key)
           previous == PreviousBNode(tree, key)
       IN /\ HasKey(tree[FindBNode(tree, key)].nodes, key)
          /\ IF next = 0 THEN \A k \in keys : k <= key
             ELSE next \in keys /\ key < next /\ ~Between(key, next)
          /\ previous # 0 => previous \in keys /\ previous < key
          /\ ~Between(previous, key)

\* The tree with all its splitting, stealing and merging is a set of keys.
S == INSTANCE KeySet WITH keys <- LeafKeys
IsKeySet == S!Spec
=============================================================================
