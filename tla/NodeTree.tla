------------------------------ MODULE NodeTree -------------------------------
(***************************************************************************)
(* The tree of node containers (nodes.c) over the administration spaces.   *)
(* A leaf has LeafNodes nodes, an index container NodeContainers pointers. *)
(* A pointer carries a bit that says that everything below it is full.     *)
(* The root stays in its block; a new level is put below it.               *)
(*                                                                         *)
(* A leaf's slots say which nodes are in use (data is not zero).  A        *)
(* pointer to block 0 is unused.                                           *)
(***************************************************************************)
EXTENDS AdminSpaces, Loops

CONSTANTS LeafNodes,        \* nodes that fit in a leaf
          NodeContainers,   \* node_containers
          Reserved,         \* the nodes in use on a formatted volume
          MaxNodes          \* the most nodes in use (a bound for TLC)

ASSUME NodesAssumption ==
  /\ LeafNodes \in Nat \ {0, 1} /\ NodeContainers \in Nat \ {0, 1}
  /\ LeafNodes < 2 * NodeContainers   \* nodes are larger than pointers
  /\ MaxNodes \in Nat
  /\ Reserved \subseteq 1..LeafNodes /\ Reserved # {}

VARIABLES spaces, free,   \* the administration spaces
          tree            \* the container of every block of the tree

vars == <<spaces, free, tree>>

Root == FirstArea + 1     \* block_objectnoderoot
NoParent == 0

Leaf(first, slots) == [nodenumber |-> first, nodes |-> 1, node |-> slots]
Index(first, nodes, pointers) ==
  [nodenumber |-> first, nodes |-> nodes, node |-> pointers]
Pointer(block, full) == [block |-> block, full |-> full]
NoPointer == Pointer(0, FALSE)
NoNodes == [n \in 1..LeafNodes |-> FALSE]
NoPointers == [p \in 1..NodeContainers |-> NoPointer]

IsLeaf(c) == c.nodes = 1

\* "nodenumber=1; /* objectnode 0 is reserved :-) */" (ACTION_FORMAT)
Init ==
  /\ spaces = Formatted({0, 1})
  /\ free \in SUBSET MoreAreas
  /\ tree = [b \in {Root} |->
               Leaf(1, [n \in 1..LeafNodes |-> n \in Reserved])]

Begin == [spaces |-> spaces, free |-> free, block |-> 0, error |-> FALSE,
          tree |-> tree]

-----------------------------------------------------------------------------
\* The index of a node, or of the container it is in, in container c.
SlotOf(c, node) == 1 + (node - c.nodenumber) \div c.nodes

With(t, block, c) == [b \in DOMAIN t \cup {block} |-> IF b = block THEN c ELSE t[b]]

\* More than the levels of the tree: nodes is smaller on each level.
Turns(t) == t[Root].nodes

\* findnode: the leaf; the node is in its slot SlotOf.
FindNode(t, node) ==
  LET below == [b \in DOMAIN t |->
                  IF IsLeaf(t[b]) THEN b
                  ELSE t[b].node[SlotOf(t[b], node)].block]
      Turn(b) == below[b]
  IN Repeat(Turn, Root, Turns(t))

\* parentnodecontainer
Parent(t, child) ==
  LET Turn(at) ==
        IF at.noderoot = child THEN at
        ELSE LET c == t[at.noderoot]
             IN [cb |-> at.noderoot,
                 noderoot |-> c.node[SlotOf(c, t[child].nodenumber)].block]
  IN Repeat(Turn, [cb |-> NoParent, noderoot |-> Root], Turns(t)).cb

IsFull(c) == \A p \in DOMAIN c.node : c.node[p].block # 0 /\ c.node[p].full

\* The bit of the pointer to a container.
SetFull(t, parent, block, full) ==
  [t EXCEPT ![parent].node[SlotOf(t[parent], t[block].nodenumber)].full = full]

\* markparentfull: a call for each container, the last one for the root.
MarkParentFull(t, block) ==
  LET Turn(at) ==
        LET parent == Parent(at.tree, at.block)
            m == SetFull(at.tree, parent, at.block, TRUE)
        IN IF parent = NoParent THEN at
           ELSE [tree |-> m, block |-> IF IsFull(m[parent]) THEN parent ELSE Root]
  IN Repeat(Turn, [tree |-> t, block |-> block], Turns(t)).tree

\* A wrong MarkParentEmpty, for TLC: only the next container is marked.
MarkParentEmptyOnce(t, block) ==
  LET parent == Parent(t, block)
  IN IF parent = NoParent THEN t ELSE SetFull(t, parent, block, FALSE)

\* markparentempty
MarkParentEmpty(t, block) ==
  LET Turn(at) ==
        LET parent == Parent(at.tree, at.block)
        IN IF parent = NoParent THEN at
           ELSE [tree |-> SetFull(at.tree, parent, at.block, FALSE),
                 block |-> IF IsFull(at.tree[parent]) THEN parent ELSE Root]
  IN Repeat(Turn, [tree |-> t, block |-> block], Turns(t)).tree

\* Container block without its pointer p.
Unlink(t, block, p) == [t EXCEPT ![block].node[p] = NoPointer]

\* freecontainer: the block, its pointer, and so on upwards while nothing is
\* left in a container; never the root.
FreeContainer(s, block) ==
  LET Turn(at) ==
        LET t == at.s.tree
            parent == Parent(t, at.block)
            freed == FreeAdminSpace(at.s, at.block)
            rest == [b \in DOMAIN t \ {at.block} |->
                       Unlink(t, parent, SlotOf(t[parent], t[at.block].nodenumber))[b]]
        IN IF parent = NoParent THEN at
           ELSE IF freed.error THEN [s |-> freed, block |-> Root]
           ELSE [s |-> [freed EXCEPT !.tree = rest],
                 block |-> IF rest[parent].node = NoPointers THEN parent ELSE Root]
  IN Repeat(Turn, [s |-> s, block |-> block], Turns(s.tree)).s

\* The nodes there is room for below a container.
Span(c) == IF IsLeaf(c) THEN LeafNodes ELSE c.nodes * NodeContainers

\* addnewnodelevel: "Tree is full from that point!"
AddNewNodeLevel(s) ==
  LET a == AllocAdminSpace(s)
      c == s.tree[Root]
      pointers == [NoPointers EXCEPT ![1] = Pointer(a.block, TRUE)]
  IN IF a.error THEN a
     ELSE [a EXCEPT !.tree = With(With(@, a.block, c), Root,
                                  Index(c.nodenumber, Span(c), pointers))]

\* createnodecontainer, for the unused pointer p of a container.
CreateNodeContainer(s, block, p) ==
  LET a == AllocAdminSpace(s)
      c == s.tree[block]
      first == c.nodenumber + (p - 1) * c.nodes
      new == IF c.nodes = LeafNodes THEN Leaf(first, NoNodes)
             ELSE Index(first, c.nodes \div NodeContainers, NoPointers)
      pointing == [c EXCEPT !.node[p] = Pointer(a.block, FALSE)]
  IN IF a.error THEN a
     ELSE [a EXCEPT !.tree = With(With(@, block, pointing), a.block, new)]

\* A turn of createnode's loop, that a break ends: done.
CreateNodeTurn(at) ==
  LET s == at.s
      c == s.tree[at.nodeindex]
      unused == {n \in DOMAIN c.node : ~c.node[n]}
      taken == [s.tree EXCEPT ![at.nodeindex].node[First(unused)] = TRUE]
      open == {p \in DOMAIN c.node : c.node[p].block # 0 /\ ~c.node[p].full}
      empty == {p \in DOMAIN c.node : c.node[p].block = 0}
      Going(r, index) == [s |-> r, nodeindex |-> index, done |-> r.error]
      Done(r) == [at EXCEPT !.s = r, !.done = TRUE]
  IN IF at.done THEN at
     ELSE IF IsLeaf(c)
       THEN IF unused # {}
              THEN Done([s EXCEPT !.tree =
                           IF Cardinality(unused) = 1
                             THEN MarkParentFull(taken, at.nodeindex) ELSE taken])
            ELSE IF at.nodeindex = Root THEN Going(AddNewNodeLevel(s), Root)
            ELSE Done([s EXCEPT !.error = TRUE])   \* "a damaged full-bit"
     ELSE IF open # {} THEN Going(s, c.node[First(open)].block)
     ELSE IF empty # {}
       THEN Going(CreateNodeContainer(s, at.nodeindex, First(empty)), at.nodeindex)
     ELSE Going(AddNewNodeLevel(s), Root)

\* createnode: a level at most, and then on each level a container at most.
\* The caller puts the node to use.
Create(s) ==
  Repeat(CreateNodeTurn, [s |-> s, nodeindex |-> Root, done |-> FALSE],
         2 * Span(s.tree[Root]) + 3).s

-----------------------------------------------------------------------------
LeafBlocks == {b \in DOMAIN tree : IsLeaf(tree[b])}
NodesIn(b) == {tree[b].nodenumber + n - 1 :
                 n \in {i \in DOMAIN tree[b].node : tree[b].node[i]}}
Nodes == UNION {NodesIn(b) : b \in LeafBlocks}

\* An error ends with the transaction, and leaves nothing behind.
Return(s) == IF s.error THEN UNCHANGED vars
             ELSE spaces' = s.spaces /\ free' = s.free /\ tree' = s.tree

CreateNode == /\ Cardinality(Nodes) < MaxNodes
              /\ Return(Create(Begin))

\* A wrong DeleteNode, for TLC: a leaf is freed with a node in it.
DeleteNodeEarly(node) ==
  LET block == FindNode(tree, node)
      slot == SlotOf(tree[block], node)
      t == [tree EXCEPT ![block].node[slot] = FALSE]
      empty == Cardinality({n \in 1..LeafNodes : ~t[block].node[n]})
      s == [Begin EXCEPT !.tree = t]
  IN /\ node \in Nodes \ Reserved
     /\ Return(IF empty = 1 THEN [s EXCEPT !.tree = MarkParentEmpty(t, block)]
               ELSE IF empty >= LeafNodes - 1 THEN FreeContainer(s, block)
               ELSE s)

\* deletenode
DeleteNode(node) ==
  LET block == FindNode(tree, node)
      slot == SlotOf(tree[block], node)
      t == [tree EXCEPT ![block].node[slot] = FALSE]
      empty == Cardinality({n \in 1..LeafNodes : ~t[block].node[n]})
      s == [Begin EXCEPT !.tree = t]
  IN /\ node \in Nodes \ Reserved
     /\ Return(IF empty = 1 THEN [s EXCEPT !.tree = MarkParentEmpty(t, block)]
               ELSE IF empty = LeafNodes THEN FreeContainer(s, block)
               ELSE s)

Next == CreateNode \/ \E node \in Nodes : DeleteNode(node)

Spec == Init /\ [][Next]_vars

-----------------------------------------------------------------------------
\* The numbers of the nodes below a pointer, in use or not.
Below(c, p) == (c.nodenumber + (p - 1) * c.nodes)..(c.nodenumber + p * c.nodes - 1)

IndexBlocks == DOMAIN tree \ LeafBlocks
UsedPointers(c) == {p \in DOMAIN c.node : c.node[p].block # 0}

\* The full bit of a pointer says exactly whether there is room below it: with
\* a bit too few createnode fails on a damaged full-bit, or adds a level to a
\* container that is not the root; with one too many, nodes are lost.
FullBitsExact ==
  \A b \in IndexBlocks : \A p \in UsedPointers(tree[b]) :
    tree[b].node[p].full = (Below(tree[b], p) \subseteq Nodes)

\* SFScheck's checknodecontainers: what it goes down with from a container to
\* those below it.
NodeContainersOkay ==
  /\ Root \in DOMAIN tree /\ tree[Root].nodenumber = 1
  /\ \A b \in IndexBlocks : \A p \in UsedPointers(tree[b]) :
       LET c == tree[b]
           child == c.node[p].block
       IN /\ child \in DOMAIN tree
          /\ tree[child].nodenumber = c.nodenumber + (p - 1) * c.nodes
          /\ tree[child].nodes = IF c.nodes \div NodeContainers = 0 THEN 1
                                 ELSE c.nodes \div NodeContainers

\* SFScheck finds nothing wrong with the node containers, nor with the spaces
\* they are in: every block marked in use is a container of the one or the
\* other chain, with the nodes it should have.
SFScheckPasses ==
  /\ NodeContainersOkay
  /\ AdminSpaceContainersOkay(spaces, DOMAIN tree)

\* The blocks in use are those of the tree and of the chain of spaces; each
\* container but the root has exactly one pointer to it, and is not empty:
\* deleting nodes gives back what creating them took, over as many levels as
\* they empty.
NothingLeaked ==
  /\ MarkedBlocks(spaces)
       = DOMAIN tree \cup {spaces[i].block : i \in DOMAIN spaces}
  /\ \A b \in DOMAIN tree \ {Root} :
       /\ \E q \in IndexBlocks \X (1..NodeContainers) :
            \A a \in IndexBlocks : \A p \in UsedPointers(tree[a]) :
              tree[a].node[p].block = b <=> <<a, p>> = q
       /\ IF IsLeaf(tree[b]) THEN NodesIn(b) # {} ELSE UsedPointers(tree[b]) # {}

\* SFScheck finds nothing wrong, no administration block is lost, and the
\* bits of full containers are right.
NodesInPlace == SFScheckPasses /\ NothingLeaked /\ FullBitsExact

Found(n) == LET c == tree[FindNode(tree, n)]
                slot == SlotOf(c, n)
            IN slot \in DOMAIN c.node /\ c.node[slot]

\* Every node in use is found by its number; a new number is one that was not
\* in use; and no node disappears but the one deleted.
Abstract == INSTANCE NodeSet WITH nodes <- {n \in Nodes : Found(n)}
IsNodeSet == Abstract!Spec
=============================================================================
