---------------------------- MODULE OperationTree ----------------------------
(***************************************************************************)
(* The red-black tree of the pending operations (redblacktree.c, as it is  *)
(* included in transactions.c).  It holds two operations for a block when  *)
(* the transaction on its way changes it again: equal keys, which after a  *)
(* rotation may be on either side of each other.  Nodes are moved, never   *)
(* copied, because the walks over the tree remove nodes as they go and     *)
(* keep the address of the next one.                                       *)
(*                                                                         *)
(* There are two places for operations of a block.  left and right are     *)
(* fields of a node and the directions of a rotation.                      *)
(***************************************************************************)
EXTENDS Naturals, Sequences, FiniteSets

CONSTANT Blocks, Places

VARIABLES nest,   \* transactionnestcount
          tree    \* the root, and the nodes

vars == <<nest, tree>>

Addresses == Blocks \X Places
Nil == <<0, 0>>              \* the null pointer
Sentinel == <<0, 1>>
Black == 0
Red == 1

Unused == [left |-> Nil, right |-> Nil, parent |-> Nil, color |-> Black,
           new |-> 0, delete |-> FALSE]
Block(n) == n[1]             \* oi.blckno
InTree(t, n) == t.node[n].left # Nil

\* InitRedBlackTree
EmptyTree ==
  [root |-> Sentinel,
   node |-> [n \in Addresses \cup {Sentinel} |->
               IF n = Sentinel THEN [Unused EXCEPT !.left = Sentinel,
                                                   !.right = Sentinel]
               ELSE Unused]]

Init == nest = 0 /\ tree = EmptyTree

-----------------------------------------------------------------------------
Other(side) == IF side = "left" THEN "right" ELSE "left"
Parent(t, n) == t.node[n].parent
Color(t, n) == t.node[n].color
Side(t, n) == IF t.node[Parent(t, n)].left = n THEN "left" ELSE "right"

SetParent(t, n, p) == [t EXCEPT !.node[n].parent = p]
SetColor(t, n, c) == [t EXCEPT !.node[n].color = c]
SetChild(t, n, side, c) == [t EXCEPT !.node[n][side] = c]

\* What points to n (its parent, or the root variable) points to m.
Replace(t, n, m) == IF Parent(t, n) = Nil THEN [t EXCEPT !.root = m]
                    ELSE SetChild(t, Parent(t, n), Side(t, n), m)

\* RotateLeft, RotateRight
Rotate(t, x, side) ==
  LET y == t.node[x][Other(side)]
      inner == t.node[y][side]
      r == SetChild(t, x, Other(side), inner)
      s == IF inner = Sentinel THEN r ELSE SetParent(r, inner, x)
      up == SetParent(Replace(s, x, y), y, Parent(t, x))
  IN SetParent(SetChild(up, y, side, x), x, y)

RECURSIVE InsertFixup(_, _)
InsertFixup(t, x) ==
  LET p == Parent(t, x)
      g == Parent(t, p)
      side == Side(t, p)
      uncle == t.node[g][Other(side)]
      red == SetColor(SetColor(SetColor(t, p, Black), uncle, Black), g, Red)
      outer == IF Side(t, x) = side THEN t ELSE Rotate(t, p, side)
      top == IF Side(t, x) = side THEN p ELSE x
  IN IF x = t.root \/ Color(t, p) = Black THEN SetColor(t, t.root, Black)
     ELSE IF Color(t, uncle) = Red THEN InsertFixup(red, g)
     ELSE InsertFixup(Rotate(SetColor(SetColor(outer, top, Black), g, Red),
                             g, Other(side)),
                      IF top = p THEN x ELSE p)

\* Where a node for a block goes: below which node, on which side.
RECURSIVE Below(_, _, _)
Below(t, n, block) ==
  LET side == IF block < Block(n) THEN "left" ELSE "right"
  IN IF t.node[n][side] = Sentinel THEN <<n, side>>
     ELSE Below(t, t.node[n][side], block)

InsertNode(t, x, new, delete) ==
  LET at == Below(t, t.root, Block(x))
      fields == [left |-> Sentinel, right |-> Sentinel, color |-> Red,
                 parent |-> IF t.root = Sentinel THEN Nil ELSE at[1],
                 new |-> new, delete |-> delete]
      placed == [t EXCEPT !.node[x] = fields]
  IN InsertFixup(IF t.root = Sentinel THEN [placed EXCEPT !.root = x]
                 ELSE SetChild(placed, at[1], at[2], x), x)

RECURSIVE DeleteFixup(_, _)
DeleteFixup(t, x) ==
  LET p == Parent(t, x)
      side == Side(t, x)
      far == Other(side)
      \* a sibling that is black
      a == IF Color(t, t.node[p][far]) = Black THEN t
           ELSE Rotate(SetColor(SetColor(t, t.node[p][far], Black), p, Red),
                       p, side)
      w == a.node[p][far]
      \* and its child on the far side red
      b == IF Color(a, a.node[w][far]) = Red THEN a
           ELSE Rotate(SetColor(SetColor(a, a.node[w][side], Black), w, Red),
                       w, far)
      v == b.node[p][far]
      c == SetColor(SetColor(SetColor(b, v, Color(b, p)), p, Black),
                    b.node[v][far], Black)
  IN IF x = t.root \/ Color(t, x) = Red THEN SetColor(t, x, Black)
     ELSE IF Color(a, a.node[w].left) = Black /\ Color(a, a.node[w].right) = Black
       THEN DeleteFixup(SetColor(a, w, Red), p)
     ELSE LET d == Rotate(c, p, side) IN SetColor(d, d.root, Black)

RECURSIVE Leftmost(_, _)
Leftmost(t, n) == IF t.node[n].left = Sentinel THEN n
                  ELSE Leftmost(t, t.node[n].left)

\* Y, a node with at most one child, leaves its place to it; then it takes the
\* place of Z, if it is another node.  What is left of Z, and the sentinel's
\* parent, is not looked at again.
Cut(t, z) ==
  LET y == IF Sentinel \in {t.node[z].left, t.node[z].right} THEN z
           ELSE Leftmost(t, t.node[z].right)
      x == IF t.node[y].left # Sentinel THEN t.node[y].left ELSE t.node[y].right
      out == Replace(SetParent(t, x, Parent(t, y)), y, x)
      moved == [Replace(out, z, y) EXCEPT
                  !.node[y] = [out.node[z] EXCEPT !.new = t.node[y].new,
                                                  !.delete = t.node[y].delete]]
      linked == SetParent(SetParent(moved, moved.node[y].left, y),
                          moved.node[y].right, y)
  IN [tree |-> IF y = z THEN out ELSE linked, x |-> x, color |-> Color(t, y)]

Gone(t, z) == SetParent([t EXCEPT !.node[z] = Unused], Sentinel, Nil)

\* A wrong DeleteNode, for TLC: the color looked at is that of Z.
DeleteNodeOfColor(t, z) ==
  LET cut == Cut(t, z)
  IN Gone(IF Color(t, z) = Red THEN cut.tree ELSE DeleteFixup(cut.tree, cut.x), z)

DeleteNode(t, z) ==
  LET cut == Cut(t, z)
  IN Gone(IF cut.color = Red THEN cut.tree ELSE DeleteFixup(cut.tree, cut.x), z)

-----------------------------------------------------------------------------
RECURSIVE FindNodeFrom(_, _, _)
FindNodeFrom(t, n, block) ==
  IF n = Sentinel THEN Nil
  ELSE IF Block(n) = block THEN n
  ELSE FindNodeFrom(t, IF block < Block(n) THEN t.node[n].left
                       ELSE t.node[n].right, block)

\* getlatestoperation2
RECURSIVE LatestFrom(_, _, _)
LatestFrom(t, n, block) ==
  LET o == FindNodeFrom(t, n, block)
      found == {o, LatestFrom(t, t.node[o].left, block),
                LatestFrom(t, t.node[o].right, block)} \ {Nil}
  IN IF o = Nil THEN Nil
     ELSE CHOOSE m \in found : \A k \in found : t.node[k].new <= t.node[m].new

\* removecurrentoperation2
RECURSIVE RemoveCurrentFrom(_, _, _)
RemoveCurrentFrom(t, n, block) ==
  LET o == FindNodeFrom(t, n, block)
      left == RemoveCurrentFrom(t, t.node[o].left, block)
  IN IF o = Nil THEN t
     ELSE IF t.node[o].new = nest THEN DeleteNode(t, o)
     ELSE RemoveCurrentFrom(left, left.node[o].right, block)

FirstNode(t) == IF t.root = Sentinel THEN Nil ELSE Leftmost(t, t.root)

RECURSIVE UpFrom(_, _)
UpFrom(t, n) == IF Parent(t, n) = Nil \/ Side(t, n) = "left" THEN Parent(t, n)
                ELSE UpFrom(t, Parent(t, n))

NextNode(t, n) == IF t.node[n].right # Sentinel THEN Leftmost(t, t.node[n].right)
                  ELSE UpFrom(t, n)

\* A wrong CombineFrom, for TLC: what was found for one block is still there
\* at the next.
RECURSIVE CombineFromKeeping(_, _, _, _)
CombineFromKeeping(t, o, oold, onew) ==
  LET next == NextNode(t, o)
      old == IF t.node[o].new = 0 THEN o ELSE oold
      new == IF t.node[o].new = 0 THEN onew ELSE o
      both == Nil \notin {old, new}
      lowered == [t EXCEPT !.node[o].new = 0]
  IN IF o = Nil THEN t
     ELSE IF both
       THEN CombineFromKeeping(DeleteNode(lowered, old), next, Nil, Nil)
     ELSE CombineFromKeeping(lowered, next, old, new)

\* combineoperations, from o on, with the older and the newer operation found.
RECURSIVE CombineFrom(_, _, _, _)
CombineFrom(t, o, oold, onew) ==
  LET next == NextNode(t, o)
      old == IF t.node[o].new = 0 THEN o ELSE oold
      new == IF t.node[o].new = 0 THEN onew ELSE o
      both == Nil \notin {old, new}
      lowered == [t EXCEPT !.node[o].new = 0]
      kept == IF ~both THEN lowered
              ELSE DeleteNode(IF t.node[new].delete THEN DeleteNode(lowered, new)
                              ELSE lowered, old)
  IN IF o = Nil THEN t
     ELSE IF both \/ next = Nil \/ Block(next) # Block(o)
       THEN CombineFrom(kept, next, Nil, Nil)
     ELSE CombineFrom(kept, next, old, new)

\* deletetransaction's walk
RECURSIVE DeleteFrom(_, _)
DeleteFrom(t, o) ==
  IF o = Nil THEN t
  ELSE DeleteFrom(IF t.node[o].new = 1 THEN DeleteNode(t, o) ELSE t,
                  NextNode(t, o))

\* writeoperations: until all are written, or an error.
RECURSIVE WriteFrom(_, _, _)
WriteFrom(t, o, end) ==
  IF o = Nil \/ Block(o) >= end THEN t
  ELSE WriteFrom(DeleteNode(t, o), NextNode(t, o), end)

-----------------------------------------------------------------------------
NewTransaction == nest = 0 /\ nest' = 1 /\ UNCHANGED tree

\* An operation takes the place of the current one (addoperation,
\* addfreeoperation).  Which memory it gets makes no difference.
AddOperation(block, delete) ==
  LET t == RemoveCurrentFrom(tree, tree.root, block)
  IN /\ nest = 1
     /\ \E place \in Places :
          /\ ~InTree(t, <<block, place>>)
          /\ \A p \in Places : p < place => InTree(t, <<block, p>>)
          /\ tree' = InsertNode(t, <<block, place>>, nest, delete)
     /\ UNCHANGED nest

\* There was no memory for the operation that was to replace it.
RemoveOperation(block) ==
  /\ nest = 1
  /\ tree' = RemoveCurrentFrom(tree, tree.root, block)
  /\ UNCHANGED nest

EndTransaction ==
  /\ nest = 1 /\ nest' = 0
  /\ tree' = CombineFrom(tree, FirstNode(tree), Nil, Nil)

DeleteTransaction ==
  /\ nest = 1 /\ nest' = 0
  /\ tree' = DeleteFrom(tree, FirstNode(tree))

WriteOperations ==
  /\ nest = 0 /\ UNCHANGED nest
  /\ \E end \in Blocks \cup {1 + Cardinality(Blocks)} :
       tree' = WriteFrom(tree, FirstNode(tree), end)

Next == \/ NewTransaction \/ EndTransaction \/ DeleteTransaction
        \/ WriteOperations
        \/ \E block \in Blocks : RemoveOperation(block)
        \/ \E block \in Blocks, delete \in BOOLEAN : AddOperation(block, delete)

Spec == Init /\ [][Next]_vars

-----------------------------------------------------------------------------
InUse == {n \in Addresses : InTree(tree, n)}

RECURSIVE WalkFrom(_)
WalkFrom(n) == IF n = Nil THEN <<>> ELSE <<n>> \o WalkFrom(NextNode(tree, n))

RECURSIVE Blacks(_)
Blacks(n) == IF n = Sentinel THEN 1
             ELSE Blacks(tree.node[n].left) + 1 - Color(tree, n)

\* After any order of insertions and removals, of several nodes in a walk too,
\* the tree is a red-black tree: black at the root and at the sentinel, no red
\* node below a red one, as many black nodes on every path.
Balanced ==
  /\ {tree.root, Sentinel} \cap {n \in InUse \cup {Sentinel} :
                                   Color(tree, n) = Red} = {}
  /\ \A n \in InUse :
       /\ Color(tree, n) = Red =>
            \A m \in {tree.node[n].left, tree.node[n].right} :
              Color(tree, m) = Black
       /\ Blacks(tree.node[n].left) = Blacks(tree.node[n].right)

\* FirstNode and NextNode visit all nodes in the order of their blocks, which
\* is how the log is written; and the latest operation for a block is found
\* whatever side of the older one it is on.
Found ==
  LET walk == WalkFrom(FirstNode(tree))
      Of(block) == {n \in InUse : Block(n) = block}
  IN /\ {walk[i] : i \in DOMAIN walk} = InUse /\ Len(walk) = Cardinality(InUse)
     /\ \A i \in 1..(Len(walk) - 1) : Block(walk[i]) <= Block(walk[i + 1])
     /\ \A block \in Blocks :
          LET latest == LatestFrom(tree, tree.root, block)
          IN IF Of(block) = {} THEN latest = Nil
             ELSE /\ latest \in Of(block)
                  /\ \A n \in Of(block) : tree.node[n].new <= tree.node[latest].new

\* To its users it is a set of operations, one for a block and a level.
S == INSTANCE OperationSet WITH
       operations <- {<<Block(n), tree.node[n].new>> : n \in InUse}
IsOperationSet == S!Spec
=============================================================================
