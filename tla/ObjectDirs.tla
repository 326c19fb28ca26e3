------------------------------ MODULE ObjectDirs ------------------------------
(***************************************************************************)
(* Objects and directories (objects.c).  A directory is a chain of         *)
(* ObjectContainers that hold its objects, and a hash table whose chains   *)
(* link the nodes of these objects; a node knows the container its object  *)
(* is in.  Deleted files go to the recycled directory, which has no hash   *)
(* table, and are counted in the root block.                               *)
(*                                                                         *)
(* The operators take and return the state s of a transaction: free, the   *)
(* blocks allocadminspace can give, oc and ht, the containers and hash     *)
(* tables by block, nodes and objects by node, the counters, and an error, *)
(* after which nothing more is done.  The caller rolls back a transaction  *)
(* with an error (module Transactions).                                    *)
(*                                                                         *)
(* A name is <<n, k>>: n as the user gave it, with the k-th suffix of      *)
(* safedeleteobjectquick.  Names hash to different values, on chains that  *)
(* they may share.                                                         *)
(***************************************************************************)
EXTENDS Integers, Sequences, SequencesExt

CONSTANTS UserNames,   \* the names clients use
          Chain,       \* Chain[n]: HASHCHAIN of the hash of n
          MaxNode,     \* the highest object node there is room for
          Room         \* what a container holds

RootNode == 1
RecycledNode == 2
Recycled == ".recycled"
User(n) == <<n, 0>>
Chains == {Chain[n] : n \in UserNames \cup {Recycled}}

With(f, x, y) == [z \in DOMAIN f \cup {x} |-> IF z = x THEN y ELSE f[z]]
Without(f, x) == [z \in DOMAIN f \ {x} |-> f[z]]
Lowest(S) == CHOOSE x \in S : \A y \in S : x <= y
AnyOf(S) == IF S = {} THEN 0 ELSE CHOOSE x \in S : TRUE
Failed(s, error) == [s EXCEPT !.error = error]
Okay(s) == s.error = ""

Object(name, kind) ==
  [name |-> name, kind |-> kind, comment |-> FALSE,
   size |-> 0,      \* of a file, in blocks
   table |-> 0,     \* the hash table, or the block of a soft link
   first |-> 0]     \* firstdirblock
Size(o) == IF o.comment THEN 2 ELSE 1
Container(parent, next, previous, nodes) ==
  [parent |-> parent, next |-> next, previous |-> previous, nodes |-> nodes]

RECURSIVE Used(_, _)
Used(s, nodes) == IF nodes = <<>> THEN 0
                  ELSE Size(s.objects[Head(nodes)]) + Used(s, Tail(nodes))

\* readobject finds the object of a node in the container of the node.
HasObject(s, node) == /\ s.nodes[node].data \in DOMAIN s.oc
                      /\ node \in Range(s.oc[s.nodes[node].data].nodes)
ParentOf(s, node) == s.oc[s.nodes[node].data].parent

-----------------------------------------------------------------------------
(* Looking up.                                                               *)

\* The nodes of a hash chain.  A chain that is a ring ends as well.
RECURSIVE ChainFrom(_, _, _)
ChainFrom(s, node, seen) ==
  IF node = 0 \/ node \notin DOMAIN s.nodes \/ node \in seen THEN <<>>
  ELSE <<node>> \o ChainFrom(s, s.nodes[node].next, seen \cup {node})

RECURSIVE BlocksFrom(_, _, _)
BlocksFrom(s, block, seen) ==
  IF block = 0 \/ block \notin DOMAIN s.oc \/ block \in seen THEN <<>>
  ELSE <<block>> \o BlocksFrom(s, s.oc[block].next, seen \cup {block})

HashChain(s, table, name) == ChainFrom(s, s.ht[table][Chain[name[1]]], {})
BlocksOfDir(s, dir) == BlocksFrom(s, s.objects[dir].first, {})

\* findobjectbyname, in a container
Named(s, block, name) ==
  {n \in Range(s.oc[block].nodes) : s.objects[n].name = name}

\* Where scandir looks for the name.
BlocksToScan(s, dir, name) ==
  LET table == s.objects[dir].table
  IN IF table = 0 THEN Range(BlocksOfDir(s, dir))
     ELSE {s.nodes[n].data : n \in {m \in Range(HashChain(s, table, name)) :
                                      s.nodes[m].hash = name}}

\* The node of that name, or 0.
ScanDir(s, dir, name) ==
  AnyOf(UNION {Named(s, b, name) : b \in BlocksToScan(s, dir, name)})

-----------------------------------------------------------------------------
(* Containers, hash chains and nodes.                                        *)

FreeAdminSpace(s, block) ==
  IF ~Okay(s) THEN s
  ELSE [s EXCEPT !.free = @ \cup {block},
                 !.oc = Without(@, block), !.ht = Without(@, block)]

\* setrecycledinfodiff
RecycledInfoDiff(s, files, blocks) ==
  IF ~Okay(s) THEN s
  ELSE [s EXCEPT !.files = @ + files, !.blocks = @ + blocks]

\* A new container, before the first one.
ContainerInFront(s, dir, block, next) ==
  [s EXCEPT !.free = @ \ {block}, !.block = block,
            !.objects[dir].first = block,
            !.oc = With([b \in DOMAIN @ |-> IF b # next THEN @[b]
                                            ELSE [@[b] EXCEPT !.previous = block]],
                        block, Container(dir, next, 0, <<>>))]

NewContainer(s, dir) ==
  IF s.free = {} THEN Failed(s, "full")
  ELSE ContainerInFront(s, dir, Lowest(s.free), s.objects[dir].first)

\* findobjectspace: a container with room, a new one if there is none.  Of
\* the directory `.recycled', with OTYPE_QUICKDIR, only the first is tried.
FindObjectSpace(s, dir, size) ==
  LET HasRoom(b) == /\ Used(s, s.oc[b].nodes) + size <= Room
                    /\ dir = RecycledNode => b = s.objects[dir].first
      blocks == SelectSeq(BlocksOfDir(s, dir), HasRoom)
  IN IF blocks = <<>> THEN NewContainer(s, dir)
     ELSE [s EXCEPT !.block = Head(blocks)]

\* A wrong NextTold, for TLC: the next container keeps its previous one.
NextToldNothing(s, c) == s

\* removeobjectcontainer, with container c of the block
NextTold(s, c) ==
  IF c.next = 0 THEN s ELSE [s EXCEPT !.oc[c.next].previous = c.previous]
PreviousTold(s, c) ==
  IF c.previous # 0 THEN [s EXCEPT !.oc[c.previous].next = c.next]
  ELSE [s EXCEPT !.objects[c.parent].first = c.next]
RemoveObjectContainer(s, block) ==
  FreeAdminSpace(PreviousTold(NextTold(s, s.oc[block]), s.oc[block]), block)

\* A wrong Uncounted, for TLC: the blocks of the file stay counted.
UncountedFile(s, node) ==
  IF ParentOf(s, node) # RecycledNode THEN s
  ELSE RecycledInfoDiff(s, -1, 0)

\* simpleremoveobject: the node stays, and the hash chain.
Uncounted(s, node) ==
  IF ParentOf(s, node) # RecycledNode THEN s
  ELSE RecycledInfoDiff(s, -1, -(s.objects[node].size))
TakenOut(s, node, block) ==
  IF Len(s.oc[block].nodes) = 1 THEN RemoveObjectContainer(s, block)
  ELSE [s EXCEPT !.oc[block].nodes = Remove(@, node)]
SimpleRemoveObject(s, node) ==
  IF ~Okay(s) THEN s
  ELSE TakenOut(Uncounted(s, node), node, s.nodes[node].data)

HashObject(s, table, node, name) ==
  IF table = 0 THEN s
  ELSE [s EXCEPT !.ht[table][Chain[name[1]]] = node,
                 !.nodes[node].next = s.ht[table][Chain[name[1]]],
                 !.nodes[node].hash = name]

\* dehashobjectquick, with the node before this one in its chain
Unlinked(s, table, chain, node, before) ==
  IF s.ht[table][chain] = node
    THEN [s EXCEPT !.ht[table][chain] = s.nodes[node].next]
  ELSE IF before = 0 THEN Failed(s, "not found")
  ELSE [s EXCEPT !.nodes[before].next = s.nodes[node].next]
DehashObject(s, node, name, parent) ==
  LET table == s.objects[parent].table
      before == {m \in Range(HashChain(s, table, name)) :
                   s.nodes[m].next = node}
  IN IF ~Okay(s) \/ table = 0 THEN s
     ELSE Unlinked(s, table, Chain[name[1]], node, AnyOf(before))

\* createnode and deleteobjectnode
FreeNodes(s) == (3..MaxNode) \ DOMAIN s.nodes
DeleteObjectNode(s, node) ==
  IF ~Okay(s) THEN s
  ELSE [s EXCEPT !.nodes = Without(@, node), !.objects = Without(@, node)]

-----------------------------------------------------------------------------
(* Creating objects.                                                         *)

\* The object is put at the end of the container that was found for it.
PutObject(s, node, o) ==
  [s EXCEPT !.pointer = "place", !.objects = With(@, node, o),
            !.oc[s.block].nodes = Append(@, node)]

\* createobjecttags with the node, the block and the rest of an old object
\* (CO_OBJECTNODE); hashed says whether it has to go to the hash table.
PlaceOldObject(s, table, node, o, hashed) ==
  HashObject(PutObject([s EXCEPT !.nodes[node].data = s.block], node, o),
             IF hashed THEN table ELSE 0, node, o.name)

\* The same with a new node.
NewNode(s, node, name) ==
  [s EXCEPT !.nodes = With(@, node, [data |-> s.block, next |-> 0,
                                     hash |-> name])]
PlaceNewObject(s, table, node, o) ==
  HashObject(PutObject(NewNode(s, node, o.name), node, o), table, node, o.name)

\* The block a new directory or soft link needs besides.
NewTable(s, node, kind, block) ==
  [s EXCEPT !.free = @ \ {block}, !.objects[node].table = block,
            !.ht = IF kind = "link" THEN @
                   ELSE With(@, block, [c \in Chains |-> 0])]
Completed(s, node, kind) ==
  IF kind = "file" THEN s
  ELSE IF s.free = {} THEN Failed(s, "full")
  ELSE NewTable(s, node, kind, Lowest(s.free))

PlaceObject(s, table, node, o, hashed) ==
  IF ~Okay(s) THEN s
  ELSE IF node # 0 THEN PlaceOldObject(s, table, node, o, hashed)
  ELSE IF FreeNodes(s) = {} THEN Failed([s EXCEPT !.pointer = "place"], "full")
  ELSE Completed(PlaceNewObject(s, table, Lowest(FreeNodes(s)), o),
                 Lowest(FreeNodes(s)), o.kind)

CreateObjectTags(s, dir, node, o, hashed, duplicates, internal) ==
  IF ~Okay(s) THEN s
  ELSE IF dir = RecycledNode /\ ~internal THEN Failed(s, "in use")
  ELSE IF ~duplicates /\ s.objects[dir].kind # "dir" THEN Failed(s, "wrong type")
  ELSE IF ~duplicates /\ ScanDir(s, dir, o.name) # 0 THEN Failed(s, "exists")
  ELSE PlaceObject(FindObjectSpace(s, dir, Size(o)), s.objects[dir].table,
                   node, o, hashed)

\* changeobjectsize: whether the container has room for the object as it will be.
ObjectFits(s, node, o) ==
  LET nodes == s.oc[s.nodes[node].data].nodes
  IN Used(s, nodes) - Size(s.objects[node]) + Size(o) <= Room

\* setcomment2: the object grows where it is, or moves to another container.
SetComment(s, node, o) ==
  IF ObjectFits(s, node, o) THEN [s EXCEPT !.objects[node] = o]
  ELSE CreateObjectTags(SimpleRemoveObject(s, node), ParentOf(s, node),
                        node, o, FALSE, TRUE, FALSE)

-----------------------------------------------------------------------------
(* Removing and moving objects.                                              *)

\* An object out of its hash chain and its container.
Detached(s, node) ==
  SimpleRemoveObject(
    DehashObject(s, node, s.objects[node].name, ParentOf(s, node)), node)

RemoveObject(s, node) == DeleteObjectNode(Detached(s, node), node)

DeleteObjectQuick(s, node) ==
  IF s.objects[node].kind = "file" THEN RemoveObject(s, node)
  ELSE FreeAdminSpace(RemoveObject(s, node), s.objects[node].table)

\* renameobject2's walk from the new parent up to the root.
RECURSIVE Below(_, _, _)
Below(s, dir, node) ==
  \/ dir = node
  \/ ParentOf(s, dir) # 0 /\ Below(s, ParentOf(s, dir), node)

\* renameobject2.  When a file gets a place in itself createobjecttags is given
\* no parent; what it reads in its stead is taken for no directory.
RenameObject(s, node, dir, name, internal) ==
  IF /\ s.objects[node].kind = "dir" /\ ParentOf(s, node) # dir
     /\ Below(s, dir, node)
    THEN Failed(s, "in use")
  ELSE IF dir = node THEN Failed(s, "wrong type")
  ELSE CreateObjectTags(Detached(s, node), dir, node,
                        [s.objects[node] EXCEPT !.name = name],
                        TRUE, FALSE, internal)

\* safedeleteobjectquick: the first name that is not in the directory yet.
FreeSuffix(s, n) ==
  Lowest({k \in 0..MaxNode : ScanDir(s, RecycledNode, <<n, k>>) = 0})
SafeDeleteObjectQuick(s, node) ==
  LET n == s.objects[node].name[1]
  IN RecycledInfoDiff(
       RenameObject(s, node, RecycledNode, <<n, FreeSuffix(s, n)>>, TRUE),
       1, s.objects[node].size)
=============================================================================
