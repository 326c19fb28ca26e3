------------------------------- MODULE Handler -------------------------------
(***************************************************************************)
(* The packets about objects and locks (filesystemmain.c, with findcreate  *)
(* and deleteobject of objects.c).  A packet is handled in a transaction.  *)
(* When there is no room for it the transaction is rolled back, freeupspace*)
(* flushes and removes deleted files for good, and the packet is tried     *)
(* again, as long as freeupspace says that this may help.                  *)
(*                                                                         *)
(* vol is the volume, locks the list of locks, unflushed says that         *)
(* transactions wait to be flushed.  stage is "idle" between packets:      *)
(* handling one that needs no second try is one step.  Otherwise packet is *)
(* the one that found the volume full, that is tried again, or that is     *)
(* followed by a clean-up.                                                 *)
(***************************************************************************)
EXTENDS ObjectDirs, LockList, FiniteSets

CONSTANTS Locks,       \* the ids of locks
          NoLock,      \* the zero lock, which stands for the root
          Up,          \* a slash in front of a path: the parent
          Paths,       \* what clients may send
          Targets,     \* where they may move an object
          AdminBlocks, \* the free administration blocks at the beginning
          MaxSize,     \* blocks of a file
          Few,         \* a bound, see NewLocks
          MaxDeleted,  \* 35, deleted files there may be without a clean-up
          Lapses       \* defects of the code that may show

VARIABLES vol, locks, packet, stage, unflushed

vars == <<vol, locks, packet, stage, unflushed>>

RootBlock == 1         \* block_root; its hash table is the next one
RecycledBlock == 3     \* block_recycled

Idle == [op |-> "none"]
Stages == {"idle", "full", "again", "cleanup"}
Dir(name, table, first) ==
  [Object(User(name), "dir") EXCEPT !.table = table, !.first = first]
NoChains == [c \in Chains |-> 0]

\* ACTION_FORMAT
Init ==
  /\ vol = [free |-> AdminBlocks,
            oc |-> [b \in {RootBlock, RecycledBlock} |->
              IF b = RootBlock THEN Container(0, 0, 0, <<RootNode>>)
              ELSE Container(RootNode, 0, 0, <<RecycledNode>>)],
            ht |-> [b \in {RootBlock + 1} |->
                      [NoChains EXCEPT ![Chain[Recycled]] = RecycledNode]],
            nodes |-> [n \in {RootNode, RecycledNode} |->
              [data |-> IF n = RootNode THEN RootBlock ELSE RecycledBlock,
               next |-> 0, hash |-> User(Recycled)]],
            objects |-> [n \in {RootNode, RecycledNode} |->
              IF n = RootNode THEN Dir("root", RootBlock + 1, RecycledBlock)
              ELSE Dir(Recycled, 0, 0)],
            files |-> 0, blocks |-> 0]
  /\ locks = <<>> /\ packet = Idle /\ stage = "idle" /\ unflushed = FALSE

\* newtransaction, and what an attempt leaves.
Begin(v) == v @@ [error |-> "", block |-> 0, pointer |-> "object"]
Volume(s) == [f \in DOMAIN vol |-> s[f]]

-----------------------------------------------------------------------------
(* Paths.                                                                    *)

Start(id) == IF id = NoLock THEN RootNode ELSE LockOf(locks, id).node

At(node, error, rest) == [node |-> node, error |-> error, rest |-> rest]

\* locateobject2
RECURSIVE Locate(_, _, _)
Step(s, node, path, n) ==
  IF n = 0 THEN At(node, "not found", path)
  ELSE IF s.objects[n].kind = "link" THEN At(n, "link", Tail(path))
  ELSE Locate(s, n, Tail(path))
Locate(s, node, path) ==
  IF path = <<>> THEN At(node, "", path)
  ELSE IF Head(path) = Up THEN Step(s, node, path, ParentOf(s, node))
  ELSE IF s.objects[node].kind # "dir" THEN At(node, "wrong type", path)
  ELSE Step(s, node, path, ScanDir(s, node, Head(path)))

\* locateobjectfromlock, locatelockableobject
LocateFromLock(s, id, path) == Locate(s, Start(id), path)
LocateLockable(s, id, path) ==
  LET at == Locate(s, Start(id), path)
  IN IF /\ at.error = "" /\ at.node # Start(id)
        /\ ~Lockable(locks, at.node, "shared", 0)
       THEN [at EXCEPT !.error = "in use"] ELSE at

\* lockobject, with what its path leads to
GrantAt(s, new, at, access) ==
  IF at.error = "" /\ MayLock(locks, RootNode, at.node, access)
    THEN WithLock(locks, Lock(new, at.node, access,
                              s.objects[at.node].kind = "file"))
  ELSE locks
Grant(s, new, id, path, access) ==
  GrantAt(s, new, LocateFromLock(s, id, path), access)

-----------------------------------------------------------------------------
(* One try of a packet: the transaction, and the locks after it.             *)

Outcome(s, list) == [s |-> s, locks |-> list]

\* deleteobject.  The recycled directory is protected from it.
DeleteAt(s, node) ==
  LET o == s.objects[node]
  IN IF node = RecycledNode THEN Failed(s, "protected")
     ELSE IF ~Lockable(locks, node, "exclusive", 0) THEN Failed(s, "in use")
     ELSE IF o.kind = "dir" /\ o.first # 0 THEN Failed(s, "not empty")
     ELSE IF o.kind # "file" \/ ParentOf(s, node) = RecycledNode
       THEN DeleteObjectQuick(s, node)
     ELSE SafeDeleteObjectQuick(s, node)
DeleteObject(s, p) ==
  LET at == LocateFromLock(s, p.lock, p.path)
  IN IF at.error = "" \/ (at.error = "link" /\ at.rest = <<>>)
       THEN DeleteAt(s, at.node)
     ELSE Failed(s, at.error)

Delete(p) == Outcome(DeleteObject(Begin(vol), p), locks)

\* findcreate's loop, when the object has to be created.  Its o points to the
\* object to be replaced, then to the parent, then to the new object's place.
OpenAs(s, p, list) ==
  IF ~Okay(s) \/ p.kind = "link" THEN Outcome(s, locks)
  ELSE IF list = locks THEN Outcome(Failed(s, "in use"), locks)
  ELSE Outcome(s, list)
Opened(s, p) ==
  OpenAs(s, p, Grant(s, p.new, p.lock, p.path,
                     IF p.type = "update" THEN "shared" ELSE "exclusive"))

CreateAt(s, p, at) ==
  IF ~Okay(s) THEN s
  ELSE IF at.error # "" THEN Failed(s, at.error)
  ELSE CreateObjectTags([s EXCEPT !.pointer = "parent"], at.node, 0,
                        Object(Last(p.path), p.kind), TRUE, FALSE, FALSE)
CreateIn(s, p) == CreateAt(s, p, LocateFromLock(s, p.lock, Front(p.path)))

Replaces(p) == p.found /\ p.type = "output"
Cleared(s, p) == IF ~Replaces(p) THEN s
                 ELSE IF p.isdir THEN Failed(s, "exists")
                 ELSE DeleteObject(s, p)
Create(p) == Opened(CreateIn(Cleared(Begin(vol), p), p), p)

\* renameobject
RenameTo(s, p, at, to) ==
  IF at.error # "" THEN Failed(s, at.error)
  ELSE IF to.error # "" THEN Failed(s, to.error)
  ELSE RenameObject(s, at.node, to.node, Last(p.topath), FALSE)
Rename(p) ==
  Outcome(RenameTo(Begin(vol), p, LocateFromLock(vol, p.lock, p.path),
                   LocateLockable(vol, p.tolock, Front(p.topath))), locks)

\* setcomment
CommentAt(s, at) ==
  IF at.error # "" THEN Failed(s, at.error)
  ELSE SetComment(s, at.node, [s.objects[at.node] EXCEPT !.comment = ~@])
Comment(p) ==
  Outcome(CommentAt(Begin(vol), LocateLockable(vol, p.lock, p.path)), locks)

Try(p) == CASE p.op = "delete" -> Delete(p)
            [] p.op = "create" -> Create(p)
            [] p.op = "rename" -> Rename(p)
            [] p.op = "comment" -> Comment(p)

\* findcreate looks at its o again before it deletes the object once more.
Again(p, s) ==
  IF p.op # "create" THEN p
  ELSE [p EXCEPT !.isdir = Replaces(p) /\ s.pointer = "parent"]

\* ACTION_DELETE_OBJECT and ACTION_FINDOUTPUT clean up when they are done.
Done(p, s) ==
  IF /\ s.files > MaxDeleted
     /\ p.op = "delete" \/ (p.op = "create" /\ p.type = "output" /\ p.kind = "file")
    THEN "cleanup" ELSE "idle"

Goes(next, p) == /\ stage' = next
                 /\ packet' = IF next = "idle" THEN Idle ELSE p
Ends(p, r) ==
  IF Okay(r.s)
    THEN /\ vol' = Volume(r.s) /\ locks' = r.locks
         /\ Goes(Done(p, r.s), p) /\ unflushed' = TRUE
  ELSE /\ IF r.s.error = "full" THEN Goes("full", Again(p, r.s))
          ELSE Goes("idle", p)
       /\ UNCHANGED <<vol, locks, unflushed>>

-----------------------------------------------------------------------------
(* The packets.                                                              *)

\* mainloop takes one packet at a time.
Ready == stage = "idle"

\* The first try.  A packet that fails, unless it is for want of room, changes
\* nothing.
Handle(p, r) == r.s.error \in {"", "full"} /\ Ends(p, r)

Starts == {NoLock} \cup Held(locks)
\* With Few objects there may be several locks, with more of them one.
NewLocks == IF locks = <<>> \/ Cardinality(DOMAIN vol.nodes) <= Few
              THEN Locks \ Held(locks) ELSE {}

Packet(op, id, path) ==
  [op |-> op, lock |-> id, path |-> path, isdir |-> FALSE]

DeleteObjectPacket == Ready /\ \E id \in Starts, path \in Paths :
  LET p == Packet("delete", id, path) IN Handle(p, Delete(p))

SetCommentPacket == Ready /\ \E id \in Starts, path \in Paths :
  LET p == Packet("comment", id, path) IN Handle(p, Comment(p))

RenameObjectPacket == Ready /\ \E id \in Starts, path \in Paths :
  /\ LocateFromLock(vol, id, path).error = ""
  /\ \E tolock \in Starts, topath \in Targets :
       LET p == Packet("rename", id, path) @@ [tolock |-> tolock,
                                               topath |-> topath]
       IN Handle(p, Rename(p))

\* findcreate for an object that is not there, or for one to be replaced.
FindCreate(type, kind, new) == Ready /\ \E id \in Starts, path \in Targets :
  LET at == LocateFromLock(vol, id, path)
      found == at.error = ""
      isdir == found /\ vol.objects[at.node].kind = "dir"
      p == [Packet("create", id, path) EXCEPT !.isdir = isdir] @@
             [new |-> new, type |-> type, kind |-> kind, found |-> found]
  IN /\ at.error = "not found" \/ (found /\ type = "output")
     /\ Handle(p, Create(p))

CreateDir == \E new \in NewLocks : FindCreate("makedir", "dir", new)
FindOutput == \E new \in NewLocks : FindCreate("output", "file", new)
FindUpdate == \E new \in NewLocks : FindCreate("update", "file", new)
MakeLink == FindCreate("output", "link", NoLock)

Granted(list) == /\ list # locks /\ locks' = list
                 /\ UNCHANGED <<vol, packet, stage, unflushed>>

\* ACTION_LOCATE_OBJECT, and ACTION_FINDINPUT and ACTION_FINDUPDATE (lockfile)
\* for an object that is there.
LocateObject == Ready /\
  \E new \in NewLocks, id \in Starts, path \in Paths \cup {<<>>},
     access \in {"shared", "exclusive"} :
    Granted(Grant(vol, new, id, path, access))

Parent == Ready /\ \E new \in NewLocks, id \in Held(locks) :
  /\ Start(id) # RootNode
  /\ Granted(Grant(vol, new, id, <<Up>>, "shared"))

\* freelock, for ACTION_FREE_LOCK and ACTION_END
Free == Ready /\ \E id \in Held(locks) : Granted(FreeLock(locks, id))

Change == Ready /\ \E id \in Held(locks), access \in {"shared", "exclusive"} :
  Granted(ChangeMode(locks, RootNode, id, access))

\* setfilesize, as the directory sees it: only the size of the object changes.
SetFileSize == Ready /\ \E id \in Held(locks), size \in 0..MaxSize :
  LET node == Start(id)
  IN /\ LockOf(locks, id).file
     /\ vol.objects[node].size # size
     /\ ParentOf(vol, node) = RecycledNode => "recycled" \in Lapses
     /\ vol' = [vol EXCEPT !.objects[node].size = size]
     /\ unflushed' = TRUE /\ UNCHANGED <<locks, packet, stage>>

-----------------------------------------------------------------------------
(* Space and time.                                                           *)

\* deletefileslowly, to its end, or only until the file has no data.
Emptied(s, node) == [RecycledInfoDiff(s, 0, -(s.objects[node].size))
                       EXCEPT !.objects[node].size = 0]
DeleteFileSlowly(s, node) == RemoveObject(Emptied(s, node), node)

\* The deleted files that nobody has locked, from the last container on.
RECURSIVE NodesFromLast(_, _)
NodesFromLast(s, blocks) ==
  IF blocks = <<>> THEN <<>>
  ELSE NodesFromLast(s, Tail(blocks)) \o s.oc[Head(blocks)].nodes
Deletable(s, templocked) ==
  LET Unlocked(n) == Lockable(locks, n, "exclusive", templocked)
  IN SelectSeq(NodesFromLast(s, BlocksOfDir(s, RecycledNode)), Unlocked)

\* cleanupdeletedfiles: the first of them goes, and again, as long as it was
\* not in the first container.  A stuck file cannot be deleted to its end.
RECURSIVE CleanUpDeletedFiles(_, _, _)
CleanUpNext(s, templocked, stuck, node) ==
  IF s.oc[s.nodes[node].data].previous = 0 THEN DeleteFileSlowly(s, node)
  ELSE CleanUpDeletedFiles(DeleteFileSlowly(s, node), templocked, stuck)
CleanUpFrom(s, templocked, stuck, nodes) ==
  IF nodes = <<>> THEN s
  ELSE IF Head(nodes) # stuck THEN CleanUpNext(s, templocked, stuck, Head(nodes))
  ELSE IF Len(nodes) = 1 THEN Emptied(s, stuck)
  ELSE CleanUpNext(Emptied(s, stuck), templocked, stuck, nodes[2])
CleanUpDeletedFiles(s, templocked, stuck) ==
  CleanUpFrom(s, templocked, stuck, Deletable(s, templocked))

\* settemporarylock: the object of a rename.
TempLocked(p) == IF p.op # "rename" THEN 0
                 ELSE LocateFromLock(vol, p.lock, p.path).node

\* stuck: a file that deletefileslowly cannot remove.
CleanedUp(stuck) ==
  CleanUpDeletedFiles(Begin(vol), TempLocked(packet), stuck)
Deleted == {n \in DOMAIN vol.nodes : ParentOf(vol, n) = RecycledNode}
\* A wrong Freed, for TLC: freeupspace always says that it helped.
FreedAlways(s) == TRUE

\* What freeupspace goes by, besides transactions that were flushed.
Freed(s) == DOMAIN s.nodes # DOMAIN vol.nodes

\* Making room for another try.
FreeUpSpace == stage = "full" /\ \E stuck \in {0} \cup Deleted :
  LET s == CleanedUp(stuck)
  IN /\ vol' = Volume(s) /\ unflushed' = (vol' # vol)
     /\ Goes(IF unflushed \/ Freed(s) THEN "again" ELSE "idle", packet)
     /\ UNCHANGED locks

TryAgain == stage = "again" /\ Ends(packet, Try(packet))

CleanUp == stage = "cleanup" /\ \E stuck \in {0} \cup Deleted :
  LET s == CleanedUp(stuck)
  IN /\ vol' = Volume(s) /\ Goes("idle", packet)
     /\ unflushed' = TRUE /\ UNCHANGED locks

\* The timers flush between packets.
Flush == /\ Ready /\ unflushed /\ unflushed' = FALSE
         /\ UNCHANGED <<vol, locks, packet, stage>>

Packets ==
  \/ CreateDir \/ FindOutput \/ FindUpdate \/ MakeLink
  \/ DeleteObjectPacket \/ RenameObjectPacket \/ SetCommentPacket
  \/ LocateObject \/ Parent \/ Free \/ Change \/ SetFileSize
Next == Packets \/ FreeUpSpace \/ TryAgain \/ CleanUp \/ Flush

\* The task goes on with the packet it handles, and does nothing else.
GoesOn == stage # "idle" /\ stage' \in Stages
Spec == Init /\ [][Next]_vars /\ WF_stage(GoesOn)

-----------------------------------------------------------------------------
(* What SFScheck looks at, and what the clients see.                         *)

Nodes == DOMAIN vol.nodes
ChildrenOf(dir) == {n \in Nodes : ParentOf(vol, n) = dir}

\* The containers of a directory are linked in both directions from its first
\* one, none is empty, and each object is where its node says.
ContainersOkay ==
  \A b \in DOMAIN vol.oc :
    LET c == vol.oc[b]
    IN /\ c.nodes # <<>> /\ Used(vol, c.nodes) <= Room
       /\ \A n \in Range(c.nodes) : vol.nodes[n].data = b
       /\ {c.previous, c.next} \subseteq DOMAIN vol.oc \cup {0}
       /\ IF c.previous # 0 THEN vol.oc[c.previous].next = b
          ELSE c.parent # 0 => vol.objects[c.parent].first = b
       /\ c.next # 0 => /\ vol.oc[c.next].previous = b
                        /\ vol.oc[c.next].parent = c.parent

\* A hash chain has the directory's objects of that hash, each of them once.
HashChainsOkay ==
  \A dir \in Nodes : vol.objects[dir].kind = "dir" =>
    LET table == vol.objects[dir].table
    IN \A chain \in Chains : table # 0 =>
         LET nodes == ChainFrom(vol, vol.ht[table][chain], {})
         IN /\ Cardinality(Range(nodes)) = Len(nodes)
            /\ Range(nodes) = {n \in ChildrenOf(dir) :
                                 Chain[vol.objects[n].name[1]] = chain}
            /\ \A n \in Range(nodes) : vol.nodes[n].hash = vol.objects[n].name
            /\ nodes # <<>> => vol.nodes[nodes[Len(nodes)]].next = 0

\* Each administration block in use is somebody's, and is not free.
Tables == {vol.objects[n].table : n \in Nodes} \ {0}
BlocksOkay ==
  /\ Tables \cap DOMAIN vol.oc = {} /\ DOMAIN vol.ht \subseteq Tables
  /\ \A m, n \in Nodes :
       m # n /\ vol.objects[m].table # 0 => vol.objects[m].table # vol.objects[n].table
  /\ AdminBlocks \ vol.free = (Tables \cup DOMAIN vol.oc) \ 1..RecycledBlock

(* SFScheck finds nothing wrong with the objects and directories after any   *)
(* packet, whatever errors and second tries it took (checkobjectcontainers). *)
ObjectsOkay ==
  /\ DOMAIN vol.objects = Nodes /\ \A n \in Nodes : HasObject(vol, n)
  /\ ContainersOkay /\ HashChainsOkay /\ BlocksOkay

(* The root block knows how many deleted files there are and "Amount in      *)
(* blocks which deleted files consume." (blockstructure.h), through          *)
(* deletions, renames out of the directory, overwriting and clean-ups.       *)
RecycledInfoRight ==
  LET Plus(n, total) == total + vol.objects[n].size
  IN /\ vol.files = Cardinality(ChildrenOf(RecycledNode))
     /\ vol.blocks = FoldSet(Plus, 0, ChildrenOf(RecycledNode))

(* All that clients see, whatever has to be tried again or cleaned up for    *)
(* it: a tree of names, and locks that are respected by everybody.           *)
Tree == INSTANCE NameSpace WITH
  Root <- RootNode, Recycled <- RecycledNode,
  objects <- [n \in Nodes |->
    LET o == vol.objects[n]
    IN [parent |-> ParentOf(vol, n), name |-> o.name, kind |-> o.kind,
        size |-> o.size, comment |-> o.comment]],
  locks <- {[id |-> locks[i].id, node |-> locks[i].node,
             access |-> locks[i].access] : i \in DOMAIN locks}
IsNameSpace == Tree!Spec

(* Every packet is answered: freeing space and trying again come to an end.  *)
PacketsAnswered == (stage # "idle") ~> (stage = "idle")
=============================================================================
