------------------------------ MODULE NameSpace ------------------------------
(***************************************************************************)
(* What the file system promises of names and locks to its clients.  There *)
(* is a tree of objects, with different names in a directory.  A packet    *)
(* makes all of its change or none.  An object that somebody has locked is *)
(* not removed, and a lock that is exclusive is alone.  A file that is     *)
(* deleted goes to the recycled directory; clients can take it from there. *)
(***************************************************************************)
EXTENDS Naturals, FiniteSets

CONSTANTS Root, Recycled   \* the nodes of these directories

VARIABLES objects,   \* objects[n]: its directory, name, kind and the rest
          locks      \* {[id, node, access]}

Nodes == DOMAIN objects
Locked(n) == \E l \in locks : l.node = n
Vacant(dir, name) ==
  ~\E n \in Nodes : objects[n].parent = dir /\ objects[n].name = name
Children(n) == {m \in Nodes : objects[m].parent = n}

\* m is n or somewhere below it.
Below(m, n) ==
  LET up[k \in 0..Cardinality(Nodes)] ==
        IF k = 0 THEN m ELSE IF up[k - 1] = Root THEN Root
        ELSE objects[up[k - 1]].parent
  IN \E k \in DOMAIN up : up[k] = n

\* A client may give an object this place.
MayPut(o) == /\ o.parent \in Nodes \ {Recycled}
             /\ objects[o.parent].kind = "dir"
             /\ Vacant(o.parent, o.name)

MayLock(lock, held) ==
  \A l \in held : l.node = lock.node =>
                    {l.access, lock.access} = {"shared"}

Init == /\ Nodes = {Root, Recycled}
        /\ objects[Root].parent = 0 /\ objects[Recycled].parent = Root
        /\ \A n \in Nodes : objects[n].kind = "dir"
        /\ locks = {}

\* New objects; their creator may hold a lock on them.
NewNodes == DOMAIN objects' \ Nodes
New(n) ==
  /\ objects'[n].size = 0
  /\ \A l \in locks' : l.node = n => locks' = locks \cup {l}
  /\ (\A l \in locks' : l.node # n) => locks' = locks

Create(n) ==
  /\ New(n) /\ MayPut(objects'[n])
  /\ objects' = [m \in Nodes \cup {n} |->
                   IF m = n THEN objects'[n] ELSE objects[m]]

Deletable(n) == n \in Nodes \ {Root, Recycled} /\ ~Locked(n)
Remove(n) ==
  /\ Deletable(n) /\ Children(n) = {}
  /\ objects[n].kind = "file" => objects[n].parent = Recycled
  /\ objects' = [m \in Nodes \ {n} |-> objects[m]]
  /\ UNCHANGED locks

InRecycled(n, o) == /\ objects[n].kind = "file" /\ objects[n].parent # Recycled
                    /\ o = [objects[n] EXCEPT !.parent = Recycled,
                                              !.name = o.name]
                    /\ Vacant(Recycled, o.name)
Recycle(n) ==
  /\ Deletable(n) /\ InRecycled(n, objects'[n])
  /\ objects' = [objects EXCEPT ![n] = objects'[n]]
  /\ UNCHANGED locks

\* A file is overwritten: a new object takes its place.
Replace(n, new) ==
  LET o == objects'[new]
  IN /\ Deletable(n) /\ New(new) /\ InRecycled(n, objects'[n])
     /\ o.parent = objects[n].parent /\ o.name = objects[n].name
     /\ objects' = [m \in Nodes \cup {new} |->
                      IF m \in {n, new} THEN objects'[m] ELSE objects[m]]

Rename(n) ==
  /\ n # Root
  /\ objects' = [objects EXCEPT ![n].parent = objects'[n].parent,
                                ![n].name = objects'[n].name]
  /\ MayPut(objects'[n]) /\ ~Below(objects'[n].parent, n)
  /\ UNCHANGED locks

SetComment(n) ==
  /\ objects' = [objects EXCEPT ![n].comment = ~@] /\ UNCHANGED locks
SetFileSize(n) ==
  /\ Locked(n) /\ objects[n].kind = "file"
  /\ objects' = [objects EXCEPT ![n].size = objects'[n].size]
  /\ UNCHANGED locks

\* Deleted files go for good, or lose their data first.
CleanUp ==
  LET gone == Nodes \ DOMAIN objects'
      emptied == {n \in Nodes \ gone : objects'[n] # objects[n]}
  IN /\ \A n \in gone \cup emptied : /\ objects[n].parent = Recycled
                                     /\ Deletable(n)
     /\ objects' = [n \in Nodes \ gone |->
                      IF n \in emptied THEN [objects[n] EXCEPT !.size = 0]
                      ELSE objects[n]]
     /\ UNCHANGED locks

GrantLock == \E lock \in locks' \ locks :
  /\ lock.node \in Nodes /\ objects[lock.node].kind # "link"
  /\ lock.node = Root => lock.access = "shared"
  /\ MayLock(lock, locks)
  /\ locks' = locks \cup {lock}
ReleaseLock == \E lock \in locks : locks' = locks \ {lock}
ChangeMode == \E old \in locks : \E new \in locks' :
  /\ new = [old EXCEPT !.access = new.access]
  /\ new.node = Root => new.access = "shared"
  /\ MayLock(new, locks \ {old})
  /\ locks' = (locks \ {old}) \cup {new}

Next ==
  \/ /\ objects' = objects
     /\ GrantLock \/ ReleaseLock \/ ChangeMode
  \/ /\ objects' # objects
     /\ \/ \E n \in NewNodes : Create(n)
        \/ \E n \in Nodes : Remove(n)
        \/ \E n \in Nodes \cap DOMAIN objects' :
             \/ Recycle(n) \/ Rename(n) \/ SetComment(n) \/ SetFileSize(n)
             \/ \E new \in NewNodes : Replace(n, new)
        \/ CleanUp

Spec == Init /\ [][Next]_<<objects, locks>>
=============================================================================
