------------------------------- MODULE LockList -------------------------------
(***************************************************************************)
(* The list of locks (locks.c), the last one granted first.  A lock has    *)
(* the node of its object, an access mode, and EFL_FILE for a file.        *)
(***************************************************************************)
EXTENDS Naturals, Sequences, SequencesExt

Lock(id, node, access, file) ==
  [id |-> id, node |-> node, access |-> access, file |-> file]

FirstOf(S) == IF S = {} THEN 0 ELSE CHOOSE i \in S : \A j \in S : i <= j
IndexOf(locks, id) == FirstOf({i \in DOMAIN locks : locks[i].id = id})
FirstLock(locks, node) == FirstOf({i \in DOMAIN locks : locks[i].node = node})
LockOf(locks, id) == locks[IndexOf(locks, id)]
Held(locks) == {locks[i].id : i \in DOMAIN locks}

\* lockable: only the first lock of the object is looked at.
Lockable(locks, node, access, templocked) ==
  LET i == FirstLock(locks, node)
  IN /\ i # 0 => "exclusive" \notin {access, locks[i].access}
     /\ ~(node = templocked /\ access = "exclusive")

\* lockobject2: whether a lock is granted, and the list with it.
MayLock(locks, root, node, access) ==
  ~(node = root /\ access = "exclusive") /\ Lockable(locks, node, access, 0)
WithLock(locks, lock) == <<lock>> \o locks

FreeLock(locks, id) == RemoveAt(locks, IndexOf(locks, id))

\* A wrong ChangeMode, for TLC: the lock itself stands in its own way only
\* when it is the first one.
ChangeModeFirst(locks, root, id, access) ==
  LET i == IndexOf(locks, id)
      first == FirstLock(locks, locks[i].node)
  IN IF access = "exclusive" /\ (locks[i].node = root \/ first # i) THEN locks
     ELSE [locks EXCEPT ![i].access = access]

\* ACTION_CHANGE_MODE: the lock has no object while the others are asked.
ChangeMode(locks, root, id, access) ==
  LET i == IndexOf(locks, id)
      node == locks[i].node
      others == [locks EXCEPT ![i].node = 0]
  IN IF /\ access = "exclusive" /\ locks[i].access # access
        /\ (node = root \/ ~Lockable(others, node, access, 0))
       THEN locks
     ELSE [locks EXCEPT ![i].access = access]
=============================================================================
