----------------------------- MODULE AdminSpaces -----------------------------
(***************************************************************************)
(* The allocation of administration blocks (adminspaces.c).  The blocks    *)
(* come in areas taken from the free space of the volume.  An area has an  *)
(* entry (a struct fsAdminSpace) in one of a chain of containers: its      *)
(* first block, and a bit for each block in use.  A container is such a    *)
(* block itself: when the containers are full, the next one is the first   *)
(* block of the new area.                                                  *)
(*                                                                         *)
(* spaces is the chain, free the areas findandmarkspace can still give.    *)
(* An operation on its way is a record with both and an error.             *)
(***************************************************************************)
EXTENDS Naturals, Sequences, FiniteSets

CONSTANTS AreaSize,    \* 32, the blocks of an area
          FirstArea,   \* block_adminspace, where the first container is
          MoreAreas,   \* the first blocks of areas the volume has room for
          MaxEntries   \* the entries that fit in a container

ASSUME AreasAssumption ==
  /\ AreaSize \in Nat \ {0, 1} /\ MaxEntries \in Nat \ {0}
  /\ FirstArea \in Nat \ {0} /\ MoreAreas \subseteq Nat
  /\ \A a \in MoreAreas : a >= FirstArea + AreaSize
  /\ \A a, b \in MoreAreas : a < b => a + AreaSize <= b

Entry(space, bits) == [space |-> space, bits |-> bits]
AreaOf(space) == space..(space + AreaSize - 1)
Clear(entry) == 0..(AreaSize - 1) \ entry.bits
First(S) == CHOOSE a \in S : \A b \in S : a <= b

\* Where the entries are: <<index in the chain, index in the container>>.
Entries(spaces) == {<<i, j>> : i \in DOMAIN spaces, j \in 1..MaxEntries}
InUse(spaces) == {p \in Entries(spaces) : p[2] <= Len(spaces[p[1]].entries)}
Before(p, q) == p[1] < q[1] \/ (p[1] = q[1] /\ p[2] <= q[2])
FirstEntry(P) == CHOOSE p \in P : \A q \in P : Before(p, q)

\* As ACTION_FORMAT leaves them, with the blocks in use in the first area.
Formatted(used) ==
  <<[block |-> FirstArea, entries |-> <<Entry(FirstArea, used)>>]>>

\* A new area: its entry in the first container with room, or else in a new
\* container in its own first block.
NewArea(s) ==
  LET area == First(s.free)
      roomy == {i \in DOMAIN s.spaces : Len(s.spaces[i].entries) < MaxEntries}
  IN IF roomy # {}
       THEN [s EXCEPT !.free = @ \ {area},
                      !.spaces[First(roomy)].entries =
                         Append(@, Entry(area, {}))]
       ELSE [s EXCEPT !.free = @ \ {area},
                      !.spaces = Append(@, [block |-> area,
                                   entries |-> <<Entry(area, {0})>>])]

\* allocadminspace: the first clear bit of the first entry that has one.  The
\* block is block of the result.
AllocAdminSpace(s) ==
  LET Roomy(spaces) == {p \in InUse(spaces) :
                           Clear(spaces[p[1]].entries[p[2]]) # {}}
      r == IF Roomy(s.spaces) = {} /\ s.free # {} THEN NewArea(s) ELSE s
      p == FirstEntry(Roomy(r.spaces))
      entry == r.spaces[p[1]].entries[p[2]]
      bit == First(Clear(entry))
  IN IF s.error \/ Roomy(r.spaces) = {} THEN [s EXCEPT !.error = TRUE]
     ELSE [r EXCEPT !.spaces[p[1]].entries[p[2]].bits = @ \cup {bit},
                    !.block = entry.space + bit]

\* freeadminspace: the first entry whose area has the block.  An entry that is
\* not in use has space 0, and so the blocks below AreaSize; its bits do not
\* matter.  An area is never given back.
FreeAdminSpace(s, block) ==
  LET Space(p) == IF p \in InUse(s.spaces)
                    THEN s.spaces[p[1]].entries[p[2]].space ELSE 0
      found == {p \in Entries(s.spaces) : block \in AreaOf(Space(p))}
      p == FirstEntry(found)
  IN IF s.error \/ found = {} THEN [s EXCEPT !.error = TRUE]
     ELSE IF Space(p) = 0 THEN s
     ELSE [s EXCEPT !.spaces[p[1]].entries[p[2]].bits = @ \ {block - Space(p)}]

-----------------------------------------------------------------------------
(* SFScheck's view of the chain (checkadminspacecontainers).                 *)

MarkedBlocks(spaces) ==
  UNION {LET e == spaces[p[1]].entries[p[2]] IN {e.space + i : i \in e.bits} :
           p \in InUse(spaces)}

\* Areas do not overlap, and each block whose bit is set is a valid
\* administration block: a container of the chain, or one of those given.
AdminSpaceContainersOkay(spaces, valid) ==
  /\ \A p, q \in InUse(spaces) : p # q =>
       AreaOf(spaces[p[1]].entries[p[2]].space)
         \cap AreaOf(spaces[q[1]].entries[q[2]].space) = {}
  /\ MarkedBlocks(spaces)
       \subseteq valid \cup {spaces[i].block : i \in DOMAIN spaces}
=============================================================================
