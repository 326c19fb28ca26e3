----------------------------- MODULE MCFindSpace -----------------------------
(***************************************************************************)
(* findspace2, and from every start of a search the two other ways bitmap.c*)
(* has to look for space.                                                  *)
(***************************************************************************)
EXTENDS FindSpace, SpaceAllocation

\* The other two searches of bitmap.c, from where and for what this search
\* looks.  smartfindandmarkspace marks free blocks, no more than are needed, each
\* once; unless its list was full, as many as are needed when there are as many,
\* and in one fragment when it can.  findspace2_backwards finds the last place at
\* or after start that is large enough, or else the last of the largest ones.
SpacesRight ==
  rover = NoSearcher /\ search = Call(search.needed, search.from, search.to) =>
    LET list == SpaceList(free, search.from, search.needed)
        marked == BlocksOf(list)
        b == FindSpaceBackwards(free, search.needed, search.from, Total)
        Sizes == {n \in 0..search.needed : \E c \in search.from..(Total - n) :
                                             Blocks(c, n) \subseteq free}
    IN /\ marked \subseteq free
       /\ Cardinality(marked) = SumOf(list)
       /\ SumOf(list) <= search.needed
       /\ Len(list) < SpaceListMax =>
            /\ SumOf(list) = Lesser(search.needed, Cardinality(free))
            /\ (\E c \in Volume : Blocks(c, search.needed) \subseteq free) =>
                 Len(list) = 1
       /\ b.blocks = Greatest(Sizes)
       /\ Blocks(b.block, b.blocks) \subseteq free
       /\ b.blocks > 0 =>
            /\ b.block >= search.from
            /\ \A c \in (b.block + 1)..(Total - b.blocks) :
                 ~(Blocks(c, b.blocks) \subseteq free)
=============================================================================
