-------------------------------- MODULE Files --------------------------------
(***************************************************************************)
(* The packets of open files (ACTION_READ, ACTION_WRITE, ACTION_SEEK,      *)
(* ACTION_SET_FILE_SIZE), the deletion of a file and the defragmenter, on  *)
(* one volume.  A packet is handled from its beginning to its end before   *)
(* the next one, so a packet is one step here; what clients do between the *)
(* packets, and the defragmenter between theirs, is the interleaving.      *)
(*                                                                         *)
(* Volume and handles are kept apart: a failed operation rolls back the    *)
(* extents, the bitmap and the objects (module Transactions), but locks    *)
(* and global handles only as far as its own code puts them back.          *)
(*                                                                         *)
(* disk[b] is <<f, i>> when block b holds block i of file f; what a free   *)
(* block holds is left out.                                                *)
(***************************************************************************)
EXTENDS Defragmenter

CONSTANTS Fixed,       \* the blocks that are not in any file
          NoFile,
          Roving,      \* where block_rovingblockptr may be
          Lengths,     \* bytes a client reads and writes
          Offsets,     \* where it seeks to, and the sizes it sets
          SizeLimit,   \* how large each file becomes
          Rooms,       \* how many steps succeed before one fails
          Lapses       \* defects of the code that may show

VARIABLES free, extents, files, disk,  \* the volume
          gh,                          \* gh[f]: the global handle
          locks,                       \* the locks
          defragptr                    \* block_defragptr

vars == <<free, extents, files, disk, gh, locks, defragptr>>

Nothing == <<>>
NoGH == [size |-> 0, data |-> 0]
NoLock == [file |-> NoFile, offset |-> 0, extentoffset |-> 0, curextent |-> 0]

Init ==
  /\ free = Volume \ Fixed
  /\ extents = <<>>
  /\ files = [f \in Files |-> NoGH]
  /\ disk = [b \in Volume |-> Nothing]
  /\ gh = files
  /\ locks = [l \in Locks |-> NoLock]
  /\ defragptr = 2

\* What an operation begins with.
Begin(room) ==
  [free |-> free, extents |-> extents, files |-> files, disk |-> disk,
   gh |-> gh, locks |-> locks, defragptr |-> defragptr, room |-> room,
   error |-> FALSE, last |-> 0, lastkey |-> 0, lastoffset |-> 0, moves |-> <<>>,
   lapse |-> FALSE]

Kept(contents, blocks) ==
  [b \in Volume |-> IF b \in blocks THEN Nothing ELSE contents[b]]

Becomes(r) ==
  /\ free' = r.free /\ extents' = r.extents /\ files' = r.files
  /\ disk' = Kept(r.disk, r.free)
  /\ gh' = r.gh /\ locks' = r.locks /\ defragptr' = r.defragptr

\* The handles after an operation whose transaction was deleted.
RolledBack(r) ==
  /\ UNCHANGED <<free, extents, files, defragptr>>
  /\ disk' = Kept(r.disk, free)
  /\ gh' = r.gh /\ locks' = r.locks

Opened(f) == \E l \in Locks : locks[l].file = f
BlocksOfChain(key) ==
  LET chain == ChainFrom(extents, key)
  IN SumOf([n \in DOMAIN chain |-> extents[chain[n]]])
\* Not a file whose deletion stopped half way.
Whole(f) == BlocksOfChain(files[f].data) = BlocksIn(files[f].size)

-----------------------------------------------------------------------------
(* Opening and closing.                                                      *)

\* createglobalhandle
Open(l, f) ==
  /\ locks[l] = NoLock
  /\ Whole(f) \/ "delete" \in Lapses
  /\ locks' = [locks EXCEPT ![l].file = f]
  /\ gh' = IF Opened(f) THEN gh ELSE [gh EXCEPT ![f] = files[f]]
  /\ UNCHANGED <<free, extents, files, disk, defragptr>>

\* freeglobalhandle
Close(l) ==
  LET f == locks[l].file
  IN /\ locks[l] # NoLock
     /\ locks' = [locks EXCEPT ![l] = NoLock]
     /\ gh' = IF \E k \in Locks \ {l} : locks[k].file = f THEN gh
              ELSE [gh EXCEPT ![f] = NoGH]
     /\ UNCHANGED <<free, extents, files, disk, defragptr>>

-----------------------------------------------------------------------------
(* ACTION_SEEK and ACTION_READ.                                              *)

Seek(l) ==
  /\ locks[l] # NoLock
  /\ \E offset \in Offsets \ {locks[l].offset} :
       LET r == SeekTo(Begin(0), l, offset)
       IN ~r.error /\ RolledBack(r)

\* How many bytes the next transfer is for, and to which block it goes.
PartOf(s, l, bytes) ==
  LET lock == s.locks[l]
      inblock == lock.extentoffset % BlockSize
      left == s.extents[lock.curextent].blocks * BlockSize - lock.extentoffset
  IN IF inblock # 0 \/ bytes < BlockSize THEN Lesser(BlockSize - inblock, bytes)
     ELSE IF left > bytes THEN bytes - (bytes % BlockSize) ELSE left
BlockAt(lock) == lock.curextent + lock.extentoffset \div BlockSize

\* Behind the last block of an extent that has a next one, as after the file
\* was made longer.
AtEndPlusOne(s, l) ==
  LET lock == s.locks[l]
  IN s.extents[lock.curextent].blocks * BlockSize = lock.extentoffset

RECURSIVE ReadFrom(_, _, _)
ReadFrom(s, l, bytes) ==
  LET key == s.locks[l].curextent
      n == PartOf(s, l, bytes)
      lapse == AtEndPlusOne(s, l) /\ bytes < BlockSize
  IN IF bytes = 0 THEN s
     ELSE IF key \notin DOMAIN s.extents THEN Failed(s)
     ELSE IF s.room = 0 THEN Failed(s)
     ELSE ReadFrom(SeekForward([s EXCEPT !.room = @ - 1, !.lapse = @ \/ lapse],
                               l, s.extents[key], n), l, bytes - n)

\* A failed read stays where it got to.
Read(l) ==
  /\ locks[l] # NoLock
  /\ \E bytes \in Lengths, room \in Rooms :
       LET left == gh[locks[l].file].size - locks[l].offset
           s == SeekToCurrent(Begin(room), l)
           r == ReadFrom(s, l, Lesser(bytes, left))
       IN /\ ~s.error
          /\ r.lapse => "read" \in Lapses
          /\ RolledBack(r)

-----------------------------------------------------------------------------
(* ACTION_WRITE.                                                             *)

\* What goes to the blocks, by the position it is written for.
Written(s, l, n) ==
  LET lock == s.locks[l]
      first == lock.offset \div BlockSize
  IN [b \in Volume |->
        IF b \in Blocks(BlockAt(lock), BlocksIn(n))
          THEN <<lock.file, first + b - BlockAt(lock)>> ELSE s.disk[b]]

\* "We are at the end +1 of this extent.  Skip to next one."
SkipToNext(s, l) ==
  LET e == s.extents[s.locks[l].curextent]
  IN IF e.blocks # s.locks[l].extentoffset \div BlockSize THEN s
     ELSE [s EXCEPT !.locks[l].curextent = e.next, !.locks[l].extentoffset = 0]

RECURSIVE WriteFrom(_, _, _)
WriteFrom(s, l, bytes) ==
  LET at == SkipToNext(s, l)
      n == PartOf(at, l, bytes)
      done == SeekForward([at EXCEPT !.disk = Written(at, l, n)], l,
                          at.extents[at.locks[l].curextent], n)
  IN IF s.error \/ bytes = 0 THEN s
     ELSE IF s.locks[l].curextent \notin DOMAIN s.extents THEN Failed(s)
     ELSE IF at.locks[l].curextent \notin DOMAIN s.extents THEN Failed(at)
     ELSE WriteFrom(Step(at, done), l, bytes - n)

\* The new size, in the object and in the handle.
Resized(s, l, size) ==
  LET f == s.locks[l].file
      data == s.locks[l].curextent
  IN [s EXCEPT !.files[f].size = size,
               !.files[f].data = IF @ = 0 THEN data ELSE @,
               !.gh[f].size = size,
               !.gh[f].data = IF @ = 0 THEN data ELSE @]

\* The blocks and the size for what is written up to end.
ExtendTo(s, l, end, roving) ==
  LET more == end - BlocksIn(s.gh[s.locks[l].file].size) * BlockSize
  IN IF s.error \/ more <= 0 THEN s
     ELSE ExtendBlocksInFile(s, l, BlocksIn(more), roving)
ResizeTo(s, l, end) ==
  IF s.error \/ end <= s.gh[s.locks[l].file].size THEN s
  ELSE Step(s, Resized(s, l, end))

\* writetofile
WriteToFile(s, l, bytes, roving) ==
  LET end == s.locks[l].offset + bytes
      extended == ExtendTo(SeekToCurrent(s, l), l, end, roving)
  IN WriteFrom(ResizeTo(extended, l, end), l, bytes)

\* An error puts the locks and their handle back.
PutBack(r) == RolledBack([r EXCEPT !.locks = locks, !.gh = gh])
Ends(r) == IF r.error THEN PutBack(r) ELSE Becomes(r)

Write(l) ==
  /\ locks[l] # NoLock
  /\ \E bytes \in Lengths, room \in Rooms, roving \in Roving :
       LET r == WriteToFile(Begin(room), l, bytes, roving)
       IN /\ locks[l].offset + bytes <= SizeLimit[locks[l].file]
          /\ Ends(r)

-----------------------------------------------------------------------------
(* ACTION_SET_FILE_SIZE.                                                     *)

\* setfilesize, to more blocks; an error puts the handle's data back, but not
\* the lock's extent.
GrowEnds(l, r) ==
  IF ~r.error THEN Becomes(r)
  ELSE /\ gh[locks[l].file].data = 0 => "grow" \in Lapses
       /\ RolledBack([r EXCEPT !.gh = gh])

Grow(l, size) ==
  \E room \in Rooms, roving \in Roving :
    LET blocks == BlocksIn(size) - BlocksIn(gh[locks[l].file].size)
        r == ExtendBlocksInFile(Begin(room), l, blocks, roving)
    IN blocks > 0 /\ GrowEnds(l, ResizeTo(r, l, size))

\* Locks in an extent that goes away.
BeyondEnd(f, size) ==
  \E l \in Locks : /\ locks[l].file = f /\ locks[l].curextent # 0
                   /\ locks[l].offset >= size
                   /\ locks[l].offset - locks[l].extentoffset >= size

\* setfilesize, to fewer blocks or as many
ShrinkEnds(f, r, size) ==
  IF r.error THEN PutBack(r)
  ELSE /\ size > 0 /\ BeyondEnd(f, size) => "shrink" \in Lapses
       /\ Becomes(FixLocks(r, f, r.lastkey, r.lastoffset, size))

ShrinkTo(s, f, size) ==
  Step(s, [s EXCEPT !.files[f].size = size, !.gh[f].size = size])

Shrink(l, size) ==
  \E room \in Rooms :
    LET f == locks[l].file
        blocks == BlocksIn(size)
        r == IF blocks = BlocksIn(gh[f].size) THEN Begin(room)
             ELSE TruncateBlocksInFile(Begin(room), l, blocks)
    IN /\ blocks <= BlocksIn(gh[f].size)
       /\ ShrinkEnds(f, ShrinkTo(r, f, size), size)

SetFileSize(l) ==
  /\ locks[l] # NoLock
  /\ \E size \in Offsets \ {gh[locks[l].file].size} :
       /\ size <= SizeLimit[locks[l].file]
       /\ Grow(l, size) \/ Shrink(l, size)

-----------------------------------------------------------------------------
(* Deleting a file, which nobody has open.  Each extent is a transaction.    *)

Delete(f) ==
  /\ ~Opened(f) /\ files[f].data # 0
  /\ \E room \in Rooms :
       LET r == DeleteFileSlowly(Begin(room), f) IN Becomes(r)

-----------------------------------------------------------------------------
(* The defragmenter.                                                         *)

DefragmentInit == /\ defragptr' = 2
                  /\ UNCHANGED <<free, extents, files, disk, gh, locks>>

\* A lock in an extent that was merged into the one before it.
Merged(r) ==
  \E l \in Locks : LET key == locks[l].curextent
                   IN /\ key \in DOMAIN extents \ DOMAIN r.extents
                      /\ \A n \in DOMAIN r.moves :
                           key \notin Blocks(r.moves[n].from, r.moves[n].blocks)

Defragmented(r) ==
  /\ ~r.error
  /\ Merged(r) => "merge" \in Lapses
  /\ Becomes(UpdateLocksAfterMoves(r, r.moves))

DefragmentStep == Defragmented(DefragmentOnce(Begin(0)))

-----------------------------------------------------------------------------
Next == \/ \E l \in Locks :
             \/ Close(l) \/ Seek(l) \/ Read(l) \/ Write(l) \/ SetFileSize(l)
             \/ \E f \in Files : Open(l, f)
        \/ \E f \in Files : Delete(f)
        \/ DefragmentInit \/ DefragmentStep

Spec == Init /\ [][Next]_vars

-----------------------------------------------------------------------------
(* What SFScheck and the clients rely on.                                    *)

Chain(f) == ChainFrom(extents, files[f].data)
InChain(f, key) == \E n \in DOMAIN Chain(f) : Chain(f)[n] = key
BlocksOfExtent(key) == Blocks(key, extents[key].blocks)

(* SFScheck finds nothing wrong: the extents of each file are linked in both *)
(* directions, each extent belongs to one file, no block to two of them, and *)
(* the bitmap says just which blocks are in use.                             *)
SFScheckPasses ==
  /\ \A key \in DOMAIN extents :
       LET e == extents[key]
       IN /\ e.blocks > 0
          /\ IF e.prev \in Files THEN files[e.prev].data = key
             ELSE extents[e.prev].next = key
          /\ e.next # 0 => extents[e.next].prev = key
          /\ \E f \in Files : InChain(f, key)
          /\ \A other \in DOMAIN extents \ {key} :
               BlocksOfExtent(key) \cap BlocksOfExtent(other) = {}
  /\ free = Volume \ (Fixed \cup
                       UNION {BlocksOfExtent(key) : key \in DOMAIN extents})

(* Each block of a file holds what belongs there, wherever it was moved and  *)
(* through which lock it was written.                                        *)
DataInPlace ==
  \A f \in Files : \A key \in DOMAIN extents : InChain(f, key) =>
    LET before == BlocksBefore(extents, key)
    IN \A i \in 0..(extents[key].blocks - 1) : disk[key + i] = <<f, before + i>>

(* The handles say what the volume says: a lock with an extent is in it, at  *)
(* the offset it has in the file, and the global handle has the file's size  *)
(* and first extent, when other locks write to the file or make it shorter,  *)
(* when an operation fails, and when the defragmenter moves the extents.     *)
PositionsRight ==
  \A l \in Locks : locks[l] # NoLock =>
    LET lock == locks[l]
        f == lock.file
    IN /\ gh[f] = files[f]
       /\ lock.offset <= gh[f].size
       /\ BlocksOfChain(gh[f].data) = BlocksIn(gh[f].size)
       /\ lock.curextent # 0 =>
            /\ InChain(f, lock.curextent)
            /\ BlocksBefore(extents, lock.curextent) * BlockSize
                 + lock.extentoffset = lock.offset
            /\ lock.extentoffset <= extents[lock.curextent].blocks * BlockSize
       /\ lock.curextent = 0 /\ lock.offset = 0 => lock.extentoffset = 0

(* What CHECKCODE_BNODES makes findextentbnode test for the extents of locks, *)
(* and setfilesize's comment says of its truncation: no lock is in an extent *)
(* that does not exist.                                                      *)
ExtentsExist ==
  \A l \in Locks : locks[l].curextent \in DOMAIN extents \cup {0}

(* All the clients can see is sizes and positions that only their own reads, *)
(* writes and seeks and a shorter file change.                               *)
Store ==
  INSTANCE FileStore WITH
    size <- [f \in Files |-> files[f].size],
    pos <- [l \in Locks |->
              [file |-> locks[l].file, offset |-> locks[l].offset]]
IsFileStore == Store!Spec
=============================================================================
