# Smart File System: a verification project

TLA+ models of the Amiga Smart File System (SFS), the sources under `src/FS`,
checked with TLC and, where it says so, proved with TLAPS. `PROJECT.json`
gives, for every definition that models code, the lines it models, and lists
the runs, the mutants that show each property can fail, the hazards of the code,
the findings and the theorems.

## 1. The system

SFS is a DOS handler: one task that owns a volume, takes packets from its
message port one at a time, and answers them; two timers make it flush what was
changed, and disks come and go in its drive. Everything that must survive
(bitmap, directories, file extents) is kept in *administration blocks*. They are
never changed on disk directly: changes go to buffers in memory, are kept as
differences with the block on disk, and reach the disk together in a flush that
a crash cannot tear ("Safe writing" in SFS.guide).

    packets, timers -> filesystemmain.c -> objects.c, locks.c
                                        -> btreenodes.c, nodes.c, bitmap.c,
                                           adminspaces.c
                                           |  readcachebuffer, newcachebuffer,
                                           |  preparecachebuffer, storecachebuffer
                                           v
                                        cachebuffers.c <-> transactions.c
                                           |  read, write, flushiocache
                                           v
                                        cachedio.c -> deviceio.c -> exec device

There is one task and no preemption inside the file system (a second one, sdlhtask,
only locks the system's DosList for it), so the hard
behaviours are not data races. They are: a crash between any two writes, a
device cache that reorders them, an error in the middle of a step of several
blocks, the user who cancels a flush, pools of buffers and blocks that run dry,
buffers that are taken for another block while someone still counts on them,
and long sequences of legal calls.

### Inventory

| Component | State it keeps | Operations | What makes it correct |
| --- | --- | --- | --- |
| Transactions (`transactions.c`) | the operations (block, level, diff or deletion) in a red-black tree; `transactionnestcount` | newtransaction, endtransaction, deletetransaction, addoperation, addfreeoperation, flushtransaction, checkfortransaction | a transaction happens as a whole or not at all, in memory and on disk |
| Cache buffers (`cachebuffers.c`) | a pool of buffers: block, ORIGINAL/LATEST/EMPTY bits, locks, data; LRU list | readcachebuffer, newcachebuffer, prepare-, store-, dump-, lock-, unlockcachebuffer, getcachebuffer | readers see the latest version; the original of a changed block is kept; no buffer is taken from its user |
| Block diffs (`support.c`) | none | compress, compressfromzero, uncompress | uncompress undoes compress |
| Device cache (`cachedio.c`) | lines of blocks with valid and dirty sets, an LRU list | read, write, writethrough, flushiocache, invalidateiocaches | reads see the last write; a flush leaves nothing dirty |
| Device I/O (`deviceio.c`) | the device's limits, a bounce buffer | transfer, handleioerror | every block once, in range, or an error |
| Bitmap (`bitmap.c`, `bitfuncs.c`) | bitmap blocks, the number of free blocks, the roving pointer | findspace, markspace, freespace, smartfindandmarkspace | what is found is free, in range, and found when it exists; the count agrees with the bits |
| AdminSpaces (`adminspaces.c`) | areas of 32 blocks with their bits | allocadminspace, freeadminspace | no block given out twice, none lost |
| Node tree (`nodes.c`) | containers of nodes, "full" bits in index containers | createnode, deletenode, findnode | numbers unique; a container marked full has nothing free, one with something free is found |
| Extent B-tree (`btreenodes.c`) | containers of sorted keys | insertbnode, deletebnode, findbnode, next, previous | an ordered map; all leaves at one depth |
| Files and extents (`filesystemmain.c`) | a list of extents per file, file handles, the defragmenter's position | addblocks, setfilesize, writetofile, deletefileslowly, step | extents disjoint, used and as many as the size says; handles follow a move |
| Objects (`objects.c`) | object containers, hash chains, the recycled directory | createobject, deleteobject, renameobject, setcomment, setprotection | every object is in one container and one chain; an error leaves nothing half done |
| Locks (`locks.c`) | lock lists, global handles | lockobject, freelock, updatelocksaftermove | exclusive excludes; handles point at what they were opened on |
| Packet loop and timers (`filesystemmain.c`) | activity and inactivity timers, pendingchanges, the volume node | mainloop, starttimeout, stoptimeout, initdisk, deinitdisk, sdlhtask | every change is flushed in the end; a volume's changes go to that volume; the DosList agrees with the volume nodes |
| Red-black tree (`redblacktree.c`) | nodes, coloured | Insert, Delete, FirstNode, NextNode | an ordered set, also when a walk removes nodes as it goes |

Interactions: the clients call the cache buffers, always inside a transaction
when they change something; the cache buffers ask the transactions for the
latest operation of a block, and the transactions rearrange buffers when they
end, are deleted or are flushed. Both modules work on the same two data
structures, which is why they are modelled together. A flush calls the bitmap
(for the room of its log) and the device cache (to order its writes). A timer
or a packet starts a flush, and so does a volume that is removed.

The packets about objects (`objects.c`) allocate nodes and administration
blocks, and are tried again after space was freed. Files keep their extents in
the B-tree, and positions in the locks; the defragmenter moves extents under
open locks and tells them afterwards.

The tools (SFScheck, SFSformat, the defragmenter's window and so on), DebugTools
and TestProgs are programs of their own and are not modelled, except that the
checks SFScheck makes of a volume are invariants here; neither are the
files the smakefile does not link (`tree.c`, `multiwaytree.c`, `optimizer.c`,
`deviceio2.c`, the `-old` files).

## 2. What is modelled

| Module | Models |
| --- | --- |
| `BlockDiffs` | compress, compressfromzero and uncompress, by what they set |
| `CacheBuffers` | the functions of cachebuffers.c, applyoperation and restorecachebuffer, as operators on a cache |
| `Transactions` | the clients' calls, transactions and writeoperations on that cache |
| `BlockStore` | what `Transactions` promises: a store of blocks with transactions |
| `SafeWrite` | flush, log, crash and recovery over a device cache |
| `FindSpace` | findspace2 on the bitmap, and the search for the log's blocks |
| `AtomicVolume` | what `SafeWrite` promises: all blocks change at once |
| `IOCache` | the device cache over a device whose transfers may fail |
| `SpaceAllocation` | what the rest of bitmap.c computes from the bitmap; used by `FileExtents` and `MCFindSpace` |
| `BitmapBlocks` | the volume and its bitmap blocks, for both |
| `Loops` | a loop as a function on the number of its turns; used by `SpaceAllocation` and `NodeTree` |
| `AdminSpaces` | allocadminspace and freeadminspace, as operators |
| `NodeTree` | nodes.c over `AdminSpaces` |
| `NodeSet` | what `NodeTree` promises: a set of node numbers |
| `BTree` | btreenodes.c |
| `KeySet` | what `BTree` promises: a set of keys |
| `FileExtents` | a file's chain of extents and the positions of locks in it, as operators |
| `Defragmenter` | a step of the defragmenter, as operators |
| `Files` | the packets about open files and the defragmenter's, on one volume |
| `FileStore` | what `Files` promises: sizes, and positions that stay |
| `ObjectDirs` | objects.c: containers, hash chains, nodes of objects, as operators |
| `LockList` | the lists of locks of locks.c, as operators |
| `Handler` | the packets about objects and locks, on one volume |
| `NameSpace` | what `Handler` promises: a tree of names, and locks that are respected |
| `OperationTree` | redblacktree.c and the walks of transactions.c over the tree of operations |
| `OperationSet` | what `OperationTree` promises: a set of operations |
| `PacketLoop` | the packet loop, its timers, disk changes, volume nodes and the DosList |
| `VolumeSet` | what `PacketLoop` promises: a drive with exchangeable disks |
| `SafeWriteProofs`, `TransactionsProofs`, `BlockStoreProofs`, `BuffersProofs`, `PacketLoopProofs`, `FindSpaceProofs`, `IOCacheProofs`, `NodeTreeProofs` | the proofs (section 4) |
| `MC...` | the instances for TLC |

**Transactions.** `cache` is the pool, `op[l][b]` the operation of level `l`
on block `b` (the tree holds at most one: addoperation removes the older one),
`disk` what read() and write() see, `nest` is transactionnestcount. `prepared`
and `held` are the blocks clients have prepared or locked, `live` those the
AdminSpaces say are in use. Each action is one call. Four points deserve a
word:

- *Taking a buffer.* getcachebuffer takes the least recently used buffer that
  is not locked and is not the original of a changed block. The model lets any
  such buffer be taken, which covers every order of use. readcachebuffer,
  preparecachebuffer, newcachebuffer and applyoperation can all take one or
  two, so the operators return the set of their outcomes.
- *Nesting.* The sources open one level (`newtransaction` while one is open
  occurs nowhere in the packet loop), so `nest` is 0 or 1.
- *Failures.* storecachebuffer fails when the disk is too full (the operation
  it had stays) or without memory (addoperation has removed it): `Dump` is both,
  and a client's own dumpcachebuffer. After an error the clients let go of what
  they hold and delete the transaction.
- *The precondition `ReuseMayFail = FALSE`.* The known defect of
  deletetransaction (section 6) breaks everything after it, so the runs that
  expect to pass leave out the transactions that meet it: those that fail after
  they freed a block they had stored, or allocated one that was in use when they
  began. TransactionsRollback leaves them in.

**SafeWrite.** `disk` is the medium, `io` what the device cache shows, `ops` the
operations of level 0, `pc` the point flushtransaction or checkfortransaction
is at, `log` and `saved` (history, for the properties and proofs) the chain and
the operations of the last log saved. `WriteBack` writes any block the cache
holds at any time; `Flushed` is flushiocache having returned 0. `Crash` forgets
all memory at any point, recovery included. savetransaction takes blocks that
are free in the bitmap *as changed in memory*, as findspace does; file data
goes to the device at once. `CancelFlush` is the user's Cancel after any error
or a full disk; a Retry is a stutter, or a second `StartSaving`.

**FindSpace.** An initial state is a call, with every bitmap, start, end and
need; an action is a turn of findspace2's loops (`Space` the inner one,
`NextBitmapBlock` the outer one), with the function's variables in `search`.
When savetransaction is the caller, `WriteLogBlock` takes the block and searches
on from the next one, up to the roving pointer; the last block of the volume
holds a root block and is never free. `FindsSpace` says what is to be found
without mentioning bitmap blocks. SafeWrite relies on `LogBlocksDiffer` when it
chooses the next block of the log among the free ones not in the chain.
`SpacesRight` compares the two other searches, which `SpaceAllocation` has as operators with their
loops as `Repeat`, with a plain reading of the bitmap: smartfindandmarkspace collects fragments, drops the
smallest and marks the rest, and findspace2_backwards looks from the end of the volume downwards. What
smartfindandmarkspace marks is as much as is needed only when its list (`SpaceListMax`) had room for
all fragments; the code marks what it has then.

*The log and freed file data.* Room for the log is sought in the bitmap with the uncommitted changes,
so the log can land on blocks that the transaction frees, and a crash before TRFA undoes the deletion of a file
whose blocks were overwritten. SFS.guide (1232, 1303) says that the log goes to empty areas, but also
(1166-1168) that the contents of files are not promised; the administration blocks stay consistent
(`Atomic` holds: freeadminspace gives no AdminSpace back to the bitmap, so the log meets only file data).

*SafeWrite's abstractions.* A block is written whole or not at all, and a write the device
reports as done is done (the guide's own assumptions). A log block holds one
operation; in the code operations are packed and may span blocks, so the model
has more log blocks per operation and as many points for a crash. Deletions
and creations are diffs here: a deleted block is written as it was. Checksums,
formatting, requesters and byte codes are left out.

**IOCache.** `lines` are the contents of every line of the volume, with its valid and dirty
blocks, `Empty` when it is not in the cache; `lru` is the order in which the places in it are
reused. An action is a whole call of `read`, `write`, `readbytes`, `writebytes`,
`flushiocache`, `invalidateiocaches` or `setiocache`, with a choice of how many
transfers succeed before one fails; the operators are the functions it calls, from one state
of an operation on its way to the next, and their loops are recursive functions on the number
of turns. The data of a block is abstracted to whether it is what was written last. A
block is `doubtful` after a write of it failed, until it is written again: a failed write
leaves its data valid and clean in the line, although the comment of struct IOCache says that
a valid block is the same as on disk. Two things are left out by guards:

- `~NoBuffer`: getbuffer ignores an error of lruiocache ("Might fail!!  Make sure it never
  does!", cachedio.c:971) and goes on with a pointer that was not set;
- `OverDirty = FALSE`, `Harmless`: the known defect of large buffered writes (finding 4). Such a
  write must not leave other dirty blocks in a line it overlaps. IOCacheOverDirty lets it.

Left out as well: the result of CMD_UPDATE, and locking of the line that `ioc_buffer` points to.

**BTree, AdminSpaces, NodeTree, OperationTree.** An action is a call by a client in its own
transaction; a call without room ends in an error and leaves everything as it
was. In `BTree` the set of blocks allocadminspace can return is a constant, in
`NodeTree` it is the AdminSpaces modelled in full, with areas that run out; the loops of nodes.c,
and the calls of a function by itself, are there a `Repeat` (`Loops`) with a number of turns that is
enough, as is proved. In `OperationTree` the nodes have addresses (`Places` of them for a block) and are moved,
never copied: the walks of transactions.c remove nodes as they go and keep the address
of the next one. A block has two operations at most, of the two levels, with equal keys.
`MCTrees` puts the three trees, which have nothing to do with each other, in one run.

**FileExtents, Defragmenter, Files.** A packet is one step, as it is in the
handler; between the packets the clients and the defragmenter interleave.
`extents` is what the B-tree holds, `files` the first extent and size in the objects,
`gh` and `locks` the handles in memory, `disk` says which block of which file a
block holds, `defragptr` is where the defragmenter will go on. `room` (the choice `Rooms`)
is the number of steps of an operation that succeed before one fails: the volume
is rolled back then, the handles are not, unless the code puts them back. Five
defects of this code would break `PositionsRight` or `IsFileStore` at once. The set
`Lapses` names those that may show; it is empty in the run Files:

| Lapse | What the code does |
| --- | --- |
| `shrink` | finding 3 |
| `read` | ACTION_READ (filesystemmain.c:1895-1910) does not step to the next extent where writetofile does, with a position at the end of an extent |
| `grow` | an empty file whose growth fails keeps the extent that was rolled back as `lock->curextent` (filesystemmain.c:4245, 1776-1820) |
| `merge` | mergeextent (5499) removes an extent that another lock is in when that extent was not moved itself |
| `delete` | a file that deletefileslowly left half deleted can be opened, and has its old size |

**ObjectDirs, LockList, Handler, NameSpace.** `vol` is the volume: the free
administration blocks, the object containers and hash tables by block, the
nodes, the objects by node, and the two counters of deleted files in the root
block. A name is a user's name with the number safedeleteobjectquick adds to it
when the recycled directory has such a name already; `Chain` says which hash
chain it is on. An object with a comment takes two places of the `Room` in
a container, one without takes one. Handling a packet is one step, unless the volume
is full: then `stage` is "full" (the transaction was rolled back), `FreeUpSpace`
flushes and cleans up, and `TryAgain` is the next turn of the loop.
`deletefileslowly` may fail before the end (`stuck`), and the file stays then
without data. `NameSpace` knows nothing of blocks, containers or tries. Three points:

- findcreate looks at `o` again in its second try, and after a first try that
  found no room for the object `o` is the parent directory (objects.c:1218):
  overwriting a file on a full volume then fails with ERROR_OBJECT_EXISTS
  although space was freed. The model does the same; no promise is broken.
- renameobject2 of a file "a" to "a/b" gets the file itself as the new parent
  (only directories are compared with their parents) and then uses the null
  pointer findobject returns for it (objects.c:1888). The model answers with an error.
- setfilesize on a deleted file does not correct the count of deleted
  blocks. `RecycledInfoRight` fails with `Lapses = {"recycled"}`; the run leaves it out.

**PacketLoop, VolumeSet.** `at` is the next thing the loop looks at (a timer's message,
the other's, a disk change, a packet) and `doing` the function it waits in, if any:
initdisk while it reads or locks the DosList, deinitdisk while it flushes or tries to
lock the list. A timer's request is idle, running or sent back; one that is sent while it
runs is "sent twice", which exec does not survive. Of what is on a disk only two
things are kept: whether operations in memory belong to it (`ops`) and whether it can be
mounted. `messages` are those to sdlhtask, which handles all of them with the list locked
once. A handle is a lock or a notify request. A disk inserted while the drive is
inhibited is mounted, as in the code. The environment is assumed to behave; the set
`Lapses` names what it may do all the same, and is empty in the run:

| Lapse | What happens | What breaks |
| --- | --- | --- |
| `cancel` | the user cancels a flush | `TimersRight`, `IsVolumeSet`: the inactivity timer's flag goes although operations are left, so that inhibiting is allowed "when there are no pending changes" (filesystemmain.c:1204) while there are some, and the operations can meet another disk |
| `swap` | another disk is inserted before the handler has seen the first one go | `IsVolumeSet`: the caches and the operations are the first disk's |
| `early` | initdisk gets the DosList for reading while sdlhtask waits for it | `DosListRight`, `IsVolumeSet`: a volume is added twice, or a node that is about to go is used; two removals in a batch |
| `wait` | a client that has locked the DosList waits for the handler, which waits for the list | deadlock |


## 3. Runs

| Run | Instance | Checks |
| --- | --- | --- |
| Transactions | 2 blocks of 2 longwords, 4 buffers, 2 locks, constraint `Bounded` | `Coherent`, `OriginalIsDisk`, `RulesKept` (the "CacheBuffer rules", with the types), `LocksKept`, `BuffersSuffice`, `KeepsPromise` (implements `BlockStore`) |
| TransactionsRollback | 1 block, failing transactions of every kind | `RollbackRestores`, expected to be violated |
| SafeWrite | bitmap, 1 more administration block, 2 other blocks | `TypeOK`, `IInv`, `LogReadable`, `Atomic`, `FlushIsDurable`, `MountEnds` |
| SafeWriteGoOn | the same, clients go on after a cancelled flush | `LogReadable`, expected to be violated |
| FindSpace | 7 blocks in bitmap blocks of 3, needs up to 4 | `FindsSpace`, `LogBlocksDiffer`, `SpacesRight`, `SearchEnds` |
| IOCache | 26 blocks, lines of 8, 4 lines, transfers of up to 8 | `ValidIsDisk`, `NothingLost`, `ReadsReturnLatest`, `FlushIsComplete` |
| IOCacheOverDirty | the same with other writes, `OverDirty` | `ValidIsDisk`, expected to be violated |
| Trees | 11 keys, 4 nodes to a container, `Gaps` = 2; 3 nodes to a leaf, 2 pointers to an index container, 4 areas of 3 blocks; 3 blocks with 2 operations each | `KeysInPlace`, `NodesInPlace`, `OperationsInPlace`, `IsKeySet`, `IsNodeSet`, `IsOperationSet` (implement `KeySet`, `NodeSet`, `OperationSet`) |
| Files | 9 blocks, 4 of them unmoveable; files of up to 3 and 1 blocks, 2 locks | `SFScheckPasses`, `DataInPlace`, `PositionsRight`, `IsFileStore` (implements `FileStore`) |
| FilesShrink | the same, with the lapse `shrink` | `ExtentsExist`, expected to be violated |
| Handler | 2 names and .recycled on one hash chain, 4 nodes, 2 free administration blocks, 2 locks, constraint `FewLocks` | `ObjectsOkay`, `RecycledInfoRight`, `IsNameSpace` (implements `NameSpace`), `PacketsAnswered` |
| PacketLoop | 2 disks with a file system, a client that changes them and one that inhibits the drive and locks the DosList, 1 handle, `MaxNodes` = 2, `Tries` = 2, `MaxInhibits` = 1 | `TimersRight`, `DosListRight`, `IsVolumeSet` (implements `VolumeSet`), `PacketsAnswered`, `DiskMounted`, `ChangesSaved` |

*Bounds.* A block's contents matter only through the longwords a diff sets or
leaves alone: two longwords give a diff that sets one and leaves the other, two
values a change and its undoing. With one block every version of it can be in
the cache, evicted, rebuilt from its operation, restored and flushed; two blocks
add competition for buffers. Four buffers with one lock is the tightest pool in
which one block can be prepared with its original while another is read, and a
flush holds two scratch buffers; with fewer, `BuffersSuffice` rightly fails (the theorem
`SpecBuffersSuffice` asks for two buffers for each lock and two more).
The code never has fewer than `MINCACHESIZE` (32) buffers, which is enough for 15 locks at a time,
but nothing in it relates the two numbers. In SafeWrite the log has up to two blocks,
so a crash can hit it before, between and after them, and one of the Space
blocks is governed by the bitmap and can change from data to log and back. In FindSpace
a run of free blocks can span all three bitmap blocks, the last of which is
partly used, and a need can be larger than a bitmap block; there can be four fragments, one
more than the list of smartfindandmarkspace has room for.

`Bounded` keeps the states of Transactions in which one of the two blocks is
untouched (the other one with all contents and both locks), or in which there
are no contents but zeroes and one lock (both blocks compete for the buffers). `FewGaps`:
eleven keys are the fewest that make three levels of containers of four nodes, and at most
two keys below the highest one in the tree are missing (three reach nothing new, in four
minutes); stealing between containers above the leaves is not reached. Three blocks with two operations
each make red-black trees of six nodes, with all cases of both fixups. Of NodeTree's nodes eleven fill the
three levels, and the fourth area needs a second container of areas. In IOCache
a small write can touch two lines, the last line is cut short, and there is one
line more than the cache holds; the first, second, third or no transfer of a
call fails. In Files the four unmoveable blocks leave gaps of one to
four blocks, an extent has at most two, so the long file has two or three extents, and
every step of the defragmenter happens; locks are interchangeable (symmetry).

In Handler every chain is the same one, a container has room for two objects or for
one with a comment, and the two free blocks are used up by a directory and a
container: a directory has up to three containers, hash chains have up to three
nodes, and most packets can find the volume full. A clean-up follows the second
deleted file instead of the 36th (`MaxDeleted`). `FewLocks` leaves out: two locks, unless both
are on the one object there is (`Few` in `Handler` bounds the grants the same
way); a lock alone under the second id; and of the packets that are tried again those
with a path from a lock, and those that create a link while there is a lock. What is left
out so differs from what is kept in names only, or in locks on other objects.
The limits of a clean-up (10 files, 1024 kB) are out of reach of this instance.

In PacketLoop two volumes are enough for one to be mounted while another one's handles or
messages are on their way, two nodes for one of each; a third volume without a node would be
waiting for one of them. With two tries the list can be locked in both, or freed in
between. A disk without a file system, a second handle and a second inhibit each give the same
steps in more orders.

*Fairness.* `SearchEnds` assumes that a function that was called goes on until it
returns. For `MountEnds`, `Progress` is weakly fair because the
task that mounts a volume does nothing else until checkfortransaction returns,
and `WriteBack` because flushiocache goes through every cached line before it
returns. In PacketLoop `Handler` is weakly fair (the task runs whenever it does not wait), and
so are the timer device and `UnlockList`: nobody keeps the DosList for ever. `InitDiskMounts` and
`SDLHTask`, which wait for that list, are strongly fair: exec's semaphores queue those who wait.
Nothing is assumed of the user (who may cancel), of memory or of the
medium (a load may fail), of the clients or of the power; the property speaks of
a mount after which the power stays on. In Handler `GoesOn` is weakly fair: the task does
nothing else until it has answered the packet. The other specifications
promise safety only and assume no fairness: their calls return within a step.

*Deadlock* is checked in Transactions, SafeWrite, IOCache, Files, Handler and PacketLoop. In
FindSpace calls return, and in Trees what a client can do is bounded.

## 4. Proofs

TLAPS proves these theorems for every value of the constants. Twenty-three properties of the
runs are among them, the refinements `Atomic`, `KeepsPromise`, `IsVolumeSet` and `IsNodeSet` included.

### SafeWrite

`SafeWriteProofs` proves, for every set of blocks, every content and every
reading of the bitmap (`InUse`), with `~GoOn`:

| Theorem | Says |
| --- | --- |
| `Invariance` | `Spec => []IInv` |
| `TypeCorrect` | `Spec => []TypeOK` |
| `LogIsReadable` | `Spec => []LogReadable` |
| `FlushIsAtomic` | `Spec => Atomic`: SafeWrite implements AtomicVolume |
| `FlushDurability` | `Spec => FlushIsDurable` |

Assumptions: `BlocksAssumption` (the bitmap is an administration block, the
blocks' kinds do not overlap), `InUseAssumption`, `ValAssumption`, and `~GoOn`,
that nobody goes on after a cancelled flush; SafeWriteGoOn shows that the last
one is needed.

*Why an inductive invariant is needed.* `LogReadable` says that recovery never
meets a block outside the log. This depends on what the medium held when TRFA
reached it, hence on what had been flushed before TRFA was written, hence on what
was saved. `IInv` says so for each point of the protocol: `AtRest` (medium and
cache agree on the administration blocks, TROK on both), `AtSaving` (all but
the last block of the chain written, in the cache), `AtSaved`, `AtMarked` (chain
and blocks on the medium, TRFA perhaps not), `AtWriting` (TRFA and chain on the
medium; the operations left in memory, made on the cache, give the same blocks as
the whole log made on the medium), `AtCleared` (the blocks on the medium, TROK
perhaps not), `AtOff` and `AtLoading` (the part of the log read so far). A
cancelled flush may be at any of these points.

*The argument.* `UncompressTwice`: making a diff twice is making it once. So
what the log makes of the medium does not change when an operation has been
made (`OperationMade`) or a block written back (`RedoWrittenBack`). The medium's
meaning, `Stable`, changes at one step only: TRFA reaching the medium, which
maps to `Flush` of AtomicVolume (`WriteBackRefines`); every other step maps to
a change by the clients, a crash, a mount or a stutter (`NextRefines`).

### Transactions

For every set of blocks and of buffers, every content and any number of locks
(`TransactionsProofs`, and for the last two `BlockStoreProofs` and `BuffersProofs`):

| Theorem | Says | Assumes |
| --- | --- | --- |
| `SpecOriginalIsDisk` | `Spec => []OriginalIsDisk` | |
| `SpecLocksKept` | `Spec => []LocksKept` | |
| `SpecFlagsKept` | `Spec => [](TypeOK /\ OneOfAKind /\ OriginalStays)` | |
| `SpecRulesKept` | `Spec => []RulesKept` | `~ReuseMayFail` |
| `SpecCoherent` | `Spec => []Coherent` | `~ReuseMayFail` |
| `ImplementsBlockStore` | `Spec => KeepsPromise`: Transactions implements BlockStore | `~ReuseMayFail` |
| `SpecBuffersSuffice` | `Spec => []BuffersSuffice` | `2 * MaxLocks + 2` buffers at least |

`~ReuseMayFail` leaves out the transactions that fail after they freed a block they had
stored, or allocated one they had freed. It is needed: with them `Coherent` and two of
the five rules are false, by finding 1. What does not depend on it is proved without it,
and so holds after that defect has shown too. The other assumptions are that of the
modules: 0 is a longword, `NoBlock` is no block, there is at least one lock.

*The inductive invariant.* The properties speak of what clients see; that a step keeps them
depends on the buffers they do not see. `Inv` has a part about the operations (`OpsInv`)
and one about a cache (`CacheInv(c)`). It is not one about `cache`, because
one call can take two buffers one after the other, and the cache in between must have it
too. `OpsInv`: what the kinds of a block's two operations say about each other and about the
block being in use, now and when the transaction began (`LevelsOK`), and that between
transactions there is nothing at level 1 (`NestOK`). `CacheInv`: the flags of a buffer are one of
four sets (`Shapes`), one original and one latest at most (`Singles`), the original of a changed
buffer is there (`Copies`), originals are as on disk (`DiskCopies`), locks are those of the clients
(`LocksOK`), what is held or prepared is cached (`CachedOK`), a buffer nobody has changed has
no operation, also when deletetransaction has left operations and buffers apart (`CleanOK`),
an original alone belongs to a block with an operation (`OriginalsOK`), and a latest buffer
is what the operation makes of the block on disk, *also when its block was freed*, in which
case it is the operation of the older transactions (`LatestsOK`): deletetransaction brings the block
back with that buffer. `OriginalsOK`, `LatestsOK` and parts of `NestOK` and `LevelsOK` are stated
for `~ReuseMayFail`. TLC found every conjunct inductive, on one block and three
buffers, from every state that satisfies `Inv`, before it was proved.

*The argument* goes by operators: what a cache is after a buffer was taken (`Evicts`), filled
(`Fills`) and split (`Splits`), hence after readcachebuffer (`Reads`), after preparecachebuffer
(`Prepares`) and restorecachebuffer (`Restores`); then one lemma for each action. The hardest
are deletetransaction (`DeleteStep`), which restores all blocks at once, and dumpcachebuffer
(`DumpStep`), with two choices of what is left of the operation.

*The refinement* needs `Coherent` only to get rid of the buffers: what a reader sees of a
block is what its latest operation makes of the block on disk, cached or not (`CacheHidden`). The
rest is about operations: storecachebuffer's makes what the buffer holds of the block
(`Stores`), combineoperations leaves the latest one of each block in use (`Combines`),
and writeoperations puts on disk what the operation made of it before forgetting it
(`WriteStutters`, which also needs `LatestsOK`).

*The buffers:* if none could be reused, each one would hold a block that a client has locked, or its
original, and there are two buffers of a block at most (`TwoPerBlock`, `SomeReusable`). Reading a
changed block takes the second buffer while the first must stay, hence the 2.

### PacketLoop

For any number of disks, clients, handles, volume nodes and attempts (`PacketLoopProofs`):

| Theorem | Says | Assumes |
| --- | --- | --- |
| `SpecTimersRight` | `Spec => []TimersRight` | `"cancel" \notin Lapses` |
| `SpecDosListRight` | `Spec => []DosListRight` | `"early" \notin Lapses` |
| `ImplementsVolumeSet` | `Spec => IsVolumeSet` | `Lapses \subseteq {"wait"}` |

TLC shows that each assumption is needed (section 2). `TimersInv` gives each request's state
with its flags. `ListInv` says which messages can be on their way to sdlhtask at once: none, an
add, a removal, or an add followed by the removal of the same node (`MessagesOK`), because the
handler waits behind sdlhtask before it sends the next. `DiskOK` says at each place of the
loop whose blocks the caches hold, and that operations in memory are those of the mounted disk.

### FindSpace

For every size of the volume and of its bitmap blocks, every bitmap and every search
(`FindSpaceProofs`):

| Theorem | Says |
| --- | --- |
| `SpecFindsSpace` | `Spec => []FindsSpace` |
| `SpecLogBlocksDiffer` | `Spec => []LogBlocksDiffer` |
| `SpecSpacesRight` | `Spec => []SpacesRight`: the two searches of `SpaceAllocation` |

The only assumptions are that the numbers are positive.

*The inductive invariant.* What findspace2 found is right because of what its variables say while
it goes on: it is in the bitmap block it counts, and has as many to read as there are up to the
end of the area (`PlaceOK`); it stops behind a free block only at the edge of a bitmap block or
of the area (`EdgeOK`); `space` counts the free blocks in front of it in this piece of the area, all
of them (`SpaceOK`), which is what a run over the edge of a bitmap block depends on; and no place it
went past is larger than the best one, or as large and nearer to the start (`BestOK`). A place counts
as passed (`Passed`) when it ends in front of the position, and once the search is around the
end of the volume, also when it begins at or behind the start. For the log, the blocks written are
exactly the free ones whose turn, counted from the roving pointer, has come (`LogOK`).

*The argument.* A turn of the inner loop (`SpaceStep`) moves the position to the end of a free space;
any place that ends behind the old position begins at the space's first block or later
(`SpaceIs`, `OnlyLater`), so the blocks that are new to the search hold none that is better than the
space. When a bitmap block has nothing more, a place not passed ends in another one
(`NotPassedHere`), and when the reads are used up there is no other one left (`ReadsLeft`: the
count made in advance is right). For the log, the nearest free block in the area searched has the
next turn (`LogPlaces`). All sets here are of numbers: that one has a least element
(`LeastExists`), which makes `Least` what its name says, comes from the library's theorem that < is
well-founded on Nat.

*The two other searches.* They are loops inside a step, so `SpecSpacesRight` needs of the invariant only the types;
each loop has an invariant of its own, kept by a turn, and something that gets smaller (`RepeatExists`,
`RepeatEnds`). smartfindandmarkspace (`FragmentTurnIs`): measured as the distance behind the start around the end
of the volume (`Behind`), the list holds exactly the free blocks it went past, in fragments that do not overlap,
and no place as large as is needed begins there (`Scanned`); a turn goes on by a block at least, whether the end of
the volume, the start or neither comes next (`ScannedOn`), so that the loop without a counter ends. Dropping keeps
each fragment whole or takes all of it and never goes below what is needed (`DropTurnIs`, `DropIs`), marking cuts the
last one (`MarkedIs`), and fragments that do not overlap have as many blocks as their sizes say (`CardIs`).
findspace2_backwards (`BackwardsTurnIs`): of the places that begin behind the block it looks at next, `best` is the last
of the largest ones (`SeenFrom`), and `space` is exactly what is free at the beginning of the next bitmap block
when it is carried over its edge (`BackwardsOK`).

### IOCache

For every size of the volume, of the lines and of the cache, every set of areas to read and write,
and any number of transfers before one fails (`IOCacheProofs`):

| Theorem | Says | Assumes |
| --- | --- | --- |
| `SpecValidIsDisk` | `Spec => []ValidIsDisk` | `~OverDirty` |
| `SpecNothingLost` | `Spec => []NothingLost` | `~OverDirty` |
| `SpecReadsReturnLatest` | `Spec => []ReadsReturnLatest` | `~OverDirty` |
| `SpecFlushIsComplete` | `Spec => FlushIsComplete` | `~OverDirty` |

`~OverDirty` is needed: without it `ValidIsDisk` is false (finding 4). Of the constants only
`CacheAssumption` is assumed, with the four lines initcachedio insists on.

*The inductive invariant.* `Sound(s, D)` says of a state `s` of an operation on its way, with the blocks `D`
in doubt: no line is twice in the cache (`LruOK`), what is dirty in a line is valid there and the
line is marked as changed, valid blocks are the latest, blocks that are not dirty are on the device
(`LineOK`), and a line outside of the cache is empty (`CachedOK`). The invariant is `Sound` between the
calls, with the types and `ReadsReturnLatest`. It must be about states on their way because one call
takes several lines, copies back others and may stop at an error after each: an error leaves `Sound` with
the same `D` behind wherever it comes, unless data of the client has been put into lines before the
device has it.

*The argument* follows the functions: each one keeps `Sound`, and says which lines stay (validateiocache
completes a line, copybackiocache cleans a run of them, lruiocache empties one, readintocache and
readonwriteintocache bring one in). A write through the cache is `Sound` again only at its end: while it is on its way
the area counts as in doubt (`D \cup area`), and it leaves `D` with the device's answer. This is where the
defect shows: the bounce buffer's copy-back happens with the area in doubt, and only `Harmless` keeps it from
completing an overlapped line. The trick of write, to bring in two lines one after the other and then use both,
needs that the second one does not evict the first, hence more than one place in `lru` (the code's four lines).

*The loops* (over the lines of an area, the lines that follow each other on the disk, the places of the
cache) are recursive functions; that the function exists is itself proved, for any first value
and any step (`LoopExists`), since no induction theorem of the library can be instantiated here.

### NodeTree

For every size of the areas and the containers, every room on the volume and any number of nodes, hence
for trees of every height (`NodeTreeProofs`, about `NodeTree` and `AdminSpaces`):

| Theorem | Says |
| --- | --- |
| `SpecNodesInPlace` | `Spec => []NodesInPlace` |
| `SpecIsNodeSet` | `Spec => IsNodeSet`: NodeTree implements NodeSet |

The assumptions are those of the modules: areas do not overlap and have two blocks at least, a space container has
an entry at least; containers have two nodes or pointers at least, and a leaf has fewer nodes than two
index containers have pointers (in the code it has fewer than one, because a node is larger than a pointer);
the nodes reserved by a format are in the first leaf.

*The inductive invariant.* `NodesInPlace` is what SFScheck sees, and does not say why findnode and
parentnodecontainer end where they should. `IInv` has four parts.

- `Shape`: what a container spans is `LeafNodes` times a power of `NodeContainers`, and less than the root
  spans (`Typed`, `Rooted`); a pointer leads to a container that begins where the pointer says and spans
  what it should, an unused one has no full bit (`Linked`); each container has a pointer to it
  (`Reached`); and two containers of one level have no node in common (`Apart`), which makes
  the pointer the only one, and the way down the same whether it is looked for by findnode, from a number, or
  by parentnodecontainer, from a block.
- `Bits(t, x)`: a full bit says whether the container below is full, which is said of its slots or of its own
  pointers' bits; only the bit of block `x` may be wrong. Between calls none is (`x` is the root, which has no
  bit). That such bits say whether all numbers below are in use follows (`FullIs`), by the
  least container for which it did not.
- `Kept(t, x)`: no container is empty but the root, and while freecontainer is on its way, block `x`.
- `SpacesOkay`: the entries are of different areas, none of them free, and the marked blocks are those of the tree and of
  the chain, which have none in common.

*The argument.* Each loop is a function on the number of turns, which exists (`RepeatExists`), keeps what each
turn keeps, and has ended when its turns are used up because something gets smaller at each one
(`RepeatEnds`): the span on the way down (`FindNodeIs`, `ParentIs`), the room above on the way up
(`MarkParentFullIs`, `MarkParentEmptyIs`, `FreeContainerIs`). createnode goes to the root again after a new level and
stays at a container after it made the one below; its measure `Left` counts both, and a
level is added once at most (`CreateNodeTurnIs`). The loop is always at a container that is not full while the root
is not full (`Going`), so "a damaged full-bit", the branch of createnode that gives up, is never reached. Nor
is an error of freecontainer (`FreeTurn`): the block it gives back is always found in the chain. An error
can only be allocadminspace's, and leaves everything as it was. A container that is freed was not full
before (it had two slots or pointers at least), hence neither were those above it, and no bit above it must
change (`RestKeeps`): freecontainer need not call markparentempty.

*Only model-checked:*

- the liveness properties `MountEnds`, `SearchEnds`, `PacketsAnswered`, `DiskMounted` and
  `ChangesSaved` under fairness, which are out of this prover's reach;
- the properties of `Files`, `Handler`, `BTree` and
  `OperationTree` (`SFScheckPasses`, `DataInPlace`, `PositionsRight`, `IsFileStore`; `ObjectsOkay`,
  `RecycledInfoRight`, `IsNameSpace`; `KeysInPlace`, `IsKeySet`; `OperationsInPlace`, `IsOperationSet`):
  these modules, or those they use, have RECURSIVE operators that follow pointers from block to block or
  search piece by piece, which the prover cannot handle.

## 5. Not modelled, and the plan

1. Proofs about `LockList` (that `MayLock` keeps an exclusive lock alone) and `Handler`, and about the
   other two trees, with `Repeat` in place of the RECURSIVE operators, as in `NodeTree`.
2. FORMAT and SERIALIZE_DISK in the packet loop, packets with locks of a volume that is not
   mounted, a failing MakeDosEntry.
3. The word sizes of bitmap.c (`enoughspace`, fragments above 0xFFFF blocks).
4. Examining a directory: ACTION_EXAMINE_NEXT keeps `lock->nextnodeblock`
   (filesystemmain.c:2223-2365), a container that may be gone by the next call.
5. Growing the pool of buffers (addcachebuffers) and the LRU order; the byte
   codes of compress; the packing of operations in log blocks.

Inside the modelled components these are left out: a flush that fails after a
defragmentation step (2849-2880), the ignored result of deleteextents in
truncateblocksinfile (4309), reading errors and preallocation in `Files`; the liveness of the
defragmenter, of fillgap when there is no room and of smartfindandmarkspace when
all fragments are above 65535 blocks; freeupspace's ignored flush error, with which a packet
on a full volume could be tried for ever; soft links as directories; case
insensitive names; SET_DATE, SET_PROTECT and SET_OWNER; COPY_DIR, SAME_LOCK, and locks of a
volume that is not inserted; what notify requests tell and to whom.

Left out for good: checksums, the layout of names, dates and comments, DOS packet
decoding, requesters, exec device requests, the debug code, the tools.

## 6. Findings

1. *deletetransaction forgets blocks that were stored and then freed*
   (TransactionsRollback). It restores no block whose operation is a deletion,
   although the comment at its head promises all. The block keeps its changed
   buffer, and readers get a version that was rolled back, until the buffer
   happens to be reused.
2. *Going on after a cancelled flush* (SafeWriteGoOn). Nothing protects the
   blocks of a log that TRFA points to, and the file system goes on after it
   recommended a reboot.
3. *A lock at the end of a file that was cut* (FilesShrink). fixlocks moves only the locks
   beyond the new end. A lock that stands exactly at it, but in the extent that begins there,
   keeps an extent that does not exist any more.
4. *A large write loses its data in the cache* (IOCacheOverDirty). write puts the new data into the lines it
   overlaps and clears their dirty bits there, before it transfers anything (cachedio.c:912). With a buffer that is out
   of the device's mask the transfer begins with getbuffer (deviceio.c:675), which copies lines back. When one
   of them is an overlapped line with dirty blocks around a gap, validateiocache reads it from the device and
   replaces all that is not dirty, the new data too (cachedio.c:446-503). The device gets the new data then, the
   line keeps the old, valid and clean, and later reads return it. The struct's comment (cachedio.c:83) says that such
   a block is the same as on disk.

## 7. Hazards without a property

`PROJECT.json` lists every hazard with its line, and a note where no property
covers it: enoughspace's wrap-around, the room for the log when data blocks are
allocated late, fragments of 16 bits, CMD_UPDATE's result, a log that could be read only in
part, the stale buffer in deletefileslowly, and a defragmentation step whose flush fails.
