----------------------------- MODULE SafeWrite ------------------------------
(***************************************************************************)
(* How the changes collected in memory reach the disk (flushtransaction,   *)
(* savetransaction, writeoperations and removetransactionfailure in        *)
(* transactions.c) and how they are made again after a crash               *)
(* (checkfortransaction, loadtransaction), on a copy-back cache of the     *)
(* device that writes what it holds in any order until it is flushed       *)
(* (flushiocache in cachedio.c).                                           *)
(*                                                                         *)
(* A flush saves the operations in a chain of free blocks (the log), then  *)
(* writes the TransactionFailure block (TRFA) that points to the chain,    *)
(* then overwrites the blocks, then replaces TRFA by TransactionOK (TROK). *)
(* Between these steps it flushes the copy-back cache.  Power may fail at  *)
(* any point; mounting the volume starts from what the disk holds.         *)
(*                                                                         *)
(* Blocks are written whole or not at all, and a write the device reports  *)
(* as done is done (the assumptions of SFS.guide).  A log block holds one  *)
(* operation; in the code operations are packed and may span blocks.       *)
(***************************************************************************)
EXTENDS Naturals, FiniteSets, Sequences, BlockDiffs

CONSTANTS Admin,           \* the administration blocks
          Space,           \* the other blocks: file data, logs, or free
          Bitmap,          \* the administration block that says which
          InUse,           \* ... Space blocks hold file data: its reading
          TF,              \* the block that holds TRFA or TROK (root + 2)
          NoBlock,         \* the end of a chain
          GoOn             \* do the clients go on after a cancelled flush,
                           \* or follow the advice to reboot?

ASSUME BlocksAssumption == /\ Bitmap \in Admin
                           /\ Admin \cap Space = {}
                           /\ TF \notin Admin \cup Space
                           /\ NoBlock \notin Space
ASSUME InUseAssumption == InUse \in [Content -> SUBSET Space]

VARIABLES disk,     \* what the medium holds
          io,       \* what the device cache holds, or else the medium
          ops,      \* the operations in memory: a diff for some of Admin
          pc,       \* what the file system task is at
          mounted,  \* the volume is mounted: a flush is not a recovery
          next,     \* the log block loadtransaction reads next
          log,      \* the chain of the last log saved
          saved     \* the operations in that log

vars == <<disk, io, ops, pc, mounted, next, log, saved>>

Block == Admin \cup Space \cup {TF}

(* What Space blocks and TF hold. *)
Data == [id |-> "DATA"]
TRST(n, b, d) == [id |-> "TRST", next |-> n, blck |-> b, diff |-> d]
TRFA(s) == [id |-> "TRFA", first |-> s]
TROK == [id |-> "TROK"]

Operations == UNION {[B -> Diff] : B \in SUBSET Admin}
NoOperations == [b \in {} |-> EmptyDiff]

\* The administration blocks of image, with the operations o made.
Redo(image, o) ==
  [b \in Admin |-> IF b \in DOMAIN o THEN Uncompress(image[b], o[b])
                                     ELSE image[b]]

View == Redo(io, ops)
Used == InUse[View[Bitmap]]

Init == /\ disk \in [Block -> Content \cup {Data, TROK}]
        /\ \A b \in Admin : disk[b] \in Content
        /\ \A s \in Space : disk[s] = Data
        /\ disk[TF] = TROK
        /\ io = disk
        /\ ops = NoOperations
        /\ pc = "idle" /\ mounted = TRUE
        /\ next = NoBlock /\ log = <<>> /\ saved = NoOperations

-----------------------------------------------------------------------------
(* The device. *)

\* The copy-back cache writes a block when it likes.
WriteBack(b) == /\ io[b] # disk[b]
                /\ disk' = [disk EXCEPT ![b] = io[b]]
                /\ UNCHANGED <<io, ops, pc, mounted, next, log, saved>>

\* A wrong flushiocache, for TLC: it leaves blocks in the cache.
FlushedNothing == TRUE

\* flushiocache has returned without an error.
Flushed == io = disk

Crash == /\ pc # "off"
         /\ pc' = "off" /\ mounted' = FALSE
         /\ io' = disk
         /\ ops' = NoOperations
         /\ next' = NoBlock
         /\ UNCHANGED <<disk, log, saved>>

-----------------------------------------------------------------------------
(* The clients. *)

\* A transaction ends: the diffs of the blocks B with the disk replace the
\* older ones.  File data goes to the device at once.
EndTransaction(B, new) ==
  /\ pc = "idle"
  /\ ops' = [b \in DOMAIN ops \cup B |->
               IF b \in B THEN Compress(io[b], new[b]) ELSE ops[b]]
  /\ LET written == InUse[Redo(io, ops')[Bitmap]] \ Used
     IN io' = [b \in Block |-> IF b \in written THEN Data ELSE io[b]]
  /\ UNCHANGED <<disk, pc, mounted, next, log, saved>>

-----------------------------------------------------------------------------
(* flushtransaction *)

FlushTransaction == /\ pc = "idle"
                    /\ pc' = "start"
                    /\ UNCHANGED <<disk, io, ops, mounted, next, log, saved>>

NothingToFlush == /\ pc = "start" /\ Flushed /\ DOMAIN ops = {}
                  /\ pc' = "idle"
                  /\ UNCHANGED <<disk, io, ops, mounted, next, log, saved>>

Last(q) == q[Len(q)]
Listed(q) == {q[i] : i \in DOMAIN q}

\* savetransaction looks for the first block of the chain.  When it fails the
\* user may choose Retry: it starts over.
StartSaving ==
  /\ \/ pc = "start" /\ Flushed /\ DOMAIN ops # {}
     \/ pc = "saving"
  /\ \E s \in Space \ Used : log' = <<s>>
  /\ saved' = NoOperations
  /\ pc' = "saving"
  /\ UNCHANGED <<disk, io, ops, mounted, next>>

\* It writes the block it has found, after it has found the next one if there
\* are operations left: findspace goes on from the last block it returned.
SaveOperation(b) ==
  /\ pc = "saving" /\ b \in DOMAIN ops \ DOMAIN saved
  /\ saved' = [x \in DOMAIN saved \cup {b} |-> ops[x]]
  /\ \/ /\ DOMAIN saved' = DOMAIN ops
        /\ io' = [io EXCEPT ![Last(log)] = TRST(NoBlock, b, ops[b])]
        /\ pc' = "saved"
        /\ UNCHANGED log
     \/ /\ DOMAIN saved' # DOMAIN ops
        /\ \E s \in Space \ (Used \cup Listed(log)) :
             /\ io' = [io EXCEPT ![Last(log)] = TRST(s, b, ops[b])]
             /\ log' = Append(log, s)
        /\ UNCHANGED pc
  /\ UNCHANGED <<disk, ops, mounted, next>>

\* A wrong WriteTRFA, for TLC: savetransaction did not say where the log begins.
WriteTRFANowhere == /\ pc = "saved" /\ Flushed
                    /\ io' = [io EXCEPT ![TF] = TRFA(NoBlock)]
                    /\ pc' = "marked"
                    /\ UNCHANGED <<disk, ops, mounted, next, log, saved>>

WriteTRFA == /\ pc = "saved" /\ Flushed
             /\ io' = [io EXCEPT ![TF] = TRFA(log[1])]
             /\ pc' = "marked"
             /\ UNCHANGED <<disk, ops, mounted, next, log, saved>>

StartWriting == /\ pc = "marked" /\ Flushed
                /\ pc' = "writing"
                /\ UNCHANGED <<disk, io, ops, mounted, next, log, saved>>

\* One turn of writeoperations: the operation is made and forgotten.
WriteOperation(b) ==
  /\ pc = "writing" /\ b \in DOMAIN ops
  /\ io' = [io EXCEPT ![b] = Uncompress(io[b], ops[b])]
  /\ ops' = [x \in DOMAIN ops \ {b} |-> ops[x]]
  /\ UNCHANGED <<disk, pc, mounted, next, log, saved>>

\* Wrong WriteTROKs, for TLC: without the first flushiocache, and after a
\* writeoperations that stopped half way.
WriteTROKEarly == /\ pc = "writing" /\ DOMAIN ops = {}
                  /\ io' = [io EXCEPT ![TF] = TROK]
                  /\ pc' = "cleared"
                  /\ UNCHANGED <<disk, ops, mounted, next, log, saved>>

WriteTROKHalfWay == /\ pc = "writing" /\ Flushed
                    /\ io' = [io EXCEPT ![TF] = TROK]
                    /\ pc' = "cleared"
                    /\ UNCHANGED <<disk, ops, mounted, next, log, saved>>

\* removetransactionfailure
WriteTROK == /\ pc = "writing" /\ DOMAIN ops = {} /\ Flushed
             /\ io' = [io EXCEPT ![TF] = TROK]
             /\ pc' = "cleared"
             /\ UNCHANGED <<disk, ops, mounted, next, log, saved>>

FlushDone == /\ pc = "cleared" /\ Flushed
             /\ pc' = "idle" /\ mounted' = TRUE
             /\ log' = <<>> /\ saved' = NoOperations
             /\ UNCHANGED <<disk, io, ops, next>>

\* A wrong CancelFlush, for TLC: going on as if nothing had happened.
CancelFlushAndGoOn ==
  /\ pc \in {"start", "saving", "saved", "marked", "writing", "cleared"}
  /\ pc' = "idle"
  /\ UNCHANGED <<disk, io, ops, mounted, next, log, saved>>

\* A read or a write failed, or there was no room for the log, and the user
\* chose Cancel.
CancelFlush ==
  /\ pc \in {"start", "saving", "saved", "marked", "writing", "cleared"}
  /\ pc' = IF GoOn /\ mounted THEN "idle" ELSE "cancelled"
  /\ UNCHANGED <<disk, io, ops, mounted, next, log, saved>>

-----------------------------------------------------------------------------
(* Mounting a volume: checkfortransaction. *)

Mount == /\ pc = "off"
         /\ IF io[TF] = TROK
              THEN /\ pc' = "idle" /\ mounted' = TRUE /\ UNCHANGED next
                   /\ log' = <<>> /\ saved' = NoOperations
              ELSE /\ pc' = "loading" /\ next' = io[TF].first
                   /\ UNCHANGED <<mounted, log, saved>>
         /\ UNCHANGED <<disk, io, ops>>

\* A wrong LoadOperation, for TLC: it reads the same block again and again.
LoadOperationAgain ==
  /\ pc = "loading" /\ next # NoBlock /\ io[next].id = "TRST"
  /\ ops' = [x \in DOMAIN ops \cup {io[next].blck} |->
               IF x = io[next].blck THEN io[next].diff ELSE ops[x]]
  /\ UNCHANGED <<disk, io, pc, mounted, next, log, saved>>

\* One turn of loadtransaction, on a block that is a log block.
LoadOperation ==
  /\ pc = "loading" /\ next # NoBlock /\ io[next].id = "TRST"
  /\ ops' = [x \in DOMAIN ops \cup {io[next].blck} |->
               IF x = io[next].blck THEN io[next].diff ELSE ops[x]]
  /\ next' = io[next].next
  /\ UNCHANGED <<disk, io, pc, mounted, log, saved>>

Loaded == /\ pc = "loading" /\ next = NoBlock
          /\ pc' = "writing"
          /\ UNCHANGED <<disk, io, ops, mounted, next, log, saved>>

\* A read error or a lack of memory, and the volume is not mounted; or worse,
\* the chain leads to a block that is not a log block.
LoadFails ==
  /\ pc = "loading"
  /\ pc' = IF next # NoBlock /\ io[next].id # "TRST" THEN "broken"
                                                     ELSE "refused"
  /\ UNCHANGED <<disk, io, ops, mounted, next, log, saved>>

-----------------------------------------------------------------------------
Next ==
  \/ Crash \/ FlushTransaction \/ NothingToFlush \/ StartSaving
  \/ WriteTRFA \/ StartWriting \/ WriteTROK \/ FlushDone \/ CancelFlush
  \/ Mount \/ LoadOperation \/ Loaded \/ LoadFails
  \/ \E b \in Block : WriteBack(b)
  \/ \E b \in Admin : SaveOperation(b) \/ WriteOperation(b)
  \/ \E B \in SUBSET Admin \ {{}} : \E new \in [B -> Content] :
       EndTransaction(B, new)

Spec == Init /\ [][Next]_vars

-----------------------------------------------------------------------------
(* What the scheme is for. *)

LogBlocks == [id : {"TRST"}, next : Space \cup {NoBlock}, blck : Admin,
              diff : Diff]

\* What the blocks, the operations and the points of the protocol can be.
TypeOK ==
  /\ \A m \in {disk, io} :
       /\ DOMAIN m = Block
       /\ \A b \in Admin : m[b] \in Content
       /\ \A s \in Space : m[s] \in {Data} \cup LogBlocks
       /\ m[TF] \in {TROK} \cup {TRFA(s) : s \in Space}
  /\ ops \in Operations /\ saved \in Operations
  /\ pc \in {"off", "idle", "start", "saving", "saved", "marked", "writing",
             "cleared", "cancelled", "loading", "broken", "refused"}
  /\ mounted \in BOOLEAN
  /\ next \in Space \cup {NoBlock}
  /\ log \in Seq(Space)

\* Loading the log after a crash never meets a block that is not part of it.
LogReadable == pc # "broken"

\* What a mount would bring back: the log counts when TRFA points to it.
Stable == Redo(disk, IF disk[TF] = TROK THEN NoOperations ELSE saved)

\* What the clients see, or will see when the volume is mounted.
Pending == IF pc \in {"off", "loading", "broken", "refused"} THEN Stable
                                                             ELSE View

\* "The filesystem ensures that its structure is never in an invalid state on
\* the disk" (SFS.guide): the administration blocks change all at once, when
\* TRFA reaches the disk, and a crash costs what came after the last flush.
Volume == INSTANCE AtomicVolume WITH
  stable <- Stable, pending <- Pending, up <- mounted
Atomic == Volume!Spec

\* A flush that returns without an error has brought everything to the disk.
FlushIsDurable ==
  [][pc = "cleared" /\ pc' = "idle" /\ ~GoOn => Stable = View]_vars

-----------------------------------------------------------------------------
(* The file system task goes on with what it is doing, and flushiocache    *)
(* writes every block it holds before it returns.  Nothing is assumed of   *)
(* the user, of the clients, or of the power.                              *)
Progress == \/ Mount \/ LoadOperation \/ Loaded \/ WriteTROK \/ FlushDone
            \/ \E b \in Admin : WriteOperation(b)

FairSpec == /\ Spec
            /\ WF_vars(Progress)
            /\ WF_vars(\E b \in Block : WriteBack(b))

\* When the power stays on, a volume with an unfinished flush is mounted with
\* the flush finished, or the user is told that it cannot be.
MountEnds == <>[](pc # "off")
               => [](pc = "loading" =>
                       <>(\/ pc = "idle" /\ disk[TF] = TROK
                          \/ pc \in {"refused", "cancelled"}))
=============================================================================
