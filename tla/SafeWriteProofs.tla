-------------------------- MODULE SafeWriteProofs ---------------------------
(***************************************************************************)
(* Proofs about SafeWrite, for every volume, content and log: the flush    *)
(* protocol is crash safe as long as nobody goes on after a cancelled      *)
(* flush.  The inductive invariant says, for each point of the protocol,   *)
(* how what the device cache holds, what the medium holds and what is in   *)
(* memory belong together.                                                 *)
(***************************************************************************)
EXTENDS SafeWrite, TLAPS

\* The first n blocks of the chain are on m, and hold the saved operations.
Written(m, n) ==
  /\ \A i \in 1..n :
       /\ m[log[i]] \in LogBlocks
       /\ m[log[i]].next = IF i < Len(log) THEN log[i + 1] ELSE NoBlock
       /\ m[log[i]].blck \in DOMAIN saved
       /\ m[log[i]].diff = saved[m[log[i]].blck]
  /\ \A b \in DOMAIN saved : \E i \in 1..n : m[log[i]].blck = b

Chain == Len(log) > 0 /\ \A i, j \in 1..Len(log) : log[i] = log[j] => i = j
Complete(m) == Chain /\ Written(m, Len(log))
Marked(m) == m[TF] = TRFA(log[1])

SameOn(S) == \A b \in S : io[b] = disk[b]

\* The operations o are some of the saved ones.
SomeSaved(o) == /\ DOMAIN o \subseteq DOMAIN saved
                /\ \A b \in DOMAIN o : o[b] = saved[b]

AtRest == io[TF] = TROK /\ disk[TF] = TROK /\ SameOn(Admin)

AtSaving == /\ AtRest
            /\ Chain /\ Written(io, Len(log) - 1)
            /\ DOMAIN saved \subseteq DOMAIN ops /\ DOMAIN saved # DOMAIN ops
            /\ \A b \in DOMAIN saved : saved[b] = ops[b]

AtSaved == AtRest /\ Complete(io) /\ saved = ops

AtMarked == /\ Marked(io) /\ (disk[TF] = TROK \/ Marked(disk))
            /\ SameOn(Admin \cup Space)
            /\ Complete(io) /\ saved = ops

AtWriting == /\ Marked(io) /\ Marked(disk)
             /\ SameOn(Space)
             /\ Complete(disk)
             /\ SomeSaved(ops)
             /\ Redo(io, ops) = Redo(disk, saved)

AtCleared == /\ io[TF] = TROK /\ (disk[TF] = TROK \/ Marked(disk))
             /\ SameOn(Admin \cup Space)
             /\ Complete(disk)
             /\ DOMAIN ops = {}
             /\ Redo(disk, ops) = Redo(disk, saved)

Flushing == AtRest \/ AtSaving \/ AtSaved \/ AtMarked \/ AtWriting \/ AtCleared

AtOff == /\ io = disk /\ DOMAIN ops = {}
         /\ disk[TF] = TROK \/ (Marked(disk) /\ Complete(disk))

AtLoading ==
  /\ io = disk /\ Marked(disk) /\ Complete(disk)
  /\ SomeSaved(ops)
  /\ \E j \in 0..Len(log) :
       /\ next = IF j < Len(log) THEN log[j + 1] ELSE NoBlock
       /\ DOMAIN ops = {disk[log[i]].blck : i \in 1..j}

\* The inductive invariant: at each point of flushtransaction and of
\* checkfortransaction, what the medium, the device cache and the memory hold.
IInv == /\ TypeOK
        /\ pc \in {"idle", "start"} => mounted /\ AtRest
        /\ pc = "saving" => AtSaving
        /\ pc = "saved" => AtSaved
        /\ pc = "marked" => AtMarked
        /\ pc = "writing" => AtWriting
        /\ pc = "cleared" => AtCleared
        /\ pc = "cancelled" => Flushing
        /\ pc = "off" => AtOff
        /\ pc = "loading" => AtLoading
        /\ pc = "refused" => AtOff \/ AtLoading
        /\ pc # "broken"

-----------------------------------------------------------------------------
(* Diffs and operations. *)

\* What uncompress makes of a block is a block.
LEMMA UncompressType ==
  ASSUME NEW x \in Content, NEW d \in Diff
  PROVE  Uncompress(x, d) \in Content
  BY DEF Uncompress, Content, Diff

\* What compress makes of two blocks is a diff.
LEMMA CompressType ==
  ASSUME NEW x \in Content, NEW y \in Content
  PROVE  Compress(x, y) \in Diff
  <1> DEFINE S == {c \in Cell : x[c] # y[c]}
  <1>1. [c \in S |-> y[c]] \in [S -> Val]
    BY DEF Content
  <1>2. S \in SUBSET Cell
    OBVIOUS
  <1>3. QED
    BY <1>1, <1>2 DEF Compress, Diff

\* Making a change that is already made changes nothing: this is what lets
\* recovery start again from the first operation.
LEMMA UncompressTwice ==
  ASSUME NEW x, NEW d
  PROVE  Uncompress(Uncompress(x, d), d) = Uncompress(x, d)
  BY DEF Uncompress

\* The operations in memory are diffs for administration blocks.
LEMMA OperationsElements ==
  ASSUME NEW o \in Operations
  PROVE  /\ DOMAIN o \subseteq Admin
         /\ \A b \in DOMAIN o : o[b] \in Diff
         /\ o = [b \in DOMAIN o |-> o[b]]
  BY DEF Operations

LEMMA OperationsIntro ==
  ASSUME NEW B \in SUBSET Admin, NEW o \in [B -> Diff]
  PROVE  o \in Operations
  BY DEF Operations

LEMMA NoOperationsType == NoOperations \in Operations /\ DOMAIN NoOperations = {}
  <1>1. NoOperations \in [{} -> Diff]
    BY DEF NoOperations
  <1>2. QED
    BY <1>1, OperationsIntro DEF NoOperations

\* Redoing operations on administration blocks gives administration blocks.
LEMMA RedoType ==
  ASSUME NEW image, \A b \in Admin : image[b] \in Content,
         NEW o \in Operations
  PROVE  Redo(image, o) \in [Admin -> Content]
  BY OperationsElements, UncompressType DEF Redo

-----------------------------------------------------------------------------
(* Types. *)

\* What the log blocks and TF hold tells them apart.
LEMMA Kinds == /\ \A s : TRFA(s) # TROK /\ TRFA(s).first = s
               /\ \A n, b, d : /\ TRST(n, b, d).id = "TRST"
                               /\ TRST(n, b, d).next = n
                               /\ TRST(n, b, d).blck = b
                               /\ TRST(n, b, d).diff = d
               /\ \A r \in LogBlocks : /\ r.next \in Space \cup {NoBlock}
                                       /\ r.blck \in Admin /\ r.diff \in Diff
  <1>1. \A s : TRFA(s).id = "TRFA" /\ TROK.id = "TROK"
    BY DEF TRFA, TROK
  <1>2. \A s : TRFA(s) # TROK
    BY <1>1
  <1>3. QED
    BY <1>2 DEF TRFA, TRST, LogBlocks

LEMMA TRSTType ==
  ASSUME NEW n \in Space \cup {NoBlock}, NEW b \in Admin, NEW d \in Diff
  PROVE  TRST(n, b, d) \in LogBlocks
  BY DEF TRST, LogBlocks

\* The part of TypeOK about what the blocks hold.
BlocksOK(m) == /\ DOMAIN m = Block
               /\ \A b \in Admin : m[b] \in Content
               /\ \A s \in Space : m[s] \in {Data} \cup LogBlocks
               /\ m[TF] \in {TROK} \cup {TRFA(s) : s \in Space}

LEMMA Unmixed == /\ \A b \in Admin : b \notin Space /\ b # TF /\ b \in Block
                 /\ \A s \in Space : s # TF /\ s \in Block
                 /\ TF \in Block
  BY BlocksAssumption DEF Block

\* A bitmap says of each Space block whether it is in use.
LEMMA UsedType == ASSUME TypeOK PROVE View \in [Admin -> Content]
                                      /\ Used \subseteq Space
  <1>1. View \in [Admin -> Content]
    BY RedoType DEF TypeOK, View
  <1>2. QED
    BY <1>1, BlocksAssumption, InUseAssumption DEF Used

LEMMA InitType == Init => TypeOK
  <1> SUFFICES ASSUME Init PROVE TypeOK
    OBVIOUS
  <1>1. BlocksOK(disk) /\ BlocksOK(io)
    BY DEF Init, BlocksOK
  <1>2. log \in Seq(Space)
    BY DEF Init
  <1>3. QED
    BY <1>1, <1>2, NoOperationsType DEF Init, TypeOK, BlocksOK

\* What the types of the next state rest on while a log is written: the log
\* has a first block, and what is saved are operations in memory.
LogStarted ==
  /\ pc \in {"saving", "saved"} => Len(log) > 0
  /\ pc = "saving" => DOMAIN saved \subseteq DOMAIN ops

LEMMA TypeStep == TypeOK /\ LogStarted /\ [Next]_vars => TypeOK'
  <1> SUFFICES ASSUME TypeOK, LogStarted, [Next]_vars PROVE TypeOK'
    OBVIOUS
  <1> USE DEF TypeOK
  <1>1. BlocksOK(disk) /\ BlocksOK(io)
    BY DEF BlocksOK
  <1>2. CASE UNCHANGED vars
    BY <1>2 DEF vars
  <1>3. CASE Crash
    BY <1>3, <1>1, NoOperationsType DEF Crash, BlocksOK
  <1>4. CASE \/ FlushTransaction \/ NothingToFlush \/ StartWriting \/ CancelFlush
             \/ Loaded \/ LoadFails
    BY <1>4 DEF FlushTransaction, NothingToFlush, StartWriting, CancelFlush,
                Loaded, LoadFails
  <1>5. CASE StartSaving
    BY <1>5, NoOperationsType DEF StartSaving
  <1>6. CASE WriteTRFA
    <2>1. log[1] \in Space
      BY <1>6 DEF WriteTRFA, LogStarted
    <2>2. BlocksOK(io')
      BY <2>1, <1>1, <1>6, Unmixed DEF WriteTRFA, BlocksOK
    <2>3. QED
      BY <2>2, <1>6 DEF WriteTRFA, BlocksOK
  <1>7. CASE WriteTROK
    <2>1. BlocksOK(io')
      BY <1>1, <1>7, Unmixed DEF WriteTROK, BlocksOK
    <2>2. QED
      BY <2>1, <1>7 DEF WriteTROK, BlocksOK
  <1>8. CASE FlushDone
    BY <1>8, NoOperationsType DEF FlushDone
  <1>9. CASE Mount
    <2>1. CASE io[TF] = TROK
      BY <2>1, <1>9, NoOperationsType DEF Mount
    <2>2. CASE io[TF] # TROK
      <3>1. PICK s \in Space : io[TF] = TRFA(s)
        BY <2>2, <1>1 DEF BlocksOK
      <3>2. next' \in Space
        BY <3>1, <2>2, <1>9, Kinds DEF Mount
      <3>3. QED
        BY <3>2, <2>2, <1>9 DEF Mount
    <2>3. QED
      BY <2>1, <2>2
  <1>10. CASE LoadOperation
    <2>1. io[next] \in LogBlocks
      BY <1>10, <1>1 DEF LoadOperation, BlocksOK, Data
    <2>2. ops' \in [DOMAIN ops \cup {io[next].blck} -> Diff]
      BY <2>1, <1>10, Kinds, OperationsElements DEF LoadOperation
    <2>3. ops' \in Operations
      BY <2>1, <2>2, Kinds, OperationsElements, OperationsIntro
    <2>4. QED
      BY <2>1, <2>3, <1>10, Kinds DEF LoadOperation
  <1>11. CASE \E b \in Block : WriteBack(b)
    <2> PICK b \in Block : WriteBack(b)
      BY <1>11
    <2>1. BlocksOK(disk')
      BY <1>1, Unmixed DEF WriteBack, BlocksOK, Block
    <2>2. QED
      BY <2>1 DEF WriteBack, BlocksOK
  <1>12. CASE \E b \in Admin : SaveOperation(b)
    <2> PICK b \in Admin : SaveOperation(b)
      BY <1>12
    <2>1. saved' \in Operations
      <3>1. saved' \in [DOMAIN saved \cup {b} -> Diff]
        BY OperationsElements DEF SaveOperation, LogStarted
      <3>2. QED
        BY <3>1, OperationsElements, OperationsIntro
    <2>2. Last(log) \in Space
      BY DEF SaveOperation, LogStarted, Last
    <2>3. ops[b] \in Diff
      BY OperationsElements DEF SaveOperation
    <2>4. \E n \in Space \cup {NoBlock} :
            io' = [io EXCEPT ![Last(log)] = TRST(n, b, ops[b])]
      BY DEF SaveOperation
    <2>5. BlocksOK(io')
      BY <2>2, <2>3, <2>4, <1>1, TRSTType, Unmixed DEF BlocksOK
    <2>6. log' \in Seq(Space) /\ pc' \in {"saving", "saved"}
      BY DEF SaveOperation
    <2>7. QED
      BY <2>1, <2>5, <2>6 DEF SaveOperation, BlocksOK
  <1>13. CASE \E b \in Admin : WriteOperation(b)
    <2> PICK b \in Admin : WriteOperation(b)
      BY <1>13
    <2>1. ops' \in Operations
      <3>1. ops' \in [DOMAIN ops \ {b} -> Diff]
        BY OperationsElements DEF WriteOperation
      <3>2. QED
        BY <3>1, OperationsElements, OperationsIntro
    <2>2. Uncompress(io[b], ops[b]) \in Content
      BY <1>1, OperationsElements, UncompressType DEF WriteOperation, BlocksOK
    <2>3. BlocksOK(io')
      BY <2>2, <1>1, Unmixed DEF WriteOperation, BlocksOK
    <2>4. QED
      BY <2>1, <2>3 DEF WriteOperation, BlocksOK
  <1>14. CASE \E B \in SUBSET Admin \ {{}} : \E new \in [B -> Content] :
                EndTransaction(B, new)
    <2> PICK B \in SUBSET Admin \ {{}} :
               \E new \in [B -> Content] : EndTransaction(B, new)
      BY <1>14
    <2> PICK new \in [B -> Content] : EndTransaction(B, new)
      OBVIOUS
    <2>1. ops' \in Operations
      <3>1. \A b \in B : Compress(io[b], new[b]) \in Diff
        BY <1>1, CompressType DEF BlocksOK
      <3>2. ops' \in [DOMAIN ops \cup B -> Diff]
        BY <3>1, OperationsElements DEF EndTransaction
      <3>3. QED
        BY <3>2, OperationsElements, OperationsIntro
    <2>2. InUse[Redo(io, ops')[Bitmap]] \subseteq Space
      BY <2>1, <1>1, RedoType, BlocksAssumption, InUseAssumption DEF BlocksOK
    <2>3. \A b \in Block \ Space : io'[b] = io[b]
      BY <2>2 DEF EndTransaction
    <2>4. \A s \in Space : io'[s] \in {Data, io[s]}
      BY Unmixed DEF EndTransaction
    <2>5. BlocksOK(io')
      BY <2>3, <2>4, <1>1, Unmixed DEF EndTransaction, BlocksOK
    <2>6. QED
      BY <2>1, <2>5 DEF EndTransaction, BlocksOK
  <1>15. QED
    BY <1>2, <1>3, <1>4, <1>5, <1>6, <1>7, <1>8, <1>9, <1>10, <1>11, <1>12,
       <1>13, <1>14 DEF Next

-----------------------------------------------------------------------------
(* What a step that leaves part of the state alone keeps. *)

LEMMA Frame ==
  ASSUME UNCHANGED <<disk, io, ops, log, saved>>
  PROVE  /\ AtRest' = AtRest
         /\ AtSaving' = AtSaving
         /\ AtSaved' = AtSaved
         /\ AtMarked' = AtMarked
         /\ AtWriting' = AtWriting
         /\ AtCleared' = AtCleared
         /\ AtOff' = AtOff
         /\ next' = next => AtLoading' = AtLoading
  <1> USE DEF Written, Chain, Complete, Marked, SameOn, SomeSaved, Redo
  <1>1. AtRest' = AtRest
    BY DEF AtRest
  <1>2. AtSaving' = AtSaving
    BY DEF AtSaving, AtRest
  <1>3. AtSaved' = AtSaved
    BY DEF AtSaved, AtRest
  <1>4. AtMarked' = AtMarked
    BY DEF AtMarked
  <1>5. AtWriting' = AtWriting
    BY DEF AtWriting
  <1>6. AtCleared' = AtCleared
    BY DEF AtCleared
  <1>7. AtOff' = AtOff
    BY DEF AtOff
  <1>8. next' = next => (AtLoading' = AtLoading)
    BY DEF AtLoading
  <1>9. QED
    BY <1>1, <1>2, <1>3, <1>4, <1>5, <1>6, <1>7, <1>8

\* The chain is in Space: what the other blocks hold does not matter to it.
LEMMA WrittenOnSpace ==
  ASSUME log \in Seq(Space), NEW m, NEW n, \A s \in Space : n[s] = m[s],
         NEW k \in 0..Len(log), Written(m, k)
  PROVE  Written(n, k)
  <1>1. \A i \in 1..k : n[log[i]] = m[log[i]]
    <2>1. \A i \in 1..k : log[i] \in Space
      OBVIOUS
    <2>2. QED
      BY <2>1
  <1>2. QED
    BY <1>1 DEF Written

LEMMA CompleteOnSpace ==
  ASSUME log \in Seq(Space), NEW m, NEW n, \A s \in Space : n[s] = m[s],
         Complete(m)
  PROVE  Complete(n)
  <1>1. Len(log) \in 0..Len(log)
    OBVIOUS
  <1>2. QED
    BY <1>1, WrittenOnSpace DEF Complete

\* At any time, a TransactionFailure block on the disk points to a log that
\* is on the disk in full.
LEMMA Recoverable ==
  ASSUME IInv
  PROVE  disk[TF] = TROK \/ (Marked(disk) /\ Complete(disk))
  <1> USE DEF IInv, TypeOK
  <1>1. CASE AtRest \/ AtSaving \/ AtSaved
    BY <1>1 DEF AtRest, AtSaving, AtSaved
  <1>2. CASE AtMarked
    <2>1. Complete(disk)
      BY <1>2, CompleteOnSpace DEF AtMarked, SameOn
    <2>2. QED
      BY <1>2, <2>1 DEF AtMarked
  <1>3. CASE AtWriting \/ AtCleared
    BY <1>3 DEF AtWriting, AtCleared
  <1>4. CASE AtOff \/ AtLoading
    BY <1>4 DEF AtOff, AtLoading
  <1>5. QED
    BY <1>1, <1>2, <1>3, <1>4 DEF Flushing

-----------------------------------------------------------------------------
(* The device writes a block back: each point of the protocol is kept. *)

\* Redo is what each block becomes.
LEMMA RedoBlock ==
  ASSUME NEW image, NEW o, NEW b \in Admin
  PROVE  Redo(image, o)[b] = IF b \in DOMAIN o THEN Uncompress(image[b], o[b])
                                               ELSE image[b]
  BY DEF Redo

LEMMA SameRedo ==
  ASSUME NEW m, NEW o, NEW n, NEW p,
         \A b \in Admin : Redo(m, o)[b] = Redo(n, p)[b]
  PROVE  Redo(m, o) = Redo(n, p)
  BY DEF Redo

\* Some operations have been made, some blocks written: redoing all of the
\* log on the disk still gives the same blocks.
LEMMA RedoWrittenBack ==
  ASSUME TypeOK, AtWriting, NEW b \in Block, WriteBack(b)
  PROVE  Redo(disk', saved) = Redo(disk, saved)
  <1> SUFFICES ASSUME NEW a \in Admin
               PROVE  Redo(disk', saved)[a] = Redo(disk, saved)[a]
    BY SameRedo
  <1>1. CASE a # b
    <2>1. disk'[a] = disk[a]
      BY <1>1 DEF WriteBack
    <2>2. QED
      BY <2>1 DEF Redo
  <1>2. CASE a = b
    <2>1. disk'[a] = io[a]
      BY <1>2, Unmixed DEF WriteBack, TypeOK
    <2>2. Redo(io, ops)[a] = Redo(disk, saved)[a]
      BY DEF AtWriting
    <2>3. CASE a \in DOMAIN ops
      BY <2>1, <2>2, <2>3, RedoBlock DEF AtWriting, SomeSaved
    <2>4. CASE a \in DOMAIN saved \ DOMAIN ops
      BY <2>1, <2>2, <2>4, RedoBlock, UncompressTwice
    <2>5. CASE a \notin DOMAIN saved
      BY <2>1, <2>2, <2>5, RedoBlock DEF AtWriting, SomeSaved
    <2>6. QED
      BY <2>3, <2>4, <2>5
  <1>3. QED
    BY <1>1, <1>2

LEMMA WriteBackKeeps ==
  ASSUME TypeOK, NEW b \in Block, WriteBack(b)
  PROVE  /\ AtRest => AtRest'
         /\ AtSaving => AtSaving'
         /\ AtSaved => AtSaved'
         /\ AtMarked => AtMarked'
         /\ AtWriting => AtWriting'
         /\ AtCleared => AtCleared'
  <1> USE DEF TypeOK
  <1>1. /\ UNCHANGED <<io, ops, pc, mounted, next, log, saved>>
        /\ io[b] # disk[b]
        /\ disk' = [disk EXCEPT ![b] = io[b]]
        /\ disk'[b] = io[b]
        /\ \A a \in Block \ {b} : disk'[a] = disk[a]
        /\ \A S \in SUBSET Block : SameOn(S) => b \notin S
    BY DEF WriteBack, SameOn
  <1>2. \A S \in SUBSET Block : SameOn(S) => SameOn(S)'
    BY <1>1 DEF SameOn
  <1>3. Admin \subseteq Block /\ Space \subseteq Block /\ TF \in Block
        /\ Admin \cup Space \subseteq Block
    BY DEF Block
  <1>4. AtRest => AtRest'
    BY <1>1, <1>2, <1>3 DEF AtRest
  <1>5. Written(io, Len(log) - 1)' <=> Written(io, Len(log) - 1)
    BY <1>1 DEF Written
  <1>6. Complete(io)' <=> Complete(io)
    BY <1>1 DEF Written, Complete, Chain
  <1>7. Marked(io)' <=> Marked(io)
    BY <1>1 DEF Marked
  <1>8. AtSaving => AtSaving'
    BY <1>1, <1>4, <1>5 DEF AtSaving, Chain
  <1>9. AtSaved => AtSaved'
    BY <1>1, <1>4, <1>6 DEF AtSaved
  <1>10. ASSUME SameOn(Space), Complete(disk)
         PROVE  Complete(disk)'
    <2>1. \A s \in Space : disk'[s] = disk[s]
      BY <1>1, <1>3, <1>10
    <2>2. Complete(disk')
      BY <2>1, <1>10, CompleteOnSpace
    <2>3. QED
      BY <2>2, <1>1 DEF Complete, Chain, Written
  <1>11. ASSUME SameOn(Admin \cup Space)
         PROVE  SameOn(Admin \cup Space)' /\ b = TF
    BY <1>1, <1>2, <1>3, <1>11 DEF Block
  <1>12. ASSUME Marked(io) PROVE Marked(disk) \/ b = TF => Marked(disk)'
    BY <1>1, <1>3, <1>12 DEF Marked
  <1>13. AtMarked => AtMarked'
    BY <1>1, <1>6, <1>7, <1>11, <1>12 DEF AtMarked
  <1>14. AtWriting => AtWriting'
    <2> SUFFICES ASSUME AtWriting PROVE AtWriting'
      OBVIOUS
    <2>1. SameOn(Space)' /\ Complete(disk)'
      BY <1>2, <1>3, <1>10 DEF AtWriting
    <2>2. Marked(disk)'
      BY <1>12 DEF AtWriting
    <2>3. SomeSaved(ops)'
      BY <1>1 DEF AtWriting, SomeSaved
    <2>4. Redo(io, ops)' = Redo(disk, saved)'
      BY <1>1, RedoWrittenBack DEF AtWriting, Redo
    <2>5. QED
      BY <2>1, <2>2, <2>3, <2>4, <1>7 DEF AtWriting
  <1>15. AtCleared => AtCleared'
    <2> SUFFICES ASSUME AtCleared PROVE AtCleared'
      OBVIOUS
    <2>1. b = TF /\ SameOn(Admin \cup Space)'
      BY <1>11 DEF AtCleared
    <2>2. Complete(disk)'
      BY <1>10 DEF AtCleared, SameOn
    <2>3. disk'[TF] = TROK /\ io'[TF] = TROK
      BY <2>1, <1>1 DEF AtCleared
    <2>4. \A a \in Admin : disk'[a] = disk[a]
      BY <2>1, <1>1, Unmixed
    <2>5. Redo(disk, ops)' = Redo(disk, saved)'
      BY <2>4, <1>1 DEF AtCleared, Redo
    <2>6. QED
      BY <2>1, <2>2, <2>3, <2>5, <1>1 DEF AtCleared
  <1>16. QED
    BY <1>4, <1>8, <1>9, <1>13, <1>14, <1>15

-----------------------------------------------------------------------------
(* The steps of a flush. *)

LEMMA StartSavingStep ==
  ASSUME IInv, StartSaving
  PROVE  AtSaving'
  <1> USE DEF IInv, TypeOK
  <1>1. PICK s \in Space : log' = <<s>>
    BY DEF StartSaving
  <1>2. DOMAIN ops # {}
    BY DEF StartSaving, AtSaving
  <1>3. AtRest'
    BY DEF StartSaving, AtSaving, AtRest, SameOn
  <1>4. Len(log') = 1 /\ log'[1] = s
    BY <1>1
  <1>5. Chain'
    BY <1>4 DEF Chain
  <1>6. DOMAIN saved' = {}
    BY NoOperationsType DEF StartSaving
  <1>7. Written(io, Len(log) - 1)'
    BY <1>4, <1>6 DEF Written
  <1>8. ops' = ops
    BY DEF StartSaving
  <1>9. QED
    BY <1>2, <1>3, <1>5, <1>6, <1>7, <1>8 DEF AtSaving

LEMMA SaveOperationStep ==
  ASSUME IInv, NEW b \in Admin, SaveOperation(b)
  PROVE  IF pc' = "saved" THEN AtSaved' ELSE pc' = "saving" /\ AtSaving'
  <1> DEFINE k == Len(log)
  <1>1. /\ TypeOK /\ AtSaving /\ pc = "saving"
        /\ b \in DOMAIN ops \ DOMAIN saved
        /\ saved' = [x \in DOMAIN saved \cup {b} |-> ops[x]]
        /\ UNCHANGED <<disk, ops>>
    BY DEF IInv, SaveOperation
  <1>2. k \in Nat \ {0} /\ \A i \in 1..k : log[i] \in Space
    BY <1>1 DEF AtSaving, Chain, TypeOK
  <1>3. ops[b] \in Diff
    BY <1>1, OperationsElements DEF TypeOK
  <1>4. /\ DOMAIN saved' = DOMAIN saved \cup {b}
        /\ \A x \in DOMAIN saved' : saved'[x] = ops[x]
        /\ \A x \in DOMAIN saved : saved'[x] = saved[x]
    BY <1>1 DEF AtSaving
  <1>0. PICK n \in Space \cup {NoBlock} :
          /\ io' = [io EXCEPT ![log[k]] = TRST(n, b, ops[b])]
          /\ \/ /\ DOMAIN saved' = DOMAIN ops /\ n = NoBlock
                /\ log' = log /\ pc' = "saved"
             \/ /\ DOMAIN saved' # DOMAIN ops /\ n \in Space \ Listed(log)
                /\ log' = Append(log, n) /\ pc' = "saving"
    BY <1>1 DEF SaveOperation, Last
  <1>5. /\ AtRest'
        /\ \A i \in 1..k - 1 : io'[log[i]] = io[log[i]]
        /\ io'[log[k]] = TRST(n, b, ops[b])
        /\ \A x \in DOMAIN saved' : \E i \in 1..k : io'[log[i]].blck = x
        /\ \A i \in 1..k : /\ io'[log[i]] \in LogBlocks
                           /\ io'[log[i]].blck \in DOMAIN saved'
                           /\ io'[log[i]].diff = saved'[io'[log[i]].blck]
    <2>1. \A a \in Admin \cup {TF} : io'[a] = io[a]
      BY <1>2, <1>0, Unmixed
    <2>2. AtRest'
      BY <2>1, <1>1 DEF AtSaving, AtRest, SameOn
    <2>3. \A i \in 1..k - 1 : io'[log[i]] = io[log[i]]
      BY <1>1, <1>2, <1>0 DEF AtSaving, Chain
    <2>4. io'[log[k]] = TRST(n, b, ops[b])
      BY <1>1, <1>2, <1>0, Unmixed DEF TypeOK
    <2>5. io'[log[k]] \in LogBlocks
      BY <2>4, <1>3, TRSTType
    <2>6. io'[log[k]].blck = b /\ io'[log[k]].diff = ops[b]
      BY <2>4, Kinds
    <2>7. ASSUME NEW x \in DOMAIN saved'
          PROVE  \E i \in 1..k : io'[log[i]].blck = x
      <3>1. CASE x = b
        BY <3>1, <2>6, <1>2
      <3>2. CASE x \in DOMAIN saved
        <4>1. PICK i \in 1..k - 1 : io[log[i]].blck = x
          BY <3>2, <1>1 DEF AtSaving, Written
        <4>2. i \in 1..k /\ io'[log[i]].blck = x
          BY <4>1, <2>3, <1>2
        <4>3. QED
          BY <4>2
      <3>3. QED
        BY <3>1, <3>2, <1>4
    <2>8. ASSUME NEW i \in 1..k
          PROVE  /\ io'[log[i]] \in LogBlocks
                 /\ io'[log[i]].blck \in DOMAIN saved'
                 /\ io'[log[i]].diff = saved'[io'[log[i]].blck]
      <3>1. CASE i = k
        BY <3>1, <2>5, <2>6, <1>4
      <3>2. CASE i \in 1..k - 1
        <4>1. /\ io[log[i]] \in LogBlocks
              /\ io[log[i]].blck \in DOMAIN saved
              /\ io[log[i]].diff = saved[io[log[i]].blck]
          BY <3>2, <1>1 DEF AtSaving, Written
        <4>2. QED
          BY <4>1, <3>2, <2>3, <1>4
      <3>3. QED
        BY <3>1, <3>2, <1>2
    <2>9. QED
      BY <2>2, <2>3, <2>4, <2>7, <2>8
  <1>6. \A i \in 1..k - 1 : io[log[i]].next = log[i + 1]
    BY <1>1, <1>2 DEF AtSaving, Written
  <1>7. CASE pc' = "saved"
    <2>1. DOMAIN saved' = DOMAIN ops /\ n = NoBlock /\ log' = log
      BY <1>0, <1>7
    <2>2. \A i \in 1..k :
            io'[log[i]].next = IF i < k THEN log[i + 1] ELSE NoBlock
      <3>1. io'[log[k]].next = NoBlock
        BY <2>1, <1>5, Kinds
      <3>2. \A i \in 1..k - 1 : io'[log[i]].next = log[i + 1]
        BY <1>5, <1>6
      <3>3. \A i \in 1..k : IF i < k THEN i \in 1..k - 1 ELSE i = k
        BY <1>2
      <3>4. QED
        BY <3>1, <3>2, <3>3
    <2>3. Written(io, Len(log))'
      BY <2>1, <2>2, <1>5 DEF Written
    <2>4. Complete(io)'
      BY <2>1, <2>3, <1>1 DEF Complete, AtSaving, Chain
    <2>5. saved' = ops
      BY <2>1, <1>1, <1>4, OperationsElements DEF TypeOK
    <2>6. QED
      BY <2>4, <2>5, <1>1, <1>5, <1>7 DEF AtSaved
  <1>8. CASE pc' # "saved"
    <2>1. /\ DOMAIN saved' # DOMAIN ops /\ n \in Space \ Listed(log)
          /\ log' = Append(log, n) /\ pc' = "saving"
      BY <1>0, <1>8
    <2>2. /\ Len(log') = k + 1 /\ log'[k + 1] = n
          /\ \A i \in 1..k : log'[i] = log[i]
      BY <2>1, <1>1 DEF TypeOK
    <2>3. Chain'
      <3>1. \A i \in 1..k : log[i] # n
        BY <2>1, <1>1 DEF Listed, TypeOK
      <3>2. QED
        BY <3>1, <2>2, <1>1, <1>2 DEF Chain, AtSaving
    <2>4. \A i \in 1..k : io'[log[i]].next = log'[i + 1]
      <3>1. io'[log[k]].next = log'[k + 1]
        BY <2>2, <1>5, Kinds
      <3>2. \A i \in 1..k - 1 : io'[log[i]].next = log[i + 1]
        BY <1>5, <1>6
      <3>3. \A i \in 1..k - 1 : log'[i + 1] = log[i + 1]
        BY <1>2, <2>2
      <3>4. \A i \in 1..k : i = k \/ i \in 1..k - 1
        BY <1>2
      <3>5. QED
        BY <3>1, <3>2, <3>3, <3>4
    <2>5. Written(io, Len(log) - 1)'
      <3>1. Len(log') - 1 = k /\ \A i \in 1..k : i < Len(log')
        BY <2>2, <1>2
      <3>2. \A i \in 1..k : log'[i] = log[i]
        BY <2>2
      <3>3. \A i \in 1..k :
              /\ io'[log'[i]] \in LogBlocks
              /\ io'[log'[i]].next =
                   IF i < Len(log') THEN log'[i + 1] ELSE NoBlock
              /\ io'[log'[i]].blck \in DOMAIN saved'
              /\ io'[log'[i]].diff = saved'[io'[log'[i]].blck]
        BY <3>1, <3>2, <2>4, <1>5
      <3>4. \A x \in DOMAIN saved' : \E i \in 1..k : io'[log'[i]].blck = x
        BY <3>2, <1>5
      <3>5. QED
        BY <3>1, <3>3, <3>4 DEF Written
    <2>6. DOMAIN saved' \subseteq DOMAIN ops
      BY <1>1, <1>4 DEF AtSaving
    <2>7. QED
      BY <2>1, <2>3, <2>5, <2>6, <1>1, <1>4, <1>5, <1>8 DEF AtSaving
  <1>9. QED
    BY <1>7, <1>8

LEMMA WriteTRFAStep ==
  ASSUME IInv, WriteTRFA
  PROVE  AtMarked'
  <1> USE DEF IInv, TypeOK
  <1>1. AtSaved /\ io = disk /\ log[1] \in Space
    BY DEF WriteTRFA, Flushed, AtSaved, Complete, Chain
  <1>2. /\ io' = [io EXCEPT ![TF] = TRFA(log[1])]
        /\ UNCHANGED <<disk, ops, next, log, saved>>
    BY DEF WriteTRFA
  <1>3. /\ io'[TF] = TRFA(log[1])
        /\ \A a \in Admin \cup Space : io'[a] = io[a]
    BY <1>2, Unmixed
  <1>4. Complete(io')
    BY <1>1, <1>3, CompleteOnSpace DEF AtSaved
  <1>5. Complete(io)'
    BY <1>2, <1>4 DEF Complete, Chain, Written
  <1>6. QED
    BY <1>1, <1>2, <1>3, <1>5 DEF AtMarked, AtSaved, AtRest, Marked, SameOn

LEMMA StartWritingStep ==
  ASSUME IInv, StartWriting
  PROVE  AtWriting'
  <1>1. AtMarked /\ io = disk /\ UNCHANGED <<disk, io, ops, log, saved>>
    BY DEF IInv, StartWriting, Flushed
  <1>2. AtWriting
    BY <1>1 DEF AtMarked, AtWriting, SomeSaved, SameOn
  <1>3. QED
    BY <1>1, <1>2, Frame

\* Making an operation does not change what the blocks become.
LEMMA OperationMade ==
  ASSUME TypeOK, NEW b \in Admin, WriteOperation(b)
  PROVE  Redo(io', ops') = Redo(io, ops)
  <1>1. /\ b \in DOMAIN ops
        /\ io' = [io EXCEPT ![b] = Uncompress(io[b], ops[b])]
        /\ ops' = [x \in DOMAIN ops \ {b} |-> ops[x]]
        /\ DOMAIN io = Block
    BY DEF WriteOperation, TypeOK
  <1> SUFFICES ASSUME NEW a \in Admin
               PROVE  Redo(io', ops')[a] = Redo(io, ops)[a]
    BY SameRedo
  <1>2. CASE a = b
    <2>1. io'[b] = Uncompress(io[b], ops[b])
      BY <1>1, Unmixed
    <2>2. QED
      BY <1>2, <2>1, <1>1 DEF Redo
  <1>3. CASE a # b
    <2>1. io'[a] = io[a]
      BY <1>3, <1>1, Unmixed
    <2>2. QED
      BY <1>3, <2>1, <1>1 DEF Redo
  <1>4. QED
    BY <1>2, <1>3

LEMMA WriteOperationStep ==
  ASSUME IInv, NEW b \in Admin, WriteOperation(b)
  PROVE  AtWriting'
  <1> USE DEF IInv, TypeOK
  <1>1. /\ AtWriting /\ b \in DOMAIN ops
        /\ io' = [io EXCEPT ![b] = Uncompress(io[b], ops[b])]
        /\ ops' = [x \in DOMAIN ops \ {b} |-> ops[x]]
        /\ UNCHANGED <<disk, log, saved>>
    BY DEF WriteOperation
  <1>2. \A a \in Block \ {b} : io'[a] = io[a]
    BY <1>1
  <1>3. Marked(io)' /\ SameOn(Space)'
    BY <1>1, <1>2, Unmixed DEF AtWriting, Marked, SameOn
  <1>4. Marked(disk)' /\ Complete(disk)'
    BY <1>1 DEF AtWriting, Marked, Complete, Chain, Written
  <1>5. SomeSaved(ops)'
    BY <1>1 DEF AtWriting, SomeSaved
  <1>6. Redo(io, ops)' = Redo(disk, saved)'
    BY <1>1, OperationMade DEF AtWriting, Redo
  <1>7. QED
    BY <1>3, <1>4, <1>5, <1>6 DEF AtWriting

LEMMA WriteTROKStep ==
  ASSUME IInv, WriteTROK
  PROVE  AtCleared'
  <1> USE DEF IInv, TypeOK
  <1>1. /\ AtWriting /\ io = disk /\ DOMAIN ops = {}
        /\ io' = [io EXCEPT ![TF] = TROK]
        /\ UNCHANGED <<disk, ops, next, log, saved>>
    BY DEF WriteTROK, Flushed
  <1>2. io'[TF] = TROK /\ SameOn(Admin \cup Space)'
    BY <1>1, Unmixed DEF SameOn
  <1>3. Marked(disk)' /\ Complete(disk)'
    BY <1>1 DEF AtWriting, Marked, Complete, Chain, Written
  <1>4. Redo(disk, ops)' = Redo(disk, saved)'
    BY <1>1 DEF AtWriting, Redo
  <1>5. QED
    BY <1>1, <1>2, <1>3, <1>4 DEF AtCleared

LEMMA EndTransactionStep ==
  ASSUME IInv, NEW B \in SUBSET Admin \ {{}}, NEW new \in [B -> Content],
         EndTransaction(B, new)
  PROVE  AtRest'
  <1> USE DEF IInv, TypeOK
  <1>1. TypeOK'
    <2>1. LogStarted
      BY DEF EndTransaction, LogStarted
    <2>2. Next
      BY DEF Next
    <2>3. QED
      BY <2>1, <2>2, TypeStep
  <1>2. InUse[Redo(io, ops')[Bitmap]] \subseteq Space
    <2>1. ops' \in Operations /\ \A b \in Admin : io[b] \in Content
      BY <1>1
    <2>2. QED
      BY <2>1, RedoType, BlocksAssumption, InUseAssumption
  <1>3. \A b \in Admin \cup {TF} : io'[b] = io[b]
    BY <1>2, Unmixed DEF EndTransaction
  <1>4. AtRest /\ disk' = disk
    BY DEF EndTransaction
  <1>5. QED
    BY <1>3, <1>4 DEF AtRest, SameOn

-----------------------------------------------------------------------------
(* The steps that begin and end a flush or a recovery. *)

LEMMA CrashStep ==
  ASSUME IInv, Crash
  PROVE  AtOff'
  <1>1. /\ io' = disk /\ ops' = NoOperations
        /\ UNCHANGED <<disk, log, saved>>
    BY DEF Crash
  <1>2. Marked(disk)' = Marked(disk) /\ Complete(disk)' = Complete(disk)
    BY <1>1 DEF Marked, Complete, Chain, Written
  <1>3. QED
    BY <1>1, <1>2, Recoverable, NoOperationsType DEF AtOff

LEMMA MountStep ==
  ASSUME IInv, Mount
  PROVE  IF pc' = "idle" THEN AtRest' ELSE pc' = "loading" /\ AtLoading'
  <1>1. AtOff /\ UNCHANGED <<disk, io, ops>>
    BY DEF IInv, Mount
  <1>2. CASE io[TF] = TROK
    BY <1>1, <1>2 DEF AtOff, AtRest, SameOn, Mount
  <1>3. CASE io[TF] # TROK
    <2>1. /\ pc' = "loading" /\ next' = io[TF].first
          /\ UNCHANGED <<log, saved>>
      BY <1>3 DEF Mount
    <2>2. Marked(disk)' /\ Complete(disk)'
      BY <2>1, <1>1, <1>3 DEF AtOff, Marked, Complete, Chain, Written
    <2>3. 0 \in 0..Len(log) /\ 0 < Len(log) /\ next' = log[0 + 1]
      BY <2>1, <1>1, <1>3, Kinds DEF AtOff, Marked, Complete, Chain, IInv, TypeOK
    <2>4. DOMAIN ops = {disk[log[i]].blck : i \in 1..0}
      BY <1>1 DEF AtOff
    <2>5. SomeSaved(ops)'
      BY <2>1, <1>1 DEF AtOff, SomeSaved
    <2>6. QED
      BY <2>1, <2>2, <2>3, <2>4, <2>5, <1>1 DEF AtOff, AtLoading
  <1>4. QED
    BY <1>2, <1>3 DEF Mount

\* Loading goes along the chain.
LEMMA OnChain ==
  ASSUME TypeOK, NEW j \in 0..Len(log), next # NoBlock,
         next = IF j < Len(log) THEN log[j + 1] ELSE NoBlock
  PROVE  j + 1 \in 1..Len(log) /\ next = log[j + 1] /\ next \in Space
  BY DEF TypeOK

LEMMA LoadOperationStep ==
  ASSUME IInv, LoadOperation
  PROVE  AtLoading'
  <1>1. AtLoading /\ next # NoBlock /\ TypeOK
    BY DEF IInv, LoadOperation
  <1>2. PICK j \in 0..Len(log) :
               /\ next = IF j < Len(log) THEN log[j + 1] ELSE NoBlock
               /\ DOMAIN ops = {disk[log[i]].blck : i \in 1..j}
    BY <1>1 DEF AtLoading
  <1>3. /\ ops' = [x \in DOMAIN ops \cup {io[next].blck} |->
                     IF x = io[next].blck THEN io[next].diff ELSE ops[x]]
        /\ next' = io[next].next
        /\ UNCHANGED <<disk, io, log, saved>>
    BY DEF LoadOperation
  <1>4. j + 1 \in 1..Len(log) /\ next = log[j + 1]
    BY <1>1, <1>2, OnChain
  <1>5. /\ io[next].next =
             IF j + 1 < Len(log) THEN log[j + 1 + 1] ELSE NoBlock
        /\ io[next].blck \in DOMAIN saved
        /\ io[next].diff = saved[io[next].blck]
        /\ io = disk
    BY <1>1, <1>4 DEF AtLoading, Complete, Written
  <1>6. SomeSaved(ops)'
    BY <1>1, <1>3, <1>5 DEF AtLoading, SomeSaved
  <1>7. DOMAIN ops' = {disk[log[i]].blck : i \in 1..j + 1}
    <2>1. 1..j + 1 = (1..j) \cup {j + 1}
      BY <1>2
    <2>2. DOMAIN ops' = {disk[log[i]].blck : i \in 1..j} \cup {disk[log[j + 1]].blck}
      BY <1>2, <1>3, <1>4, <1>5
    <2>3. QED
      BY <2>1, <2>2
  <1>8. Marked(disk)' /\ Complete(disk)'
    BY <1>1, <1>3 DEF AtLoading, Marked, Complete, Chain, Written
  <1>9. QED
    BY <1>3, <1>4, <1>5, <1>6, <1>7, <1>8 DEF AtLoading

\* When the chain has been read to its end, all of the log is in memory.
LEMMA LoadedStep ==
  ASSUME IInv, Loaded
  PROVE  AtWriting'
  <1>1. /\ AtLoading /\ next = NoBlock /\ TypeOK
        /\ UNCHANGED <<disk, io, ops, next, log, saved>>
    BY DEF IInv, Loaded
  <1>2. PICK j \in 0..Len(log) :
               /\ next = IF j < Len(log) THEN log[j + 1] ELSE NoBlock
               /\ DOMAIN ops = {disk[log[i]].blck : i \in 1..j}
    BY <1>1 DEF AtLoading
  <1>3. j = Len(log)
    <2>1. j < Len(log) => log[j + 1] \in Space
      BY <1>1, <1>2 DEF TypeOK
    <2>2. QED
      BY <2>1, <1>1, <1>2, BlocksAssumption DEF TypeOK
  <1>4. DOMAIN ops = DOMAIN saved
    BY <1>1, <1>2, <1>3 DEF AtLoading, Complete, Written, SomeSaved
  <1>5. \A a \in Admin : Redo(io, ops)[a] = Redo(disk, saved)[a]
    BY <1>1, <1>4 DEF AtLoading, SomeSaved, Redo
  <1>6. Redo(io, ops) = Redo(disk, saved)
    BY <1>5, SameRedo
  <1>7. AtWriting
    BY <1>1, <1>6 DEF AtLoading, AtWriting, Marked, SameOn
  <1>8. QED
    BY <1>1, <1>7, Frame

\* Following the chain never leaves it.
LEMMA NeverBroken ==
  ASSUME IInv, LoadFails
  PROVE  pc' = "refused"
  <1> SUFFICES ASSUME next # NoBlock, io[next].id # "TRST"
               PROVE  FALSE
    BY DEF LoadFails
  <1>1. AtLoading /\ TypeOK
    BY DEF IInv, LoadFails
  <1>2. PICK j \in 0..Len(log) :
               next = IF j < Len(log) THEN log[j + 1] ELSE NoBlock
    BY <1>1 DEF AtLoading
  <1>3. j + 1 \in 1..Len(log) /\ next = log[j + 1]
    BY <1>1, <1>2, OnChain
  <1>4. io[next] \in LogBlocks
    BY <1>1, <1>3 DEF AtLoading, Complete, Written
  <1>5. QED
    BY <1>4 DEF LogBlocks

-----------------------------------------------------------------------------
(* The invariant. *)

LEMMA InitIInv == Init => IInv
  <1> SUFFICES ASSUME Init PROVE IInv
    OBVIOUS
  <1>1. AtRest
    BY DEF Init, AtRest, SameOn
  <1>2. QED
    BY <1>1, InitType DEF Init, IInv

LEMMA NextIInv ==
  ASSUME ~GoOn, IInv, [Next]_vars
  PROVE  IInv'
  <1>1. LogStarted
    BY DEF IInv, LogStarted, AtSaving, AtSaved, Complete, Chain
  <1>2. TypeOK'
    BY <1>1, TypeStep DEF IInv
  <1> USE DEF IInv
  <1>3. CASE UNCHANGED vars
    BY <1>2, <1>3, Frame DEF vars, Flushing
  <1>4. CASE Crash
    BY <1>2, <1>4, CrashStep DEF Crash
  <1>5. CASE FlushTransaction
    BY <1>2, <1>5, Frame DEF FlushTransaction
  <1>6. CASE NothingToFlush
    BY <1>2, <1>6, Frame DEF NothingToFlush
  <1>7. CASE StartSaving
    BY <1>2, <1>7, StartSavingStep DEF StartSaving
  <1>8. CASE WriteTRFA
    BY <1>2, <1>8, WriteTRFAStep DEF WriteTRFA
  <1>9. CASE StartWriting
    BY <1>2, <1>9, StartWritingStep DEF StartWriting
  <1>10. CASE WriteTROK
    BY <1>2, <1>10, WriteTROKStep DEF WriteTROK
  <1>11. CASE FlushDone
    <2>1. AtRest'
      BY <1>11 DEF FlushDone, Flushed, AtCleared, AtRest, SameOn
    <2>2. QED
      BY <1>2, <1>11, <2>1 DEF FlushDone
  <1>12. CASE CancelFlush
    <2>1. Flushing'
      BY <1>12, Frame DEF CancelFlush, Flushing
    <2>2. QED
      BY <1>2, <1>12, <2>1 DEF CancelFlush
  <1>13. CASE Mount
    BY <1>2, <1>13, MountStep DEF Mount
  <1>14. CASE LoadOperation
    BY <1>2, <1>14, LoadOperationStep DEF LoadOperation
  <1>15. CASE Loaded
    BY <1>2, <1>15, LoadedStep DEF Loaded
  <1>16. CASE LoadFails
    BY <1>2, <1>16, NeverBroken, Frame DEF LoadFails
  <1>18. CASE \E b \in Block : WriteBack(b)
    <2> PICK b \in Block : WriteBack(b)
      BY <1>18
    <2>1. pc' = pc /\ mounted' = mounted /\ io # disk
      BY DEF WriteBack
    <2>2. pc \notin {"off", "loading", "refused"}
      BY <2>1 DEF AtOff, AtLoading
    <2>3. QED
      BY <1>2, <2>1, <2>2, WriteBackKeeps DEF Flushing
  <1>19. CASE \E b \in Admin : SaveOperation(b)
    BY <1>2, <1>19, SaveOperationStep
  <1>20. CASE \E b \in Admin : WriteOperation(b)
    BY <1>2, <1>20, WriteOperationStep DEF WriteOperation
  <1>21. CASE \E B \in SUBSET Admin \ {{}} : \E new \in [B -> Content] :
                EndTransaction(B, new)
    BY <1>2, <1>21, EndTransactionStep DEF EndTransaction
  <1>22. QED
    BY <1>3, <1>4, <1>5, <1>6, <1>7, <1>8, <1>9, <1>10, <1>11, <1>12, <1>13,
       <1>14, <1>15, <1>16, <1>18, <1>19, <1>20, <1>21 DEF Next

\* The protocol keeps its invariant, for every volume.  (Going on after a
\* cancelled flush breaks it: see the run SafeWriteGoOn.)
THEOREM Invariance ==
  ASSUME ~GoOn
  PROVE  Spec => []IInv
  <1>1. Init => IInv
    BY InitIInv
  <1>2. IInv /\ [Next]_vars => IInv'
    BY NextIInv
  <1>3. QED
    BY <1>1, <1>2, PTL DEF Spec

\* Log blocks, TRFA and the operations in memory keep the form recovery reads.
THEOREM TypeCorrect ==
  ASSUME ~GoOn
  PROVE  Spec => []TypeOK
  <1>1. IInv => TypeOK
    BY DEF IInv
  <1>2. QED
    BY <1>1, Invariance, PTL

\* Recovery always finds the whole log: TRFA never points to anything else.
THEOREM LogIsReadable ==
  ASSUME ~GoOn
  PROVE  Spec => []LogReadable
  <1>1. IInv => LogReadable
    BY DEF IInv, LogReadable
  <1>2. QED
    BY <1>1, Invariance, PTL

-----------------------------------------------------------------------------
(* The administration blocks change all at once: SafeWrite implements      *)
(* AtomicVolume.  The step that changes them is the one that brings TRFA   *)
(* to the medium.                                                          *)

LEMMA SavedType ==
  ASSUME TypeOK
  PROVE  Stable \in [Admin -> Content] /\ Pending \in [Admin -> Content]
  <1>1. \A o \in {NoOperations, saved, ops} :
          /\ Redo(disk, o) \in [Admin -> Content]
          /\ Redo(io, o) \in [Admin -> Content]
    BY RedoType, NoOperationsType DEF TypeOK
  <1>2. QED
    BY <1>1 DEF Stable, Pending, View

\* Steps that leave the medium and the saved operations alone, or find TROK
\* on the medium.
LEMMA StableKept ==
  ASSUME disk' = disk, saved' = saved \/ disk[TF] = TROK
  PROVE  Stable' = Stable
  BY DEF Stable, Redo, NoOperations

LEMMA ViewKept ==
  ASSUME ops' = ops, \A b \in Admin : io'[b] = io[b]
  PROVE  View' = View
  <1>1. \A b \in Admin : Redo(io', ops')[b] = Redo(io, ops)[b]
    BY DEF Redo
  <1>2. QED
    BY <1>1, SameRedo DEF View, Redo

\* With nothing in memory, what the clients see is what the medium holds.
LEMMA NothingPending ==
  ASSUME DOMAIN ops = {}, io = disk, disk[TF] = TROK
  PROVE  View = Stable
  <1>1. \A b \in Admin : Redo(io, ops)[b] = Redo(disk, NoOperations)[b]
    BY NoOperationsType DEF Redo
  <1>2. QED
    BY <1>1, SameRedo DEF View, Stable

Up(p) == p \notin {"off", "loading", "broken", "refused"}

\* TRFA reaching the medium is a flush of the volume; any other block reaching
\* it changes nothing.
LEMMA WriteBackRefines ==
  ASSUME IInv, NEW b \in Block, WriteBack(b)
  PROVE  /\ View' = View
         /\ Stable' = Stable \/ Stable' = View
  <1> USE DEF IInv
  <1>1. /\ UNCHANGED <<io, ops, pc, mounted, next, log, saved>>
        /\ io[b] # disk[b]
        /\ \A a \in Block \ {b} : disk'[a] = disk[a]
        /\ disk'[b] = io[b]
    BY DEF WriteBack, TypeOK
  <1>2. View' = View
    BY <1>1, ViewKept
  <1>3. CASE AtRest \/ AtSaving \/ AtSaved
    <2>1. AtRest
      BY <1>3 DEF AtSaving, AtSaved
    <2>2. \A a \in Admin \cup {TF} : disk'[a] = disk[a] /\ disk[TF] = TROK
      BY <2>1, <1>1, Unmixed DEF AtRest, SameOn
    <2>3. \A a \in Admin :
            Redo(disk', NoOperations)[a] = Redo(disk, NoOperations)[a]
      BY <2>2, NoOperationsType DEF Redo
    <2>4. Stable' = Redo(disk', NoOperations) /\ Stable = Redo(disk, NoOperations)
      BY <2>2 DEF Stable, Redo, NoOperations
    <2>5. QED
      BY <1>2, <2>3, <2>4, SameRedo
  <1>4. CASE AtMarked
    <2>1. b = TF /\ disk'[TF] = TRFA(log[1])
      BY <1>1, <1>4 DEF AtMarked, SameOn, Block, Marked
    <2>2. Stable' = Redo(disk', saved)
      BY <2>1, <1>1, Kinds DEF Stable, Redo
    <2>3. \A a \in Admin : Redo(disk', saved)[a] = Redo(io, ops)[a]
      BY <2>1, <1>1, <1>4, Unmixed DEF AtMarked, SameOn, Redo
    <2>4. QED
      BY <1>2, <2>2, <2>3, SameRedo DEF View
  <1>5. CASE AtWriting
    <2>1. b # TF /\ disk'[TF] = disk[TF] /\ disk[TF] # TROK
      BY <1>1, <1>5, Unmixed, Kinds DEF AtWriting, Marked
    <2>2. Stable = Redo(disk, saved) /\ Stable' = Redo(disk', saved)
      BY <2>1, <1>1 DEF Stable, Redo
    <2>3. QED
      BY <1>2, <1>5, <2>2, RedoWrittenBack
  <1>6. CASE AtCleared
    <2>1. b = TF /\ disk'[TF] = TROK /\ disk[TF] # TROK
      BY <1>1, <1>6 DEF AtCleared, SameOn, Block
    <2>2. Stable = Redo(disk, saved) /\ Stable' = Redo(disk', NoOperations)
      BY <2>1, <1>1 DEF Stable, Redo, NoOperations
    <2>3. \A a \in Admin : Redo(disk', NoOperations)[a] = Redo(disk, ops)[a]
      BY <2>1, <1>1, <1>6, Unmixed, NoOperationsType DEF AtCleared, Redo
    <2>4. QED
      BY <1>2, <1>6, <2>2, <2>3, SameRedo DEF AtCleared
  <1>7. CASE AtOff \/ AtLoading
    BY <1>1, <1>7 DEF AtOff, AtLoading
  <1>8. QED
    BY <1>3, <1>4, <1>5, <1>6, <1>7 DEF TypeOK, Flushing

LEMMA InitRefines == Init => Volume!Init
  <1> SUFFICES ASSUME Init PROVE Volume!Init
    OBVIOUS
  <1>1. Stable \in [Admin -> Content]
    BY InitType, SavedType
  <1>2. View = Stable
    BY NoOperationsType, NothingPending DEF Init
  <1>3. QED
    BY <1>1, <1>2 DEF Init, Volume!Init, Pending

LEMMA NextRefines ==
  ASSUME ~GoOn, IInv, [Next]_vars
  PROVE  [Volume!Next]_Volume!vars
  <1>0. IInv'
    BY NextIInv
  <1> USE DEF IInv
  <1> DEFINE Same == Stable' = Stable /\ Pending' = Pending /\ mounted' = mounted
  <1>a. Same => [Volume!Next]_Volume!vars
    BY DEF Volume!vars
  <1>b. Volume!Change \/ Volume!Flush \/ Volume!Crash \/ Volume!Mount
          => [Volume!Next]_Volume!vars
    BY DEF Volume!Next
  <1>1. CASE UNCHANGED vars
    BY <1>1, <1>a, StableKept, ViewKept DEF vars, Pending
  <1>2. CASE Crash
    <2>1. Stable' = Stable /\ Pending' = Stable' /\ mounted' = FALSE
      BY <1>2, StableKept DEF Crash, Pending
    <2>2. QED
      BY <2>1, <1>b DEF Volume!Crash
  <1>3. CASE FlushTransaction \/ NothingToFlush \/ StartWriting \/ CancelFlush
    <2>1. UNCHANGED <<disk, io, ops, mounted, saved>> /\ Up(pc) /\ Up(pc')
      BY <1>3 DEF FlushTransaction, NothingToFlush, StartWriting, CancelFlush, Up
    <2>2. QED
      BY <2>1, <1>a, StableKept, ViewKept DEF Pending, Up
  <1>4. CASE StartSaving
    <2>1. disk[TF] = TROK
      BY <1>4 DEF StartSaving, AtRest, AtSaving
    <2>2. QED
      BY <2>1, <1>4, <1>a, StableKept, ViewKept DEF StartSaving, Pending
  <1>5. CASE \E b \in Admin : SaveOperation(b)
    <2> PICK b \in Admin : SaveOperation(b)
      BY <1>5
    <2>1. /\ disk' = disk /\ ops' = ops /\ mounted' = mounted
          /\ Up(pc) /\ Up(pc') /\ AtSaving
          /\ \E e : io' = [io EXCEPT ![Last(log)] = e]
      BY DEF SaveOperation, Up
    <2>2. disk[TF] = TROK /\ Last(log) \in Space
      BY <2>1 DEF AtSaving, AtRest, Chain, Last, TypeOK
    <2>3. \A a \in Admin : io'[a] = io[a]
      BY <2>1, <2>2, Unmixed
    <2>4. QED
      BY <2>1, <2>2, <2>3, <1>a, StableKept, ViewKept DEF Pending, Up
  <1>6. CASE WriteTRFA \/ WriteTROK
    <2>1. /\ UNCHANGED <<disk, ops, mounted, saved>> /\ Up(pc) /\ Up(pc')
          /\ \E e : io' = [io EXCEPT ![TF] = e]
      BY <1>6 DEF WriteTRFA, WriteTROK, Up
    <2>2. \A a \in Admin : io'[a] = io[a]
      BY <2>1, Unmixed
    <2>3. QED
      BY <2>1, <2>2, <1>a, StableKept, ViewKept DEF Pending, Up
  <1>7. CASE \E b \in Admin : WriteOperation(b)
    <2> PICK b \in Admin : WriteOperation(b)
      BY <1>7
    <2>1. UNCHANGED <<disk, mounted, saved>> /\ Up(pc) /\ Up(pc')
      BY DEF WriteOperation, Up
    <2>2. View' = View
      BY OperationMade DEF View, Redo
    <2>3. QED
      BY <2>1, <2>2, <1>a, StableKept DEF Pending, Up
  <1>8. CASE FlushDone
    <2>1. /\ UNCHANGED <<disk, io, ops>> /\ mounted' = TRUE
          /\ Up(pc) /\ Up(pc') /\ disk[TF] = TROK
      BY <1>8 DEF FlushDone, Flushed, AtCleared, Up
    <2>2. Stable' = Stable /\ Pending' = Pending
      BY <2>1, StableKept, ViewKept DEF Pending, Up
    <2>3. QED
      BY <2>1, <2>2, <1>b DEF Volume!Mount
  <1>9. CASE Mount
    <2>1. AtOff /\ UNCHANGED <<disk, io, ops>> /\ pc = "off"
      BY <1>9 DEF Mount
    <2>2. CASE io[TF] = TROK
      <3>1. Stable' = Stable /\ Pending = Stable /\ View' = View /\ View = Stable
        BY <2>1, <2>2, StableKept, ViewKept, NothingPending DEF AtOff, Pending
      <3>2. pc' = "idle" /\ mounted' = TRUE
        BY <1>9, <2>2 DEF Mount
      <3>3. QED
        BY <3>1, <3>2, <1>b DEF Volume!Mount, Pending
    <2>3. CASE io[TF] # TROK
      <3>1. saved' = saved /\ mounted' = mounted /\ pc' = "loading"
        BY <1>9, <2>3 DEF Mount
      <3>2. QED
        BY <2>1, <3>1, <1>a, StableKept DEF Pending
    <2>4. QED
      BY <2>2, <2>3
  <1>10. CASE LoadOperation \/ LoadFails
    <2>1. UNCHANGED <<disk, mounted, saved>> /\ ~Up(pc) /\ ~Up(pc')
      BY <1>10 DEF LoadOperation, LoadFails, Up
    <2>2. QED
      BY <2>1, <1>a, StableKept DEF Pending, Up
  <1>11. CASE Loaded
    <2>1. /\ UNCHANGED <<disk, io, ops, mounted, saved>>
          /\ pc = "loading" /\ pc' = "writing" /\ AtWriting'
      BY <1>11, LoadedStep DEF Loaded
    <2>2. Stable' = Stable /\ Pending = Stable /\ Pending' = View'
      BY <2>1, StableKept DEF Pending
    <2>3. View' = Redo(io', ops') /\ Stable' = Redo(disk', saved')
      BY <2>1, Kinds DEF View, Stable, AtWriting, Marked, Redo
    <2>4. Redo(io', ops') = Redo(disk', saved')
      BY <2>1 DEF AtWriting, Redo
    <2>5. QED
      BY <2>1, <2>2, <2>3, <2>4, <1>a
  <1>12. CASE \E b \in Block : WriteBack(b)
    <2> PICK b \in Block : WriteBack(b)
      BY <1>12
    <2>1. UNCHANGED <<pc, mounted>> /\ io # disk
      BY DEF WriteBack
    <2>2. Pending = View /\ Pending' = View'
      BY <2>1 DEF Pending, AtOff, AtLoading
    <2>3. QED
      BY <2>1, <2>2, <1>a, <1>b, WriteBackRefines DEF Volume!Flush
  <1>13. CASE \E B \in SUBSET Admin \ {{}} : \E new \in [B -> Content] :
                EndTransaction(B, new)
    <2>1. disk' = disk /\ saved' = saved /\ mounted' = mounted /\ pc = "idle"
      BY <1>13 DEF EndTransaction
    <2>2. Pending' \in [Admin -> Content]
      <3>1. TypeOK'
        BY <1>0
      <3>2. (Pending \in [Admin -> Content])'
        BY <3>1, SavedType, PTL
      <3>3. QED
        BY <3>2
    <2>3. QED
      BY <2>1, <2>2, <1>b, StableKept DEF Volume!Change
  <1>14. QED
    BY <1>1, <1>2, <1>3, <1>4, <1>5, <1>6, <1>7, <1>8, <1>9, <1>10, <1>11,
       <1>12, <1>13 DEF Next

\* A volume changes from one flushed state to the next, whatever the power,
\* the device cache and the clients do.
THEOREM FlushIsAtomic ==
  ASSUME ~GoOn
  PROVE  Spec => Atomic
  <1>1. Init => Volume!Init
    BY InitRefines
  <1>2. IInv /\ [Next]_vars => [Volume!Next]_Volume!vars
    BY NextRefines
  <1>3. QED
    BY <1>1, <1>2, Invariance, PTL DEF Spec, Atomic, Volume!Spec

\* When a flush returns without an error, what the clients see is safe.
THEOREM FlushDurability ==
  ASSUME ~GoOn
  PROVE  Spec => FlushIsDurable
  <1>1. IInv /\ [Next]_vars
          => [pc = "cleared" /\ pc' = "idle" /\ ~GoOn => Stable = View]_vars
    <2> SUFFICES ASSUME IInv, Next, pc = "cleared", pc' = "idle"
                 PROVE  Stable = View
      OBVIOUS
    <2>1. FlushDone
      BY DEF Next, Crash, FlushTransaction, NothingToFlush, StartSaving,
             WriteTRFA, StartWriting, WriteTROK, CancelFlush, Mount,
             LoadOperation, Loaded, LoadFails, WriteBack,
             SaveOperation, WriteOperation, EndTransaction
    <2>2. QED
      BY <2>1, NothingPending DEF FlushDone, Flushed, IInv, AtCleared
  <1>2. QED
    BY <1>1, Invariance, PTL DEF Spec, FlushIsDurable
=============================================================================
