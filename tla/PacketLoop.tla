------------------------------ MODULE PacketLoop ------------------------------
(***************************************************************************)
(* The handler's main loop (filesystemmain.c): packets, the two timers     *)
(* that flush changes, disks that come and go, and the volume nodes in the *)
(* system's DosList, which another task (sdlhtask) changes for the handler *)
(* because that list may be locked for long.                               *)
(*                                                                         *)
(* at is the place in the loop, doing the function it waits in, if any:    *)
(* initdisk reading or locking the list, deinitdisk flushing or trying to  *)
(* lock the list.  Of what is on a disk only two things are kept here:     *)
(* whether operations in memory belong to it, and whether it can be        *)
(* mounted.  A flush is one step; it waits in a requester while there is   *)
(* no disk to write to.  A handle is a lock or a notify request.           *)
(***************************************************************************)
EXTENDS Naturals, Sequences, FiniteSets, SequencesExt

CONSTANTS Disks, DosDisks, NoDisk,
          Clients, NoClient,
          Sends,         \* Sends[c]: the packets that client c sends
          ListLockers,   \* the clients that lock the DosList
          Handles,
          MaxNodes,      \* volume nodes in memory
          Tries,         \* of attemptlockdoslist
          MaxInhibits,
          Lapses         \* what the environment may do all the same

VolumeNodes == 1..MaxNodes

ASSUME LoopAssumption ==
  /\ DosDisks \subseteq Disks /\ NoDisk \notin Disks /\ NoClient \notin Clients
  /\ {MaxNodes, Tries, MaxInhibits} \subseteq Nat \ {0}
  /\ ListLockers \subseteq Clients
  /\ Lapses \subseteq {"cancel", "swap", "early", "wait"}

VARIABLES
  drive, diskchanged,     \* the disk in the drive; the change interrupt's flag
  at, doing, tries,       \* where the handler is
  disktype, volumenode, inhibitnestcounter,
  locklist,               \* the handles of the mounted volume
  cached, ops,            \* whose blocks the caches hold; whose operations
  timers,                 \* both timers, with their flags
  nodes, list, messages,  \* volume nodes; the DosList; messages to sdlhtask
  holder,                 \* who else has locked the DosList
  request, port, packet   \* the clients' packets; the queue; the one handled

device == <<drive, diskchanged>>
place == <<at, doing, tries>>
volume == <<disktype, volumenode, locklist>>
memory == <<cached, ops>>
dos == <<nodes, list, messages>>
packets == <<request, port, packet>>
vars == <<device, place, volume, inhibitnestcounter, memory, timers, dos,
          holder, packets>>

\* What an ordinary packet is shows when it is received.
Requests == {"ordinary", "inhibit", "uninhibit"}
Free == [disk |-> NoDisk, handles |-> {}]
Mounted == IF volumenode = 0 THEN NoDisk ELSE nodes[volumenode].disk

-----------------------------------------------------------------------------
(* The timers.  A request is idle, running, or sent back to its port.        *)

Running(req) == IF req = "idle" THEN "running" ELSE "sent twice"

\* A wrong StartTimeout, for TLC: each change puts the flush off.
StartTimeoutAgain(t) ==
  [t EXCEPT
     !.timerreset = t.pendingchanges,
     !.pendingchanges = TRUE,
     !.inactivity = IF t.pendingchanges THEN @ ELSE Running(@),
     !.activitytimeractive = TRUE,
     !.activity = "running"]

StartTimeout(t) ==
  [t EXCEPT
     !.timerreset = t.pendingchanges,
     !.pendingchanges = TRUE,
     !.inactivity = IF t.pendingchanges THEN @ ELSE Running(@),
     !.activitytimeractive = TRUE,
     !.activity = IF t.activitytimeractive THEN @ ELSE Running(@)]

\* A wrong StopTimeout, for TLC: the flag stays.
StopTimeoutQuietly(t) ==
  IF ~t.pendingchanges THEN t
  ELSE [t EXCEPT !.inactivity = "idle", !.timerreset = FALSE]

StopTimeout(t) ==
  IF ~t.pendingchanges THEN t
  ELSE [t EXCEPT !.inactivity = "idle", !.pendingchanges = FALSE,
                 !.timerreset = FALSE]

\* After transfers, if there were any.
Touched(t, transfers) == IF transfers THEN StartTimeout(t) ELSE t

(* flushtransaction.  Without operations it copies back what the device cache *)
(* holds, if that is anything.  It waits for a disk; the user can give up.   *)
FlushTransaction(t, transfers) ==
  IF ops = {} THEN Touched(t, transfers) ELSE StopTimeout(StartTimeout(t))
Flushes(t) ==
  {[timers |-> FlushTransaction(t, transfers), ops |-> {}] :
     transfers \in IF ops = {} \/ drive # NoDisk THEN BOOLEAN ELSE {}}
  \cup
  {[timers |-> Touched(t, transfers), ops |-> ops] :
     transfers \in IF ops # {} /\ "cancel" \in Lapses THEN BOOLEAN ELSE {}}

-----------------------------------------------------------------------------
(* Where the loop is.  Each turn looks for the messages of the two timers,   *)
(* a disk change and a packet, in this order; it sleeps when there is none.  *)

Event == <<timers.activity = "sent", timers.inactivity = "sent", diskchanged,
           port # <<>>>>
Ahead(k) == (k + 4 - at) % 4
Turn(k) ==
  /\ doing = "loop" /\ Event[k]
  /\ \A j \in 1..4 : Event[j] => Ahead(k) <= Ahead(j)
  /\ at' = (k % 4) + 1

\* A function returns to the loop, which answers the packet if there is one.
Returns ==
  /\ doing' = "loop"
  /\ request' = IF packet = NoClient THEN request
                ELSE [request EXCEPT ![packet] = "none"]
  /\ packet' = NoClient
  /\ UNCHANGED port

ActivityTimer ==
  /\ Turn(1)
  /\ \E f \in Flushes([timers EXCEPT !.activity = "idle"]) :
       /\ timers' = [f.timers EXCEPT !.activitytimeractive = FALSE]
       /\ ops' = f.ops
  /\ UNCHANGED <<device, doing, tries, volume, inhibitnestcounter, cached, dos,
                 holder, packets>>

\* When something happened meanwhile, the timer starts again.
InactivityTimer ==
  /\ Turn(2)
  /\ LET t == [timers EXCEPT !.inactivity = "idle"]
     IN \/ /\ t.timerreset
           /\ timers' = StartTimeout([t EXCEPT !.pendingchanges = FALSE])
           /\ UNCHANGED ops
        \/ /\ ~t.timerreset
           /\ \E f \in Flushes(t) :
                /\ timers' = [f.timers EXCEPT !.pendingchanges = FALSE]
                /\ ops' = f.ops
  /\ UNCHANGED <<device, doing, tries, volume, inhibitnestcounter, cached, dos,
                 holder, packets>>

\* initdisk does nothing while there is a volume node.
InitDisk == IF volumenode = 0 THEN "read" ELSE "loop"

DiskChange ==
  /\ Turn(3)
  /\ diskchanged' = FALSE
  /\ IF drive = NoDisk THEN disktype' = "none" /\ doing' = "deinit"
     ELSE doing' = InitDisk /\ UNCHANGED disktype
  /\ UNCHANGED <<drive, tries, volumenode, locklist, inhibitnestcounter, memory,
                 timers, dos, holder, packets>>

-----------------------------------------------------------------------------
(* initdisk: readroots and checkfortransaction, and the count of free blocks *)
(* is corrected if it is wrong.  Blocks in the caches are not read again.    *)

\* readroots: both root blocks are there, agree with the drive, and are of this
\* version.
ReadRoots(disk) == disk \in DosDisks

InitDiskReads ==
  /\ doing = "read"
  /\ LET disk == IF cached = NoDisk THEN drive ELSE cached
     IN \/ /\ ~ReadRoots(disk)
           /\ disktype' = IF disk = NoDisk THEN "none" ELSE "ndos"
           /\ Returns
           /\ cached' = disk
           /\ timers' = StartTimeout(timers)
           /\ UNCHANGED ops
        \/ /\ ReadRoots(disk)
           /\ doing' = "list"
           /\ cached' = disk
           /\ \E corrected \in SUBSET {disk} :
                /\ ops' = ops \cup corrected
                /\ timers' = StartTimeout(timers)
           /\ UNCHANGED <<disktype, packets>>
  /\ UNCHANGED <<device, at, tries, volumenode, locklist, inhibitnestcounter,
                 dos, holder>>

\* The handler waits for the DosList behind sdlhtask, which waits for it too.
\* Only when the other one has locked it for reading, it comes first.
ListIsMine == \/ holder = NoClient /\ messages = <<>>
              \/ holder # NoClient /\ "early" \in Lapses

Found == {n \in list : nodes[n].disk = cached}
NewNode == CHOOSE n \in VolumeNodes : nodes[n] = Free

\* usevolumenode, and the rest of initdisk.
InitDiskMounts ==
  /\ doing = "list" /\ ListIsMine
  /\ \/ \E n \in Found :
          /\ nodes[n].handles # {}
          /\ volumenode' = n /\ disktype' = "dos"
          /\ locklist' = nodes[n].handles
          /\ nodes' = [nodes EXCEPT ![n].handles = {}]
          /\ UNCHANGED messages
     \/ /\ Found # {} /\ \A n \in Found : nodes[n].handles = {}
        /\ disktype' = "none"       \* in use by another handler, it thinks
        /\ UNCHANGED <<volumenode, locklist, nodes, messages>>
     \/ /\ Found = {} /\ \E n \in VolumeNodes : nodes[n] = Free
        /\ volumenode' = NewNode /\ disktype' = "dos"
        /\ nodes' = [nodes EXCEPT ![NewNode].disk = cached]
        /\ messages' = Append(messages, <<"add", NewNode>>)
        /\ UNCHANGED locklist
  /\ Returns
  /\ UNCHANGED <<device, at, tries, inhibitnestcounter, memory, timers, list,
                 holder>>

-----------------------------------------------------------------------------
(* deinitdisk: the caches are flushed, and invalidated whatever came of it.  *)
(* A volume with handles leaves them to its node; otherwise the node goes.   *)

\* A wrong DeinitDisk, for TLC: handles do not keep the node.
DeinitDiskAnyway ==
  /\ doing = "deinit"
  /\ \E f \in Flushes(timers) : timers' = f.timers /\ ops' = f.ops
  /\ cached' = NoDisk
  /\ IF volumenode = 0 THEN Returns
     ELSE doing' = "attempt" /\ UNCHANGED packets
  /\ UNCHANGED <<device, at, tries, volume, inhibitnestcounter, dos, holder>>

DeinitDisk ==
  /\ doing = "deinit"
  /\ \E f \in Flushes(timers) : timers' = f.timers /\ ops' = f.ops
  /\ cached' = NoDisk
  /\ IF volumenode = 0 THEN Returns
     ELSE /\ doing' = IF locklist # {} THEN "transfer" ELSE "attempt"
          /\ UNCHANGED packets
  /\ UNCHANGED <<device, at, tries, volume, inhibitnestcounter, dos, holder>>

TransferHandles ==
  /\ doing = "transfer"
  /\ nodes' = [nodes EXCEPT ![volumenode].handles = locklist]
  /\ locklist' = {} /\ volumenode' = 0
  /\ Returns
  /\ UNCHANGED <<device, at, tries, disktype, inhibitnestcounter, memory, timers,
                 list, messages, holder>>

\* A wrong RemoveNode, for TLC: with the list locked, no message is sent.
RemoveNodeOnly(unlisted) ==
  /\ list' = list \ unlisted
  /\ IF unlisted = {} THEN messages' = Append(messages, <<"remove", volumenode>>)
     ELSE UNCHANGED messages
  /\ volumenode' = 0
  /\ Returns

\* attemptlockdoslist.  The node is freed by sdlhtask in any case, "just in
\* case a VolumeNode Add was still pending".
RemoveNode(unlisted) ==
  /\ list' = list \ unlisted
  /\ messages' = Append(messages, <<"remove", volumenode>>)
  /\ volumenode' = 0
  /\ Returns
AttemptLock ==
  /\ doing = "attempt"
  /\ \/ holder = NoClient /\ RemoveNode({volumenode})
     \/ holder # NoClient /\ tries = 1 /\ RemoveNode({})
  /\ tries' = Tries
  /\ UNCHANGED <<device, at, disktype, locklist, inhibitnestcounter, memory,
                 timers, nodes, holder>>

Answered(c) == [request EXCEPT ![c] = "none"]

\* A wrong RetryLock, for TLC: the handler never gives up.
RetryLockForEver ==
  /\ doing = "attempt" /\ holder # NoClient /\ tries > 1
  /\ IF port = <<>> THEN UNCHANGED <<request, port>>
     ELSE request' = Answered(Head(port)) /\ port' = Tail(port)
  /\ UNCHANGED <<device, place, volume, inhibitnestcounter, memory, timers, dos,
                 holder, packet>>

\* Between two attempts a packet is answered, with an error if it needs a disk.
RetryLock ==
  /\ doing = "attempt" /\ holder # NoClient /\ tries > 1
  /\ tries' = tries - 1
  /\ IF port = <<>> THEN UNCHANGED <<request, port>>
     ELSE request' = Answered(Head(port)) /\ port' = Tail(port)
  /\ UNCHANGED <<device, at, doing, volume, inhibitnestcounter, memory, timers,
                 dos, holder, packet>>

\* All messages are handled with the DosList locked once.  A search for a node
\* goes on from where the last one ended: at a node that is freed by now, or at
\* the end of the list.  What it finds there is anybody's guess.
Handled(s, message, lucky) ==
  LET n == message[2]
      unlisted == IF s.first \/ lucky THEN {n} ELSE {}
      same == {m \in s.list : s.nodes[m].disk = s.nodes[n].disk}
  IN IF message[1] = "add"
     THEN [s EXCEPT !.list = IF same = {} THEN @ \cup {n} ELSE @]
     ELSE [list |-> s.list \ unlisted, first |-> FALSE,
           nodes |-> [s.nodes EXCEPT ![n] = Free]]

AllHandled(lucky) ==
  LET s[i \in 0..Len(messages)] ==
        IF i = 0 THEN [list |-> list, first |-> TRUE, nodes |-> nodes]
        ELSE Handled(s[i - 1], messages[i], lucky)
  IN s[Len(messages)]

SDLHTask ==
  /\ holder = NoClient /\ messages # <<>>
  /\ \E lucky \in BOOLEAN : /\ list' = AllHandled(lucky).list
                            /\ nodes' = AllHandled(lucky).nodes
  /\ messages' = <<>>
  /\ UNCHANGED <<device, place, volume, inhibitnestcounter, memory, timers,
                 holder, packets>>

-----------------------------------------------------------------------------
(* Packets.                                                                  *)

Receive(type) == /\ Turn(4) /\ request[Head(port)] = type
                 /\ port' = Tail(port)
Answer == request' = Answered(Head(port)) /\ UNCHANGED packet

\* Those that change nothing here, and those that need a disk (dumppackets).
JustAnswer ==
  /\ \/ Receive("ordinary")
     \/ Receive("inhibit") /\ timers.pendingchanges
     \/ Receive("uninhibit") /\ inhibitnestcounter = 0
  /\ Answer
  /\ UNCHANGED <<device, doing, tries, volume, inhibitnestcounter, memory, timers,
                 dos, holder>>

\* "Inhibiting will only be allowed when there are no pending changes."
Inhibit ==
  /\ Receive("inhibit") /\ ~timers.pendingchanges
  /\ inhibitnestcounter' = inhibitnestcounter + 1
  /\ IF inhibitnestcounter = 0
     THEN /\ disktype' = "busy" /\ doing' = "deinit"
          /\ packet' = Head(port) /\ UNCHANGED request
     ELSE Answer /\ UNCHANGED <<disktype, doing>>
  /\ UNCHANGED <<device, tries, volumenode, locklist, memory, timers, dos, holder>>

\* A wrong Uninhibit, for TLC: the count is tested before it goes down.
UninhibitUncounted ==
  /\ Receive("uninhibit") /\ inhibitnestcounter > 0
  /\ inhibitnestcounter' = inhibitnestcounter - 1
  /\ Answer
  /\ doing' = IF inhibitnestcounter = 0 THEN InitDisk ELSE doing
  /\ UNCHANGED <<device, tries, volume, memory, timers, dos, holder>>

\* "As initdisk() needs to lock the doslist we MUST return the packet before."
Uninhibit ==
  /\ Receive("uninhibit") /\ inhibitnestcounter > 0
  /\ inhibitnestcounter' = inhibitnestcounter - 1
  /\ Answer
  /\ doing' = IF inhibitnestcounter = 1 THEN InitDisk ELSE doing
  /\ UNCHANGED <<device, tries, volume, memory, timers, dos, holder>>

OnVolume == /\ Receive("ordinary") /\ disktype = "dos" /\ Answer
            /\ UNCHANGED <<device, doing, tries, disktype, volumenode,
                           inhibitnestcounter, dos, holder>>

\* Nothing on a volume is locked twice, and no notify request added twice.
NewHandles == Handles \ (locklist \cup UNION {nodes[n].handles : n \in VolumeNodes})
Granted(granted) == locklist' = locklist \cup granted
Freed(freed) == locklist' = locklist \ freed

LockObject ==
  /\ OnVolume
  /\ \E transfers \in BOOLEAN : timers' = Touched(timers, transfers)
  /\ \E granted \in {{h} : h \in NewHandles} \cup {{}} : Granted(granted)
  /\ UNCHANGED memory

FreeLock ==
  /\ OnVolume
  /\ \E freed \in {{h} : h \in locklist} \cup {{}} : Freed(freed)
  /\ UNCHANGED <<memory, timers>>

\* Neither looks at the volume.
AddNotify ==
  /\ OnVolume /\ \E h \in NewHandles : Granted({h})
  /\ UNCHANGED <<memory, timers>>
RemoveNotify ==
  /\ OnVolume /\ \E h \in locklist : Freed({h})
  /\ UNCHANGED <<memory, timers>>

\* A large transaction is flushed when it ends (endtransaction).
ChangeVolume ==
  /\ OnVolume
  /\ \/ /\ ops' = ops \cup {Mounted} /\ timers' = StartTimeout(timers)
     \/ /\ drive # NoDisk /\ ops' = {}
        /\ timers' = StopTimeout(StartTimeout(timers))
     \/ \E transfers \in BOOLEAN :   \* an error
          timers' = Touched(timers, transfers) /\ UNCHANGED ops
  /\ UNCHANGED <<locklist, cached>>

Flush ==
  /\ OnVolume
  /\ \E f \in Flushes(timers) : timers' = f.timers /\ ops' = f.ops
  /\ UNCHANGED <<locklist, cached>>

-----------------------------------------------------------------------------
(* The timer device, the drive and its user, and the clients.                *)

Expires(timer) ==
  /\ timers[timer] = "running"
  /\ timers' = [timers EXCEPT ![timer] = "sent"]
  /\ UNCHANGED <<device, place, volume, inhibitnestcounter, memory, dos, holder,
                 packets>>
ActivityExpires == Expires("activity")
InactivityExpires == Expires("inactivity")

\* A client that has locked the DosList waits for an answer.
ListLockerWaits == \E c \in Clients : holder = c /\ request[c] # "none"

\* The user waits until the volume is gone before another disk is inserted.
Patient(disk) == "swap" \in Lapses \/ {cached, Mounted} \subseteq {disk, NoDisk}

ExchangeDisk ==
  /\ ~ListLockerWaits \/ "wait" \in Lapses
  /\ \/ drive # NoDisk /\ drive' = NoDisk
     \/ /\ drive = NoDisk
        /\ \E disk \in Disks : Patient(disk) /\ drive' = disk
  /\ diskchanged' = TRUE
  /\ UNCHANGED <<place, volume, inhibitnestcounter, memory, timers, dos, holder,
                 packets>>

\* "Workbench keeps doslist locked, and doesn't send any packets during that
\* time": none but to inhibit and uninhibit, and those when nothing is on its
\* way that makes the handler wait for the DosList.
MaySendLocked ==
  /\ doing = "loop" /\ ~diskchanged /\ \A c \in Clients : request[c] # "uninhibit"
  \/ "wait" \in Lapses

Send(c, type) ==
  /\ request[c] = "none"
  /\ holder = c => type \in {"inhibit", "uninhibit"} /\ MaySendLocked
  /\ type = "inhibit" =>
       inhibitnestcounter + Cardinality({i \in Clients : request[i] = "inhibit"})
         < MaxInhibits
  /\ request' = [request EXCEPT ![c] = type] /\ port' = Append(port, c)
  /\ UNCHANGED <<device, place, volume, inhibitnestcounter, memory, timers, dos,
                 holder, packet>>

LockList(c) ==
  /\ holder = NoClient /\ request[c] = "none" /\ holder' = c
  /\ UNCHANGED <<device, place, volume, inhibitnestcounter, memory, timers, dos,
                 packets>>
UnlockList ==
  /\ holder # NoClient /\ ~ListLockerWaits /\ holder' = NoClient
  /\ UNCHANGED <<device, place, volume, inhibitnestcounter, memory, timers, dos,
                 packets>>

-----------------------------------------------------------------------------
\* mainprogram up to mainloop: with a disk in the drive initdisk is called.
Init ==
  /\ drive \in Disks \cup {NoDisk} /\ diskchanged = FALSE
  /\ at = 1 /\ tries = Tries
  /\ doing = IF drive = NoDisk THEN "loop" ELSE "read"
  /\ disktype = "none" /\ volumenode = 0 /\ inhibitnestcounter = 0
  /\ locklist = {} /\ cached = NoDisk /\ ops = {}
  /\ timers = [pendingchanges |-> FALSE, timerreset |-> FALSE,
               inactivity |-> "idle",
               activitytimeractive |-> FALSE, activity |-> "idle"]
  /\ nodes = [n \in VolumeNodes |-> Free] /\ list = {} /\ messages = <<>>
  /\ holder = NoClient
  /\ request = [c \in Clients |-> "none"] /\ port = <<>> /\ packet = NoClient

HandlePacket == \/ JustAnswer \/ Inhibit \/ Uninhibit
                \/ LockObject \/ FreeLock \/ AddNotify \/ RemoveNotify
                \/ ChangeVolume \/ Flush

\* What the handler does without waiting for the DosList.
Handler == \/ ActivityTimer \/ InactivityTimer \/ DiskChange \/ HandlePacket
           \/ InitDiskReads
           \/ DeinitDisk \/ TransferHandles \/ AttemptLock \/ RetryLock

Next == \/ Handler \/ InitDiskMounts \/ SDLHTask
        \/ ActivityExpires \/ InactivityExpires \/ ExchangeDisk
        \/ \E c \in Clients : \E type \in Sends[c] : Send(c, type)
        \/ \E c \in ListLockers : LockList(c)
        \/ UnlockList

\* The DosList is locked again and again, but never for ever.
Fairness == /\ WF_vars(Handler) /\ SF_vars(InitDiskMounts) /\ SF_vars(SDLHTask)
            /\ WF_vars(ActivityExpires) /\ WF_vars(InactivityExpires)
            /\ WF_vars(UnlockList)

Spec == Init /\ [][Next]_vars /\ Fairness

-----------------------------------------------------------------------------
\* The flags say what the timers' requests do: a request on its way is never
\* sent again, and while there are changes both timers run.
TimersRight ==
  /\ timers.pendingchanges <=> timers.inactivity # "idle"
  /\ timers.activitytimeractive <=> timers.activity # "idle"
  /\ "sent twice" \notin {timers.inactivity, timers.activity}
  /\ ops # {} => timers.pendingchanges /\ timers.activitytimeractive

Added(n) == <<"add", n>> \in ToSet(messages)
Removed(n) == <<"remove", n>> \in ToSet(messages)

\* The DosList holds no node that was freed and no volume twice; the handler's
\* node is in it or on its way there; and every other node is there for the
\* handles it keeps, or on its way out.
DosListRight ==
  /\ \A n \in list : nodes[n] # Free
  /\ \A m, n \in list : nodes[m].disk = nodes[n].disk => m = n
  /\ volumenode # 0 => /\ nodes[volumenode] # Free
                       /\ volumenode \in list \/ Added(volumenode)
  /\ \A n \in VolumeNodes \ {volumenode} : nodes[n] # Free =>
       \/ Removed(n)
       \/ nodes[n].handles # {} /\ (n \in list \/ Added(n))

\* A volume's handles are kept by the handler, or by a node that is listed or
\* about to be.
VolumeHandles ==
  [d \in Disks |->
     IF d = Mounted THEN locklist
     ELSE UNION {nodes[n].handles : n \in {m \in VolumeNodes :
                   nodes[m].disk = d /\ (m \in list \/ Added(m))}}]

\* The users see a drive with exchangeable disks: changes are saved on the disk
\* they were made on, and a handle stays with its volume.
V == INSTANCE VolumeSet WITH
       mounted <- Mounted, unsaved <- ops, handles <- VolumeHandles
IsVolumeSet == V!Spec

\* Every packet is answered, also while others keep the DosList locked; only
\* without a disk may the handler wait, for the user.
PacketsAnswered == \A c \in Clients : []<>(request[c] = "none" \/ drive = NoDisk)

\* A volume that is inserted is mounted, also when the DosList is locked; unless
\* it is taken out, or inhibited, again and again.
DiskMounted ==
  []<>(drive \notin DosDisks \/ inhibitnestcounter > 0 \/ Mounted = drive)

\* The changes made on it are flushed by the timers, however long the clients
\* go on changing.
ChangesSaved == []<>(drive \notin DosDisks \/ ops = {})
=============================================================================
