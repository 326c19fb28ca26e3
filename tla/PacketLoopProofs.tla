-------------------------- MODULE PacketLoopProofs --------------------------
(***************************************************************************)
(* Proofs about PacketLoop, for any number of disks, clients, handles and  *)
(* volume nodes: the flags say what the timers do (TimersInv), the DosList *)
(* agrees with the volume nodes (ListInv), and changes and handles stay    *)
(* with their volume (DiskInv).  Each names the lapses of the environment  *)
(* that it has to do without.                                              *)
(***************************************************************************)
EXTENDS PacketLoop, SequenceTheorems, TLAPS

-----------------------------------------------------------------------------
(* The timers. *)

Timers == [pendingchanges : BOOLEAN, timerreset : BOOLEAN,
           activitytimeractive : BOOLEAN,
           inactivity : {"idle", "running", "sent", "sent twice"},
           activity : {"idle", "running", "sent", "sent twice"}]

InactivityRight(t) == /\ t.pendingchanges <=> t.inactivity # "idle"
                      /\ t.inactivity # "sent twice"
ActivityRight(t) == /\ t.activitytimeractive <=> t.activity # "idle"
                    /\ t.activity # "sent twice"

\* The inductive invariant of the timers.
TimersInv ==
  /\ timers \in Timers
  /\ InactivityRight(timers) /\ ActivityRight(timers)
  /\ ops # {} => timers.pendingchanges /\ timers.activitytimeractive

\* What starttimeout returns: both timers run and both flags are up.
LEMMA StartTimeoutFields ==
  ASSUME NEW t \in Timers
  PROVE  /\ StartTimeout(t) \in Timers
         /\ StartTimeout(t).pendingchanges = TRUE
         /\ StartTimeout(t).activitytimeractive = TRUE
         /\ StartTimeout(t).inactivity = IF t.pendingchanges THEN t.inactivity
                                         ELSE Running(t.inactivity)
         /\ StartTimeout(t).activity = IF t.activitytimeractive THEN t.activity
                                       ELSE Running(t.activity)
  BY DEF StartTimeout, Running, Timers

\* What stoptimeout returns: it takes the inactivity timer back.
LEMMA StopTimeoutFields ==
  ASSUME NEW t \in Timers
  PROVE  /\ StopTimeout(t) \in Timers
         /\ StopTimeout(t).pendingchanges = FALSE
         /\ StopTimeout(t).activitytimeractive = t.activitytimeractive
         /\ StopTimeout(t).activity = t.activity
         /\ StopTimeout(t).inactivity = IF t.pendingchanges THEN "idle"
                                        ELSE t.inactivity
  BY DEF StopTimeout, Timers

\* starttimeout leaves both flags right.
LEMMA StartTimeoutRight ==
  ASSUME NEW t \in Timers
  PROVE  /\ InactivityRight(t) => InactivityRight(StartTimeout(t))
         /\ ActivityRight(t) => ActivityRight(StartTimeout(t))
  BY StartTimeoutFields DEF InactivityRight, ActivityRight, Running, Timers

\* The same where a transfer may or may not have restarted them.
LEMMA TouchedRight ==
  ASSUME NEW t \in Timers, NEW transfers \in BOOLEAN
  PROVE  /\ Touched(t, transfers) \in Timers
         /\ InactivityRight(t) => InactivityRight(Touched(t, transfers))
         /\ ActivityRight(t) => ActivityRight(Touched(t, transfers))
         /\ t.pendingchanges => Touched(t, transfers).pendingchanges
         /\ t.activitytimeractive =>
              Touched(t, transfers).activitytimeractive
  BY StartTimeoutFields, StartTimeoutRight DEF Touched

\* A flush starts the timers with its own transfers, and stops one of them.
LEMMA FlushedFields ==
  ASSUME NEW t \in Timers
  PROVE  LET u == StopTimeout(StartTimeout(t))
         IN /\ u \in Timers
            /\ u.pendingchanges = FALSE
            /\ u.activitytimeractive = TRUE
            /\ u.activity = StartTimeout(t).activity
            /\ u.inactivity = "idle"
  BY StartTimeoutFields, StopTimeoutFields

\* What flushtransaction does to the timers; also when the activity timer has
\* just expired, and when the inactivity timer has.
LEMMA FlushTransactionRight ==
  ASSUME NEW t \in Timers, NEW transfers \in BOOLEAN
  PROVE  LET u == FlushTransaction(t, transfers)
         IN /\ u \in Timers
            /\ InactivityRight(t) => InactivityRight(u)
            /\ ActivityRight(t) => ActivityRight(u)
            /\ t.activitytimeractive => u.activity = t.activity
            /\ t.pendingchanges /\ t.inactivity = "idle" => u.inactivity = "idle"
  <1>1. CASE ops = {}
    BY <1>1, TouchedRight, StartTimeoutFields DEF FlushTransaction, Touched
  <1>2. CASE ops # {}
    <2> DEFINE s == StartTimeout(t)
               u == StopTimeout(s)
    <2>1. FlushTransaction(t, transfers) = u
      BY <1>2 DEF FlushTransaction
    <2>2. /\ u \in Timers /\ u.pendingchanges = FALSE /\ u.inactivity = "idle"
          /\ u.activitytimeractive = TRUE /\ u.activity = s.activity
      BY FlushedFields
    <2>3. ActivityRight(t) => s.activity \notin {"idle", "sent twice"}
      BY StartTimeoutFields DEF ActivityRight, Running, Timers
    <2>4. t.activitytimeractive => s.activity = t.activity
      BY StartTimeoutFields
    <2>5. InactivityRight(u) /\ (ActivityRight(t) => ActivityRight(u))
      BY <2>2, <2>3 DEF InactivityRight, ActivityRight
    <2>6. QED
      BY <2>1, <2>2, <2>4, <2>5
  <1>3. QED
    BY <1>1, <1>2

\* A flush that nobody cancels leaves no operations, and needs a disk for them.
LEMMA FlushesRight ==
  ASSUME NEW t \in Timers, NEW f \in Flushes(t), "cancel" \notin Lapses
  PROVE  /\ \E transfers \in BOOLEAN : f.timers = FlushTransaction(t, transfers)
         /\ f.ops = {}
         /\ ops = {} \/ drive # NoDisk
  BY DEF Flushes

\* The timers are right at first.
LEMMA TimersInit == Init => TimersInv
  BY DEF Init, TimersInv, Timers, InactivityRight, ActivityRight

\* No step makes a flag lie about its timer: the activity timer's flag is set
\* back after the flush that it asked for, and the inactivity timer's too.
LEMMA TimersStep ==
  ASSUME TimersInv, [Next]_vars, "cancel" \notin Lapses
  PROVE  TimersInv'
  <1> USE DEF TimersInv
  <1>1. CASE ActivityTimer
    <2> DEFINE t == [timers EXCEPT !.activity = "idle"]
    <2>1. timers.activity = "sent"
      BY <1>1 DEF ActivityTimer, Turn, Event
    <2>2. /\ t \in Timers /\ t.activity = "idle" /\ t.activitytimeractive = TRUE
          /\ InactivityRight(t)
      BY <2>1 DEF Timers, InactivityRight, ActivityRight
    <2>3. PICK f \in Flushes(t) : /\ timers' = [f.timers EXCEPT !.activitytimeractive = FALSE]
                                 /\ ops' = f.ops
      BY <1>1 DEF ActivityTimer
    <2>4. PICK transfers \in BOOLEAN : f.timers = FlushTransaction(t, transfers)
      BY <2>2, <2>3, FlushesRight
    <2>5. ops' = {}
      BY <2>2, <2>3, FlushesRight
    <2>6. /\ f.timers \in Timers /\ InactivityRight(f.timers)
          /\ f.timers.activity = "idle"
      <3> HIDE DEF t, TimersInv
      <3>1. QED
        BY <2>2, <2>4, FlushTransactionRight
    <2>7. timers' \in Timers /\ InactivityRight(timers') /\ ActivityRight(timers')
      BY <2>3, <2>6 DEF Timers, InactivityRight, ActivityRight
    <2>8. QED
      BY <2>5, <2>7 DEF InactivityRight, ActivityRight
  <1>2. CASE InactivityTimer
    <2> DEFINE t == [timers EXCEPT !.inactivity = "idle"]
               again == [t EXCEPT !.pendingchanges = FALSE]
    <2>1. timers.inactivity = "sent"
      BY <1>2 DEF InactivityTimer, Turn, Event
    <2>2. /\ t \in Timers /\ t.inactivity = "idle" /\ t.pendingchanges = TRUE
          /\ ActivityRight(t)
      BY <2>1 DEF Timers, InactivityRight, ActivityRight
    <2>3. CASE timers' = StartTimeout(again) /\ UNCHANGED ops
      <3>1. again \in Timers /\ InactivityRight(again) /\ ActivityRight(again)
        BY <2>2 DEF Timers, InactivityRight, ActivityRight
      <3>2. /\ timers' \in Timers /\ InactivityRight(timers') /\ ActivityRight(timers')
            /\ timers'.pendingchanges = TRUE /\ timers'.activitytimeractive = TRUE
        BY <2>3, <3>1, StartTimeoutFields, StartTimeoutRight
      <3>3. QED
        BY <3>2 DEF InactivityRight, ActivityRight
    <2>4. CASE \E f \in Flushes(t) :
                 timers' = [f.timers EXCEPT !.pendingchanges = FALSE] /\ ops' = f.ops
      <3>1. PICK f \in Flushes(t) :
              timers' = [f.timers EXCEPT !.pendingchanges = FALSE] /\ ops' = f.ops
        BY <2>4
      <3>2. PICK transfers \in BOOLEAN : f.timers = FlushTransaction(t, transfers)
        BY <2>2, FlushesRight
      <3>3. ops' = {}
        BY <2>2, <3>1, FlushesRight
      <3>4. /\ f.timers \in Timers /\ ActivityRight(f.timers)
            /\ f.timers.inactivity = "idle"
        <4> HIDE DEF t, TimersInv
        <4>1. QED
          BY <2>2, <3>2, FlushTransactionRight
      <3>5. timers' \in Timers /\ InactivityRight(timers') /\ ActivityRight(timers')
        BY <3>1, <3>4 DEF Timers, InactivityRight, ActivityRight
      <3>6. QED
        BY <3>3, <3>5 DEF InactivityRight, ActivityRight
    <2>5. QED
      BY <1>2, <2>3, <2>4 DEF InactivityTimer
  <1>3. ASSUME NEW f \in Flushes(timers), timers' = f.timers, ops' = f.ops
        PROVE  TimersInv'
    <2>1. PICK transfers \in BOOLEAN : f.timers = FlushTransaction(timers, transfers)
      BY FlushesRight
    <2>2. ops' = {}
      BY <1>3, FlushesRight
    <2>3. timers' \in Timers /\ InactivityRight(timers') /\ ActivityRight(timers')
      BY <1>3, <2>1, FlushTransactionRight
    <2>4. QED
      BY <2>2, <2>3 DEF InactivityRight, ActivityRight
  <1>4. CASE timers' = StartTimeout(timers)
    <2>1. /\ timers' \in Timers /\ InactivityRight(timers') /\ ActivityRight(timers')
          /\ timers'.pendingchanges = TRUE /\ timers'.activitytimeractive = TRUE
      BY <1>4, StartTimeoutFields, StartTimeoutRight
    <2>2. QED
      BY <2>1 DEF InactivityRight, ActivityRight
  <1>5. CASE UNCHANGED <<timers, ops>>
    BY <1>5 DEF InactivityRight, ActivityRight
  <1>6. ASSUME NEW transfers \in BOOLEAN, timers' = Touched(timers, transfers),
               UNCHANGED ops
        PROVE  TimersInv'
    <2>1. /\ timers' \in Timers /\ InactivityRight(timers') /\ ActivityRight(timers')
          /\ timers.pendingchanges => timers'.pendingchanges
          /\ timers.activitytimeractive => timers'.activitytimeractive
      BY <1>6, TouchedRight
    <2>2. QED
      BY <1>6, <2>1 DEF InactivityRight, ActivityRight
  <1>7. ASSUME timers' = StopTimeout(StartTimeout(timers)), ops' = {}
        PROVE  TimersInv'
    <2> DEFINE u == StopTimeout(StartTimeout(timers))
    <2>1. /\ u \in Timers /\ u.pendingchanges = FALSE /\ u.inactivity = "idle"
          /\ u.activitytimeractive = TRUE
          /\ u.activity = StartTimeout(timers).activity
      BY FlushedFields
    <2>2. ActivityRight(StartTimeout(timers))
          /\ StartTimeout(timers).activitytimeractive = TRUE
      BY StartTimeoutFields, StartTimeoutRight
    <2>3. InactivityRight(u) /\ ActivityRight(u)
      BY <2>1, <2>2 DEF InactivityRight, ActivityRight
    <2>4. timers' = u
      BY <1>7
    <2>5. QED
      BY <1>7, <2>1, <2>3, <2>4 DEF InactivityRight, ActivityRight
  <1>8. CASE ActivityExpires \/ InactivityExpires
    BY <1>8 DEF ActivityExpires, InactivityExpires, Expires, Timers,
                InactivityRight, ActivityRight, memory
  <1>9. CASE ChangeVolume
    BY <1>4, <1>6, <1>7, <1>9 DEF ChangeVolume
  <1>10. QED
    <2> USE DEF device, place, volume, memory, dos, packets
    <2>1. CASE DeinitDisk \/ Flush
      BY <1>3, <2>1 DEF DeinitDisk, Flush
    <2>2. CASE LockObject
      BY <1>6, <2>2 DEF LockObject
    <2>3. CASE InitDiskReads
      <3>1. timers' = StartTimeout(timers)
        BY <2>3 DEF InitDiskReads
      <3>2. QED
        BY <1>4, <3>1
    <2>4. CASE DiskChange \/ JustAnswer \/ Inhibit \/ Uninhibit \/ FreeLock
                \/ AddNotify \/ RemoveNotify \/ TransferHandles \/ AttemptLock
                \/ RetryLock \/ InitDiskMounts \/ SDLHTask \/ ExchangeDisk
                \/ UnlockList
      BY <1>5, <2>4 DEF DiskChange, JustAnswer, Inhibit, Uninhibit, FreeLock,
           AddNotify, RemoveNotify, TransferHandles, AttemptLock, RetryLock,
           InitDiskMounts, SDLHTask, ExchangeDisk, UnlockList
    <2>5. ASSUME NEW c, NEW type, Send(c, type) \/ LockList(c)
          PROVE  TimersInv'
      BY <1>5, <2>5 DEF Send, LockList
    <2>6. CASE UNCHANGED vars
      BY <1>5, <2>6 DEF vars
    <2>7. QED
      BY <1>1, <1>2, <1>8, <1>9, <2>1, <2>2, <2>3, <2>4, <2>5, <2>6
         DEF Next, Handler, HandlePacket

\* TimersRight follows.
LEMMA TimersInvImplies == TimersInv => TimersRight
  BY DEF TimersInv, TimersRight, InactivityRight, ActivityRight

\* Unless the user cancels the requester of a flush: whatever packets come, and
\* whenever the timers expire, the flags of both timers tell whether they run,
\* no timer request is sent a second time while the first is on its way, and
\* operations in memory have both timers running (starttimeout, stoptimeout,
\* and the two branches of mainloop that handle their messages).
THEOREM SpecTimersRight ==
  ASSUME "cancel" \notin Lapses
  PROVE  Spec => []TimersRight
  <1>1. Init => TimersInv
    BY TimersInit
  <1>2. TimersInv /\ [Next]_vars => TimersInv'
    BY TimersStep
  <1>3. TimersInv => TimersRight
    BY TimersInvImplies
  <1>4. QED
    BY <1>1, <1>2, <1>3, PTL DEF Spec

-----------------------------------------------------------------------------
(* The volume nodes and the DosList. *)

Nodes == [disk : Disks \cup {NoDisk}, handles : SUBSET Handles]

NodeTypes ==
  /\ drive \in Disks \cup {NoDisk} /\ cached \in Disks \cup {NoDisk}
  /\ volumenode \in VolumeNodes \cup {0} /\ locklist \subseteq Handles
  /\ nodes \in [VolumeNodes -> Nodes] /\ list \subseteq VolumeNodes

Unique(n) == \A m \in list \ {n} : nodes[m].disk # nodes[n].disk
AddOnly(n) == messages = <<<<"add", n>>>>
RemoveOnly(n) == messages = <<<<"remove", n>>>>
AddRemove(n) == messages = <<<<"add", n>>, <<"remove", n>>>>

\* All nodes but a few are in the list, for the handles they keep.
KeptBut(S) == \A n \in VolumeNodes \ S :
                nodes[n] # Free => n \in list /\ nodes[n].handles # {}

\* There are never more messages on the way than these; each is about the
\* handler's node, or about the one it last gave up.
NothingSent == /\ messages = <<>>
               /\ volumenode # 0 => volumenode \in list
               /\ KeptBut({volumenode})
AddSent(a) ==
  /\ AddOnly(a) /\ a \notin list /\ Unique(a) /\ nodes[a] # Free
  /\ volumenode \in {a, 0}
  /\ volumenode = 0 => nodes[a].handles # {}
  /\ KeptBut({a})
RemoveSent(r) ==
  /\ RemoveOnly(r) \/ (AddRemove(r) /\ r \notin list /\ Unique(r))
  /\ nodes[r] # Free /\ nodes[r].handles = {}
  /\ volumenode = 0
  /\ KeptBut({r})
MessagesOK == \/ NothingSent
              \/ \E n \in VolumeNodes : AddSent(n) \/ RemoveSent(n)

NodesOK ==
  /\ \A n \in VolumeNodes : nodes[n] # Free => nodes[n].disk \in DosDisks
  /\ \A n \in list : nodes[n] # Free /\ Unique(n)
  /\ volumenode # 0 => nodes[volumenode] # Free /\ nodes[volumenode].handles = {}

PlaceOK ==
  /\ doing = "read" => volumenode = 0
  /\ doing = "list" => volumenode = 0 /\ cached \in DosDisks
  /\ doing = "transfer" => volumenode # 0 /\ locklist # {}
  /\ doing = "attempt" => volumenode # 0 /\ locklist = {}
  /\ doing \in {"deinit", "transfer", "attempt"} => disktype # "dos"
  /\ volumenode = 0 => locklist = {} /\ disktype # "dos"

\* The inductive invariant of the volume nodes.
ListInv == NodeTypes /\ MessagesOK /\ NodesOK /\ PlaceOK

\* What sdlhtask makes of one message.
LEMMA OneHandled ==
  ASSUME NEW m, messages = <<m>>, NEW lucky
  PROVE  AllHandled(lucky) =
           Handled([list |-> list, first |-> TRUE, nodes |-> nodes], m, lucky)
  <1> DEFINE s0 == [list |-> list, first |-> TRUE, nodes |-> nodes]
             F(f) == [i \in 0..1 |-> IF i = 0 THEN s0
                                     ELSE Handled(f[i - 1], messages[i], lucky)]
             g == [i \in 0..1 |-> IF i = 0 THEN s0 ELSE Handled(s0, m, lucky)]
             s == CHOOSE f : f = F(f)
  <1>1. Len(messages) = 1 /\ messages[1] = m
    OBVIOUS
  <1>2. AllHandled(lucky) = s[1]
    BY <1>1 DEF AllHandled
  <1> HIDE DEF s0
  <1>3. g = F(g)
    BY <1>1
  <1>4. s = F(s)
    BY <1>3
  <1> HIDE DEF s
  <1>5. s[0] = s0
    BY <1>4
  <1>6. s[1] = Handled(s[0], messages[1], lucky)
    BY <1>4
  <1>7. QED
    BY <1>1, <1>2, <1>5, <1>6 DEF s0

\* And of two.
LEMMA TwoHandled ==
  ASSUME NEW m, NEW n, messages = <<m, n>>, NEW lucky
  PROVE  AllHandled(lucky) =
           Handled(Handled([list |-> list, first |-> TRUE, nodes |-> nodes],
                           m, lucky), n, lucky)
  <1> DEFINE s0 == [list |-> list, first |-> TRUE, nodes |-> nodes]
             s1 == Handled(s0, m, lucky)
             F(f) == [i \in 0..2 |-> IF i = 0 THEN s0
                                     ELSE Handled(f[i - 1], messages[i], lucky)]
             g == [i \in 0..2 |-> IF i = 0 THEN s0
                                  ELSE IF i = 1 THEN s1 ELSE Handled(s1, n, lucky)]
             s == CHOOSE f : f = F(f)
  <1>1. Len(messages) = 2 /\ messages[1] = m /\ messages[2] = n
    OBVIOUS
  <1>2. AllHandled(lucky) = s[2]
    BY <1>1 DEF AllHandled
  <1> HIDE DEF s0
  <1>3. g = F(g)
    <2>1. \A i \in 0..2 : g[i] = IF i = 0 THEN s0
                                ELSE Handled(g[i - 1], messages[i], lucky)
      BY <1>1
    <2>2. QED
      BY <2>1
  <1>4. s = F(s)
    BY <1>3
  <1> HIDE DEF s
  <1>5. s[0] = s0
    BY <1>4
  <1>6. /\ s[1] = Handled(s[0], messages[1], lucky)
        /\ s[2] = Handled(s[1], messages[2], lucky)
    BY <1>4
  <1>7. QED
    BY <1>1, <1>2, <1>5, <1>6 DEF s0

\* What sdlhtask makes of the messages there can be.
LEMMA AddHandled ==
  ASSUME NEW a \in VolumeNodes, AddOnly(a), a \notin list, Unique(a), NEW lucky
  PROVE  /\ AllHandled(lucky).list = list \cup {a}
         /\ AllHandled(lucky).nodes = nodes
  <1>1. AllHandled(lucky) = Handled([list |-> list, first |-> TRUE, nodes |-> nodes],
                                    <<"add", a>>, lucky)
    BY OneHandled DEF AddOnly
  <1>2. {m \in list : nodes[m].disk = nodes[a].disk} = {}
    BY DEF Unique
  <1>3. QED
    BY <1>1, <1>2 DEF Handled

\* A removal always frees the node, listed or still to be added.
LEMMA RemoveHandled ==
  ASSUME NEW r \in VolumeNodes, NEW lucky,
         RemoveOnly(r) \/ (AddRemove(r) /\ r \notin list /\ Unique(r))
  PROVE  /\ AllHandled(lucky).list = list \ {r}
         /\ AllHandled(lucky).nodes = [nodes EXCEPT ![r] = Free]
  <1> DEFINE s0 == [list |-> list, first |-> TRUE, nodes |-> nodes]
             s1 == [list |-> list \cup {r}, first |-> TRUE, nodes |-> nodes]
  <1>1. CASE RemoveOnly(r)
    <2>1. AllHandled(lucky) = Handled(s0, <<"remove", r>>, lucky)
      BY <1>1, OneHandled DEF RemoveOnly
    <2>2. QED
      BY <2>1 DEF Handled
  <1>2. CASE AddRemove(r) /\ r \notin list /\ Unique(r)
    <2>1. AllHandled(lucky) =
            Handled(Handled(s0, <<"add", r>>, lucky), <<"remove", r>>, lucky)
      BY <1>2, TwoHandled DEF AddRemove
    <2>2. {m \in list : nodes[m].disk = nodes[r].disk} = {}
      BY <1>2 DEF Unique
    <2>3. Handled(s0, <<"add", r>>, lucky) = s1
      BY <2>2 DEF Handled
    <2>4. AllHandled(lucky) = Handled(s1, <<"remove", r>>, lucky)
      BY <2>1, <2>3
    <2>5. (list \cup {r}) \ {r} = list \ {r}
      OBVIOUS
    <2>6. QED
      BY <2>4, <2>5 DEF Handled
  <1>3. QED
    BY <1>1, <1>2

\* At first there are no nodes.
LEMMA ListInit == Init => ListInv
  BY LoopAssumption DEF Init, ListInv, NodeTypes, Nodes, Free, MessagesOK, NothingSent,
     KeptBut, NodesOK, PlaceOK

\* When neither the nodes nor the messages change, the place is what is left.
LEMMA SameNodes ==
  ASSUME ListInv, UNCHANGED <<dos, volumenode>>, NodeTypes', PlaceOK'
  PROVE  ListInv'
  BY DEF ListInv, dos, MessagesOK, NothingSent, AddSent, RemoveSent, AddOnly,
         RemoveOnly, AddRemove, Unique, KeptBut, NodesOK

\* The handler gives up its node, in one of the two ways.
LEMMA TransferStep ==
  ASSUME ListInv, TransferHandles
  PROVE  ListInv'
  <1> USE DEF TransferHandles, ListInv, NodeTypes, Returns
  <1>1. /\ volumenode \in VolumeNodes /\ volumenode # 0 /\ locklist # {}
        /\ disktype # "dos" /\ volumenode' = 0 /\ locklist' = {}
        /\ doing' = "loop" /\ disktype' = disktype /\ list' = list
        /\ messages' = messages /\ drive' = drive /\ cached' = cached
    BY DEF PlaceOK, memory, device
  <1>2. /\ nodes' \in [VolumeNodes -> Nodes]
        /\ \A n \in VolumeNodes : nodes'[n].disk = nodes[n].disk
        /\ \A n \in VolumeNodes \ {volumenode} : nodes'[n] = nodes[n]
        /\ nodes'[volumenode].handles = locklist
    BY <1>1 DEF Nodes
  <1>3. \A n \in VolumeNodes : nodes[n] # Free <=> nodes'[n] # Free
    <2>1. nodes[volumenode] # Free /\ nodes'[volumenode] # Free
      BY <1>1, <1>2 DEF NodesOK, Free
    <2>2. QED
      BY <1>2, <2>1
  <1>4. NodeTypes'
    BY <1>1, <1>2
  <1>5. NodesOK'
    BY <1>1, <1>2, <1>3 DEF NodesOK, Unique
  <1>6. PlaceOK'
    BY <1>1 DEF PlaceOK
  <1>7. MessagesOK'
    <2>1. CASE NothingSent
      BY <1>1, <1>2, <1>3, <2>1 DEF MessagesOK, NothingSent, KeptBut
    <2>2. CASE \E a \in VolumeNodes : AddSent(a)
      <3>1. AddSent(volumenode)
        BY <1>1, <2>2 DEF AddSent
      <3>2. QED
        BY <1>1, <1>2, <1>3, <3>1 DEF MessagesOK, AddSent, AddOnly, Unique, KeptBut
    <2>3. QED
      BY <1>1, <2>1, <2>2 DEF MessagesOK, RemoveSent
  <1>8. QED
    BY <1>4, <1>5, <1>6, <1>7

\* What Append makes of one message.
LEMMA AppendOne ==
  ASSUME NEW x, NEW y PROVE Append(<<x>>, y) = <<x, y>>
  <1> DEFINE s == <<x>>
             t == Append(s, y)
  <1>1. s \in Seq({x, y}) /\ Len(s) = 1 /\ s[1] = x
    OBVIOUS
  <1>2. /\ t \in Seq({x, y}) /\ Len(t) = 2
        /\ t[1] = x /\ t[2] = y
    BY <1>1, AppendProperties
  <1> HIDE DEF t
  <1>3. <<x, y>> \in Seq({x, y}) /\ Len(<<x, y>>) = 2
    OBVIOUS
  <1>4. t = <<x, y>>
    BY <1>2, <1>3
  <1>5. QED
    BY <1>4 DEF t

\* It goes, and sdlhtask is asked to free it: it may be about to add it.
LEMMA AttemptStep ==
  ASSUME ListInv, AttemptLock
  PROVE  ListInv'
  <1> USE DEF AttemptLock, RemoveNode, ListInv, NodeTypes, Returns
  <1>0. PICK v \in VolumeNodes : v = volumenode
    BY DEF PlaceOK
  <1>1. /\ v # 0 /\ locklist = {} /\ disktype # "dos"
        /\ nodes[v] # Free /\ nodes[v].handles = {}
        /\ volumenode' = 0 /\ locklist' = locklist /\ disktype' = disktype
        /\ doing' = "loop" /\ nodes' = nodes /\ drive' = drive /\ cached' = cached
    BY <1>0 DEF PlaceOK, NodesOK, memory, device
  <1>2. /\ list \ {v} \subseteq list' /\ list' \subseteq list
        /\ messages' = Append(messages, <<"remove", v>>)
    BY <1>0
  <1>3. NodeTypes' /\ NodesOK' /\ PlaceOK'
    BY <1>0, <1>1, <1>2 DEF NodesOK, PlaceOK, Unique
  <1>4. RemoveSent(v)'
    <2>1. CASE NothingSent
      <3>1. RemoveOnly(v)'
        BY <1>2, <2>1 DEF NothingSent, RemoveOnly
      <3>2. QED
        BY <1>0, <1>1, <1>2, <2>1, <3>1 DEF NothingSent, RemoveSent, KeptBut
    <2>2. CASE \E a \in VolumeNodes : AddSent(a)
      <3>1. AddSent(v)
        BY <1>0, <1>1, <2>2 DEF AddSent
      <3>2. AddRemove(v)'
        <4>1. messages = <<<<"add", v>>>>
          BY <3>1 DEF AddSent, AddOnly
        <4>2. messages' = <<<<"add", v>>, <<"remove", v>>>>
          BY <1>2, <4>1, AppendOne
        <4>3. QED
          BY <4>2 DEF AddRemove
      <3>3. QED
        BY <1>0, <1>1, <1>2, <3>1, <3>2 DEF AddSent, RemoveSent, KeptBut, Unique
    <2>3. QED
      BY <1>0, <1>1, <2>1, <2>2 DEF MessagesOK, RemoveSent
  <1>5. QED
    BY <1>3, <1>4 DEF MessagesOK

\* A volume gets the node that waits for it in the list, or a new one.
LEMMA MountStep ==
  ASSUME ListInv, InitDiskMounts, "early" \notin Lapses
  PROVE  ListInv'
  <1> USE DEF InitDiskMounts, ListInv, NodeTypes, Returns
  <1>1. /\ messages = <<>> /\ volumenode = 0 /\ locklist = {}
        /\ cached \in DosDisks
        /\ list' = list /\ doing' = "loop" /\ drive' = drive /\ cached' = cached
        /\ KeptBut({}) /\ NothingSent
    <2>1. messages = <<>> /\ volumenode = 0 /\ locklist = {} /\ cached \in DosDisks
      BY DEF ListIsMine, PlaceOK
    <2>2. NothingSent
      BY <2>1 DEF MessagesOK, AddSent, RemoveSent, AddOnly, RemoveOnly, AddRemove
    <2>3. 0 \notin VolumeNodes
      BY LoopAssumption DEF VolumeNodes
    <2>4. KeptBut({})
      BY <2>1, <2>2, <2>3 DEF NothingSent, KeptBut
    <2>5. QED
      BY <2>1, <2>2, <2>4 DEF memory, device
  <1>2. CASE \E n \in Found :
               /\ volumenode' = n /\ disktype' = "dos"
               /\ locklist' = nodes[n].handles /\ nodes[n].handles # {}
               /\ nodes' = [nodes EXCEPT ![n].handles = {}]
               /\ UNCHANGED messages
    <2>1. PICK n \in Found :
               /\ volumenode' = n /\ disktype' = "dos"
               /\ locklist' = nodes[n].handles
               /\ nodes' = [nodes EXCEPT ![n].handles = {}]
               /\ UNCHANGED messages
      BY <1>2
    <2>2. n \in list /\ n \in VolumeNodes /\ nodes[n] # Free
          /\ nodes[n].disk \in DosDisks
      BY DEF Found, NodesOK
    <2>3. /\ nodes' \in [VolumeNodes -> Nodes]
          /\ \A m \in VolumeNodes : nodes'[m].disk = nodes[m].disk
          /\ \A m \in VolumeNodes \ {n} : nodes'[m] = nodes[m]
          /\ nodes'[n].handles = {}
      BY <2>1, <2>2 DEF Nodes
    <2>4. nodes'[n] # Free
      BY <2>2, <2>3, LoopAssumption DEF Free
    <2>5. volumenode' # 0 /\ volumenode' = n
      BY <2>1, <2>2, LoopAssumption DEF VolumeNodes
    <2>6. NodeTypes'
      BY <1>1, <2>1, <2>2, <2>3 DEF Nodes
    <2>7. NodesOK' /\ PlaceOK'
      BY <1>1, <2>1, <2>2, <2>3, <2>4, <2>5 DEF NodesOK, PlaceOK, Unique
    <2>8. NothingSent'
      BY <1>1, <2>1, <2>2, <2>3, <2>5 DEF NothingSent, KeptBut
    <2>9. QED
      BY <2>6, <2>7, <2>8 DEF MessagesOK
  <1>3. CASE disktype' = "none" /\ UNCHANGED <<volumenode, locklist, nodes, messages>>
    <2>1. NodeTypes' /\ PlaceOK'
      BY <1>1, <1>3 DEF PlaceOK
    <2>2. QED
      BY <1>1, <1>3, <2>1, SameNodes DEF dos
  <1>4. CASE /\ Found = {} /\ \E n \in VolumeNodes : nodes[n] = Free
             /\ volumenode' = NewNode /\ disktype' = "dos"
             /\ nodes' = [nodes EXCEPT ![NewNode].disk = cached]
             /\ messages' = Append(messages, <<"add", NewNode>>)
             /\ UNCHANGED locklist
    <2>1. PICK n \in VolumeNodes : n = NewNode /\ nodes[n] = Free
      BY <1>4 DEF NewNode
    <2>2. n \notin list
      BY <2>1 DEF NodesOK
    <2>3. /\ nodes' \in [VolumeNodes -> Nodes]
          /\ nodes'[n].disk = cached /\ nodes'[n].handles = {}
          /\ \A m \in VolumeNodes \ {n} : nodes'[m] = nodes[m]
      BY <1>4, <2>1 DEF Nodes, Free
    <2>4. /\ nodes'[n] # Free /\ volumenode' = n /\ n # 0
          /\ messages' = <<<<"add", n>>>>
          /\ locklist' = locklist /\ disktype' = "dos"
      BY <1>1, <1>4, <2>1, <2>3, LoopAssumption DEF Free, VolumeNodes
    <2>5. \A m \in list : nodes[m].disk # cached
      BY <1>4 DEF Found
    <2>6. NodeTypes' /\ PlaceOK'
      BY <1>1, <2>1, <2>3, <2>4 DEF PlaceOK
    <2>7. NodesOK'
      BY <1>1, <2>1, <2>2, <2>3, <2>4, <2>5 DEF NodesOK, Unique
    <2>8. AddSent(n)'
      BY <1>1, <2>1, <2>2, <2>3, <2>4, <2>5 DEF AddSent, AddOnly, Unique, KeptBut
    <2>9. QED
      BY <2>1, <2>6, <2>7, <2>8 DEF MessagesOK
  <1>5. QED
    BY <1>2, <1>3, <1>4

\* sdlhtask puts all messages into effect.
LEMMA SDLHStep ==
  ASSUME ListInv, SDLHTask
  PROVE  ListInv'
  <1> USE DEF ListInv, NodeTypes
  <1>1. PICK lucky \in BOOLEAN : /\ list' = AllHandled(lucky).list
                                /\ nodes' = AllHandled(lucky).nodes
    BY DEF SDLHTask
  <1>2. /\ messages # <<>> /\ messages' = <<>> /\ volumenode' = volumenode
        /\ UNCHANGED <<drive, cached, locklist, doing, disktype>>
    BY DEF SDLHTask, device, place, volume, memory
  <1>3. PlaceOK'
    BY <1>2 DEF PlaceOK
  <1>4. CASE \E a \in VolumeNodes : AddSent(a)
    <2>1. PICK a \in VolumeNodes : AddSent(a)
      BY <1>4
    <2>2. list' = list \cup {a} /\ nodes' = nodes
      BY <1>1, <2>1, AddHandled DEF AddSent
    <2>3. NodeTypes'
      BY <1>2, <2>2
    <2>4. NodesOK'
      BY <1>2, <2>1, <2>2 DEF NodesOK, AddSent, Unique
    <2>5. NothingSent'
      BY <1>2, <2>1, <2>2 DEF NothingSent, AddSent, KeptBut
    <2>6. QED
      BY <1>3, <2>3, <2>4, <2>5 DEF MessagesOK
  <1>5. CASE \E r \in VolumeNodes : RemoveSent(r)
    <2>1. PICK r \in VolumeNodes : RemoveSent(r)
      BY <1>5
    <2>2. list' = list \ {r} /\ nodes' = [nodes EXCEPT ![r] = Free]
      BY <1>1, <2>1, RemoveHandled DEF RemoveSent
    <2>3. NodeTypes'
      BY <1>2, <2>2 DEF Nodes, Free
    <2>4. NodesOK'
      BY <1>2, <2>1, <2>2 DEF NodesOK, RemoveSent, Unique
    <2>5. NothingSent'
      BY <1>2, <2>1, <2>2 DEF NothingSent, RemoveSent, KeptBut
    <2>6. QED
      BY <1>3, <2>3, <2>4, <2>5 DEF MessagesOK
  <1>6. QED
    BY <1>2, <1>4, <1>5 DEF MessagesOK, NothingSent

\* Nothing else touches the nodes.
LEMMA ListStep ==
  ASSUME ListInv, [Next]_vars, "early" \notin Lapses
  PROVE  ListInv'
  <1> USE DEF device, place, volume, memory, packets
  <1>1. ASSUME UNCHANGED <<dos, volume, doing, drive, cached>>
        PROVE  ListInv'
    BY <1>1, SameNodes DEF ListInv, NodeTypes, PlaceOK, dos
  <1>2. CASE DiskChange \/ InitDiskReads \/ DeinitDisk \/ Inhibit \/ Uninhibit
    <2>1. UNCHANGED <<dos, volumenode, locklist, drive>>
      BY <1>2 DEF DiskChange, InitDiskReads, DeinitDisk, Inhibit, Uninhibit
    <2>2. NodeTypes'
      <3>1. cached' \in Disks \cup {NoDisk}
        BY <1>2 DEF ListInv, NodeTypes, DiskChange, InitDiskReads, DeinitDisk, Inhibit,
                    Uninhibit
      <3>2. QED
        BY <2>1, <3>1 DEF ListInv, NodeTypes, dos
    <2>3. ASSUME DiskChange PROVE PlaceOK'
      BY <2>1, <2>3 DEF ListInv, PlaceOK, DiskChange, InitDisk, Turn
    <2>4. ASSUME InitDiskReads PROVE PlaceOK'
      BY <2>1, <2>4 DEF ListInv, PlaceOK, InitDiskReads, ReadRoots, Returns
    <2>5. ASSUME DeinitDisk PROVE PlaceOK'
      BY <2>1, <2>5 DEF ListInv, PlaceOK, DeinitDisk, Returns
    <2>6. ASSUME Inhibit PROVE PlaceOK'
      BY <2>1, <2>6 DEF ListInv, PlaceOK, Inhibit, Receive, Turn
    <2>7. ASSUME Uninhibit PROVE PlaceOK'
      BY <2>1, <2>7 DEF ListInv, PlaceOK, Uninhibit, InitDisk, Receive, Turn
    <2>8. QED
      BY <1>2, <2>1, <2>2, <2>3, <2>4, <2>5, <2>6, <2>7, SameNodes
  <1>3. CASE LockObject \/ FreeLock \/ AddNotify \/ RemoveNotify
    <2>1. /\ UNCHANGED <<dos, volumenode, disktype, doing, drive, cached>>
          /\ disktype = "dos" /\ doing = "loop"
      BY <1>3 DEF LockObject, FreeLock, AddNotify, RemoveNotify, OnVolume, Receive, Turn
    <2>2. locklist' \subseteq Handles
      BY <1>3 DEF ListInv, NodeTypes, LockObject, FreeLock, AddNotify, RemoveNotify,
                  Granted, Freed, NewHandles
    <2>3. NodeTypes' /\ PlaceOK'
      BY <2>1, <2>2 DEF ListInv, NodeTypes, PlaceOK, dos
    <2>4. QED
      BY <2>1, <2>3, SameNodes
  <1>4. CASE ExchangeDisk
    <2>1. drive' \in Disks \cup {NoDisk} /\ UNCHANGED <<dos, volume, doing, cached>>
      BY <1>4 DEF ExchangeDisk
    <2>2. QED
      BY <2>1, SameNodes DEF ListInv, NodeTypes, PlaceOK, dos
  <1>5. CASE \/ ActivityTimer \/ InactivityTimer \/ JustAnswer \/ ChangeVolume \/ Flush
             \/ RetryLock \/ ActivityExpires \/ InactivityExpires \/ UnlockList
             \/ UNCHANGED vars
    BY <1>1, <1>5 DEF ActivityTimer, InactivityTimer, JustAnswer, ChangeVolume, Flush,
         OnVolume, RetryLock, ActivityExpires, InactivityExpires, Expires, UnlockList, vars
  <1>6. ASSUME NEW c, NEW type, Send(c, type) \/ LockList(c)
        PROVE  ListInv'
    BY <1>1, <1>6 DEF Send, LockList
  <1>7. QED
    BY <1>2, <1>3, <1>4, <1>5, <1>6, TransferStep, AttemptStep, MountStep, SDLHStep
       DEF Next, Handler, HandlePacket

\* The messages of a batch of one.
LEMMA ToSetOne ==
  ASSUME NEW x PROVE ToSet(<<x>>) = {x}
  BY DEF ToSet

\* The same for two.
LEMMA ToSetTwo ==
  ASSUME NEW x, NEW y PROVE ToSet(<<x, y>>) = {x, y}
  BY DEF ToSet

\* Which messages Added and Removed find.
LEMMA MessagesFound ==
  ASSUME NEW n
  PROVE  /\ AddOnly(n) => Added(n)
         /\ RemoveOnly(n) \/ AddRemove(n) => Removed(n)
  <1>1. ASSUME NEW m, messages = <<m>> PROVE m \in ToSet(messages)
    BY <1>1 DEF ToSet
  <1>2. ASSUME NEW k, NEW m, messages = <<k, m>> PROVE m \in ToSet(messages)
    BY <1>2 DEF ToSet
  <1>3. QED
    BY <1>1, <1>2 DEF AddOnly, RemoveOnly, AddRemove, Added, Removed

\* DosListRight follows.
LEMMA ListInvImplies == ListInv => DosListRight
  <1> SUFFICES ASSUME ListInv PROVE DosListRight
    OBVIOUS
  <1>1. \A n \in list : nodes[n] # Free
    BY DEF ListInv, NodesOK
  <1>2. \A m, n \in list : nodes[m].disk = nodes[n].disk => m = n
    BY DEF ListInv, NodesOK, Unique
  <1>3. volumenode # 0 => /\ nodes[volumenode] # Free
                          /\ volumenode \in list \/ Added(volumenode)
    BY MessagesFound DEF ListInv, NodesOK, MessagesOK, NothingSent, AddSent, RemoveSent
  <1>4. \A n \in VolumeNodes \ {volumenode} : nodes[n] # Free =>
          \/ Removed(n)
          \/ nodes[n].handles # {} /\ (n \in list \/ Added(n))
    BY MessagesFound DEF ListInv, MessagesOK, NothingSent, AddSent, RemoveSent, KeptBut
  <1>5. QED
    BY <1>1, <1>2, <1>3, <1>4 DEF DosListRight

\* If the handler waits for the DosList until sdlhtask is done with its messages:
\* the list never holds a freed node, nor two nodes for one volume; the handler's
\* node is in it or to be added; and no node is left behind without handles
\* (usevolumenode, deinitdisk, attemptlockdoslist and sdlhtask).
THEOREM SpecDosListRight ==
  ASSUME "early" \notin Lapses
  PROVE  Spec => []DosListRight
  <1>1. Init => ListInv
    BY ListInit
  <1>2. ListInv /\ [Next]_vars => ListInv'
    BY ListStep
  <1>3. ListInv => DosListRight
    BY ListInvImplies
  <1>4. QED
    BY <1>1, <1>2, <1>3, PTL DEF Spec

-----------------------------------------------------------------------------
(* The volumes. *)

DiskOK ==
  /\ drive # NoDisk => {cached, Mounted} \subseteq {drive, NoDisk}
  /\ ops \subseteq {cached} /\ NoDisk \notin ops
  /\ volumenode # 0 =>
       cached = IF doing \in {"transfer", "attempt"} THEN NoDisk ELSE Mounted

\* The inductive invariant of the volumes.
DiskInv == ListInv /\ DiskOK

\* Handle h is one on disk d.
Holds(d, h) ==
  IF d = Mounted THEN h \in locklist
  ELSE \E n \in VolumeNodes : /\ nodes[n].disk = d /\ (n \in list \/ Added(n))
                              /\ h \in nodes[n].handles

\* VolumeHandles, element by element.
LEMMA HandlesAre ==
  NodeTypes => VolumeHandles = [d \in Disks |-> {h \in Handles : Holds(d, h)}]
  <1> SUFFICES ASSUME NodeTypes
               PROVE  VolumeHandles = [d \in Disks |-> {h \in Handles : Holds(d, h)}]
    OBVIOUS
  <1>1. \A n \in VolumeNodes : nodes[n].handles \subseteq Handles
    BY DEF NodeTypes, Nodes
  <1>2. ASSUME NEW d \in Disks
        PROVE  (IF d = Mounted THEN locklist
                ELSE UNION {nodes[n].handles : n \in {m \in VolumeNodes :
                       nodes[m].disk = d /\ (m \in list \/ Added(m))}})
               = {h \in Handles : Holds(d, h)}
    BY <1>1 DEF Holds, NodeTypes
  <1>3. QED
    BY <1>2 DEF VolumeHandles

\* The same of the next state, and what follows when no handle moves.
LEMMA HandlesSame ==
  ASSUME NodeTypes, NodeTypes',
         \A d \in Disks, h \in Handles : Holds(d, h)' <=> Holds(d, h)
  PROVE  VolumeHandles' = VolumeHandles
  <1>1. VolumeHandles = [d \in Disks |-> {h \in Handles : Holds(d, h)}]
    BY HandlesAre
  <1>2. (NodeTypes =>
           VolumeHandles = [d \in Disks |-> {h \in Handles : Holds(d, h)}])'
    BY HandlesAre, PTL
  <1>3. QED
    BY <1>1, <1>2

\* The mounted volume is on a disk; a node of its own says that there is one.
LEMMA MountedIs ==
  ListInv => /\ volumenode = 0 <=> Mounted = NoDisk
             /\ Mounted \in Disks \cup {NoDisk}
  BY LoopAssumption DEF ListInv, NodesOK, NodeTypes, Mounted

\* Which nodes the messages there can be are about to add.
LEMMA AddedIs ==
  ASSUME NEW n
  PROVE  /\ messages = <<>> => \A m : ~Added(m)
         /\ AddOnly(n) \/ AddRemove(n) => \A m : Added(m) <=> m = n
         /\ RemoveOnly(n) => \A m : ~Added(m)
  <1>1. ASSUME messages = <<>> PROVE \A m : ~Added(m)
    BY <1>1 DEF Added, ToSet
  <1>2. ASSUME AddOnly(n) PROVE \A m : Added(m) <=> m = n
    BY <1>2, ToSetOne DEF AddOnly, Added
  <1>3. ASSUME AddRemove(n) PROVE \A m : Added(m) <=> m = n
    BY <1>3, ToSetTwo DEF AddRemove, Added
  <1>4. ASSUME RemoveOnly(n) PROVE \A m : ~Added(m)
    BY <1>4, ToSetOne DEF RemoveOnly, Added
  <1>5. QED
    BY <1>1, <1>2, <1>3, <1>4

\* A step that leaves the nodes and the handles alone is not seen there.
LEMMA Unseen ==
  ASSUME ListInv, ListInv', UNCHANGED <<dos, volumenode, locklist>>
  PROVE  Mounted' = Mounted /\ VolumeHandles' = VolumeHandles
  <1>1. Mounted' = Mounted
    BY DEF Mounted, dos
  <1>2. \A d, h : Holds(d, h)' <=> Holds(d, h)
    BY <1>1 DEF Holds, Added, dos
  <1>3. QED
    BY <1>1, <1>2, HandlesSame DEF ListInv

\* A flush saves the changes, and needs the disk of the caches for them.
LEMMA FlushSaves ==
  ASSUME DiskInv, ListInv', NEW t, NEW f \in Flushes(t), "cancel" \notin Lapses,
         ops' = f.ops, UNCHANGED <<drive, dos, volumenode, locklist>>
  PROVE  /\ ops' = {}
         /\ V!Save
  <1>1. ops' = {} /\ (ops = {} \/ drive # NoDisk)
    BY DEF Flushes
  <1>2. ops \subseteq {drive}
    BY <1>1, LoopAssumption DEF DiskInv, DiskOK
  <1>3. QED
    BY <1>1, <1>2, Unseen DEF DiskInv, V!Save

\* initdisk corrects the count of free blocks on the disk that it mounts next.
LEMMA ReadsSeen ==
  ASSUME DiskInv, ListInv', InitDiskReads
  PROVE  DiskOK' /\ [V!Next]_V!vars
  <1> USE DEF DiskInv, DiskOK
  <1>1. /\ UNCHANGED <<drive, dos, volumenode, locklist>> /\ volumenode = 0
        /\ Mounted' = Mounted /\ VolumeHandles' = VolumeHandles
        /\ Mounted = NoDisk
    <2>1. UNCHANGED <<drive, dos, volumenode, locklist>> /\ volumenode = 0
      BY DEF InitDiskReads, device, ListInv, PlaceOK
    <2>2. QED
      BY <2>1, Unseen, MountedIs
  <1>2. cached = NoDisk => ops = {}
    OBVIOUS
  <1>3. PICK disk : /\ disk = IF cached = NoDisk THEN drive ELSE cached
                    /\ cached' = disk
                    /\ \/ UNCHANGED ops
                       \/ /\ disk \in DosDisks
                          /\ \E corrected \in SUBSET {disk} : ops' = ops \cup corrected
    BY DEF InitDiskReads, ReadRoots
  <1>4. disk \in Disks => disk # NoDisk
    BY LoopAssumption
  <1>5. DiskOK'
    BY <1>1, <1>2, <1>3, <1>4, LoopAssumption
  <1>6. CASE UNCHANGED ops
    BY <1>1, <1>5, <1>6 DEF V!vars
  <1>7. CASE disk \in DosDisks /\ ops' = ops \cup {disk}
    BY <1>1, <1>3, <1>5, <1>7, LoopAssumption DEF V!Next, V!Change
  <1>8. QED
    BY <1>3, <1>6, <1>7

\* initdisk mounts the volume that it has read, with the handles kept for it.
LEMMA MountSeen ==
  ASSUME DiskInv, ListInv', InitDiskMounts, "early" \notin Lapses
  PROVE  DiskOK' /\ [V!Next]_V!vars
  <1> USE DEF InitDiskMounts, DiskInv, ListInv, NodeTypes
  <1>1. /\ messages = <<>> /\ volumenode = 0 /\ locklist = {} /\ Mounted = NoDisk
        /\ cached \in DosDisks /\ cached \in Disks /\ cached # NoDisk
        /\ UNCHANGED <<drive, cached, ops, list>> /\ doing' = "loop"
    BY MountedIs, LoopAssumption DEF ListIsMine, PlaceOK, memory, device, Returns
  <1>2. \A m : ~Added(m)
    BY <1>1, AddedIs
  <1>3. ASSUME NEW n \in VolumeNodes, volumenode' = n, nodes'[n].disk = cached,
               \A d \in Disks, h \in Handles : Holds(d, h)' <=> Holds(d, h)
        PROVE  DiskOK' /\ [V!Next]_V!vars
    <2>1. Mounted' = cached
      BY <1>3, LoopAssumption DEF Mounted, VolumeNodes
    <2>2. VolumeHandles' = VolumeHandles
      BY <1>3, HandlesSame
    <2>3. DiskOK'
      BY <1>1, <2>1 DEF DiskOK
    <2>4. V!Mount
      BY <1>1, <2>1, <2>2 DEF V!Mount, DiskOK
    <2>5. QED
      BY <2>3, <2>4 DEF V!Next
  <1>4. ASSUME NEW n \in Found, volumenode' = n, locklist' = nodes[n].handles,
               nodes' = [nodes EXCEPT ![n].handles = {}], UNCHANGED messages
        PROVE  DiskOK' /\ [V!Next]_V!vars
    <2>1. n \in list /\ n \in VolumeNodes /\ nodes[n].disk = cached
      BY DEF Found
    <2>2. /\ \A m \in VolumeNodes : nodes'[m].disk = nodes[m].disk
          /\ \A m \in VolumeNodes \ {n} : nodes'[m] = nodes[m]
      BY <1>4, <2>1 DEF Nodes
    <2>3. \A m \in list : nodes[m].disk = cached => m = n
      BY <2>1 DEF NodesOK, Unique
    <2>4. Mounted' = cached
      BY <1>4, <2>1, <2>2, LoopAssumption DEF Mounted, VolumeNodes
    <2>5. \A m : ~Added(m)'
      BY <1>2, <1>4 DEF Added
    <2>6. ASSUME NEW d \in Disks, NEW h \in Handles PROVE Holds(d, h)' <=> Holds(d, h)
      <3>1. CASE d = cached
        BY <1>1, <1>2, <1>4, <2>1, <2>3, <2>4, <3>1 DEF Holds
      <3>2. CASE d # cached
        <4>1. Holds(d, h) <=> \E m \in VolumeNodes :
                /\ nodes[m].disk = d /\ m \in list /\ h \in nodes[m].handles
          BY <1>1, <1>2, LoopAssumption DEF Holds
        <4>2. Holds(d, h)' <=> \E m \in VolumeNodes :
                /\ nodes'[m].disk = d /\ m \in list /\ h \in nodes'[m].handles
          BY <1>1, <2>4, <2>5, <3>2 DEF Holds
        <4>3. \A m \in VolumeNodes : nodes[m].disk = d => nodes'[m] = nodes[m]
          BY <2>1, <2>2, <3>2
        <4>4. QED
          BY <2>2, <4>1, <4>2, <4>3
      <3>3. QED
        BY <3>1, <3>2
    <2>7. QED
      BY <1>3, <1>4, <2>1, <2>2, <2>6
  <1>5. ASSUME UNCHANGED <<volumenode, locklist, nodes, messages>>
        PROVE  DiskOK' /\ [V!Next]_V!vars
    <2>1. Mounted' = Mounted /\ VolumeHandles' = VolumeHandles
      BY <1>1, <1>5, Unseen DEF dos
    <2>2. DiskOK'
      BY <1>1, <1>5, <2>1 DEF DiskOK
    <2>3. QED
      BY <1>1, <2>1, <2>2 DEF V!vars
  <1>6. ASSUME Found = {}, \E n \in VolumeNodes : nodes[n] = Free,
               volumenode' = NewNode, nodes' = [nodes EXCEPT ![NewNode].disk = cached],
               messages' = Append(messages, <<"add", NewNode>>), UNCHANGED locklist
        PROVE  DiskOK' /\ [V!Next]_V!vars
    <2>1. PICK n \in VolumeNodes : n = NewNode /\ nodes[n] = Free
      BY <1>6 DEF NewNode
    <2>2. /\ nodes'[n].disk = cached /\ nodes[n].disk = NoDisk
          /\ \A m \in VolumeNodes \ {n} : nodes'[m] = nodes[m]
      BY <1>6, <2>1 DEF Nodes, Free
    <2>3. \A m \in list : nodes[m].disk # cached
      BY <1>6 DEF Found
    <2>4. Mounted' = cached
      BY <1>6, <2>1, <2>2, LoopAssumption DEF Mounted, VolumeNodes
    <2>5. \A m : Added(m)' => m = n
      <3>1. AddOnly(n)'
        BY <1>1, <1>6, <2>1 DEF AddOnly
      <3>2. QED
        BY <3>1, ToSetOne DEF AddOnly, Added
    <2>6. ASSUME NEW d \in Disks, NEW h \in Handles PROVE Holds(d, h)' <=> Holds(d, h)
      <3>1. n \notin list
        BY <2>1 DEF NodesOK
      <3>2. CASE d = cached
        BY <1>1, <1>2, <1>6, <2>3, <2>4, <3>2 DEF Holds
      <3>3. CASE d # cached
        BY <1>1, <1>2, <2>2, <2>4, <2>5, <3>1, <3>3, LoopAssumption DEF Holds
      <3>4. QED
        BY <3>2, <3>3
    <2>7. QED
      BY <1>3, <1>6, <2>1, <2>2, <2>6
  <1>7. QED
    BY <1>4, <1>5, <1>6

\* The handler's node is the only one for its volume, listed or to be added.
LEMMA OneNode ==
  ASSUME ListInv, volumenode # 0
  PROVE  /\ volumenode \in list \/ Added(volumenode)
         /\ \A n \in VolumeNodes : /\ n \in list \/ Added(n)
                                   /\ nodes[n].disk = Mounted
                                   => n = volumenode
         /\ Mounted = nodes[volumenode].disk
         /\ volumenode \in VolumeNodes
         /\ (NothingSent /\ \A n : ~Added(n)) \/ AddSent(volumenode)
  <1>1. volumenode \in VolumeNodes /\ Mounted = nodes[volumenode].disk
    BY DEF ListInv, NodeTypes, Mounted
  <1>2. CASE NothingSent
    <2>1. \A n : ~Added(n)
      BY <1>2, AddedIs DEF NothingSent
    <2>2. QED
      BY <1>1, <1>2, <2>1 DEF ListInv, NothingSent, NodesOK, Unique
  <1>3. CASE AddSent(volumenode)
    <2>1. \A n : Added(n) <=> n = volumenode
      BY <1>3, AddedIs DEF AddSent
    <2>2. QED
      BY <1>1, <1>3, <2>1 DEF AddSent, Unique
  <1>4. QED
    BY <1>2, <1>3 DEF ListInv, MessagesOK, AddSent, RemoveSent

\* The caches are invalid, and nothing is left to save, when deinitdisk gives up
\* the volume node.
LEMMA NothingUnsaved ==
  ASSUME DiskInv, doing \in {"transfer", "attempt"}
  PROVE  volumenode # 0 /\ cached = NoDisk /\ ops = {}
  BY DEF DiskInv, DiskOK, ListInv, PlaceOK

\* With its handles left to the node: the node holds them from now on.
LEMMA TransferSeen ==
  ASSUME DiskInv, ListInv', TransferHandles
  PROVE  DiskOK' /\ [V!Next]_V!vars
  <1> USE DEF DiskInv, ListInv, NodeTypes
  <1>1. /\ volumenode # 0 /\ cached = NoDisk /\ ops = {}
        /\ UNCHANGED <<drive, cached, ops, list, messages>> /\ volumenode' = 0
        /\ locklist' = {} /\ Mounted' = NoDisk
    BY NothingUnsaved DEF TransferHandles, device, memory, Mounted
  <1>2. PICK v \in VolumeNodes :
          /\ v = volumenode /\ Mounted = nodes[v].disk
          /\ v \in list \/ Added(v)
          /\ \A n \in VolumeNodes : (n \in list \/ Added(n)) /\ nodes[n].disk = Mounted
                                    => n = v
    BY <1>1, OneNode
  <1>3. /\ \A n \in VolumeNodes : nodes'[n].disk = nodes[n].disk
        /\ \A n \in VolumeNodes \ {v} : nodes'[n] = nodes[n]
        /\ nodes'[v].handles = locklist
    <2>1. nodes' = [nodes EXCEPT ![v].handles = locklist]
      BY <1>2 DEF TransferHandles
    <2>2. QED
      BY <2>1 DEF Nodes
  <1>4. \A n : Added(n)' <=> Added(n)
    BY <1>1 DEF Added
  <1>5. ASSUME NEW d \in Disks, NEW h \in Handles PROVE Holds(d, h)' <=> Holds(d, h)
    <2>1. Holds(d, h)' <=> \E n \in VolumeNodes :
            /\ nodes'[n].disk = d /\ (n \in list \/ Added(n)) /\ h \in nodes'[n].handles
      BY <1>1, <1>4, LoopAssumption DEF Holds
    <2>2. CASE d = Mounted
      <3>1. \A n \in VolumeNodes : nodes'[n].disk = d /\ (n \in list \/ Added(n)) <=> n = v
        BY <1>2, <1>3, <2>2
      <3>2. Holds(d, h)' <=> h \in nodes'[v].handles
        BY <2>1, <3>1
      <3>3. QED
        BY <1>3, <2>2, <3>2 DEF Holds
    <2>3. CASE d # Mounted
      <3>1. \A n \in VolumeNodes : nodes[n].disk = d => nodes'[n] = nodes[n]
        BY <1>2, <1>3, <2>3
      <3>2. Holds(d, h) <=> \E n \in VolumeNodes :
              /\ nodes[n].disk = d /\ (n \in list \/ Added(n)) /\ h \in nodes[n].handles
        BY <2>3 DEF Holds
      <3>3. QED
        BY <1>3, <2>1, <3>1, <3>2
    <2>4. QED
      BY <2>2, <2>3
  <1>6. VolumeHandles' = VolumeHandles
    BY <1>5, HandlesSame
  <1>7. DiskOK'
    BY <1>1 DEF DiskOK
  <1>8. V!Unmount
    BY <1>1, <1>6 DEF V!Unmount
  <1>9. QED
    BY <1>7, <1>8 DEF V!Next

\* Without any: it goes, and there are no other nodes for the volume.
LEMMA AttemptSeen ==
  ASSUME DiskInv, ListInv', AttemptLock
  PROVE  DiskOK' /\ [V!Next]_V!vars
  <1> USE DEF DiskInv, ListInv, NodeTypes
  <1>1. /\ volumenode # 0 /\ cached = NoDisk /\ ops = {} /\ locklist = {}
        /\ UNCHANGED <<drive, cached, ops, nodes, locklist>> /\ volumenode' = 0
        /\ Mounted' = NoDisk
    BY NothingUnsaved DEF AttemptLock, RemoveNode, PlaceOK, device, memory, Mounted
  <1>2. PICK v \in VolumeNodes :
          /\ v = volumenode /\ Mounted = nodes[v].disk
          /\ \A n \in VolumeNodes : (n \in list \/ Added(n)) /\ nodes[n].disk = Mounted
                                    => n = v
          /\ (NothingSent /\ \A n : ~Added(n)) \/ AddSent(v)
    BY <1>1, OneNode
  <1>3. list \ {v} \subseteq list' /\ list' \subseteq list
        /\ messages' = Append(messages, <<"remove", v>>)
    BY <1>2 DEF AttemptLock, RemoveNode
  <1>4. \A n : Added(n)' <=> Added(n)
    <2>1. CASE NothingSent /\ \A n : ~Added(n)
      <3>1. RemoveOnly(v)'
        BY <1>3, <2>1 DEF NothingSent, RemoveOnly
      <3>2. \A n : ~Added(n)'
        BY <3>1, ToSetOne DEF RemoveOnly, Added
      <3>3. QED
        BY <2>1, <3>2
    <2>2. CASE AddSent(v)
      <3>1. messages = <<<<"add", v>>>>
        BY <2>2 DEF AddSent, AddOnly
      <3>2. messages' = <<<<"add", v>>, <<"remove", v>>>>
        BY <1>3, <3>1, AppendOne
      <3>3. \A n : Added(n)' <=> n = v
        BY <3>2, ToSetTwo DEF Added
      <3>4. \A n : Added(n) <=> n = v
        BY <2>2, AddedIs DEF AddSent
      <3>5. QED
        BY <3>3, <3>4
    <2>3. QED
      BY <1>2, <2>1, <2>2
  <1>5. nodes[v].handles = {}
    BY <1>1, <1>2 DEF NodesOK
  <1>6. ASSUME NEW d \in Disks, NEW h \in Handles PROVE Holds(d, h)' <=> Holds(d, h)
    <2>1. Holds(d, h)' <=> \E n \in VolumeNodes :
            /\ nodes[n].disk = d /\ (n \in list' \/ Added(n)) /\ h \in nodes[n].handles
      BY <1>1, <1>4, LoopAssumption DEF Holds
    <2>2. CASE d = Mounted
      BY <1>1, <1>2, <1>3, <1>5, <2>1, <2>2 DEF Holds
    <2>3. CASE d # Mounted
      BY <1>2, <1>3, <1>5, <2>1, <2>3 DEF Holds
    <2>4. QED
      BY <2>2, <2>3
  <1>7. VolumeHandles' = VolumeHandles
    BY <1>6, HandlesSame
  <1>8. DiskOK'
    BY <1>1 DEF DiskOK
  <1>9. V!Unmount
    BY <1>1, <1>7 DEF V!Unmount
  <1>10. QED
    BY <1>8, <1>9 DEF V!Next

\* What sdlhtask does is not seen: an added node was counted already, and one that
\* is freed holds nothing.
LEMMA SDLHSeen ==
  ASSUME DiskInv, ListInv', SDLHTask
  PROVE  DiskOK' /\ UNCHANGED V!vars
  <1> USE DEF DiskInv, ListInv, NodeTypes
  <1>1. PICK lucky \in BOOLEAN : /\ list' = AllHandled(lucky).list
                                /\ nodes' = AllHandled(lucky).nodes
    BY DEF SDLHTask
  <1>2. /\ messages # <<>> /\ messages' = <<>>
        /\ UNCHANGED <<drive, cached, ops, volumenode, locklist, doing>>
    BY DEF SDLHTask, device, place, volume, memory
  <1>3. \A n : ~Added(n)'
    BY <1>2 DEF Added, ToSet
  <1>4. ASSUME Mounted' = Mounted,
               \A d \in Disks, h \in Handles : Holds(d, h)' <=> Holds(d, h)
        PROVE  DiskOK' /\ UNCHANGED V!vars
    <2>1. VolumeHandles' = VolumeHandles
      BY <1>4, HandlesSame
    <2>2. QED
      BY <1>2, <1>4, <2>1 DEF DiskOK, V!vars
  <1>5. CASE \E a \in VolumeNodes : AddSent(a)
    <2>1. PICK a \in VolumeNodes : AddSent(a)
      BY <1>5
    <2>2. list' = list \cup {a} /\ nodes' = nodes
      BY <1>1, <2>1, AddHandled DEF AddSent
    <2>3. \A n : Added(n) <=> n = a
      BY <2>1, AddedIs DEF AddSent
    <2>4. Mounted' = Mounted
      BY <1>2, <2>2 DEF Mounted
    <2>5. \A d, h : Holds(d, h)' <=> Holds(d, h)
      BY <1>2, <1>3, <2>2, <2>3, <2>4 DEF Holds
    <2>6. QED
      BY <1>4, <2>4, <2>5
  <1>6. CASE \E r \in VolumeNodes : RemoveSent(r)
    <2>1. PICK r \in VolumeNodes : RemoveSent(r)
      BY <1>6
    <2>2. list' = list \ {r} /\ nodes' = [nodes EXCEPT ![r] = Free]
      BY <1>1, <2>1, RemoveHandled DEF RemoveSent
    <2>3. \A n : Added(n) => n = r
      BY <2>1, AddedIs DEF RemoveSent
    <2>4. Mounted = NoDisk /\ Mounted' = NoDisk
      BY <1>2, <2>1 DEF Mounted, RemoveSent
    <2>5. /\ nodes[r].handles = {} /\ nodes'[r].handles = {}
          /\ \A n \in VolumeNodes \ {r} : nodes'[n] = nodes[n]
      BY <2>1, <2>2 DEF RemoveSent, Free
    <2>6. ASSUME NEW d \in Disks, NEW h \in Handles PROVE Holds(d, h)' <=> Holds(d, h)
      <3>1. d # NoDisk
        BY LoopAssumption
      <3>2. Holds(d, h)' <=> \E n \in VolumeNodes \ {r} :
              nodes'[n].disk = d /\ n \in list' /\ h \in nodes'[n].handles
        BY <1>3, <2>4, <2>5, <3>1 DEF Holds
      <3>3. Holds(d, h) <=> \E n \in VolumeNodes \ {r} :
              nodes[n].disk = d /\ n \in list /\ h \in nodes[n].handles
        BY <2>3, <2>4, <2>5, <3>1 DEF Holds
      <3>4. QED
        BY <2>2, <2>5, <3>2, <3>3
    <2>7. QED
      BY <1>4, <2>4, <2>6
  <1>7. QED
    BY <1>2, <1>5, <1>6 DEF MessagesOK, NothingSent

\* A packet on the volume adds a handle to it, or frees one, or neither.
LEMMA HandlePacketSeen ==
  ASSUME DiskInv, ListInv', LockObject \/ FreeLock \/ AddNotify \/ RemoveNotify
  PROVE  DiskOK' /\ [V!Next]_V!vars
  <1> USE DEF DiskInv, ListInv, NodeTypes
  <1>1. /\ UNCHANGED <<drive, dos, volumenode, doing, cached, ops>>
        /\ volumenode # 0
    BY DEF LockObject, FreeLock, AddNotify, RemoveNotify, OnVolume, PlaceOK, device, memory
  <1>2. Mounted' = Mounted /\ Mounted \in Disks /\ Mounted # NoDisk
    BY <1>1, MountedIs DEF Mounted, dos
  <1>3. DiskOK'
    BY <1>1, <1>2 DEF DiskOK
  <1>4. VolumeHandles' = [VolumeHandles EXCEPT ![Mounted] = locklist']
        /\ VolumeHandles[Mounted] = locklist
    <2>1. \A d : d # Mounted =>
            (UNION {nodes[n].handles : n \in {m \in VolumeNodes :
                nodes[m].disk = d /\ (m \in list \/ Added(m))}})'
            = UNION {nodes[n].handles : n \in {m \in VolumeNodes :
                nodes[m].disk = d /\ (m \in list \/ Added(m))}}
      BY <1>1 DEF dos, Added
    <2>2. QED
      BY <1>2, <2>1 DEF VolumeHandles
  <1>5. CASE LockObject \/ AddNotify
    <2>1. PICK granted : locklist' = locklist \cup granted
      BY <1>5 DEF LockObject, AddNotify, Granted
    <2>2. V!Grant
      BY <1>1, <1>2, <1>4, <2>1 DEF V!Grant, VolumeHandles
    <2>3. QED
      BY <1>3, <2>2 DEF V!Next
  <1>6. CASE \E h \in locklist : locklist' = locklist \ {h}
    <2>1. V!Free
      BY <1>1, <1>2, <1>4, <1>6 DEF V!Free
    <2>2. QED
      BY <1>3, <2>1 DEF V!Next
  <1>7. CASE UNCHANGED locklist
    <2>1. VolumeHandles' = VolumeHandles
      BY <1>1, <1>7, Unseen
    <2>2. QED
      BY <1>1, <1>2, <1>3, <2>1 DEF V!vars
  <1>8. QED
    BY <1>5, <1>6, <1>7 DEF FreeLock, RemoveNotify, Freed

\* Changes are made on the mounted volume, and so are the blocks in the caches.
LEMMA ChangeSeen ==
  ASSUME DiskInv, ListInv', ChangeVolume
  PROVE  DiskOK' /\ [V!Next]_V!vars
  <1>1. /\ UNCHANGED <<drive, dos, volumenode, doing, cached, locklist>>
        /\ volumenode # 0 /\ doing = "loop"
    BY DEF ChangeVolume, OnVolume, Receive, Turn, DiskInv, ListInv, PlaceOK, device
  <1>2. /\ Mounted' = Mounted /\ VolumeHandles' = VolumeHandles
        /\ Mounted \in Disks /\ Mounted # NoDisk /\ cached = Mounted
    BY <1>1, Unseen, MountedIs DEF DiskInv, DiskOK
  <1>3. CASE ops' = ops \cup {Mounted}
    <2>1. DiskOK'
      BY <1>1, <1>2, <1>3 DEF DiskInv, DiskOK
    <2>2. V!Change
      BY <1>1, <1>2, <1>3 DEF V!Change
    <2>3. QED
      BY <2>1, <2>2 DEF V!Next
  <1>4. CASE drive # NoDisk /\ ops' = {}
    <2>1. DiskOK'
      BY <1>1, <1>2, <1>4 DEF DiskInv, DiskOK
    <2>2. V!Save
      BY <1>1, <1>2, <1>4 DEF V!Save, DiskInv, DiskOK
    <2>3. QED
      BY <2>1, <2>2 DEF V!Next
  <1>5. CASE UNCHANGED ops
    BY <1>1, <1>2, <1>5 DEF DiskInv, DiskOK, V!vars
  <1>6. QED
    BY <1>3, <1>4, <1>5 DEF ChangeVolume

\* A flush, from wherever it is called.
LEMMA FlushSeen ==
  ASSUME DiskInv, ListInv', "cancel" \notin Lapses, NEW t, NEW f \in Flushes(t),
         ops' = f.ops, UNCHANGED <<drive, dos, volumenode, locklist>>,
         \/ UNCHANGED <<cached, doing>>
         \/ cached' = NoDisk /\ doing' \in {"loop", "transfer", "attempt"}
             /\ (volumenode # 0 => doing' # "loop")
  PROVE  DiskOK' /\ [V!Next]_V!vars
  <1>1. ops' = {} /\ V!Save /\ Mounted' = Mounted
    BY FlushSaves, Unseen DEF DiskInv
  <1>2. DiskOK'
    BY <1>1 DEF DiskInv, DiskOK
  <1>3. QED
    BY <1>1, <1>2 DEF V!Next

\* At first no volume is mounted and nothing is in memory.
LEMMA DiskInit == Init => DiskInv /\ V!Init
  <1> SUFFICES ASSUME Init PROVE DiskInv /\ V!Init
    OBVIOUS
  <1>1. ListInv
    BY ListInit
  <1>2. Mounted = NoDisk /\ DiskOK
    BY DEF Init, Mounted, DiskOK
  <1>3. VolumeHandles = [d \in Disks |-> {}]
    <2>1. \A d \in Disks, h \in Handles : ~Holds(d, h)
      BY <1>2, LoopAssumption DEF Init, Holds, Free
    <2>2. QED
      BY <1>1, <2>1, HandlesAre DEF ListInv
  <1>4. QED
    BY <1>1, <1>2, <1>3 DEF Init, DiskInv, V!Init

\* Every step of the loop, of its clients, of sdlhtask and of the user is a step of
\* the drive with exchangeable disks, or is not seen.
LEMMA DiskStep ==
  ASSUME DiskInv, [Next]_vars, Lapses \subseteq {"wait"}
  PROVE  DiskInv' /\ [V!Next]_V!vars
  <1>1. /\ "early" \notin Lapses /\ "cancel" \notin Lapses /\ "swap" \notin Lapses
    OBVIOUS
  <1>2. ListInv'
    BY <1>1, ListStep DEF DiskInv
  <1> SUFFICES DiskOK' /\ [V!Next]_V!vars
    BY <1>2 DEF DiskInv
  <1> USE DEF device, place, volume, memory, packets
  <1>3. ASSUME UNCHANGED <<drive, dos, volumenode, locklist, cached, ops>>,
               doing \in {"transfer", "attempt"} <=> doing' \in {"transfer", "attempt"}
        PROVE  DiskOK' /\ [V!Next]_V!vars
    <2>1. Mounted' = Mounted /\ VolumeHandles' = VolumeHandles
      BY <1>2, <1>3, Unseen DEF DiskInv
    <2>2. DiskOK'
      BY <1>3, <2>1 DEF DiskInv, DiskOK
    <2>3. QED
      BY <1>3, <2>1, <2>2 DEF V!vars
  <1>4. CASE ActivityTimer
    BY <1>1, <1>2, <1>4, FlushSeen DEF ActivityTimer
  <1>5. CASE InactivityTimer
    <2> DEFINE t == [timers EXCEPT !.inactivity = "idle"]
    <2>1. CASE UNCHANGED ops
      BY <1>3, <1>5, <2>1 DEF InactivityTimer
    <2>2. CASE \E f \in Flushes(t) : ops' = f.ops
      BY <1>1, <1>2, <1>5, <2>2, FlushSeen DEF InactivityTimer
    <2>3. QED
      BY <1>5, <2>1, <2>2 DEF InactivityTimer
  <1>6. CASE DiskChange \/ JustAnswer \/ Inhibit \/ Uninhibit
    <2>1. UNCHANGED <<drive, dos, volumenode, locklist, cached, ops>>
      BY <1>6 DEF DiskChange, JustAnswer, Inhibit, Uninhibit
    <2>2. doing = "loop" /\ doing' \in {"loop", "read", "deinit"}
      BY <1>6 DEF DiskChange, JustAnswer, Inhibit, Uninhibit, Receive, Turn, InitDisk
    <2>3. QED
      BY <1>3, <2>1, <2>2
  <1>7. CASE DeinitDisk
    <2>1. PICK f \in Flushes(timers) : ops' = f.ops
      BY <1>7 DEF DeinitDisk
    <2>2. /\ UNCHANGED <<drive, dos, volumenode, locklist>> /\ cached' = NoDisk
          /\ doing' \in {"loop", "transfer", "attempt"}
          /\ volumenode # 0 => doing' # "loop"
      BY <1>7 DEF DeinitDisk, Returns
    <2>3. QED
      BY <1>1, <1>2, <2>1, <2>2, FlushSeen
  <1>8. CASE Flush
    BY <1>1, <1>2, <1>8, FlushSeen DEF Flush, OnVolume
  <1>9. CASE ExchangeDisk
    <2>1. /\ UNCHANGED <<dos, volume, memory, doing>>
          /\ drive' = NoDisk \/ {cached, Mounted} \subseteq {drive', NoDisk}
          /\ drive' \in Disks \cup {NoDisk}
      BY <1>1, <1>9 DEF ExchangeDisk, Patient
    <2>2. Mounted' = Mounted /\ VolumeHandles' = VolumeHandles
      BY <1>2, <2>1, Unseen DEF DiskInv
    <2>3. DiskOK'
      BY <2>1, <2>2 DEF DiskInv, DiskOK
    <2>4. V!ChangeDisk
      BY <2>1, <2>2 DEF V!ChangeDisk
    <2>5. QED
      BY <2>3, <2>4 DEF V!Next
  <1>10. CASE RetryLock \/ ActivityExpires \/ InactivityExpires \/ UnlockList
    BY <1>3, <1>10 DEF RetryLock, ActivityExpires, InactivityExpires, Expires, UnlockList
  <1>11. ASSUME NEW c, NEW type, Send(c, type) \/ LockList(c)
         PROVE  DiskOK' /\ [V!Next]_V!vars
    BY <1>3, <1>11 DEF Send, LockList
  <1>12. CASE UNCHANGED vars
    BY <1>3, <1>12 DEF vars
  <1>13. QED
    BY <1>1, <1>2, <1>4, <1>5, <1>6, <1>7, <1>8, <1>9, <1>10, <1>11, <1>12,
       ReadsSeen, MountSeen, TransferSeen, AttemptSeen, SDLHSeen, HandlePacketSeen,
       ChangeSeen DEF Next, Handler, HandlePacket

\* The handler implements the drive with exchangeable disks, if the user saves the
\* changes he is asked for and exchanges a disk only when its volume is gone, and
\* if initdisk gets the DosList after sdlhtask: changes are saved on the disk they
\* were made on, before another one is mounted; and handles that are left to a
\* volume node come back with the volume.
THEOREM ImplementsVolumeSet ==
  ASSUME Lapses \subseteq {"wait"}
  PROVE  Spec => IsVolumeSet
  <1>1. Init => DiskInv /\ V!Init
    BY DiskInit
  <1>2. DiskInv /\ [Next]_vars => DiskInv' /\ [V!Next]_V!vars
    BY DiskStep
  <1>3. QED
    BY <1>1, <1>2, PTL DEF Spec, IsVolumeSet, V!Spec
=============================================================================
