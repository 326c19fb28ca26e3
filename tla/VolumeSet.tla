------------------------------ MODULE VolumeSet ------------------------------
(***************************************************************************)
(* What a drive with exchangeable disks promises.  One volume at most is   *)
(* mounted, it is the disk in the drive, or was until the user took it     *)
(* out.  Changes are saved on the disk they were made on, before another   *)
(* one is mounted.  A handle (a lock, or a request to be notified) stays   *)
(* with its volume while that is out of the drive, until it is freed.      *)
(***************************************************************************)
CONSTANTS Disks, NoDisk

VARIABLES drive,     \* the disk in it
          mounted,   \* the volume in use
          unsaved,   \* the disks with changes in memory
          handles    \* handles[d]: the handles on objects of disk d

vars == <<drive, mounted, unsaved, handles>>

Init == /\ drive \in Disks \cup {NoDisk}
        /\ mounted = NoDisk /\ unsaved = {}
        /\ handles = [d \in Disks |-> {}]

ChangeDisk == /\ drive' \in Disks \cup {NoDisk}
              /\ UNCHANGED <<mounted, unsaved, handles>>

\* The disk may be taken out again at any moment.
Mount == /\ mounted = NoDisk
         /\ mounted' \in Disks /\ drive \in {mounted', NoDisk}
         /\ UNCHANGED <<drive, unsaved, handles>>

Unmount == /\ mounted \notin unsaved
           /\ mounted' = NoDisk
           /\ UNCHANGED <<drive, unsaved, handles>>

\* The disk is changed before it is mounted when its free blocks are corrected.
Change == /\ \E d \in Disks : /\ \/ mounted = d
                                 \/ mounted = NoDisk /\ drive \in {d, NoDisk}
                              /\ unsaved' = unsaved \cup {d}
          /\ UNCHANGED <<drive, mounted, handles>>

Save == /\ unsaved \subseteq {drive}
        /\ unsaved' = {}
        /\ UNCHANGED <<drive, mounted, handles>>

Grant == /\ mounted # NoDisk
         /\ \E S \in SUBSET handles'[mounted] :
              handles' = [handles EXCEPT ![mounted] = @ \cup S]
         /\ UNCHANGED <<drive, mounted, unsaved>>
Free == /\ mounted # NoDisk
        /\ \E h \in handles[mounted] :
             handles' = [handles EXCEPT ![mounted] = @ \ {h}]
        /\ UNCHANGED <<drive, mounted, unsaved>>

Next == \/ ChangeDisk \/ Mount \/ Unmount \/ Change \/ Save \/ Grant \/ Free

Spec == Init /\ [][Next]_vars
=============================================================================
