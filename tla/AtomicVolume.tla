----------------------------- MODULE AtomicVolume ----------------------------
(***************************************************************************)
(* What the "safe writing" scheme promises (SFS.guide, "Safe writing"):    *)
(* the administration blocks of a volume change all at once.  A crash      *)
(* takes the volume back to the last flush, never to a mixture, and        *)
(* nothing changes until the volume is mounted again.                      *)
(***************************************************************************)
CONSTANTS Admin,     \* the administration blocks
          Content    \* what one of them can hold

VARIABLES stable,    \* what a crash now would leave after recovery
          pending,   \* what the clients see
          up         \* the volume is mounted

vars == <<stable, pending, up>>

Init == /\ stable \in [Admin -> Content]
        /\ pending = stable
        /\ up = TRUE

Change == /\ up
          /\ pending' \in [Admin -> Content]
          /\ UNCHANGED <<stable, up>>

Flush == /\ stable' = pending
         /\ UNCHANGED <<pending, up>>

Crash == /\ pending' = stable
         /\ up' = FALSE
         /\ UNCHANGED stable

Mount == /\ up' = TRUE
         /\ UNCHANGED <<stable, pending>>

Next == Change \/ Flush \/ Crash \/ Mount

Spec == Init /\ [][Next]_vars
=============================================================================
