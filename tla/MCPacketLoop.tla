---------------------------- MODULE MCPacketLoop -----------------------------
(***************************************************************************)
(* A drive and two volumes; a client that works with the volumes, and one  *)
(* that inhibits the drive, at times with the DosList locked.              *)
(***************************************************************************)
EXTENDS PacketLoop

CONSTANTS Application, Workbench

MCSends == (Application :> {"ordinary"})
           @@ (Workbench :> {"inhibit", "uninhibit"})
=============================================================================
