----------------------------- MODULE MCRefitLib -----------------------------
(* Instances of RefitLib: a disk, the partition rEFInd started from, and a *)
(* logical partition. Disk and partition stay, or only the disk does, or   *)
(* neither.                                                                *)
EXTENDS RefitLib, TLC
CONSTANTS disk, esp, extended

MCDiskOf      == disk :> disk @@ esp :> disk
MCLogicalDisk == extended :> disk
=============================================================================
