-------------------------------- MODULE Mbr --------------------------------
(***************************************************************************)
(* Legacy boot from MBR partitions. ScanVolumes() and                      *)
(* ScanExtendedPartition() number the partitions of a disk: the entries of *)
(* the MBR, then the logical partitions along the chain of EMBRs from      *)
(* Slots on. StartLegacy() gives such a number to ActivateMbrPartition(),  *)
(* which walks the tables again and rewrites their active flags, one       *)
(* sector at a time, before the firmware boots what the flags lead to.     *)
(***************************************************************************)
EXTENDS Integers, FiniteSets, FiniteSetsExt, FiniteSetTheorems, WellFoundedInduction, TLAPS

CONSTANTS Slots,      \* entries of a partition table (4)
          Disks,      \* contents a disk can have: functions from sectors to [signed, table]
          NULL

\* A table entry is a record [kind, flags, start]: kind "free" has no start or
\* no size; flags is "off" (0x00), "on" (0x80) or "bad"; start is relative to
\* the extended partition in the link of an EMBR, to the disk in the MBR.
Entries == [kind : {"free", "data", "extended"}, flags : {"off", "on", "bad"}, start : Nat]
Tables == [1 .. Slots -> Entries]

ASSUME SlotsAssumption == Slots \in Nat \ {0}
ASSUME DisksAssumption ==
  \A d \in Disks : /\ DOMAIN d \subseteq Nat /\ 0 \in DOMAIN d /\ IsFiniteSet(DOMAIN d)
                   /\ d \in [DOMAIN d -> [signed : BOOLEAN, table : Tables]]

\* A disk has one extended partition (main.c:1224 and lib.c number the logical
\* ones of a second from the same start) and, before rEFInd writes to it, no
\* two active entries in a table, nor a free one in an EMBR.
ASSUME FlagsAssumption ==
  \A d \in Disks : \A i, j \in 1 .. Slots :
    /\ d[0].table[i].kind = "extended" /\ d[0].table[j].kind = "extended" => i = j
    /\ \A s \in DOMAIN d :
         d[s].table[i].flags = "on" /\ d[s].table[j].flags = "on" => i = j
    /\ \A s \in DOMAIN d \ {0} : d[s].table[i].kind = "free" => d[s].table[i].flags # "on"

VARIABLES
  disk,
  bootcode,    \* the code in the MBR: "none", "syslinux" or "other"
  Volumes,     \* partitions found: records [index, at], at = <<sector, slot>>
  chosen,      \* the volume of the started entry
  pc,          \* "scan", "scan_embr", "menu", "mbr", "embr", "start"
  status,      \* what ActivateMbrPartition() returns; StartLegacy() ignores it
  PartitionIndex, LogicalPartitionIndex, ExtBase, ExtCurrent

walk == <<PartitionIndex, LogicalPartitionIndex, ExtBase, ExtCurrent>>
vars == <<disk, bootcode, Volumes, chosen, pc, status, walk>>

Readable(s) == s \in DOMAIN disk /\ disk[s].signed
Extended(s, i) == disk[s].table[i].kind = "extended"

\* The slot of an EMBR where its scan breaks, Slots + 1 when it does not.
Break(s) == Min({ i \in 1 .. Slots : disk[s].table[i].kind # "data" } \cup {Slots + 1})

BadBefore(s, n) == \E i \in 1 .. n : i <= Slots /\ disk[s].table[i].flags = "bad"

\* Where the link in slot i of the EMBR s leads, 0 at the end of the chain.
Link(s, i) == IF i <= Slots /\ Extended(s, i) THEN ExtBase + disk[s].table[i].start ELSE 0

\* ScanVolumeBootcode() finds the table of the MBR if no flags are bad and an
\* entry is in use; ScanVolumes() relates the devices of the primary partitions.
Init ==
  /\ disk \in { d \in Disks : /\ d[0].signed
                              /\ \A i \in 1 .. Slots : d[0].table[i].flags # "bad"
                              /\ \E i \in 1 .. Slots : d[0].table[i].kind # "free" }
  /\ bootcode \in {"none", "other"}
  /\ Volumes = { [index |-> i - 1, at |-> <<0, i>>] :
                   i \in { j \in 1 .. Slots : disk[0].table[j].kind = "data" } }
  /\ chosen = NULL
  /\ pc = "scan" /\ status = "success"
  /\ PartitionIndex = 0
  /\ LogicalPartitionIndex = Slots /\ ExtBase = 0 /\ ExtCurrent = 0

\* The next entry of the MBR: an extended partition starts a walk.
ScanPrimary ==
  /\ pc = "scan" /\ PartitionIndex < Slots
  /\ PartitionIndex' = PartitionIndex + 1
  /\ IF Extended(0, PartitionIndex + 1)
     THEN /\ ExtBase' = disk[0].table[PartitionIndex + 1].start
          /\ ExtCurrent' = ExtBase'
          /\ LogicalPartitionIndex' = Slots
          /\ pc' = "scan_embr"
     ELSE UNCHANGED <<ExtBase, ExtCurrent, LogicalPartitionIndex, pc>>
  /\ UNCHANGED <<disk, bootcode, Volumes, chosen, status>>

\* The logical partitions in the first slots of EMBR s.
Found(s, n) ==
  { [index |-> LogicalPartitionIndex + i - 1, at |-> <<s, i>>] : i \in 1 .. n - 1 }

ScanEmbr ==
  /\ pc = "scan_embr"
  /\ IF ExtCurrent # 0 /\ Readable(ExtCurrent)
     THEN LET b == Break(ExtCurrent)
              bad == { i \in 1 .. Slots : disk[ExtCurrent].table[i].flags = "bad" }
              n == Min(bad \cup {b})
          IN  /\ Volumes' = Volumes \cup Found(ExtCurrent, n)
              /\ LogicalPartitionIndex' = LogicalPartitionIndex + n - 1
              /\ ExtCurrent' = IF n \in bad THEN 0 ELSE Link(ExtCurrent, n)
              /\ UNCHANGED pc
     ELSE pc' = "scan" /\ UNCHANGED <<Volumes, LogicalPartitionIndex, ExtCurrent>>
  /\ UNCHANGED <<disk, bootcode, chosen, status, PartitionIndex, ExtBase>>

ScanDone ==
  /\ pc = "scan" /\ PartitionIndex = Slots
  /\ pc' = "menu"
  /\ UNCHANGED <<disk, bootcode, Volumes, chosen, status, walk>>

\* The user starts the entry of a volume.
StartLegacy(v) ==
  /\ pc = "menu"
  /\ chosen' = v
  /\ PartitionIndex' = v.index
  /\ LogicalPartitionIndex' = Slots
  /\ pc' = "mbr"
  /\ UNCHANGED <<disk, bootcode, Volumes, status, ExtBase, ExtCurrent>>

Return(s) == status' = s /\ pc' = "start"

SetFlags(s, Flags(_)) ==
  disk' = [disk EXCEPT ![s].table = [i \in 1 .. Slots |-> [@[i] EXCEPT !.flags = Flags(i)]]]

\* (faulty variant: the other flags are kept)
MbrFlagKept(i) ==
  IF i = PartitionIndex + 1 \/ (PartitionIndex >= Slots /\ Extended(0, i))
  THEN "on" ELSE disk[0].table[i].flags

MbrFlag(i) ==
  IF i = PartitionIndex + 1 \/ (PartitionIndex >= Slots /\ Extended(0, i))
  THEN "on" ELSE "off"

\* The MBR: the partition itself, or the extended ones, of which the last counts.
ActivatePrimary ==
  /\ pc = "mbr"
  /\ \/ Return("error") /\ UNCHANGED <<disk, bootcode, ExtBase, ExtCurrent>>
     \/ /\ Readable(0) /\ ~BadBefore(0, Slots)
        /\ SetFlags(0, MbrFlag)
        /\ bootcode' = IF bootcode = "none" THEN "syslinux" ELSE bootcode
        /\ LET links == { i \in 1 .. Slots : PartitionIndex >= Slots /\ Extended(0, i) }
           IN  /\ ExtBase' = IF links = {} THEN 0 ELSE disk[0].table[Max(links)].start
               /\ ExtCurrent' = ExtBase'
               /\ IF ExtBase' = 0 THEN Return("success") ELSE pc' = "embr" /\ UNCHANGED status
  /\ UNCHANGED <<Volumes, chosen, PartitionIndex, LogicalPartitionIndex>>

\* (faulty variant: the link is left inactive when the next EMBR starts with the partition)
EmbrFlagBeyond(s, i, n) ==
  CASE i < n -> IF PartitionIndex = LogicalPartitionIndex + i - 1 THEN "on" ELSE "off"
    [] i = n /\ Extended(s, n) -> IF PartitionIndex > LogicalPartitionIndex + n - 1 THEN "on" ELSE "off"
    [] OTHER -> disk[s].table[i].flags

EmbrFlag(s, i, n) ==
  CASE i < n -> IF PartitionIndex = LogicalPartitionIndex + i - 1 THEN "on" ELSE "off"
    [] i = n /\ Extended(s, n) -> IF PartitionIndex >= LogicalPartitionIndex + n - 1 THEN "on" ELSE "off"
    [] OTHER -> disk[s].table[i].flags

\* The current EMBR, read, changed and written back. Reading or writing can fail.
ActivateLogical ==
  /\ pc = "embr"
  /\ \/ Return("error") /\ UNCHANGED <<disk, LogicalPartitionIndex, ExtCurrent>>
     \/ /\ Readable(ExtCurrent)
        /\ LET n == Break(ExtCurrent)
               next == Link(ExtCurrent, n)
               F(i) == EmbrFlag(ExtCurrent, i, n)
           IN  /\ ~BadBefore(ExtCurrent, n)
               /\ SetFlags(ExtCurrent, F)
               /\ LogicalPartitionIndex' = LogicalPartitionIndex + n - 1
               /\ ExtCurrent' = next
               /\ IF PartitionIndex < LogicalPartitionIndex' \/ next = 0
                  THEN Return("success") ELSE UNCHANGED <<pc, status>>
  /\ UNCHANGED <<bootcode, Volumes, chosen, PartitionIndex, ExtBase>>

\* The legacy loader failed and returns.
LoaderReturns ==
  /\ pc = "start"
  /\ pc' = "menu" /\ chosen' = NULL /\ status' = "success"
  /\ UNCHANGED <<disk, bootcode, Volumes, walk>>

Next ==
  \/ ScanPrimary \/ ScanEmbr \/ ScanDone
  \/ \E v \in Volumes : StartLegacy(v)
  \/ ActivatePrimary \/ ActivateLogical \/ LoaderReturns

Spec == Init /\ [][Next]_vars

-----------------------------------------------------------------------------
(* The properties.                                                         *)

Sectors == DOMAIN disk

TypeOK ==
  /\ disk \in [Sectors -> [signed : BOOLEAN, table : Tables]]
  /\ bootcode \in {"none", "syslinux", "other"}
  /\ \A v \in Volumes : v.index \in Nat /\ v.at \in Sectors \X (1 .. Slots)
  /\ chosen \in Volumes \cup {NULL}
  /\ pc \in {"scan", "scan_embr", "menu", "mbr", "embr", "start"}
  /\ status \in {"success", "error"}
  /\ PartitionIndex \in Nat /\ LogicalPartitionIndex \in Nat
  /\ ExtBase \in Nat /\ ExtCurrent \in Nat

\* The entries of sector s that a walk sees, and the active ones among them.
Seen(s) == { i \in 1 .. Slots : s = 0 \/ i <= Break(s) }
Active(s) == { i \in Seen(s) : disk[s].table[i].flags = "on" }

\* The EMBRs that active links lead to in n steps, with the extended
\* partition they are relative to.
Follow(e) ==
  { <<(IF e[1] = 0 THEN 0 ELSE e[2]) + disk[e[1]].table[i].start,
      IF e[1] = 0 THEN disk[0].table[i].start ELSE e[2]>> :
      i \in { j \in Active(e[1]) : Extended(e[1], j) } }
Led[n \in 0 .. Cardinality(Sectors)] ==
  IF n = 0 THEN { <<0, 0>> }
  ELSE UNION { Follow(e) : e \in { f \in Led[n - 1] : Readable(f[1]) } }

\* The partitions the active flags lead to.
Booted ==
  { <<e[1], i>> : e \in { f \in UNION { Led[n] : n \in DOMAIN Led } : Readable(f[1]) },
                  i \in 1 .. Slots }
  \cap { at \in Sectors \X (1 .. Slots) :
           at[2] \in Active(at[1]) /\ disk[at[1]].table[at[2]].kind = "data" }

\* The walk that sets the flags numbers the partitions as the scan did: after a
\* successful activation the flags lead to the chosen partition, and to no other,
\* and the MBR has code to follow them.
BootsChosen ==
  pc = "start" /\ status = "success" => Booted = {chosen.at} /\ bootcode # "none"

\* Whatever step of an activation fails, no table is left with two active
\* entries when it had none before.
AtMostOneActive == \A s \in Sectors : Readable(s) => Cardinality(Active(s)) <= 1

-----------------------------------------------------------------------------
(* Proofs about the activation of MBR partitions, for tables and chains of *)
(* any length, links that lead back into the chain included. The kinds of  *)
(* entries never change, so that every walk ends in an EMBR where the scan *)
(* did; a walk that activates an entry rewrites all entries before the     *)
(* break, and the entry there only if it is the link.                      *)

\* What the activity of one entry needs: one extended partition, no active
\* free entry, and a walk of EMBRs that never comes to the MBR.
OneExtended == \A i, j \in 1 .. Slots : Extended(0, i) /\ Extended(0, j) => i = j
FreeOff ==
  \A s \in Sectors \ {0} : \A i \in 1 .. Slots :
    disk[s].table[i].kind = "free" => disk[s].table[i].flags # "on"
OneSeen == \A s \in Sectors : \A i, j \in Active(s) : i = j
InChain == pc = "embr" => ExtCurrent # 0
IInv ==
  /\ TypeOK /\ 0 \in Sectors /\ Sectors \subseteq Nat
  /\ OneExtended /\ FreeOff /\ OneSeen /\ InChain

\* The initial segments below the members of S have a smallest one.
LEMMA MinIsLeast ==
  ASSUME NEW S \in SUBSET Nat, S # {}
  PROVE  Min(S) \in S /\ \A y \in S : Min(S) <= y
<1>. DEFINE upto(x) == 0 .. x
            T == { upto(x) : x \in S }
<1>1. T \subseteq FiniteSubsetsOf(Nat)
  <2>1. \A x \in S : upto(x) \in SUBSET Nat /\ IsFiniteSet(upto(x))
    BY FS_Interval
  <2>. QED
    BY <2>1 DEF FiniteSubsetsOf
<1>. HIDE DEF upto
<1>2. \E u \in T : \A w \in T : ~(<<w, u>> \in StrictSubsetOrdering(Nat))
  <2>1. IsWellFoundedOn(StrictSubsetOrdering(Nat), FiniteSubsetsOf(Nat))
    BY FS_StrictSubsetOrderingWellFounded
  <2>2. T # {}
    OBVIOUS
  <2>. HIDE DEF T
  <2>. QED
    BY <1>1, <2>1, <2>2, WFMin
<1>3. PICK x \in S : \A y \in S : ~(<<upto(y), upto(x)>> \in StrictSubsetOrdering(Nat))
  BY <1>2
<1>4. ASSUME NEW y \in S, ~(x <= y) PROVE FALSE
  <2>1. upto(y) \subseteq upto(x) /\ upto(y) # upto(x) /\ upto(x) \subseteq Nat
    BY <1>4 DEF upto
  <2>. QED
    BY <2>1, <1>3 DEF StrictSubsetOrdering
<1>. QED
  BY <1>4 DEF Min

LEMMA BreakType ==
  ASSUME TypeOK, NEW s \in Sectors
  PROVE  Break(s) \in 1 .. Slots + 1
<1>. DEFINE S == { i \in 1 .. Slots : disk[s].table[i].kind # "data" } \cup {Slots + 1}
<1>1. S \in SUBSET Nat /\ S # {} /\ S \subseteq 1 .. Slots + 1
  BY SlotsAssumption
<1>2. Min(S) \in S
  BY <1>1, MinIsLeast
<1>. QED
  BY <1>1, <1>2 DEF Break

\* The entries before the break are logical partitions, the one there is not.
LEMMA BreakKind ==
  ASSUME TypeOK, NEW s \in Sectors, NEW i \in 1 .. Slots
  PROVE  /\ i < Break(s) => disk[s].table[i].kind = "data"
         /\ i = Break(s) => disk[s].table[i].kind # "data"
<1>. DEFINE S == { j \in 1 .. Slots : disk[s].table[j].kind # "data" } \cup {Slots + 1}
<1>1. S \in SUBSET Nat /\ S # {}
  BY SlotsAssumption
<1>2. Break(s) \in S /\ \A j \in S : Break(s) <= j
  BY <1>1, MinIsLeast DEF Break
<1>3. i \in S <=> disk[s].table[i].kind # "data"
  BY SlotsAssumption
<1>4. i \in Nat /\ Break(s) \in Nat
  BY <1>1, <1>2, SlotsAssumption
<1>. HIDE DEF S
<1>5. i < Break(s) => i \notin S
  BY <1>2, <1>4
<1>6. ASSUME i = Break(s) PROVE i \in S
  BY <1>2, <1>6
<1>. QED
  BY <1>3, <1>5, <1>6

LEMMA LinkType ==
  ASSUME TypeOK, NEW s \in Sectors, NEW i \in 1 .. Slots + 1
  PROVE  Link(s, i) \in Nat
<1>1. ASSUME i <= Slots PROVE disk[s].table[i].start \in Nat
  BY <1>1, SlotsAssumption DEF TypeOK, Tables, Entries
<1>. QED
  BY <1>1 DEF Link, TypeOK

\* Writing the flags F into the table of sector s changes nothing else.
Reflagged(s, F) ==
  /\ Sectors' = Sectors
  /\ disk' \in [Sectors -> [signed : BOOLEAN, table : Tables]]
  /\ \A t \in Sectors : \A i \in 1 .. Slots :
       /\ disk'[t].table[i].kind = disk[t].table[i].kind
       /\ disk'[t].table[i].start = disk[t].table[i].start
       /\ disk'[t].table[i].flags = IF t = s THEN F[i] ELSE disk[t].table[i].flags
  /\ \A t \in Sectors : disk'[t].signed = disk[t].signed
  /\ \A t \in Sectors : Break(t)' = Break(t)

LEMMA Rewritten ==
  ASSUME TypeOK, NEW s \in Sectors, NEW F \in [1 .. Slots -> {"off", "on", "bad"}],
         disk' = [disk EXCEPT ![s].table =
                    [i \in 1 .. Slots |-> [disk[s].table[i] EXCEPT !.flags = F[i]]]]
  PROVE  Reflagged(s, F)
<1>. DEFINE T == [i \in 1 .. Slots |-> [disk[s].table[i] EXCEPT !.flags = F[i]]]
<1>0. \A i \in 1 .. Slots : disk[s].table[i] \in Entries
  BY DEF TypeOK, Tables
<1>1. T \in Tables
  BY <1>0 DEF Tables, Entries
<1>2. disk' = [disk EXCEPT ![s] = [disk[s] EXCEPT !.table = T]]
  OBVIOUS
<1>3. disk[s] \in [signed : BOOLEAN, table : Tables]
  BY DEF TypeOK
<1>4. [disk[s] EXCEPT !.table = T] \in [signed : BOOLEAN, table : Tables]
  BY <1>1, <1>3
<1>5. Sectors' = Sectors /\ disk' \in [Sectors -> [signed : BOOLEAN, table : Tables]]
  BY <1>2, <1>4 DEF TypeOK, Sectors
<1>6. disk'[s].table = T /\ \A t \in Sectors \ {s} : disk'[t] = disk[t]
  BY <1>2, <1>3 DEF TypeOK, Sectors
<1>7. \A i \in 1 .. Slots : /\ T[i].kind = disk[s].table[i].kind
                            /\ T[i].start = disk[s].table[i].start
                            /\ T[i].flags = F[i]
  BY <1>0 DEF Entries
<1>8. ASSUME NEW t \in Sectors, NEW i \in 1 .. Slots
      PROVE  /\ disk'[t].table[i].kind = disk[t].table[i].kind
             /\ disk'[t].table[i].start = disk[t].table[i].start
             /\ disk'[t].table[i].flags = IF t = s THEN F[i] ELSE disk[t].table[i].flags
  <2>. HIDE DEF T
  <2>1. CASE t = s
    BY <1>6, <1>7, <2>1
  <2>2. CASE t # s
    BY <1>6, <2>2
  <2>. QED
    BY <2>1, <2>2
<1>9. ASSUME NEW t \in Sectors PROVE Break(t)' = Break(t)
  <2>1. { i \in 1 .. Slots : disk'[t].table[i].kind # "data" } =
        { i \in 1 .. Slots : disk[t].table[i].kind # "data" }
    BY <1>8
  <2>. QED
    BY <2>1 DEF Break
<1>10. ASSUME NEW t \in Sectors PROVE disk'[t].signed = disk[t].signed
  <2>. HIDE DEF T
  <2>1. disk'[s].signed = disk[s].signed
    BY <1>2, <1>3 DEF TypeOK, Sectors
  <2>. QED
    BY <1>6, <2>1
<1>. QED
  BY <1>5, <1>8, <1>9, <1>10 DEF Reflagged

LEMMA InitHolds == Init => IInv
<1>. SUFFICES ASSUME Init PROVE IInv
  OBVIOUS
<1>0. PICK d \in Disks : disk = d
  BY DEF Init
<1>1. disk \in [Sectors -> [signed : BOOLEAN, table : Tables]] /\ 0 \in Sectors
  BY <1>0, DisksAssumption DEF Sectors
<1>2. TypeOK
  <2>1. \A v \in Volumes : v.index \in Nat /\ v.at \in Sectors \X (1 .. Slots)
    <3>1. Volumes = { [index |-> i - 1, at |-> <<0, i>>] :
                        i \in { j \in 1 .. Slots : disk[0].table[j].kind = "data" } }
      BY DEF Init
    <3>. QED
      BY <1>1, <3>1, SlotsAssumption
  <2>. QED
    BY <1>1, <2>1, SlotsAssumption DEF Init, TypeOK
<1>3. Sectors \subseteq Nat
  BY <1>0, DisksAssumption DEF Sectors
<1>4. OneExtended /\ FreeOff
  BY <1>0, FlagsAssumption DEF OneExtended, FreeOff, Extended, Sectors
<1>5. OneSeen
  BY <1>0, FlagsAssumption DEF OneSeen, Active, Seen, Sectors
<1>6. InChain
  BY DEF Init, InChain
<1>. QED
  BY <1>1, <1>2, <1>3, <1>4, <1>5, <1>6 DEF IInv

\* What the invariant says of the disk is kept by every step that only reads.
LEMMA DiskKept ==
  ASSUME IInv, UNCHANGED disk
  PROVE  /\ (0 \in Sectors)' /\ (Sectors \subseteq Nat)'
         /\ OneExtended' /\ FreeOff' /\ OneSeen'
BY DEF IInv, Sectors, OneExtended, FreeOff, OneSeen, Extended, Active, Seen, Break

LEMMA ScanKeeps ==
  ASSUME IInv, ScanPrimary \/ ScanEmbr \/ ScanDone
  PROVE  IInv'
<1>0. UNCHANGED disk
  BY DEF ScanPrimary, ScanEmbr, ScanDone
<1>1. CASE ScanPrimary
  <2>1. PartitionIndex + 1 \in 1 .. Slots /\ PartitionIndex' \in Nat
    BY <1>1, SlotsAssumption DEF ScanPrimary, IInv, TypeOK
  <2>2. disk[0].table[PartitionIndex + 1].start \in Nat
    BY <2>1, ZenonT(60) DEF IInv, TypeOK, Tables, Entries
  <2>3. TypeOK'
    BY <1>1, <2>1, <2>2, SlotsAssumption, ZenonT(60) DEF ScanPrimary, IInv, TypeOK, Sectors
  <2>4. InChain'
    BY <1>1 DEF ScanPrimary, IInv, InChain
  <2>. QED
    BY <1>0, <2>3, <2>4, DiskKept DEF IInv
<1>2. CASE ScanEmbr
  <2>1. CASE ExtCurrent # 0 /\ Readable(ExtCurrent)
    <3>. DEFINE b == Break(ExtCurrent)
                bad == { i \in 1 .. Slots : disk[ExtCurrent].table[i].flags = "bad" }
                n == Min(bad \cup {b})
    <3>1. ExtCurrent \in Sectors
      BY <2>1 DEF Readable, Sectors
    <3>2. b \in 1 .. Slots + 1
      BY <3>1, BreakType DEF IInv
    <3>3. n \in 1 .. Slots + 1
      <4>1. bad \cup {b} \in SUBSET Nat /\ bad \cup {b} # {} /\ bad \cup {b} \subseteq 1 .. Slots + 1
        BY <3>2, SlotsAssumption
      <4>. QED
        BY <4>1, MinIsLeast
    <3>4. /\ Volumes' = Volumes \cup Found(ExtCurrent, n)
          /\ LogicalPartitionIndex' = LogicalPartitionIndex + n - 1
          /\ ExtCurrent' = IF n \in bad THEN 0 ELSE Link(ExtCurrent, n)
          /\ UNCHANGED pc
      BY <1>2, <2>1, ZenonT(60) DEF ScanEmbr
    <3>. HIDE DEF bad, b, n
    <3>5. ExtCurrent' \in Nat /\ LogicalPartitionIndex' \in Nat
      BY <3>1, <3>3, <3>4, LinkType, SlotsAssumption DEF IInv, TypeOK
    <3>6. \A v \in Volumes' : v.index \in Nat /\ v.at \in Sectors \X (1 .. Slots)
      <4>1. \A v \in Found(ExtCurrent, n) : v.index \in Nat /\ v.at \in Sectors \X (1 .. Slots)
        BY <3>1, <3>3, SlotsAssumption, SMTT(40) DEF Found, IInv, TypeOK
      <4>. QED
        BY <3>4, <4>1 DEF IInv, TypeOK
    <3>7. TypeOK'
      BY <1>2, <3>4, <3>5, <3>6 DEF ScanEmbr, IInv, TypeOK, Sectors
    <3>8. InChain'
      BY <1>2, <3>4 DEF ScanEmbr, InChain
    <3>. QED
      BY <1>0, <3>7, <3>8, DiskKept DEF IInv
  <2>2. CASE ~(ExtCurrent # 0 /\ Readable(ExtCurrent))
    <3>1. TypeOK' /\ InChain'
      BY <1>2, <2>2 DEF ScanEmbr, IInv, TypeOK, Sectors, InChain
    <3>. QED
      BY <1>0, <3>1, DiskKept, SMTT(40) DEF IInv
  <2>. QED
    BY <2>1, <2>2
<1>3. CASE ScanDone
  <2>1. TypeOK' /\ InChain'
    BY <1>3 DEF ScanDone, walk, IInv, TypeOK, Sectors, InChain
  <2>. QED
    BY <1>0, <2>1, DiskKept DEF IInv
<1>. QED
  BY <1>1, <1>2, <1>3

LEMMA ChoiceKeeps ==
  ASSUME IInv, (\E v \in Volumes : StartLegacy(v)) \/ LoaderReturns
  PROVE  IInv'
<1>1. UNCHANGED disk
  BY DEF StartLegacy, LoaderReturns
<1>2. TypeOK' /\ InChain'
  BY SlotsAssumption DEF StartLegacy, LoaderReturns, walk, IInv, TypeOK, Sectors, InChain
<1>. QED
  BY <1>1, <1>2, DiskKept DEF IInv

LEMMA PrimaryKeeps ==
  ASSUME IInv, ActivatePrimary
  PROVE  IInv'
<1>1. CASE Return("error") /\ UNCHANGED <<disk, bootcode, ExtBase, ExtCurrent>>
  <2>1. UNCHANGED disk /\ TypeOK' /\ InChain'
    BY <1>1 DEF ActivatePrimary, Return, IInv, TypeOK, Sectors, InChain
  <2>. QED
    BY <2>1, DiskKept DEF IInv
<1>2. CASE /\ Readable(0) /\ SetFlags(0, MbrFlag)
           /\ bootcode' = IF bootcode = "none" THEN "syslinux" ELSE bootcode
           /\ LET links == { i \in 1 .. Slots : PartitionIndex >= Slots /\ Extended(0, i) }
              IN  /\ ExtBase' = IF links = {} THEN 0 ELSE disk[0].table[Max(links)].start
                  /\ ExtCurrent' = ExtBase'
                  /\ IF ExtBase' = 0 THEN Return("success") ELSE pc' = "embr" /\ UNCHANGED status
  <2>. DEFINE F == [i \in 1 .. Slots |-> MbrFlag(i)]
  <2>1. F \in [1 .. Slots -> {"off", "on", "bad"}]
    BY DEF MbrFlag
  <2>2. disk' = [disk EXCEPT ![0].table =
                   [i \in 1 .. Slots |-> [disk[0].table[i] EXCEPT !.flags = F[i]]]]
    BY <1>2 DEF SetFlags
  <2>. HIDE DEF F
  <2>3. Reflagged(0, F)
    BY <2>1, <2>2, Rewritten DEF IInv
  <2>4. OneExtended'
    BY <2>3 DEF Reflagged, IInv, OneExtended, Extended
  <2>5. ExtBase' \in Nat
    <3>. DEFINE links == { i \in 1 .. Slots : PartitionIndex >= Slots /\ Extended(0, i) }
    <3>1. ASSUME links # {} PROVE Max(links) \in links
      <4>1. PICK x \in links : links = {x}
        BY <3>1 DEF IInv, OneExtended
      <4>2. x >= x
        BY SlotsAssumption
      <4>. HIDE DEF links
      <4>. QED
        BY <4>1, <4>2 DEF Max
    <3>2. \A i \in links : disk[0].table[i].start \in Nat
      BY ZenonT(60) DEF IInv, TypeOK, Tables, Entries
    <3>3. ExtBase' = IF links = {} THEN 0 ELSE disk[0].table[Max(links)].start
      BY <1>2
    <3>. QED
      BY <3>1, <3>2, <3>3
  <2>6. TypeOK'
    BY <1>2, <2>3, <2>5 DEF Reflagged, ActivatePrimary, Return, IInv, TypeOK
  <2>7. InChain'
    BY <1>2 DEF Return, InChain
  <2>8. FreeOff'
    BY <2>3, SMTT(40) DEF Reflagged, IInv, FreeOff
  <2>9. OneSeen'
    <3>. SUFFICES ASSUME NEW s \in Sectors, NEW i \in Active(s)', NEW j \in Active(s)'
                  PROVE  i = j
      BY <2>3 DEF Reflagged, OneSeen
    <3>1. i \in 1 .. Slots /\ j \in 1 .. Slots
      BY DEF Active, Seen
    <3>2. CASE s = 0
      <4>1. MbrFlag(i) = "on" /\ MbrFlag(j) = "on"
        BY <2>3, <3>1, <3>2 DEF Reflagged, Active, F
      <4>. QED
        BY <4>1, <3>1, SlotsAssumption DEF MbrFlag, IInv, TypeOK, OneExtended
    <3>3. CASE s # 0
      <4>1. i \in Active(s) /\ j \in Active(s)
        BY <2>3, <3>1, <3>3 DEF Reflagged, Active, Seen
      <4>. QED
        BY <4>1 DEF IInv, OneSeen
    <3>. QED
      BY <3>2, <3>3
  <2>. QED
    BY <2>3, <2>4, <2>6, <2>7, <2>8, <2>9 DEF Reflagged, IInv
<1>. QED
  BY <1>1, <1>2 DEF ActivatePrimary

LEMMA LogicalKeeps ==
  ASSUME IInv, ActivateLogical
  PROVE  IInv'
<1>1. CASE Return("error") /\ UNCHANGED <<disk, LogicalPartitionIndex, ExtCurrent>>
  <2>1. UNCHANGED disk /\ TypeOK' /\ InChain'
    BY <1>1 DEF ActivateLogical, Return, IInv, TypeOK, Sectors, InChain
  <2>. QED
    BY <2>1, DiskKept DEF IInv
<1>2. CASE ~(Return("error") /\ UNCHANGED <<disk, LogicalPartitionIndex, ExtCurrent>>)
  <2>. DEFINE e == ExtCurrent
              n == Break(e)
              F == [i \in 1 .. Slots |-> EmbrFlag(e, i, n)]
  <2>1. /\ pc = "embr" /\ Readable(e)
        /\ disk' = [disk EXCEPT ![e].table =
                      [i \in 1 .. Slots |-> [disk[e].table[i] EXCEPT !.flags = F[i]]]]
        /\ LogicalPartitionIndex' = LogicalPartitionIndex + n - 1
        /\ ExtCurrent' = Link(e, n)
        /\ IF PartitionIndex < LogicalPartitionIndex' \/ Link(e, n) = 0
           THEN Return("success") ELSE UNCHANGED <<pc, status>>
        /\ UNCHANGED <<bootcode, Volumes, chosen, PartitionIndex, ExtBase>>
    BY <1>2 DEF ActivateLogical, SetFlags
  <2>2. e \in Sectors \ {0}
    BY <2>1 DEF IInv, InChain, Readable, Sectors
  <2>3. n \in 1 .. Slots + 1
    BY <2>2, BreakType DEF IInv
  <2>. HIDE DEF n
  <2>4. F \in [1 .. Slots -> {"off", "on", "bad"}]
    BY <2>2, ZenonT(60) DEF EmbrFlag, IInv, TypeOK, Tables, Entries
  <2>. HIDE DEF F, e
  <2>5. Reflagged(e, F)
    BY <2>1, <2>2, <2>4, Rewritten DEF IInv
  <2>6. OneExtended'
    BY <2>5 DEF Reflagged, IInv, OneExtended, Extended
  <2>7. TypeOK'
    <3>1. ExtCurrent' \in Nat /\ LogicalPartitionIndex' \in Nat
      BY <2>1, <2>2, <2>3, LinkType, SlotsAssumption, SMTT(40) DEF IInv, TypeOK
    <3>. QED
      BY <2>1, <2>5, <3>1 DEF Reflagged, Return, IInv, TypeOK
  <2>8. InChain'
    BY <2>1 DEF Return, InChain
  \* Before the break only the chosen partition is active, at it only a link
  \* to a later one.
  <2>9. ASSUME NEW i \in 1 .. Slots, i <= n, F[i] = "on"
        PROVE  \/ i < n /\ PartitionIndex = LogicalPartitionIndex + i - 1
               \/ i = n /\ PartitionIndex >= LogicalPartitionIndex + n - 1
    <3>1. CASE i < n
      BY <2>9, <3>1 DEF F, EmbrFlag
    <3>2. CASE i = n /\ Extended(e, n)
      BY <2>9, <3>2 DEF F, EmbrFlag
    <3>3. CASE i = n /\ ~Extended(e, n)
      <4>1. disk[e].table[n].kind # "data"
        BY <2>2, <3>3, BreakKind DEF IInv, n
      <4>2. disk[e].table[n].kind = "free"
        <5>1. disk[e].table[n] \in Entries
          BY <2>2, <3>3 DEF IInv, TypeOK, Tables
        <5>. QED
          BY <3>3, <4>1, <5>1 DEF Extended, Entries
      <4>3. F[i] = disk[e].table[n].flags
        BY <3>3 DEF F, EmbrFlag
      <4>. QED
        BY <2>2, <2>9, <3>3, <4>2, <4>3 DEF IInv, FreeOff
    <3>. QED
      BY <2>3, <2>9, <3>1, <3>2, <3>3, SlotsAssumption
  <2>10. FreeOff'
    <3>. SUFFICES ASSUME NEW s \in Sectors \ {0}, NEW i \in 1 .. Slots,
                         disk[s].table[i].kind = "free", disk'[s].table[i].flags = "on"
                  PROVE  FALSE
      BY <2>5 DEF Reflagged, FreeOff
    <3>1. s = e /\ F[i] = "on"
      BY <2>5 DEF Reflagged, IInv, FreeOff
    <3>2. ~(i < n)
      BY <2>2, <3>1, BreakKind DEF IInv, n
    <3>3. ~(i = n /\ Extended(e, n))
      BY <3>1 DEF Extended
    <3>4. F[i] = disk[e].table[i].flags
      BY <3>2, <3>3 DEF F, EmbrFlag
    <3>. QED
      BY <2>2, <3>1, <3>4 DEF IInv, FreeOff
  <2>11. OneSeen'
    <3>. SUFFICES ASSUME NEW s \in Sectors, NEW i \in Active(s)', NEW j \in Active(s)'
                  PROVE  i = j
      BY <2>5 DEF Reflagged, OneSeen
    <3>1. i \in 1 .. Slots /\ j \in 1 .. Slots
      BY DEF Active, Seen
    <3>2. CASE s = e
      <4>1. i <= n /\ j <= n /\ F[i] = "on" /\ F[j] = "on"
        BY <2>2, <2>5, <3>1, <3>2 DEF Reflagged, Active, Seen, n
      <4>. QED
        BY <2>3, <2>9, <3>1, <4>1, SlotsAssumption DEF IInv, TypeOK
    <3>3. CASE s # e
      <4>1. i \in Active(s) /\ j \in Active(s)
        BY <2>5, <3>1, <3>3 DEF Reflagged, Active, Seen
      <4>. QED
        BY <4>1 DEF IInv, OneSeen
    <3>. QED
      BY <3>2, <3>3
  <2>. QED
    BY <2>5, <2>6, <2>7, <2>8, <2>10, <2>11 DEF Reflagged, IInv
<1>. QED
  BY <1>1, <1>2

LEMMA InvariantHolds == Spec => []IInv
<1>1. IInv /\ [Next]_vars => IInv'
  <2>1. ASSUME IInv, UNCHANGED vars PROVE IInv'
    <3>1. TypeOK' /\ InChain'
      BY <2>1 DEF vars, walk, IInv, TypeOK, InChain, Sectors
    <3>. QED
      BY <2>1, <3>1, DiskKept DEF vars, IInv
  <2>. QED
    BY <2>1, ScanKeeps, ChoiceKeeps, PrimaryKeeps, LogicalKeeps DEF Next
<1>. QED
  BY <1>1, InitHolds, PTL DEF Spec

\* TypeOK holds for tables and chains of any length.
THEOREM MbrTypeCorrect == Spec => []TypeOK
BY InvariantHolds, PTL DEF IInv

\* No step of a scan or an activation, completed or failed between two sectors,
\* leaves a table with two active entries.
THEOREM MbrAtMostOneActive == Spec => []AtMostOneActive
<1>1. IInv => AtMostOneActive
  <2>. SUFFICES ASSUME IInv, NEW s \in Sectors PROVE Cardinality(Active(s)) <= 1
    BY DEF AtMostOneActive
  <2>1. \A i, j \in Active(s) : i = j
    BY DEF IInv, OneSeen
  <2>2. CASE Active(s) = {}
    BY <2>2, FS_EmptySet
  <2>3. CASE Active(s) # {}
    <3>1. PICK i \in Active(s) : TRUE
      BY <2>3
    <3>2. Active(s) = {i}
      BY <2>1
    <3>. QED
      BY <3>2, FS_Singleton
  <2>. QED
    BY <2>2, <2>3
<1>. QED
  BY <1>1, InvariantHolds, PTL

-----------------------------------------------------------------------------
(* After a successful activation the flags lead to the chosen partition.   *)
(* What a disk holds besides its flags never changes: d is a disk with the *)
(* same contents. The k-th EMBR of the chain that is relative to base is   *)
(* sec[k], its first partition has the number num[k]: the scan and the     *)
(* activation both follow this walk. The chain may come back to an EMBR.   *)

Same(d) ==
  /\ Sectors = DOMAIN d
  /\ \A s \in Sectors : /\ disk[s].signed = d[s].signed
                        /\ \A i \in 1 .. Slots :
                             /\ disk[s].table[i].kind = d[s].table[i].kind
                             /\ disk[s].table[i].start = d[s].table[i].start

BreakOn(d, s) == Min({ i \in 1 .. Slots : d[s].table[i].kind # "data" } \cup {Slots + 1})
LinkOn(d, base, s) ==
  IF BreakOn(d, s) <= Slots /\ d[s].table[BreakOn(d, s)].kind = "extended"
  THEN base + d[s].table[BreakOn(d, s)].start ELSE 0
Usable(d, s) == s \in DOMAIN d \ {0} /\ d[s].signed

IsBase(d, base) ==
  \E i \in 1 .. Slots : d[0].table[i].kind = "extended" /\ base = d[0].table[i].start

Walks(d, base, num, sec, m) ==
  /\ num[0] = Slots /\ sec[0] = base
  /\ \A k \in 0 .. m - 1 :
       /\ Usable(d, sec[k])
       /\ num[k + 1] = num[k] + BreakOn(d, sec[k]) - 1
       /\ sec[k + 1] = LinkOn(d, base, sec[k])
  /\ \A k \in 0 .. m : \A j \in 0 .. k : num[j] <= num[k]

\* The walk ends in the EMBR of volume v.
Ends(d, base, v, num, sec, m) ==
  /\ Walks(d, base, num, sec, m)
  /\ Usable(d, sec[m])
  /\ v.at[1] = sec[m] /\ v.at[2] \in 1 .. BreakOn(d, sec[m]) - 1
  /\ v.index = num[m] + v.at[2] - 1

Primary(d, v) ==
  /\ v.index \in 0 .. Slots - 1 /\ v.at = <<0, v.index + 1>>
  /\ d[0].table[v.index + 1].kind = "data"
Logical(d, v) ==
  \E base \in Nat, m \in Nat : \E num, sec \in [0 .. m -> Nat] :
    IsBase(d, base) /\ Ends(d, base, v, num, sec, m)

LinksActive(d) == Active(0) = { i \in 1 .. Slots : d[0].table[i].kind = "extended" }
OnlyLink(d, s) == Active(s) = {BreakOn(d, s)}

\* The scan has come to an EMBR along the walk.
Scanning(d) ==
  /\ IsBase(d, ExtBase)
  /\ ExtCurrent # 0 =>
       \E m \in Nat : \E num, sec \in [0 .. m -> Nat] :
         Walks(d, ExtBase, num, sec, m) /\ num[m] = LogicalPartitionIndex /\ sec[m] = ExtCurrent

\* The activation has come to an EMBR of the walk to the chosen partition.
Activating(d) ==
  /\ IsBase(d, ExtBase) /\ LinksActive(d) /\ bootcode # "none"
  /\ \E m \in Nat : \E num, sec \in [0 .. m -> Nat], k \in 0 .. m :
       /\ Ends(d, ExtBase, chosen, num, sec, m)
       /\ num[k] = LogicalPartitionIndex /\ sec[k] = ExtCurrent
       /\ \A j \in 0 .. k - 1 : OnlyLink(d, sec[j])

Activated(d) ==
  /\ bootcode # "none"
  /\ \/ Primary(d, chosen) /\ Active(0) = {chosen.index + 1}
     \/ \E base \in Nat, m \in Nat : \E num, sec \in [0 .. m -> Nat] :
          /\ IsBase(d, base) /\ Ends(d, base, chosen, num, sec, m)
          /\ LinksActive(d) /\ Active(sec[m]) = {chosen.at[2]}
          /\ \A j \in 0 .. m - 1 : sec[j] = sec[m] \/ OnlyLink(d, sec[j])

Numbered(d) == \A v \in Volumes : Primary(d, v) \/ Logical(d, v)
Follows(d) ==
  /\ pc = "scan_embr" => Scanning(d)
  /\ pc \in {"mbr", "embr", "start"} => chosen \in Volumes
  /\ pc \in {"mbr", "embr"} => PartitionIndex = chosen.index
  /\ pc = "mbr" => LogicalPartitionIndex = Slots
  /\ pc = "embr" => Activating(d)
  /\ pc = "start" /\ status = "success" => Activated(d)
WInv(d) == Same(d) /\ d[0].signed /\ Numbered(d) /\ Follows(d)

LEMMA DiskType ==
  ASSUME NEW d \in Disks, NEW s \in DOMAIN d
  PROVE  /\ s \in Nat
         /\ \A i \in 1 .. Slots : d[s].table[i] \in Entries
BY DisksAssumption, ZenonT(60) DEF Tables

LEMMA BreakOnFacts ==
  ASSUME NEW d \in Disks, NEW s \in DOMAIN d
  PROVE  /\ BreakOn(d, s) \in 1 .. Slots + 1
         /\ \A i \in 1 .. BreakOn(d, s) - 1 : i \in 1 .. Slots /\ d[s].table[i].kind = "data"
         /\ BreakOn(d, s) <= Slots => d[s].table[BreakOn(d, s)].kind # "data"
<1>. DEFINE S == { j \in 1 .. Slots : d[s].table[j].kind # "data" } \cup {Slots + 1}
<1>1. S \in SUBSET Nat /\ S # {} /\ S \subseteq 1 .. Slots + 1
  BY SlotsAssumption
<1>2. BreakOn(d, s) \in S /\ \A j \in S : BreakOn(d, s) <= j
  BY <1>1, MinIsLeast DEF BreakOn
<1>3. BreakOn(d, s) \in 1 .. Slots + 1
  BY <1>1, <1>2
<1>4. ASSUME NEW i \in 1 .. BreakOn(d, s) - 1
      PROVE  i \in 1 .. Slots /\ d[s].table[i].kind = "data"
  <2>1. i \in 1 .. Slots /\ i < BreakOn(d, s)
    BY <1>3, SlotsAssumption
  <2>2. i \notin S
    <3>. HIDE DEF S
    <3>. QED
      BY <1>2, <1>3, <2>1
  <2>. QED
    BY <2>1, <2>2
<1>5. BreakOn(d, s) <= Slots => d[s].table[BreakOn(d, s)].kind # "data"
  BY <1>2, <1>3, SlotsAssumption
<1>. QED
  BY <1>3, <1>4, <1>5

LEMMA LinkOnType ==
  ASSUME NEW d \in Disks, NEW s \in DOMAIN d, NEW base \in Nat
  PROVE  LinkOn(d, base, s) \in Nat
<1>1. CASE BreakOn(d, s) <= Slots
  <2>1. BreakOn(d, s) \in 1 .. Slots
    BY <1>1, BreakOnFacts, SlotsAssumption
  <2>2. d[s].table[BreakOn(d, s)].start \in Nat
    BY <2>1, DiskType DEF Entries
  <2>. QED
    BY <2>2 DEF LinkOn
<1>2. CASE ~ (BreakOn(d, s) <= Slots)
  BY <1>2 DEF LinkOn
<1>. QED
  BY <1>1, <1>2

\* The walk goes on.
LEMMA WalkExtends ==
  ASSUME NEW d \in Disks, NEW base \in Nat, NEW m \in Nat,
         NEW num \in [0 .. m -> Nat], NEW sec \in [0 .. m -> Nat],
         Walks(d, base, num, sec, m), Usable(d, sec[m])
  PROVE  \E num2, sec2 \in [0 .. m + 1 -> Nat] :
           /\ Walks(d, base, num2, sec2, m + 1)
           /\ num2[m + 1] = num[m] + BreakOn(d, sec[m]) - 1
           /\ sec2[m + 1] = LinkOn(d, base, sec[m])
<1>. DEFINE n == num[m] + BreakOn(d, sec[m]) - 1
            l == LinkOn(d, base, sec[m])
            num2 == [k \in 0 .. m + 1 |-> IF k = m + 1 THEN n ELSE num[k]]
            sec2 == [k \in 0 .. m + 1 |-> IF k = m + 1 THEN l ELSE sec[k]]
<1>1. n \in Nat /\ num[m] \in Nat /\ num[m] <= n /\ l \in Nat
  <2>1. sec[m] \in DOMAIN d /\ num[m] \in Nat
    BY DEF Usable
  <2>2. BreakOn(d, sec[m]) \in 1 .. Slots + 1
    BY <2>1, BreakOnFacts
  <2>3. n \in Nat /\ num[m] <= n
    BY <2>1, <2>2, SlotsAssumption
  <2>4. l \in Nat
    BY <2>1, LinkOnType
  <2>. QED
    BY <2>1, <2>3, <2>4
<1>. HIDE DEF n, l
<1>2. num2 \in [0 .. m + 1 -> Nat] /\ sec2 \in [0 .. m + 1 -> Nat]
  BY <1>1
<1>3. \A k \in 0 .. m : num2[k] = num[k] /\ sec2[k] = sec[k]
  OBVIOUS
<1>4. num2[m + 1] = n /\ sec2[m + 1] = l
  OBVIOUS
<1>. HIDE DEF num2, sec2
<1>5. ASSUME NEW k \in 0 .. m
      PROVE  /\ Usable(d, sec2[k])
             /\ num2[k + 1] = num2[k] + BreakOn(d, sec2[k]) - 1
             /\ sec2[k + 1] = LinkOn(d, base, sec2[k])
  <2>1. CASE k = m
    BY <1>3, <1>4, <2>1 DEF n, l
  <2>2. CASE k < m
    <3>1. k \in 0 .. m - 1 /\ k + 1 \in 0 .. m
      BY <2>2
    <3>. QED
      BY <1>3, <3>1 DEF Walks
  <2>. QED
    BY <2>1, <2>2
<1>6. ASSUME NEW k \in 0 .. m + 1, NEW j \in 0 .. k PROVE num2[j] <= num2[k]
  <2>1. CASE k = m + 1 /\ j = m + 1
    BY <1>1, <1>4, <2>1
  <2>2. CASE k = m + 1 /\ j \in 0 .. m
    <3>1. num[j] <= num[m] /\ num[j] \in Nat
      BY <2>2 DEF Walks
    <3>. QED
      BY <1>1, <1>3, <1>4, <2>2, <3>1
  <2>3. CASE k \in 0 .. m
    <3>1. j \in 0 .. m /\ num[j] <= num[k]
      BY <2>3 DEF Walks
    <3>. QED
      BY <1>3, <2>3, <3>1
  <2>. QED
    BY <2>1, <2>2, <2>3
<1>7. num2[0] = Slots /\ sec2[0] = base
  BY <1>3 DEF Walks
<1>8. \A k \in 0 .. (m + 1) - 1 :
        /\ Usable(d, sec2[k])
        /\ num2[k + 1] = num2[k] + BreakOn(d, sec2[k]) - 1
        /\ sec2[k + 1] = LinkOn(d, base, sec2[k])
  BY <1>5
<1>9. Walks(d, base, num2, sec2, m + 1)
  BY <1>6, <1>7, <1>8 DEF Walks
<1>. QED
  BY <1>2, <1>4, <1>9 DEF n, l

\* What the program reads of a disk with the same contents.
LEMMA SameReads ==
  ASSUME NEW d \in Disks, IInv, Same(d), NEW s \in Sectors
  PROVE  /\ Break(s) = BreakOn(d, s)
         /\ Link(s, Break(s)) = LinkOn(d, ExtBase, s)
         /\ Readable(s) <=> d[s].signed
         /\ \A i \in 1 .. Slots : Extended(s, i) <=> d[s].table[i].kind = "extended"
<1>1. Break(s) = BreakOn(d, s)
  <2>1. { i \in 1 .. Slots : disk[s].table[i].kind # "data" } =
        { i \in 1 .. Slots : d[s].table[i].kind # "data" }
    BY DEF Same
  <2>. QED
    BY <2>1 DEF Break, BreakOn
<1>2. \A i \in 1 .. Slots : Extended(s, i) <=> d[s].table[i].kind = "extended"
  BY DEF Same, Extended
<1>3. Readable(s) <=> d[s].signed
  BY DEF Same, Readable, Sectors
<1>4. Break(s) <= Slots => Break(s) \in 1 .. Slots
  BY BreakType, SlotsAssumption DEF IInv
<1>5. Link(s, Break(s)) = LinkOn(d, ExtBase, s)
  BY <1>1, <1>2, <1>4 DEF Link, LinkOn, Same
<1>. QED
  BY <1>1, <1>2, <1>3, <1>5

LEMMA SameKept ==
  ASSUME NEW d, UNCHANGED disk, Same(d)
  PROVE  /\ Same(d)' /\ Sectors' = Sectors
         /\ \A s \in Sectors : Active(s)' = Active(s)
BY DEF Same, Sectors, Active, Seen, Break

LEMMA InitWalks ==
  ASSUME Init
  PROVE  \E d \in Disks : WInv(d)
<1>1. PICK d \in Disks : disk = d
  BY DEF Init
<1>2. Same(d)
  BY <1>1 DEF Same, Sectors
<1>3. \A v \in Volumes : Primary(d, v)
  <2>1. Volumes = { [index |-> i - 1, at |-> <<0, i>>] :
                      i \in { j \in 1 .. Slots : disk[0].table[j].kind = "data" } }
    BY DEF Init
  <2>2. ASSUME NEW i \in 1 .. Slots, d[0].table[i].kind = "data"
        PROVE  Primary(d, [index |-> i - 1, at |-> <<0, i>>])
    <3>1. i - 1 \in 0 .. Slots - 1 /\ (i - 1) + 1 = i
      BY SlotsAssumption
    <3>. QED
      BY <2>2, <3>1 DEF Primary
  <2>. QED
    BY <1>1, <2>1, <2>2
<1>4. Follows(d) /\ d[0].signed
  BY <1>1 DEF Init, Follows
<1>. QED
  BY <1>2, <1>3, <1>4 DEF WInv, Numbered

LEMMA ScanPrimaryWalks ==
  ASSUME NEW d \in Disks, IInv, WInv(d), ScanPrimary
  PROVE  WInv(d)'
<1>1. Same(d)' /\ Numbered(d)'
  BY SameKept DEF ScanPrimary, WInv, Numbered
<1>2. PartitionIndex + 1 \in 1 .. Slots
  BY SlotsAssumption DEF ScanPrimary, IInv, TypeOK
<1>3. CASE Extended(0, PartitionIndex + 1)
  <2>. DEFINE base == disk[0].table[PartitionIndex + 1].start
              num == [k \in 0 .. 0 |-> Slots]
              sec == [k \in 0 .. 0 |-> base]
  <2>1. /\ ExtBase' = base /\ ExtCurrent' = base /\ LogicalPartitionIndex' = Slots
        /\ pc' = "scan_embr"
    BY <1>3 DEF ScanPrimary
  <2>2. base \in Nat
    <3>1. disk[0].table[PartitionIndex + 1] \in Entries
      BY <1>2 DEF IInv, TypeOK, Tables
    <3>. QED
      BY <3>1 DEF Entries
  <2>3. IsBase(d, base)
    BY <1>2, <1>3 DEF IsBase, WInv, Same, IInv, Extended
  <2>. HIDE DEF base
  <2>4. num \in [0 .. 0 -> Nat] /\ sec \in [0 .. 0 -> Nat]
    BY <2>2, SlotsAssumption
  <2>5. num[0] = Slots /\ sec[0] = base
    OBVIOUS
  <2>. HIDE DEF num, sec
  <2>6. Walks(d, base, num, sec, 0)
    BY <2>5, SlotsAssumption DEF Walks
  <2>7. Scanning(d)'
    BY <2>1, <2>3, <2>4, <2>5, <2>6 DEF Scanning
  <2>. QED
    BY <1>1, <2>1, <2>7 DEF WInv, Follows
<1>4. CASE ~Extended(0, PartitionIndex + 1)
  <2>1. pc' = "scan"
    BY <1>4 DEF ScanPrimary
  <2>. QED
    BY <1>1, <2>1 DEF WInv, Follows
<1>. QED
  BY <1>3, <1>4

LEMMA ScanEmbrWalks ==
  ASSUME NEW d \in Disks, IInv, WInv(d), ScanEmbr
  PROVE  WInv(d)'
<1>1. Same(d)'
  BY SameKept DEF ScanEmbr, WInv
<1>2. CASE ExtCurrent # 0 /\ Readable(ExtCurrent)
  <2>. DEFINE s == ExtCurrent
              b == Break(s)
              bad == { i \in 1 .. Slots : disk[s].table[i].flags = "bad" }
              n == Min(bad \cup {b})
  <2>1. s \in Sectors /\ Usable(d, s)
    BY <1>2 DEF Readable, Usable, WInv, Same, Sectors
  <2>2. b \in 1 .. Slots + 1 /\ b = BreakOn(d, s) /\ Link(s, b) = LinkOn(d, ExtBase, s)
    BY <2>1, BreakType, SameReads DEF IInv, WInv
  <2>3. n \in 1 .. b /\ (n \notin bad => n = b)
    <3>1. bad \cup {b} \in SUBSET Nat /\ bad \cup {b} # {} /\ bad \cup {b} \subseteq 1 .. Slots + 1
      BY <2>2, SlotsAssumption
    <3>2. n \in bad \cup {b} /\ n <= b
      BY <3>1, MinIsLeast
    <3>3. n \in 1 .. Slots + 1
      BY <3>1, <3>2
    <3>. HIDE DEF n, bad, b
    <3>. QED
      BY <2>2, <3>2, <3>3, SlotsAssumption
  <2>4. /\ Volumes' = Volumes \cup Found(s, n)
        /\ LogicalPartitionIndex' = LogicalPartitionIndex + n - 1
        /\ ExtCurrent' = IF n \in bad THEN 0 ELSE Link(s, n)
        /\ pc' = "scan_embr" /\ ExtBase' = ExtBase
    BY <1>2 DEF ScanEmbr
  <2>. HIDE DEF bad, b, n
  <2>5. PICK m \in Nat : \E num, sec \in [0 .. m -> Nat] :
          Walks(d, ExtBase, num, sec, m) /\ num[m] = LogicalPartitionIndex /\ sec[m] = s
    BY <1>2 DEF WInv, Follows, Scanning, ScanEmbr
  <2>6. PICK num \in [0 .. m -> Nat], sec \in [0 .. m -> Nat] :
          Walks(d, ExtBase, num, sec, m) /\ num[m] = LogicalPartitionIndex /\ sec[m] = s
    BY <2>5
  <2>7. IsBase(d, ExtBase) /\ ExtBase \in Nat
    BY DEF WInv, Follows, Scanning, ScanEmbr, IInv, TypeOK
  <2>8. \A v \in Found(s, n) : Logical(d, v)
    <3>. SUFFICES ASSUME NEW i \in 1 .. n - 1
                  PROVE  Logical(d, [index |-> LogicalPartitionIndex + i - 1, at |-> <<s, i>>])
      BY <2>4 DEF Found
    <3>. DEFINE v == [index |-> LogicalPartitionIndex + i - 1, at |-> <<s, i>>]
    <3>1. i \in 1 .. BreakOn(d, s) - 1
      BY <2>2, <2>3, SlotsAssumption
    <3>2. v.at[1] = s /\ v.at[2] = i /\ v.index = num[m] + v.at[2] - 1
      BY <2>6
    <3>3. Ends(d, ExtBase, v, num, sec, m)
      BY <2>1, <2>6, <3>1, <3>2 DEF Ends
    <3>. HIDE DEF v
    <3>4. Logical(d, v)
      BY <2>7, <3>3 DEF Logical
    <3>. QED
      BY <3>4 DEF v
  <2>9. Numbered(d)'
    BY <2>4, <2>8 DEF Numbered, WInv
  <2>10. Scanning(d)'
    <3>1. CASE n \in bad
      BY <2>4, <2>7, <3>1 DEF Scanning
    <3>2. CASE n \notin bad
      <4>1. n = b /\ ExtCurrent' = LinkOn(d, ExtBase, s)
        BY <2>2, <2>3, <2>4, <3>2
      <4>2. PICK num2 \in [0 .. m + 1 -> Nat], sec2 \in [0 .. m + 1 -> Nat] :
              /\ Walks(d, ExtBase, num2, sec2, m + 1)
              /\ num2[m + 1] = num[m] + BreakOn(d, sec[m]) - 1
              /\ sec2[m + 1] = LinkOn(d, ExtBase, sec[m])
        BY <2>1, <2>6, <2>7, WalkExtends
      <4>3. num2[m + 1] = LogicalPartitionIndex' /\ sec2[m + 1] = ExtCurrent'
        BY <2>2, <2>4, <2>6, <4>1, <4>2
      <4>4. m + 1 \in Nat
        OBVIOUS
      <4>. QED
        BY <2>4, <2>7, <4>2, <4>3, <4>4 DEF Scanning
    <3>. QED
      BY <3>1, <3>2
  <2>. QED
    BY <1>1, <2>4, <2>9, <2>10 DEF WInv, Follows
<1>3. CASE ~(ExtCurrent # 0 /\ Readable(ExtCurrent))
  <2>1. pc' = "scan" /\ UNCHANGED Volumes
    BY <1>3 DEF ScanEmbr
  <2>. QED
    BY <1>1, <2>1 DEF WInv, Follows, Numbered
<1>. QED
  BY <1>2, <1>3

LEMMA ChoiceWalks ==
  ASSUME NEW d \in Disks, IInv, WInv(d),
         ScanDone \/ (\E v \in Volumes : StartLegacy(v)) \/ LoaderReturns
  PROVE  WInv(d)'
<1>1. Same(d)' /\ Numbered(d)'
  BY SameKept DEF ScanDone, StartLegacy, LoaderReturns, WInv, Numbered
<1>2. Follows(d)'
  BY DEF ScanDone, StartLegacy, LoaderReturns, Follows
<1>. QED
  BY <1>1, <1>2 DEF WInv

LEMMA ReflaggedReads ==
  ASSUME NEW d, NEW s, NEW F, Reflagged(s, F), Same(d)
  PROVE  /\ Same(d)'
         /\ \A t \in Sectors \ {s} : Active(t)' = Active(t)
         /\ s \in Sectors => Active(s)' = { i \in Seen(s) : F[i] = "on" }
<1>1. Same(d)'
  BY DEF Reflagged, Same
<1>2. \A t \in Sectors : Seen(t)' = Seen(t)
  BY DEF Reflagged, Seen
<1>3. \A t \in Sectors : Seen(t) \subseteq 1 .. Slots
  BY DEF Seen
<1>. QED
  BY <1>1, <1>2, <1>3 DEF Reflagged, Active

\* The last of the extended partitions is the only one.
LEMMA MbrStep ==
  ASSUME IInv, ActivatePrimary
  PROVE  \/ UNCHANGED disk /\ status' = "error" /\ pc' = "start"
         \/ /\ Reflagged(0, [i \in 1 .. Slots |-> MbrFlag(i)])
            /\ bootcode' # "none" /\ ExtCurrent' = ExtBase'
            /\ PartitionIndex < Slots => ExtBase' = 0
            /\ \A i \in 1 .. Slots : PartitionIndex >= Slots /\ Extended(0, i)
                                       => ExtBase' = disk[0].table[i].start
            /\ pc' = IF ExtBase' = 0 THEN "start" ELSE "embr"
<1>. SUFFICES ASSUME ~(UNCHANGED disk /\ status' = "error" /\ pc' = "start")
              PROVE  /\ Reflagged(0, [i \in 1 .. Slots |-> MbrFlag(i)])
                     /\ bootcode' # "none" /\ ExtCurrent' = ExtBase'
                     /\ PartitionIndex < Slots => ExtBase' = 0
                     /\ \A i \in 1 .. Slots : PartitionIndex >= Slots /\ Extended(0, i)
                                                => ExtBase' = disk[0].table[i].start
                     /\ pc' = IF ExtBase' = 0 THEN "start" ELSE "embr"
  OBVIOUS
<1>. DEFINE links == { i \in 1 .. Slots : PartitionIndex >= Slots /\ Extended(0, i) }
<1>1. /\ SetFlags(0, MbrFlag)
      /\ bootcode' = IF bootcode = "none" THEN "syslinux" ELSE bootcode
      /\ ExtBase' = IF links = {} THEN 0 ELSE disk[0].table[Max(links)].start
      /\ ExtCurrent' = ExtBase'
      /\ IF ExtBase' = 0 THEN Return("success") ELSE pc' = "embr" /\ UNCHANGED status
  BY DEF ActivatePrimary, Return
<1>2. Reflagged(0, [i \in 1 .. Slots |-> MbrFlag(i)])
  <2>. DEFINE F == [i \in 1 .. Slots |-> MbrFlag(i)]
  <2>1. F \in [1 .. Slots -> {"off", "on", "bad"}]
    BY DEF MbrFlag
  <2>2. disk' = [disk EXCEPT ![0].table =
                   [i \in 1 .. Slots |-> [disk[0].table[i] EXCEPT !.flags = F[i]]]]
    BY <1>1 DEF SetFlags
  <2>. HIDE DEF F
  <2>3. Reflagged(0, F)
    BY <2>1, <2>2, Rewritten DEF IInv
  <2>. QED
    BY <2>3 DEF F
<1>3. PartitionIndex < Slots => ExtBase' = 0
  BY <1>1, SlotsAssumption DEF IInv, TypeOK
<1>4. ASSUME NEW i \in 1 .. Slots, PartitionIndex >= Slots, Extended(0, i)
      PROVE  ExtBase' = disk[0].table[i].start
  <2>1. links = {i}
    BY <1>4 DEF IInv, OneExtended
  <2>2. i >= i
    BY SlotsAssumption
  <2>. HIDE DEF links
  <2>3. Max(links) = i
    BY <2>1, <2>2 DEF Max
  <2>. QED
    BY <1>1, <2>1, <2>3
<1>5. bootcode' # "none" /\ pc' = IF ExtBase' = 0 THEN "start" ELSE "embr"
  BY <1>1 DEF Return
<1>. QED
  BY <1>1, <1>2, <1>3, <1>4, <1>5

\* Partitions of the MBR have smaller numbers than those of its EMBRs.
LEMMA IndexParts ==
  ASSUME NEW d \in Disks, NEW v
  PROVE  /\ Primary(d, v) => v.index < Slots
         /\ Logical(d, v) => v.index >= Slots
<1>1. Primary(d, v) => v.index < Slots
  BY SlotsAssumption DEF Primary
<1>2. ASSUME Logical(d, v) PROVE v.index >= Slots
  <2>1. PICK base \in Nat, m \in Nat : \E num, sec \in [0 .. m -> Nat] :
          IsBase(d, base) /\ Ends(d, base, v, num, sec, m)
    BY <1>2 DEF Logical
  <2>2. PICK num \in [0 .. m -> Nat], sec \in [0 .. m -> Nat] : Ends(d, base, v, num, sec, m)
    BY <2>1
  <2>3. 0 \in 0 .. m /\ m \in 0 .. m
    OBVIOUS
  <2>4. num[0] = Slots /\ num[0] <= num[m] /\ num[m] \in Nat
    BY <2>2, <2>3 DEF Ends, Walks
  <2>5. BreakOn(d, sec[m]) \in 1 .. Slots + 1
    BY <2>2, BreakOnFacts DEF Ends, Usable
  <2>6. v.at[2] \in 1 .. BreakOn(d, sec[m]) - 1 /\ v.index = num[m] + v.at[2] - 1
    BY <2>2 DEF Ends
  <2>. QED
    BY <2>4, <2>5, <2>6, SlotsAssumption, SMTT(40)
<1>. QED
  BY <1>1, <1>2

LEMMA PrimaryWalks ==
  ASSUME NEW d \in Disks, IInv, WInv(d), ActivatePrimary
  PROVE  WInv(d)'
<1>. DEFINE F == [i \in 1 .. Slots |-> MbrFlag(i)]
<1>1. /\ pc = "mbr" /\ chosen \in Volumes /\ PartitionIndex = chosen.index
      /\ LogicalPartitionIndex = Slots /\ Same(d) /\ Numbered(d)
      /\ UNCHANGED <<Volumes, chosen, PartitionIndex, LogicalPartitionIndex>>
  BY DEF ActivatePrimary, WInv, Follows
<1>2. Numbered(d)'
  BY <1>1 DEF Numbered
<1>3. CASE UNCHANGED disk /\ status' = "error" /\ pc' = "start"
  BY <1>1, <1>2, <1>3, SameKept DEF WInv, Follows
<1>4. CASE /\ Reflagged(0, F)
           /\ bootcode' # "none" /\ ExtCurrent' = ExtBase'
           /\ PartitionIndex < Slots => ExtBase' = 0
           /\ \A i \in 1 .. Slots : PartitionIndex >= Slots /\ Extended(0, i)
                                      => ExtBase' = disk[0].table[i].start
           /\ pc' = IF ExtBase' = 0 THEN "start" ELSE "embr"
  <2>1. 0 \in Sectors /\ Seen(0) = 1 .. Slots
    BY DEF IInv, Seen
  <2>2. Same(d)' /\ Active(0)' = { i \in 1 .. Slots : F[i] = "on" }
    <3>. HIDE DEF F
    <3>1. Same(d)' /\ (0 \in Sectors => Active(0)' = { i \in Seen(0) : F[i] = "on" })
      BY <1>1, <1>4, ReflaggedReads
    <3>. QED
      BY <2>1, <3>1
  <2>3. CASE Primary(d, chosen)
    <3>1. PartitionIndex < Slots /\ PartitionIndex + 1 \in 1 .. Slots
      BY <1>1, <2>3, SlotsAssumption DEF Primary
    <3>2. Active(0)' = {chosen.index + 1}
      <4>1. \A i \in 1 .. Slots : F[i] = "on" <=> i = PartitionIndex + 1
        BY <3>1, SlotsAssumption DEF MbrFlag, IInv, TypeOK
      <4>. HIDE DEF F
      <4>. QED
        BY <1>1, <2>2, <3>1, <4>1
    <3>3. pc' = "start" /\ Activated(d)'
      BY <1>1, <1>4, <2>3, <3>1, <3>2 DEF Activated
    <3>. QED
      BY <1>1, <1>2, <2>2, <3>3 DEF WInv, Follows
  <2>4. CASE Logical(d, chosen)
    <3>1. PICK base \in Nat, m \in Nat : \E num, sec \in [0 .. m -> Nat] :
            IsBase(d, base) /\ Ends(d, base, chosen, num, sec, m)
      BY <2>4 DEF Logical
    <3>2. PICK num \in [0 .. m -> Nat], sec \in [0 .. m -> Nat] :
            IsBase(d, base) /\ Ends(d, base, chosen, num, sec, m)
      BY <3>1
    <3>3. PartitionIndex >= Slots /\ PartitionIndex \in Nat
      BY <1>1, <2>4, IndexParts DEF IInv, TypeOK
    <3>4. PICK i \in 1 .. Slots : d[0].table[i].kind = "extended" /\ base = d[0].table[i].start
      BY <3>2 DEF IsBase
    <3>5. ExtBase' = base
      BY <1>1, <1>4, <2>1, <3>3, <3>4 DEF Extended, Same
    <3>6. Walks(d, base, num, sec, m) /\ num[0] = Slots /\ sec[0] = base
      BY <3>2 DEF Ends, Walks
    <3>7. base # 0
      <4>1. CASE m = 0
        BY <3>2, <3>6, <4>1 DEF Ends, Usable
      <4>2. CASE m # 0
        <5>1. 0 \in 0 .. m - 1
          BY <4>2
        <5>. QED
          BY <3>6, <5>1 DEF Walks, Usable
      <4>. QED
        BY <4>1, <4>2
    <3>8. LinksActive(d)'
      <4>1. \A j \in 1 .. Slots : F[j] = "on" <=> d[0].table[j].kind = "extended"
        BY <1>1, <2>1, <3>3, SlotsAssumption, SMTT(40) DEF MbrFlag, Extended, Same
      <4>2. Active(0)' = { j \in 1 .. Slots : d[0].table[j].kind = "extended" }
        BY <2>2, <4>1
      <4>. QED
        BY <4>2 DEF LinksActive
    <3>9. pc' = "embr"
      BY <1>4, <3>5, <3>7
    <3>10. Activating(d)'
      <4>1. 0 \in 0 .. m /\ 0 .. 0 - 1 = {}
        OBVIOUS
      <4>2. /\ Ends(d, ExtBase, chosen, num, sec, m)'
            /\ num[0] = LogicalPartitionIndex' /\ sec[0] = ExtCurrent'
            /\ \A j \in 0 .. 0 - 1 : OnlyLink(d, sec[j])'
        BY <1>1, <1>4, <3>2, <3>5, <3>6, <4>1 DEF Ends
      <4>3. IsBase(d, ExtBase)'
        BY <3>2, <3>5 DEF IsBase
      <4>. QED
        BY <1>4, <3>8, <4>1, <4>2, <4>3 DEF Activating
    <3>. QED
      BY <1>1, <1>2, <2>2, <3>9, <3>10 DEF WInv, Follows
  <2>. QED
    BY <1>1, <2>3, <2>4 DEF Numbered
<1>. QED
  BY <1>3, <1>4, MbrStep

LEMMA EmbrStep ==
  ASSUME IInv, ActivateLogical
  PROVE  \/ UNCHANGED disk /\ status' = "error" /\ pc' = "start"
         \/ /\ ExtCurrent \in Sectors \ {0}
            /\ Reflagged(ExtCurrent,
                 [i \in 1 .. Slots |-> EmbrFlag(ExtCurrent, i, Break(ExtCurrent))])
            /\ LogicalPartitionIndex' = LogicalPartitionIndex + Break(ExtCurrent) - 1
            /\ ExtCurrent' = Link(ExtCurrent, Break(ExtCurrent))
            /\ pc' = IF PartitionIndex < LogicalPartitionIndex' \/ ExtCurrent' = 0
                     THEN "start" ELSE "embr"
<1>. SUFFICES ASSUME ~(UNCHANGED disk /\ status' = "error" /\ pc' = "start")
              PROVE  /\ ExtCurrent \in Sectors \ {0}
                     /\ Reflagged(ExtCurrent,
                          [i \in 1 .. Slots |-> EmbrFlag(ExtCurrent, i, Break(ExtCurrent))])
                     /\ LogicalPartitionIndex' = LogicalPartitionIndex + Break(ExtCurrent) - 1
                     /\ ExtCurrent' = Link(ExtCurrent, Break(ExtCurrent))
                     /\ pc' = IF PartitionIndex < LogicalPartitionIndex' \/ ExtCurrent' = 0
                              THEN "start" ELSE "embr"
  OBVIOUS
<1>. DEFINE e == ExtCurrent
            n == Break(e)
            F == [i \in 1 .. Slots |-> EmbrFlag(e, i, n)]
<1>1. /\ pc = "embr" /\ Readable(e)
      /\ disk' = [disk EXCEPT ![e].table =
                    [i \in 1 .. Slots |-> [disk[e].table[i] EXCEPT !.flags = F[i]]]]
      /\ LogicalPartitionIndex' = LogicalPartitionIndex + n - 1
      /\ ExtCurrent' = Link(e, n)
      /\ IF PartitionIndex < LogicalPartitionIndex' \/ Link(e, n) = 0
         THEN Return("success") ELSE UNCHANGED <<pc, status>>
  BY DEF ActivateLogical, SetFlags, Return
<1>2. e \in Sectors \ {0}
  BY <1>1 DEF IInv, InChain, Readable, Sectors
<1>. HIDE DEF n
<1>3. F \in [1 .. Slots -> {"off", "on", "bad"}]
  BY <1>2, ZenonT(60) DEF EmbrFlag, IInv, TypeOK, Tables, Entries
<1>. HIDE DEF F, e
<1>4. Reflagged(e, F)
  BY <1>1, <1>2, <1>3, Rewritten DEF IInv
<1>5. pc' = IF PartitionIndex < LogicalPartitionIndex' \/ ExtCurrent' = 0
            THEN "start" ELSE "embr"
  BY <1>1 DEF Return
<1>. QED
  BY <1>1, <1>2, <1>4, <1>5 DEF e, n, F

\* In an EMBR before that of the partition only the link stays active; in that
\* of the partition, only the partition.
LEMMA EmbrFlags ==
  ASSUME IInv, NEW s \in Sectors \ {0}
  PROVE  LET b == Break(s)
             on == { i \in Seen(s) : [j \in 1 .. Slots |-> EmbrFlag(s, j, b)][i] = "on" }
         IN  /\ PartitionIndex >= LogicalPartitionIndex + b - 1 /\ b <= Slots /\ Extended(s, b)
                  => on = {b}
             /\ \A p \in 1 .. b - 1 :
                  PartitionIndex = LogicalPartitionIndex + p - 1 => on = {p}
<1>. DEFINE b == Break(s)
            on == { i \in Seen(s) : [j \in 1 .. Slots |-> EmbrFlag(s, j, b)][i] = "on" }
<1>1. b \in 1 .. Slots + 1
  BY BreakType DEF IInv
<1>2. on = { i \in 1 .. Slots : i <= b /\ EmbrFlag(s, i, b) = "on" }
  BY DEF Seen
<1>. HIDE DEF on
<1>3. ASSUME NEW i \in 1 .. Slots, i < b
      PROVE  EmbrFlag(s, i, b) = "on" <=> PartitionIndex = LogicalPartitionIndex + i - 1
  BY <1>3 DEF EmbrFlag
<1>4. ASSUME b <= Slots
      PROVE  EmbrFlag(s, b, b) = "on" <=>
               Extended(s, b) /\ PartitionIndex >= LogicalPartitionIndex + b - 1
  <2>1. b \in 1 .. Slots /\ ~(b < b)
    BY <1>1, <1>4, SlotsAssumption
  <2>2. CASE Extended(s, b)
    <3>. HIDE DEF b
    <3>. QED
      BY <2>1, <2>2 DEF EmbrFlag
  <2>3. CASE ~Extended(s, b)
    <3>1. disk[s].table[b].kind = "free"
      <4>1. disk[s].table[b].kind # "data" /\ disk[s].table[b].kind # "extended"
        BY <2>1, <2>3, BreakKind DEF Extended, IInv
      <4>2. disk[s].table[b] \in Entries
        BY <2>1 DEF IInv, TypeOK, Tables
      <4>. HIDE DEF b
      <4>. QED
        BY <4>1, <4>2 DEF Entries
    <3>2. disk[s].table[b].flags # "on"
      BY <2>1, <3>1 DEF IInv, FreeOff
    <3>3. EmbrFlag(s, b, b) = disk[s].table[b].flags
      <4>. HIDE DEF b
      <4>. QED
        BY <2>1, <2>3 DEF EmbrFlag
    <3>. QED
      BY <2>3, <3>2, <3>3
  <2>. QED
    BY <2>2, <2>3
<1>. HIDE DEF b
<1>5. PartitionIndex \in Nat /\ LogicalPartitionIndex \in Nat
  BY DEF IInv, TypeOK
<1>6. ASSUME PartitionIndex >= LogicalPartitionIndex + b - 1, b <= Slots, Extended(s, b)
      PROVE  on = {b}
  <2>1. \A i \in 1 .. Slots : i <= b => (EmbrFlag(s, i, b) = "on" <=> i = b)
    BY <1>1, <1>3, <1>4, <1>5, <1>6, SlotsAssumption
  <2>. QED
    BY <1>1, <1>2, <1>6, <2>1, SlotsAssumption
<1>7. ASSUME NEW p \in 1 .. b - 1, PartitionIndex = LogicalPartitionIndex + p - 1
      PROVE  on = {p}
  <2>1. \A i \in 1 .. Slots : i <= b => (EmbrFlag(s, i, b) = "on" <=> i = p)
    BY <1>1, <1>3, <1>4, <1>5, <1>7, SlotsAssumption
  <2>. QED
    BY <1>1, <1>2, <1>7, <2>1, SlotsAssumption
<1>. QED
  BY <1>6, <1>7 DEF b, on

LEMMA LogicalWalks ==
  ASSUME NEW d \in Disks, IInv, WInv(d), ActivateLogical
  PROVE  WInv(d)'
<1>0. PICK s : s = ExtCurrent
  OBVIOUS
<1>. DEFINE b == Break(s)
            F == [i \in 1 .. Slots |-> EmbrFlag(s, i, b)]
<1>1. /\ pc = "embr" /\ chosen \in Volumes /\ PartitionIndex = chosen.index
      /\ Same(d) /\ Numbered(d) /\ Activating(d)
      /\ UNCHANGED <<bootcode, Volumes, chosen, PartitionIndex, ExtBase>>
  BY DEF ActivateLogical, WInv, Follows
<1>2. Numbered(d)'
  BY <1>1 DEF Numbered
<1>3. CASE UNCHANGED disk /\ status' = "error" /\ pc' = "start"
  BY <1>1, <1>2, <1>3, SameKept DEF WInv, Follows
<1>4. CASE /\ s \in Sectors \ {0}
           /\ Reflagged(s, F)
           /\ LogicalPartitionIndex' = LogicalPartitionIndex + b - 1
           /\ ExtCurrent' = Link(s, b)
           /\ pc' = IF PartitionIndex < LogicalPartitionIndex' \/ ExtCurrent' = 0
                    THEN "start" ELSE "embr"
  <2>. DEFINE on == { i \in Seen(s) : F[i] = "on" }
  <2>1. Same(d)' /\ (\A t \in Sectors \ {s} : Active(t)' = Active(t)) /\ Active(s)' = on
    <3>. HIDE DEF F
    <3>1. Same(d)' /\ (\A t \in Sectors \ {s} : Active(t)' = Active(t))
      BY <1>1, <1>4, ReflaggedReads
    <3>2. s \in Sectors => Active(s)' = { i \in Seen(s) : F[i] = "on" }
      BY <1>1, <1>4, ReflaggedReads
    <3>. QED
      BY <1>4, <3>1, <3>2
  <2>2. b = BreakOn(d, s) /\ Link(s, b) = LinkOn(d, ExtBase, s) /\ b \in 1 .. Slots + 1
    BY <1>1, <1>4, SameReads, BreakType DEF IInv
  <2>3. /\ PartitionIndex >= LogicalPartitionIndex + b - 1 /\ b <= Slots /\ Extended(s, b)
             => on = {b}
        /\ \A p \in 1 .. b - 1 :
             PartitionIndex = LogicalPartitionIndex + p - 1 => on = {p}
    BY <1>4, EmbrFlags
  <2>4. b <= Slots => (Extended(s, b) <=> d[s].table[b].kind = "extended")
    <3>1. b <= Slots => b \in 1 .. Slots
      BY <2>2, SlotsAssumption
    <3>. QED
      BY <1>1, <1>4, <3>1, SameReads
  <2>. HIDE DEF on, F, b
  <2>5. IsBase(d, ExtBase) /\ LinksActive(d) /\ bootcode # "none"
    BY <1>1 DEF Activating
  <2>6. LinksActive(d)'
    BY <1>4, <2>1, <2>5 DEF LinksActive, IInv
  <2>7. PICK m \in Nat : \E num, sec \in [0 .. m -> Nat], k \in 0 .. m :
          /\ Ends(d, ExtBase, chosen, num, sec, m)
          /\ num[k] = LogicalPartitionIndex /\ sec[k] = s
          /\ \A j \in 0 .. k - 1 : OnlyLink(d, sec[j])
    BY <1>0, <1>1 DEF Activating
  <2>8. PICK num \in [0 .. m -> Nat], sec \in [0 .. m -> Nat], k \in 0 .. m :
          /\ Ends(d, ExtBase, chosen, num, sec, m)
          /\ num[k] = LogicalPartitionIndex /\ sec[k] = s
          /\ \A j \in 0 .. k - 1 : OnlyLink(d, sec[j])
    BY <2>7
  <2>9. /\ Walks(d, ExtBase, num, sec, m) /\ Usable(d, sec[m])
        /\ chosen.at[1] = sec[m] /\ chosen.at[2] \in 1 .. BreakOn(d, sec[m]) - 1
        /\ PartitionIndex = num[m] + chosen.at[2] - 1
    BY <1>1, <2>8 DEF Ends
  <2>10. ASSUME NEW j \in 0 .. k - 1 PROVE sec[j] = s \/ OnlyLink(d, sec[j])'
    <3>1. OnlyLink(d, sec[j]) /\ sec[j] \in Sectors
      <4>1. j \in 0 .. m - 1
        BY <2>8
      <4>2. sec[j] \in DOMAIN d
        BY <2>9, <4>1 DEF Walks, Usable
      <4>. QED
        BY <1>1, <2>8, <4>2 DEF Same
    <3>. QED
      BY <2>1, <3>1 DEF OnlyLink
  <2>11. CASE k < m
    <3>1. k \in 0 .. m - 1 /\ k + 1 \in 0 .. m /\ m \in 0 .. m
      BY <2>11
    <3>2. num[k + 1] = LogicalPartitionIndex + b - 1 /\ sec[k + 1] = Link(s, b)
      BY <2>2, <2>8, <2>9, <3>1 DEF Walks
    <3>3. sec[k + 1] # 0
      <4>1. CASE k + 1 = m
        BY <2>9, <4>1 DEF Usable
      <4>2. CASE k + 1 # m
        <5>1. k + 1 \in 0 .. m - 1
          BY <3>1, <4>2
        <5>. QED
          BY <2>9, <5>1 DEF Walks, Usable
      <4>. QED
        BY <4>1, <4>2
    <3>4. num[k + 1] <= PartitionIndex /\ num[k + 1] \in Nat
      <4>1. num[k + 1] <= num[m] /\ num[k + 1] \in Nat /\ num[m] \in Nat
        BY <2>9, <3>1 DEF Walks
      <4>2. BreakOn(d, sec[m]) \in 1 .. Slots + 1
        BY <2>9, BreakOnFacts DEF Usable
      <4>3. chosen.at[2] >= 1 /\ chosen.at[2] \in Int
        BY <2>9, <4>2
      <4>. QED
        BY <2>9, <4>1, <4>3, SMTT(40)
    <3>5. b <= Slots /\ Extended(s, b)
      BY <2>2, <2>4, <3>2, <3>3 DEF LinkOn
    <3>6. OnlyLink(d, s)'
      <4>1. on = {b}
        BY <2>3, <3>2, <3>4, <3>5, SlotsAssumption
      <4>. QED
        BY <2>1, <2>2, <4>1 DEF OnlyLink
    <3>7. pc' = "embr" /\ LogicalPartitionIndex' = num[k + 1] /\ ExtCurrent' = sec[k + 1]
      <4>1. LogicalPartitionIndex' = num[k + 1] /\ ExtCurrent' = sec[k + 1]
        BY <1>4, <3>2
      <4>2. PartitionIndex \in Nat
        BY DEF IInv, TypeOK
      <4>3. ~(PartitionIndex < LogicalPartitionIndex' \/ ExtCurrent' = 0)
        BY <3>3, <3>4, <4>1, <4>2
      <4>. QED
        BY <1>4, <4>1, <4>3
    <3>8. \A j \in 0 .. (k + 1) - 1 : OnlyLink(d, sec[j])'
      <4>. SUFFICES ASSUME NEW j \in 0 .. (k + 1) - 1 PROVE OnlyLink(d, sec[j])'
        OBVIOUS
      <4>1. CASE j = k
        BY <2>8, <3>6, <4>1
      <4>2. CASE j # k
        <5>1. j \in 0 .. k - 1
          BY <4>2
        <5>2. CASE sec[j] = s
          BY <3>6, <5>2
        <5>3. CASE sec[j] # s
          BY <2>10, <5>1, <5>3
        <5>. QED
          BY <5>2, <5>3
      <4>. QED
        BY <4>1, <4>2
    <3>9. Activating(d)'
      <4>1. Ends(d, ExtBase, chosen, num, sec, m)'
        BY <1>1, <2>8 DEF Ends
      <4>2. IsBase(d, ExtBase)' /\ bootcode' # "none"
        BY <1>1, <2>5 DEF IsBase
      <4>. QED
        BY <2>6, <3>1, <3>7, <3>8, <4>1, <4>2 DEF Activating
    <3>. QED
      BY <1>1, <1>2, <2>1, <3>7, <3>9 DEF WInv, Follows
  <2>12. CASE k = m
    <3>1. sec[m] = s /\ num[m] = LogicalPartitionIndex /\ chosen.at[2] \in 1 .. b - 1
      BY <2>2, <2>8, <2>9, <2>12
    <3>2. Active(s)' = {chosen.at[2]}
      BY <2>1, <2>3, <2>9, <3>1
    <3>3. pc' = "start"
      <4>1. LogicalPartitionIndex' = LogicalPartitionIndex + b - 1
        BY <1>4
      <4>2. PartitionIndex = LogicalPartitionIndex + chosen.at[2] - 1 /\ LogicalPartitionIndex \in Nat
        BY <2>9, <3>1 DEF IInv, TypeOK
      <4>3. chosen.at[2] \in Int /\ chosen.at[2] <= b - 1 /\ b \in Int
        BY <2>2, <3>1
      <4>4. PartitionIndex < LogicalPartitionIndex'
        BY <4>1, <4>2, <4>3
      <4>. QED
        BY <1>4, <4>4
    <3>4. \A j \in 0 .. m - 1 : sec[j] = sec[m] \/ OnlyLink(d, sec[j])'
      BY <2>10, <2>12, <3>1
    <3>5. Activated(d)'
      <4>1. Ends(d, ExtBase, chosen', num, sec, m) /\ IsBase(d, ExtBase) /\ ExtBase \in Nat
        BY <1>1, <2>5, <2>8 DEF IInv, TypeOK
      <4>2. bootcode' # "none" /\ Active(sec[m])' = {chosen'.at[2]}
        BY <1>1, <2>5, <3>1, <3>2
      <4>. QED
        BY <2>6, <3>4, <4>1, <4>2 DEF Activated
    <3>. QED
      BY <1>1, <1>2, <2>1, <3>3, <3>5 DEF WInv, Follows
  <2>. QED
    BY <2>8, <2>11, <2>12
<1>. QED
  BY <1>0, <1>3, <1>4, EmbrStep

LEMMA WalksHold == Spec => [](IInv /\ \E d \in Disks : WInv(d))
<1>. DEFINE W == \E d \in Disks : WInv(d)
<1>1. IInv /\ W /\ [Next]_vars => W'
  <2>. SUFFICES ASSUME IInv, NEW d \in Disks, WInv(d), [Next]_vars PROVE WInv(d)'
    OBVIOUS
  <2>1. CASE UNCHANGED vars
    <3>1. Same(d)' /\ Numbered(d)'
      BY <2>1, SameKept DEF vars, WInv, Numbered
    <3>2. \A s \in Sectors : Active(s)' = Active(s)
      BY <2>1 DEF vars, Active, Seen, Break
    <3>3. Scanning(d)' = Scanning(d) /\ Activating(d)' = Activating(d) /\ Activated(d)' = Activated(d)
      BY <2>1 DEF vars, walk, Scanning, Activating, Activated, LinksActive, OnlyLink,
                  Active, Seen, Break, Ends, Walks, IsBase
    <3>. QED
      BY <2>1, <3>1, <3>3 DEF vars, walk, WInv, Follows
  <2>. QED
    BY <2>1, ScanPrimaryWalks, ScanEmbrWalks, ChoiceWalks, PrimaryWalks, LogicalWalks DEF Next
<1>2. Init => W
  BY InitWalks
<1>. QED
  BY <1>1, <1>2, InvariantHolds, PTL DEF Spec

\* The recursive definition of Led has a solution: it is built step by step.
After(S) == UNION { Follow(e) : e \in { f \in S : Readable(f[1]) } }
LedUpTo(n, f) == f = [k \in 0 .. n |-> IF k = 0 THEN { <<0, 0>> } ELSE After(f[k - 1])]

LEMMA LedExists == \A n \in Nat : \E f : LedUpTo(n, f)
<1>. DEFINE S == { n \in Nat : ~ \E f : LedUpTo(n, f) }
<1>. SUFFICES ASSUME S # {} PROVE FALSE
  OBVIOUS
<1>1. PICK n \in S : \A y \in S : n <= y
  BY MinIsLeast
<1>2. n # 0
  <2>. DEFINE f == [k \in 0 .. 0 |-> { <<0, 0>> }]
  <2>1. LedUpTo(0, f)
    <3>1. \A k \in 0 .. 0 : k = 0
      OBVIOUS
    <3>. QED
      BY <3>1 DEF LedUpTo
  <2>. QED
    BY <2>1
<1>3. PICK f : LedUpTo(n - 1, f)
  <2>1. n - 1 \in Nat /\ ~(n <= n - 1)
    BY <1>2
  <2>. QED
    BY <1>1, <2>1
<1>. DEFINE g == [k \in 0 .. n |-> IF k = n THEN After(f[n - 1]) ELSE f[k]]
<1>4. LedUpTo(n, g)
  <2>1. \A k \in 0 .. n - 1 : g[k] = f[k]
    OBVIOUS
  <2>2. g[n] = After(f[n - 1])
    OBVIOUS
  <2>3. f = [k \in 0 .. n - 1 |-> IF k = 0 THEN { <<0, 0>> } ELSE After(f[k - 1])]
    BY <1>3 DEF LedUpTo
  <2>4. ASSUME NEW k \in 0 .. n
        PROVE  g[k] = IF k = 0 THEN { <<0, 0>> } ELSE After(g[k - 1])
    <3>. HIDE DEF g
    <3>1. CASE k = n
      <4>1. n - 1 \in 0 .. n - 1
        BY <1>2
      <4>. QED
        BY <1>2, <2>1, <2>2, <3>1, <4>1
    <3>2. CASE k # n
      <4>1. k \in 0 .. n - 1 /\ (k # 0 => k - 1 \in 0 .. n - 1)
        BY <3>2
      <4>2. g[k] = f[k]
        BY <2>1, <4>1
      <4>3. f[k] = IF k = 0 THEN { <<0, 0>> } ELSE After(f[k - 1])
        BY <2>3, <4>1
      <4>. QED
        BY <2>1, <4>1, <4>2, <4>3
    <3>. QED
      BY <3>1, <3>2
  <2>5. g = [k \in 0 .. n |-> g[k]]
    OBVIOUS
  <2>. HIDE DEF g
  <2>. QED
    BY <2>4, <2>5 DEF LedUpTo
<1>. QED
  BY <1>4

LEMMA LedDef ==
  ASSUME IsFiniteSet(Sectors)
  PROVE  LedUpTo(Cardinality(Sectors), Led)
<1>. DEFINE N == Cardinality(Sectors)
            L(f) == [n \in 0 .. N |->
                       IF n = 0 THEN { <<0, 0>> }
                       ELSE UNION { Follow(e) : e \in { g \in f[n - 1] : Readable(g[1]) } }]
<1>1. PICK f : LedUpTo(N, f)
  BY FS_CardinalityType, LedExists
<1>2. f = L(f)
  BY <1>1 DEF LedUpTo, After
<1>3. Led = CHOOSE h : h = L(h)
  BY DEF Led
<1>. HIDE DEF L
<1>4. Led = L(Led)
  BY <1>2, <1>3, Zenon
<1>. QED
  BY <1>4 DEF L, LedUpTo, After

\* Active links that never branch lead along one chain.
Chain(q, ch) ==
  /\ ch[0] = <<0, 0>>
  /\ \A n \in 0 .. q : Readable(ch[n][1])
  /\ \A n \in 0 .. q - 1 : Follow(ch[n]) = {ch[n + 1]}
  /\ Follow(ch[q]) = {}

LEMMA LedAlongChain ==
  ASSUME IsFiniteSet(Sectors), NEW q \in Nat, NEW ch, Chain(q, ch),
         NEW n \in 0 .. Cardinality(Sectors)
  PROVE  Led[n] = IF n <= q THEN {ch[n]} ELSE {}
<1>. DEFINE N == Cardinality(Sectors)
            Right(k) == Led[k] = IF k <= q THEN {ch[k]} ELSE {}
            S == { k \in 0 .. N : ~Right(k) }
<1>0. N \in Nat
  BY FS_CardinalityType
<1>. SUFFICES ASSUME S # {} PROVE FALSE
  BY DEF Right
<1>1. PICK k \in S : \A y \in S : k <= y
  <2>1. S \in SUBSET Nat
    BY <1>0
  <2>. HIDE DEF S
  <2>. QED
    BY <2>1, MinIsLeast
<1>2. \A i \in 0 .. N : Led[i] = IF i = 0 THEN { <<0, 0>> } ELSE After(Led[i - 1])
  BY LedDef DEF LedUpTo
<1>3. k \in 0 .. N /\ ~Right(k)
  OBVIOUS
<1>4. k # 0
  <2>1. Right(0)
    <3>1. 0 \in 0 .. N /\ 0 <= q
      BY <1>0
    <3>. HIDE DEF N
    <3>. QED
      BY <1>2, <3>1 DEF Chain
  <2>. HIDE DEF Right
  <2>. QED
    BY <1>3, <2>1
<1>5. k - 1 \in 0 .. N /\ Right(k - 1)
  <2>1. k - 1 \in 0 .. N /\ ~(k <= k - 1)
    BY <1>0, <1>3, <1>4
  <2>. HIDE DEF Right
  <2>. QED
    BY <1>1, <2>1
<1>. HIDE DEF N
<1>6. CASE k - 1 <= q
  <2>1. Led[k - 1] = {ch[k - 1]} /\ Readable(ch[k - 1][1])
    BY <1>0, <1>3, <1>4, <1>5, <1>6 DEF Chain
  <2>2. Led[k] = Follow(ch[k - 1])
    <3>1. Led[k] = After({ch[k - 1]})
      BY <1>2, <1>3, <1>4, <2>1
    <3>2. { f \in {ch[k - 1]} : Readable(f[1]) } = {ch[k - 1]}
      BY <2>1
    <3>3. { Follow(e) : e \in {ch[k - 1]} } = {Follow(ch[k - 1])}
      OBVIOUS
    <3>4. UNION {Follow(ch[k - 1])} = Follow(ch[k - 1])
      OBVIOUS
    <3>. QED
      BY <3>1, <3>2, <3>3, <3>4 DEF After
  <2>3. CASE k <= q
    <3>1. k - 1 \in 0 .. q - 1 /\ (k - 1) + 1 = k
      BY <1>0, <1>3, <1>4, <2>3
    <3>2. Follow(ch[k - 1]) = {ch[k]}
      BY <3>1 DEF Chain
    <3>. QED
      BY <1>3, <2>2, <2>3, <3>2
  <2>4. CASE ~(k <= q)
    <3>1. k - 1 = q
      BY <1>0, <1>3, <1>6, <2>4
    <3>. QED
      BY <1>3, <2>2, <2>4, <3>1 DEF Chain
  <2>. QED
    BY <2>3, <2>4
<1>7. CASE ~(k - 1 <= q)
  <2>1. Led[k - 1] = {} /\ ~(k <= q)
    BY <1>0, <1>3, <1>5, <1>7
  <2>2. Led[k] = {}
    BY <1>2, <1>3, <1>4, <2>1 DEF After
  <2>. QED
    BY <1>3, <2>1, <2>2
<1>. QED
  BY <1>6, <1>7

LEMMA BootedAlongChain ==
  ASSUME IsFiniteSet(Sectors), NEW q \in 0 .. Cardinality(Sectors), NEW ch, Chain(q, ch)
  PROVE  Booted = { at \in Sectors \X (1 .. Slots) :
                      /\ \E n \in 0 .. q : at[1] = ch[n][1]
                      /\ at[2] \in Active(at[1]) /\ disk[at[1]].table[at[2]].kind = "data" }
<1>. DEFINE N == Cardinality(Sectors)
            On == { at \in Sectors \X (1 .. Slots) :
                      at[2] \in Active(at[1]) /\ disk[at[1]].table[at[2]].kind = "data" }
            E == { f \in UNION { Led[n] : n \in DOMAIN Led } : Readable(f[1]) }
<1>1. N \in Nat /\ q \in Nat
  BY FS_CardinalityType
<1>2. DOMAIN Led = 0 .. N
  BY LedDef DEF LedUpTo
<1>3. \A n \in 0 .. N : Led[n] = IF n <= q THEN {ch[n]} ELSE {}
  BY <1>1, LedAlongChain
<1>4. E = { ch[n] : n \in 0 .. q }
  <2>1. \A n \in 0 .. q : n \in 0 .. N /\ n <= q /\ Readable(ch[n][1])
    BY <1>1 DEF Chain
  <2>2. \A f : f \in UNION { Led[n] : n \in DOMAIN Led } <=> \E n \in 0 .. q : f = ch[n]
    <3>. HIDE DEF N
    <3>. QED
      BY <1>1, <1>2, <1>3, <2>1
  <2>. QED
    BY <2>1, <2>2
<1>5. Booted = { <<e[1], i>> : e \in E, i \in 1 .. Slots } \cap On
  BY DEF Booted
<1>. HIDE DEF E
<1>6. ASSUME NEW at \in Sectors \X (1 .. Slots)
      PROVE  at \in { <<e[1], i>> : e \in E, i \in 1 .. Slots } <=> \E n \in 0 .. q : at[1] = ch[n][1]
  <2>1. at = <<at[1], at[2]>> /\ at[2] \in 1 .. Slots
    OBVIOUS
  <2>. QED
    BY <1>4, <2>1
<1>. QED
  BY <1>5, <1>6

LEMMA SectorsFinite ==
  ASSUME NEW d \in Disks, WInv(d)
  PROVE  /\ IsFiniteSet(Sectors) /\ Cardinality(Sectors) \in Nat
         /\ \A s \in Sectors : Readable(s) <=> d[s].signed
         /\ 0 \in Sectors /\ Readable(0)
<1>1. IsFiniteSet(Sectors) /\ Cardinality(Sectors) \in Nat
  BY DisksAssumption, FS_CardinalityType DEF WInv, Same
<1>2. 0 \in Sectors
  BY DisksAssumption DEF WInv, Same
<1>. QED
  BY <1>1, <1>2 DEF WInv, Same, Readable, Sectors

LEMMA PrimaryBoots ==
  ASSUME NEW d \in Disks, IInv, WInv(d), Primary(d, chosen), Active(0) = {chosen.index + 1}
  PROVE  Booted = {chosen.at}
<1>. DEFINE ch == [n \in 0 .. 0 |-> <<0, 0>>]
            i == chosen.index + 1
<1>1. i \in 1 .. Slots /\ chosen.at = <<0, i>> /\ disk[0].table[i].kind = "data"
  BY SectorsFinite, SlotsAssumption DEF Primary, WInv, Same
<1>2. Follow(<<0, 0>>) = {}
  <2>1. { j \in Active(<<0, 0>>[1]) : Extended(<<0, 0>>[1], j) } = {}
    BY <1>1 DEF Extended
  <2>. QED
    BY <2>1 DEF Follow
<1>3. Chain(0, ch)
  <2>1. \A n \in 0 .. 0 : n = 0 /\ ch[n] = <<0, 0>> /\ ch[n][1] = 0
    OBVIOUS
  <2>2. 0 .. 0 - 1 = {} /\ 0 \in 0 .. 0
    OBVIOUS
  <2>. HIDE DEF ch
  <2>. QED
    BY <1>2, <2>1, <2>2, SectorsFinite DEF Chain
<1>4. \A n \in 0 .. 0 : ch[n][1] = 0
  OBVIOUS
<1>. HIDE DEF ch
<1>5. Booted = { at \in Sectors \X (1 .. Slots) :
                   /\ \E n \in 0 .. 0 : at[1] = ch[n][1]
                   /\ at[2] \in Active(at[1]) /\ disk[at[1]].table[at[2]].kind = "data" }
  BY <1>3, SectorsFinite, BootedAlongChain
<1>. HIDE DEF i
<1>6. Active(0) = {i}
  BY DEF i
<1>7. chosen.at \in Sectors \X (1 .. Slots) /\ chosen.at[1] = 0 /\ chosen.at[2] = i
  BY <1>1, SectorsFinite
<1>8. 0 \in 0 .. 0
  OBVIOUS
<1>9. chosen.at \in Booted
  BY <1>1, <1>4, <1>5, <1>6, <1>7, <1>8
<1>10. ASSUME NEW at \in Booted PROVE at = chosen.at
  <2>1. at \in Sectors \X (1 .. Slots) /\ at[1] = 0 /\ at[2] = i
    BY <1>4, <1>5, <1>6
  <2>. QED
    BY <1>7, <2>1
<1>. QED
  BY <1>9, <1>10

FirstAt(sec, m, p) ==
  /\ sec[p] = sec[m]
  /\ \A j \in 0 .. p - 1 : sec[j] # sec[m]
  /\ p + 1 <= Cardinality(Sectors)

\* Where the walk first comes to its last EMBR; before that it meets every EMBR
\* once, because the contents of an EMBR decide how the walk goes on.
LEMMA FirstVisit ==
  ASSUME NEW d \in Disks, IInv, WInv(d), NEW base \in Nat, NEW v, NEW m \in Nat,
         NEW num \in [0 .. m -> Nat], NEW sec \in [0 .. m -> Nat],
         Ends(d, base, v, num, sec, m)
  PROVE  \E p \in 0 .. m : FirstAt(sec, m, p)
<1>. DEFINE S == { j \in 0 .. m : sec[j] = sec[m] }
<1>1. PICK p \in S : \A y \in S : p <= y
  <2>1. S \in SUBSET Nat /\ m \in S
    OBVIOUS
  <2>. HIDE DEF S
  <2>. QED
    BY <2>1, MinIsLeast
<1>2. p \in 0 .. m /\ sec[p] = sec[m]
  OBVIOUS
<1>3. \A j \in 0 .. p - 1 : sec[j] # sec[m]
  <2>. SUFFICES ASSUME NEW j \in 0 .. p - 1, sec[j] = sec[m] PROVE FALSE
    OBVIOUS
  <2>1. j \in S /\ ~(p <= j)
    BY <1>2
  <2>. HIDE DEF S
  <2>. QED
    BY <1>1, <2>1
<1>. HIDE DEF S
<1>4. \A k \in 0 .. m - 1 : sec[k + 1] = LinkOn(d, base, sec[k])
  BY DEF Ends, Walks
<1>5. ASSUME NEW i \in 0 .. p, NEW j \in 0 .. p, i < j, sec[i] = sec[j] PROVE FALSE
  <2>. DEFINE D == { t \in 0 .. p - j : sec[i + t] # sec[j + t] }
  <2>1. p - j \in D
    <3>1. i + (p - j) \in 0 .. p - 1 /\ j + (p - j) = p /\ p - j \in 0 .. p - j
      BY <1>2, <1>5
    <3>. QED
      BY <1>2, <1>3, <3>1
  <2>2. PICK t \in D : \A y \in D : t <= y
    <3>1. D \subseteq 0 .. p - j /\ 0 .. p - j \subseteq Nat
      BY <1>2
    <3>. HIDE DEF D
    <3>2. D \in SUBSET Nat /\ D # {}
      BY <2>1, <3>1
    <3>. QED
      BY <3>2, MinIsLeast
  <2>3. t \in 0 .. p - j /\ sec[i + t] # sec[j + t]
    OBVIOUS
  <2>4. t # 0
    <3>1. i + 0 = i /\ j + 0 = j
      BY <1>2
    <3>. QED
      BY <1>5, <2>3, <3>1
  <2>5. sec[i + (t - 1)] = sec[j + (t - 1)]
    <3>1. t - 1 \in 0 .. p - j /\ ~(t <= t - 1)
      BY <1>2, <2>3, <2>4
    <3>2. t - 1 \notin D
      <4>. HIDE DEF D
      <4>. QED
        BY <2>2, <3>1
    <3>. QED
      BY <3>1, <3>2
  <2>6. /\ i + (t - 1) \in 0 .. m - 1 /\ (i + (t - 1)) + 1 = i + t
        /\ j + (t - 1) \in 0 .. m - 1 /\ (j + (t - 1)) + 1 = j + t
    BY <1>2, <1>5, <2>3, <2>4
  <2>. QED
    BY <1>4, <2>3, <2>5, <2>6
<1>6. \A j \in 0 .. m : sec[j] \in Sectors
  <2>1. \A j \in 0 .. m - 1 : Usable(d, sec[j])
    BY DEF Ends, Walks
  <2>2. Usable(d, sec[m])
    BY DEF Ends
  <2>3. \A j \in 0 .. m : j \in 0 .. m - 1 \/ j = m
    OBVIOUS
  <2>. QED
    BY <2>1, <2>2, <2>3 DEF Usable, WInv, Same
<1>7. p + 1 <= Cardinality(Sectors)
  <2>. DEFINE f == [j \in 0 .. p |-> sec[j]]
  <2>. SUFFICES ASSUME Cardinality(Sectors) < p + 1 PROVE FALSE
    BY <1>2, SectorsFinite
  <2>1. f \in [0 .. p -> Sectors]
    BY <1>2, <1>6
  <2>2. IsFiniteSet(0 .. p) /\ Cardinality(0 .. p) = p + 1
    BY <1>2, FS_Interval
  <2>3. \E x, y \in 0 .. p : x # y /\ f[x] = f[y]
    <3>. HIDE DEF f
    <3>. QED
      BY <2>1, <2>2, SectorsFinite, FS_PigeonHole
  <2>4. PICK x, y \in 0 .. p : x # y /\ sec[x] = sec[y]
    BY <2>3
  <2>. QED
    BY <1>2, <1>5, <2>4
<1>. QED
  BY <1>2, <1>3, <1>7 DEF FirstAt

LEMMA LogicalBoots ==
  ASSUME NEW d \in Disks, IInv, WInv(d), NEW base \in Nat, NEW m \in Nat,
         NEW num \in [0 .. m -> Nat], NEW sec \in [0 .. m -> Nat],
         IsBase(d, base), Ends(d, base, chosen, num, sec, m),
         LinksActive(d), Active(sec[m]) = {chosen.at[2]}, chosen \in Volumes,
         \A j \in 0 .. m - 1 : sec[j] = sec[m] \/ OnlyLink(d, sec[j])
  PROVE  Booted = {chosen.at}
<1>0. PICK p \in 0 .. m : FirstAt(sec, m, p)
  BY FirstVisit
<1>1. /\ sec[p] = sec[m]
      /\ \A j \in 0 .. p - 1 : sec[j] # sec[m]
      /\ p + 1 <= Cardinality(Sectors)
  BY <1>0 DEF FirstAt
<1>. DEFINE q == p + 1
            ch == [n \in 0 .. q |-> IF n = 0 THEN <<0, 0>> ELSE <<sec[n - 1], base>>]
<1>2. /\ Walks(d, base, num, sec, m) /\ Usable(d, sec[m])
      /\ chosen.at[1] = sec[m] /\ chosen.at[2] \in 1 .. BreakOn(d, sec[m]) - 1
  BY DEF Ends
<1>3. \A j \in 0 .. m : /\ Usable(d, sec[j]) /\ sec[j] \in Sectors \ {0}
                        /\ Readable(sec[j])
  <2>1. \A j \in 0 .. m - 1 : Usable(d, sec[j])
    BY <1>2 DEF Walks
  <2>2. \A j \in 0 .. m : j \in 0 .. m - 1 \/ j = m
    OBVIOUS
  <2>3. \A j \in 0 .. m : Usable(d, sec[j])
    BY <1>2, <2>1, <2>2
  <2>. QED
    BY <2>3, SectorsFinite DEF Usable, WInv, Same
<1>4. \A s \in Sectors : \A i \in 1 .. Slots :
        /\ Extended(s, i) <=> d[s].table[i].kind = "extended"
        /\ disk[s].table[i].kind = d[s].table[i].kind
        /\ disk[s].table[i].start = d[s].table[i].start
  BY DEF WInv, Same, Extended
<1>5. \A j \in 0 .. p - 1 :
        /\ j \in 0 .. m - 1 /\ Active(sec[j]) = {BreakOn(d, sec[j])}
        /\ sec[j + 1] = LinkOn(d, base, sec[j]) /\ sec[j + 1] # 0
  <2>. SUFFICES ASSUME NEW j \in 0 .. p - 1
                PROVE  /\ j \in 0 .. m - 1 /\ Active(sec[j]) = {BreakOn(d, sec[j])}
                       /\ sec[j + 1] = LinkOn(d, base, sec[j]) /\ sec[j + 1] # 0
    OBVIOUS
  <2>1. j \in 0 .. m - 1 /\ j + 1 \in 0 .. m
    OBVIOUS
  <2>2. Active(sec[j]) = {BreakOn(d, sec[j])}
    BY <1>1, <2>1 DEF OnlyLink
  <2>3. sec[j + 1] = LinkOn(d, base, sec[j])
    BY <1>2, <2>1 DEF Walks
  <2>. QED
    BY <1>3, <2>1, <2>2, <2>3
<1>6. Follow(<<0, 0>>) = {<<base, base>>}
  <2>1. PICK i \in 1 .. Slots : d[0].table[i].kind = "extended" /\ base = d[0].table[i].start
    BY DEF IsBase
  <2>2. { j \in Active(0) : Extended(0, j) } = {i}
    BY <1>4, <2>1, SectorsFinite, SMTT(40) DEF LinksActive, IInv, OneExtended
  <2>3. disk[0].table[i].start = base
    BY <1>4, <2>1, SectorsFinite
  <2>4. Follow(<<0, 0>>) =
          { <<0 + disk[0].table[x].start, disk[0].table[x].start>> :
              x \in { j \in Active(0) : Extended(0, j) } }
    BY DEF Follow
  <2>5. Follow(<<0, 0>>) = {<<0 + disk[0].table[i].start, disk[0].table[i].start>>}
    BY <2>2, <2>4
  <2>6. 0 + base = base
    OBVIOUS
  <2>. QED
    BY <2>3, <2>5, <2>6
<1>7. ASSUME NEW j \in 0 .. p
      PROVE  Follow(<<sec[j], base>>) =
               { <<base + disk[sec[j]].table[x].start, base>> :
                   x \in { i \in Active(sec[j]) : Extended(sec[j], i) } }
  <2>1. sec[j] # 0
    BY <1>3
  <2>. QED
    BY <2>1 DEF Follow
<1>8. ASSUME NEW j \in 0 .. p - 1
      PROVE  Follow(<<sec[j], base>>) = {<<sec[j + 1], base>>}
  <2>. DEFINE b == BreakOn(d, sec[j])
  <2>0. j \in 0 .. m /\ j \in 0 .. p
    OBVIOUS
  <2>1. sec[j] \in DOMAIN d /\ sec[j] \in Sectors
    BY <1>3, <2>0 DEF Usable
  <2>2. b \in 1 .. Slots + 1
    BY <2>1, BreakOnFacts
  <2>3. b <= Slots /\ d[sec[j]].table[b].kind = "extended" /\ sec[j + 1] = base + d[sec[j]].table[b].start
    BY <1>5 DEF LinkOn
  <2>4. b \in 1 .. Slots
    BY <2>2, <2>3, SlotsAssumption
  <2>. HIDE DEF b
  <2>5. { i \in Active(sec[j]) : Extended(sec[j], i) } = {b}
    BY <1>4, <1>5, <2>1, <2>3, <2>4 DEF b
  <2>6. disk[sec[j]].table[b].start = d[sec[j]].table[b].start
    BY <1>4, <2>1, <2>4
  <2>7. Follow(<<sec[j], base>>) = {<<base + disk[sec[j]].table[b].start, base>>}
    <3>1. Follow(<<sec[j], base>>) = { <<base + disk[sec[j]].table[x].start, base>> : x \in {b} }
      BY <1>7, <2>0, <2>5
    <3>. QED
      BY <3>1
  <2>. QED
    BY <2>3, <2>6, <2>7
<1>9. chosen.at[2] \in 1 .. Slots /\ disk[sec[m]].table[chosen.at[2]].kind = "data"
  <2>1. sec[m] \in DOMAIN d /\ sec[m] \in Sectors
    BY <1>2, <1>3 DEF Usable
  <2>2. chosen.at[2] \in 1 .. Slots /\ d[sec[m]].table[chosen.at[2]].kind = "data"
    BY <1>2, <2>1, BreakOnFacts, ZenonT(60)
  <2>. QED
    BY <1>4, <2>1, <2>2
<1>10. Follow(<<sec[p], base>>) = {}
  <2>1. { i \in Active(sec[p]) : Extended(sec[p], i) } = {}
    BY <1>1, <1>9 DEF Extended
  <2>2. p \in 0 .. p
    OBVIOUS
  <2>3. Follow(<<sec[p], base>>) = { <<base + disk[sec[p]].table[x].start, base>> : x \in {} }
    BY <1>7, <2>1, <2>2
  <2>. QED
    BY <2>3
<1>11. q \in 0 .. Cardinality(Sectors)
  BY <1>1, SectorsFinite
<1>12. ch[0] = <<0, 0>> /\ \A j \in 0 .. p : ch[j + 1] = <<sec[j], base>>
  <2>1. 0 \in 0 .. q /\ \A j \in 0 .. p : j + 1 \in 0 .. q /\ j + 1 # 0 /\ (j + 1) - 1 = j
    OBVIOUS
  <2>2. \A n \in 0 .. q : ch[n] = IF n = 0 THEN <<0, 0>> ELSE <<sec[n - 1], base>>
    OBVIOUS
  <2>. HIDE DEF ch, q
  <2>3. ch[0] = <<0, 0>>
    BY <2>1, <2>2
  <2>4. ASSUME NEW j \in 0 .. p PROVE ch[j + 1] = <<sec[j], base>>
    <3>. DEFINE n == j + 1
    <3>1. n \in 0 .. q /\ n # 0 /\ n - 1 = j
      BY <2>1
    <3>. HIDE DEF n
    <3>2. ch[n] = <<sec[n - 1], base>>
      BY <2>2, <3>1
    <3>. QED BY <3>1, <3>2 DEF n
  <2>. QED BY <2>3, <2>4
<1>13. \A n \in 0 .. q : n = 0 \/ \E j \in 0 .. p : n = j + 1
  <2>. SUFFICES ASSUME NEW n \in 0 .. q, n # 0 PROVE \E j \in 0 .. p : n = j + 1
    OBVIOUS
  <2>1. n - 1 \in 0 .. p /\ n = (n - 1) + 1
    OBVIOUS
  <2>. QED
    BY <2>1
<1>. HIDE DEF ch
<1>14. Chain(q, ch)
  <2>1. \A n \in 0 .. q : Readable(ch[n][1])
    BY <1>3, <1>12, <1>13, SectorsFinite, SMTT(40)
  <2>2. ASSUME NEW n \in 0 .. q - 1 PROVE Follow(ch[n]) = {ch[n + 1]}
    <3>1. CASE n = 0
      <4>1. sec[0] = base /\ ch[0 + 1] = <<sec[0], base>>
        BY <1>2, <1>12 DEF Walks
      <4>. QED
        BY <1>6, <1>12, <3>1, <4>1
    <3>2. CASE n # 0
      <4>1. n - 1 \in 0 .. p - 1 /\ (n - 1) + 1 = n /\ n \in 0 .. p /\ n - 1 \in 0 .. p
        BY <3>2, SMTT(40)
      <4>2. ch[n] = <<sec[n - 1], base>> /\ ch[n + 1] = <<sec[n], base>>
        BY <1>12, <4>1
      <4>. QED
        BY <1>8, <4>1, <4>2
    <3>. QED
      BY <3>1, <3>2
  <2>3. Follow(ch[q]) = {}
    <3>1. p \in 0 .. p /\ q = p + 1
      OBVIOUS
    <3>2. ch[q] = <<sec[p], base>>
      BY <1>12, <3>1
    <3>. QED
      BY <1>10, <3>2
  <2>. QED
    BY <1>12, <2>1, <2>2, <2>3 DEF Chain
<1>. HIDE DEF q
<1>15. Booted = { at \in Sectors \X (1 .. Slots) :
                    /\ \E n \in 0 .. q : at[1] = ch[n][1]
                    /\ at[2] \in Active(at[1]) /\ disk[at[1]].table[at[2]].kind = "data" }
  BY <1>11, <1>14, SectorsFinite, BootedAlongChain
<1>16. chosen.at \in Booted
  <2>1. chosen.at \in Sectors \X (1 .. Slots)
    BY DEF IInv, TypeOK
  <2>2. p + 1 \in 0 .. q /\ ch[p + 1] = <<sec[p], base>>
    BY <1>12 DEF q
  <2>. QED
    BY <1>1, <1>2, <1>9, <1>15, <2>1, <2>2, SMTT(40)
<1>17. ASSUME NEW at \in Booted PROVE at = chosen.at
  <2>1. /\ at \in Sectors \X (1 .. Slots)
        /\ at[2] \in Active(at[1]) /\ disk[at[1]].table[at[2]].kind = "data"
    BY <1>15
  <2>2. at[1] = 0 \/ \E j \in 0 .. p : at[1] = sec[j]
    <3>1. PICK n \in 0 .. q : at[1] = ch[n][1]
      BY <1>15
    <3>2. n = 0 \/ \E j \in 0 .. p : n = j + 1
      BY <1>13, <3>1
    <3>3. CASE n = 0
      BY <1>12, <3>1, <3>3
    <3>4. CASE \E j \in 0 .. p : n = j + 1
      <4>1. PICK j \in 0 .. p : n = j + 1
        BY <3>4
      <4>2. ch[j + 1] = <<sec[j], base>>
        BY <1>12
      <4>3. at[1] = <<sec[j], base>>[1]
        BY <3>1, <4>1, <4>2
      <4>4. at[1] = sec[j]
        BY <4>3
      <4>. QED
        BY <4>4
    <3>. QED
      BY <3>2, <3>3, <3>4
  <2>3. ASSUME at[1] = 0 PROVE FALSE
    <3>1. at[2] \in Active(0) /\ at[2] \in 1 .. Slots /\ disk[0].table[at[2]].kind = "data"
      BY <2>1, <2>3
    <3>2. d[0].table[at[2]].kind = "extended"
      BY <3>1 DEF LinksActive
    <3>. QED
      BY <1>4, <3>1, <3>2, SectorsFinite
  <2>4. ASSUME NEW j \in 0 .. p - 1 PROVE at[1] # sec[j]
    <3>1. d[sec[j]].table[BreakOn(d, sec[j])].kind = "extended" /\ BreakOn(d, sec[j]) <= Slots
      BY <1>5 DEF LinkOn
    <3>2. sec[j] \in DOMAIN d /\ sec[j] \in Sectors
      <4>1. j \in 0 .. m
        OBVIOUS
      <4>. QED
        BY <1>3, <4>1 DEF Usable
    <3>3. BreakOn(d, sec[j]) \in 1 .. Slots
      BY <3>1, <3>2, BreakOnFacts, SlotsAssumption
    <3>4. Active(sec[j]) = {BreakOn(d, sec[j])}
      BY <1>5
    <3>5. disk[sec[j]].table[BreakOn(d, sec[j])].kind = "extended"
      BY <1>4, <3>1, <3>2, <3>3
    <3>. QED
      BY <2>1, <3>4, <3>5
  <2>5. at[1] = sec[p]
    <3>1. \A j \in 0 .. p : j \in 0 .. p - 1 \/ j = p
      OBVIOUS
    <3>. QED
      BY <2>2, <2>3, <2>4, <3>1
  <2>6. chosen.at \in Sectors \X (1 .. Slots)
    BY DEF IInv, TypeOK
  <2>7. at[2] = chosen.at[2] /\ at[1] = chosen.at[1]
    BY <1>1, <1>2, <2>1, <2>5
  <2>8. at = <<at[1], at[2]>> /\ chosen.at = <<chosen.at[1], chosen.at[2]>>
    BY <2>1, <2>6
  <2>. QED
    BY <2>7, <2>8
<1>. QED
  BY <1>16, <1>17

\* For every disk: after an activation that succeeded, the active flags lead the
\* code in the MBR to the partition of the entry and to no other.
THEOREM MbrBootsChosen == Spec => []BootsChosen
<1>1. IInv /\ (\E d \in Disks : WInv(d)) => BootsChosen
  <2>. SUFFICES ASSUME IInv, NEW d \in Disks, WInv(d), pc = "start", status = "success"
                PROVE  Booted = {chosen.at} /\ bootcode # "none"
    BY DEF BootsChosen
  <2>1. Activated(d) /\ chosen \in Volumes
    BY DEF WInv, Follows
  <2>2. CASE Primary(d, chosen) /\ Active(0) = {chosen.index + 1}
    BY <2>1, <2>2, PrimaryBoots DEF Activated
  <2>3. CASE \E base \in Nat, m \in Nat : \E num, sec \in [0 .. m -> Nat] :
               /\ IsBase(d, base) /\ Ends(d, base, chosen, num, sec, m)
               /\ LinksActive(d) /\ Active(sec[m]) = {chosen.at[2]}
               /\ \A j \in 0 .. m - 1 : sec[j] = sec[m] \/ OnlyLink(d, sec[j])
    BY <2>1, <2>3, LogicalBoots DEF Activated
  <2>. QED
    BY <2>1, <2>2, <2>3 DEF Activated
<1>. QED
  BY <1>1, WalksHold, PTL

=============================================================================
