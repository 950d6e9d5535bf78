------------------------------ MODULE RefitLib ------------------------------
(***************************************************************************)
(* The handles rEFInd keeps on the firmware (refind/lib.c) while it scans  *)
(* disks, starts other EFI programs and comes back (refind/main.c): the    *)
(* open root directories of the volumes, SelfRootDir, SelfDir, the handle  *)
(* of a driver directory being read, and the block devices of the volumes. *)
(*                                                                         *)
(* The program is sequential; what makes its handles hard is what happens  *)
(* between two uses: drivers and tools run and return, disks come and go,  *)
(* partitions are rewritten, and the user rescans in between.              *)
(*                                                                         *)
(* A file handle is named by when and for what rEFInd opened it: the       *)
(* firmware never returns one that is in use.                              *)
(***************************************************************************)
EXTENDS Naturals, TLAPS

CONSTANTS
  Devices,      \* block devices: whole disks and the partitions on them
  DiskOf,       \* the whole disk of each device
  SelfDevice,   \* SelfLoadedImage->DeviceHandle: where rEFInd started from
  Primary,      \* devices that are primary partitions of an MBR
  Logicals,     \* partitions found only by walking an extended partition
  LogicalDisk,  \* the whole disk of each of those
  Bootable,     \* devices and logical partitions that hold BIOS boot code
  Lasting,      \* the sets of devices of which one stays throughout
  EFIMajor,     \* ST->Hdr.Revision >> 16
  NULL,
  MaxOpens      \* bound: how often handles are opened

Disks == {DiskOf[d] : d \in Devices}

ASSUME DevicesAssumption ==
  /\ DiskOf \in [Devices -> Devices]
  /\ \A d \in Devices : DiskOf[DiskOf[d]] = DiskOf[d]
  /\ SelfDevice \in Devices
  /\ Primary \subseteq Devices
  /\ LogicalDisk \in [Logicals -> Devices]
  /\ Logicals \cap Devices = {}
  /\ \A F \in Lasting : F \subseteq Devices /\ \A d \in F : DiskOf[d] \in F

ASSUME RevisionAssumption == EFIMajor \in {1, 2}

VARIABLES
  pc,           \* where the program is: see Points
  ret,          \* where StartEFIImageList() was called from
  opens,        \* how often handles were opened
  open,         \* file handles that are open in the firmware
  volume,       \* REFIT_VOLUME records by identity: <<scan, device>>
  Volumes,      \* the records in the Volumes list
  SelfVolume, SelfRootDir, SelfDir,
  DirHandle,    \* DirIter.DirHandle of ScanDriverDir()
  entries,      \* Entry->Volume of the legacy entries of MainMenu
  chosen,       \* Entry->Volume of the entry being started, or NULL
  present,      \* devices the firmware has handles for
  mounted,      \* devices with a file system that can be opened
  Fixed         \* devices that stay; the file system of SelfDevice if it does

files   == <<open, SelfRootDir, SelfDir, DirHandle>>
records == <<volume, Volumes, SelfVolume, entries>>
control == <<pc, ret, chosen>>
devices == <<present, mounted, Fixed>>
vars    == <<pc, ret, opens, open, volume, Volumes, SelfVolume, SelfRootDir,
             SelfDir, DirHandle, entries, chosen, present, mounted, Fixed>>

Points == {"start", "scan", "drivers", "driverdir", "bootloaders", "menu",
           "activate", "load", "uninit", "uninitself", "child", "reinit",
           "reinitself", "stopped"}

Ids     == Nat \X (Devices \cup Logicals)
Files   == [ opened : Nat, of : {"RootDir", "SelfRootDir", "SelfDir", "DirHandle"},
             volume : Ids \cup {NULL} ]
Set(x)  == {x} \ {NULL}

ASSUME NullAssumption == NULL \notin Files \cup Ids \cup Devices

REFIT_VOLUME ==
  [ DeviceHandle        : Devices \cup {NULL},
    DevicePath          : Devices \cup {NULL},
    RootDir             : Files \cup {NULL},
    WholeDiskDevicePath : Devices \cup {NULL},
    WholeDiskBlockIO    : Devices \cup {NULL},
    IsMbrPartition      : BOOLEAN ]

TypeOK ==
  /\ pc \in Points
  /\ ret \in {"driverdir", "menu"}
  /\ opens \in Nat
  /\ open \subseteq Files
  /\ Volumes \subseteq DOMAIN volume
  /\ DOMAIN volume \subseteq Ids
  /\ \A v \in DOMAIN volume : volume[v] \in REFIT_VOLUME
  /\ SelfVolume \in DOMAIN volume \cup {NULL}
  /\ SelfRootDir \in Files \cup {NULL}
  /\ SelfDir \in Files \cup {NULL}
  /\ DirHandle \in Files \cup {NULL}
  /\ entries \subseteq Ids
  /\ chosen \in Ids \cup {NULL}
  /\ present \subseteq Devices
  /\ mounted \subseteq present
  /\ Fixed \in Lasting

-----------------------------------------------------------------------------
(* What the firmware answers.                                              *)

\* A partition is there only with its disk.
Attachable == {P \in SUBSET Devices : Fixed \subseteq P /\ \A d \in P : DiskOf[d] \in P}
Mountable(P) == {M \in SUBSET P : SelfDevice \in Fixed => SelfDevice \in M}

\* LocateDevicePath() answers with the device of the longest matching prefix:
\* the whole disk when the partition itself is gone.
LocateDevicePath(d) ==
  IF d \in present THEN d ELSE IF DiskOf[d] \in present THEN DiskOf[d] ELSE NULL

\* A handle the firmware returns now.
File(of, v) == [opened |-> opens, of |-> of, volume |-> v]

\* LibOpenRoot(): a handle, when the device has a file system.
LibOpenRoot(d, file) == IF d \in mounted THEN file ELSE NULL

MayOpen == opens < MaxOpens

-----------------------------------------------------------------------------
(* ScanVolumes() starts a new list; nothing is closed. A logical partition *)
(* has no device of its own and shares the block device of its disk.       *)

DeviceVolume(v) ==
  LET d == v[2]
  IN  [ DeviceHandle        |-> d,
        DevicePath          |-> d,
        RootDir             |-> LibOpenRoot(d, File("RootDir", v)),
        WholeDiskDevicePath |-> DiskOf[d],
        WholeDiskBlockIO    |-> DiskOf[d],
        IsMbrPartition      |-> d \in Primary ]

LogicalVolume(v) ==
  [ DeviceHandle |-> NULL, DevicePath |-> NULL, RootDir |-> NULL,
    WholeDiskDevicePath |-> NULL,
    WholeDiskBlockIO    |-> LogicalDisk[v[2]],
    IsMbrPartition      |-> TRUE ]

ScanVolume(v) == IF v[2] \in Devices THEN DeviceVolume(v) ELSE LogicalVolume(v)

Scanned == {opens} \X (present \cup {l \in Logicals : LogicalDisk[l] \in present})
Found   == IF SelfDevice \in present THEN <<opens, SelfDevice>> ELSE SelfVolume

ScanVolumes ==
  /\ MayOpen
  /\ opens' = opens + 1
  /\ Volumes' = Scanned
  /\ SelfVolume' = Found
  /\ volume' = [v \in Scanned \cup Set(Found) |->
                  IF v \in Scanned THEN ScanVolume(v) ELSE volume[v]]
  /\ open' = open \cup {File("RootDir", <<opens, d>>) : d \in mounted}
  /\ UNCHANGED <<SelfRootDir, SelfDir, DirHandle, devices>>

-----------------------------------------------------------------------------
(* efi_main() up to the menu.                                              *)

(* FinishInitRefitLib(): SelfRootDir, when it is not set, then SelfDir.    *)
(* The result decides only for InitRefitLib().                             *)
FinishInitRefitLib(root) ==
  LET opened == IF root # NULL THEN NULL
                ELSE LibOpenRoot(SelfDevice, File("SelfRootDir", NULL))
  IN  /\ SelfRootDir' = IF root # NULL THEN root ELSE opened
      /\ \/ /\ SelfRootDir' # NULL
            /\ SelfDir' = File("SelfDir", NULL)
            /\ open' = open \cup Set(opened) \cup {SelfDir'}
         \/ /\ SelfRootDir' = NULL \/ SelfDevice \notin Fixed
            /\ SelfDir' = SelfDir
            /\ open' = open \cup Set(opened)

InitRefitLib ==
  /\ pc = "start"
  /\ MayOpen
  /\ FinishInitRefitLib(SelfRootDir)
  /\ opens' = opens + 1
  /\ pc' = IF SelfDir' = NULL THEN "stopped" ELSE "scan"
  /\ UNCHANGED <<ret, chosen, DirHandle, records, devices>>

FirstScan ==
  /\ pc = "scan"
  /\ ScanVolumes
  /\ pc' = "drivers"
  /\ UNCHANGED <<ret, chosen, entries>>

\* ScanDriverDir(): a directory that cannot be opened is skipped.
OpenDriverDir ==
  /\ pc = "drivers"
  /\ SelfRootDir # NULL
  /\ MayOpen
  /\ DirHandle' = File("DirHandle", NULL)
  /\ open' = open \cup {DirHandle'}
  /\ opens' = opens + 1
  /\ pc' = "driverdir"
  /\ UNCHANGED <<ret, chosen, SelfRootDir, SelfDir, records, devices>>

StartDriver ==
  /\ pc = "driverdir"
  /\ pc' = "load"
  /\ ret' = "driverdir"
  /\ UNCHANGED <<chosen, opens, files, records, devices>>

CloseDriverDir ==
  /\ pc = "driverdir"
  /\ open' = open \ {DirHandle}
  /\ DirHandle' = NULL
  /\ pc' = "drivers"
  /\ UNCHANGED <<ret, chosen, opens, SelfRootDir, SelfDir, records, devices>>

LoadDriversDone ==
  /\ pc = "drivers"
  /\ pc' = "bootloaders"
  /\ UNCHANGED <<ret, chosen, opens, files, records, devices>>

\* SelfRootDir is used without a check for NULL: the firmware may crash, or the
\* files looked for are not found.
UseSelfRootDir ==
  /\ pc \in {"drivers", "bootloaders"}
  /\ SelfRootDir = NULL
  /\ pc' = "stopped"
  /\ UNCHANGED <<ret, chosen, opens, files, records, devices>>

\* ScanForBootloaders(), then ScanForTools(): the volumes with boot code become
\* legacy entries.
ScanForBootloaders ==
  /\ pc = "bootloaders"
  /\ ScanVolumes
  /\ entries' = entries \cup {v \in Scanned : v[2] \in Bootable}
  /\ pc' = "menu"
  /\ UNCHANGED <<ret, chosen>>

-----------------------------------------------------------------------------
(* The main menu. Escape, and the scan_delay before the first menu, call   *)
(* RescanAll().                                                            *)

\* (faulty variant: the menu entries of the last scan are not freed)
RescanAllKeepsEntries ==
  /\ pc = "menu"
  /\ ScanVolumes
  /\ entries' = entries
  /\ pc' = "bootloaders"
  /\ UNCHANGED <<ret, chosen>>

RescanAll ==
  /\ pc = "menu"
  /\ ScanVolumes
  /\ entries' = {}
  /\ pc' = "bootloaders"
  /\ UNCHANGED <<ret, chosen>>

StartLoaderOrTool ==
  /\ pc = "menu"
  /\ chosen' = NULL
  /\ ret' = "menu"
  /\ pc' = "load"
  /\ UNCHANGED <<opens, files, records, devices>>

StartLegacy ==
  /\ pc = "menu"
  /\ \E e \in entries : chosen' = e
  /\ ret' = "menu"
  /\ pc' = "activate"
  /\ UNCHANGED <<opens, files, records, devices>>

\* ActivateMbrPartition() writes through WholeDiskBlockIO of chosen.
Activate ==
  /\ pc = "activate"
  /\ pc' = "load"
  /\ UNCHANGED <<ret, chosen, opens, files, records, devices>>

Exit ==
  /\ pc = "menu"
  /\ pc' = "stopped"
  /\ UNCHANGED <<ret, chosen, opens, files, records, devices>>

-----------------------------------------------------------------------------
(* StartEFIImageList().                                                    *)

\* Loading the image, or finding its LoadedImage protocol, may fail.
LoadImage ==
  /\ pc = "load"
  /\ pc' \in {ret, "uninit"}
  /\ UNCHANGED <<ret, chosen, opens, files, records, devices>>

Roots == UNION {Set(volume[v].RootDir) : v \in Volumes}

UninitVolumes ==
  /\ pc = "uninit"
  /\ open' = open \ Roots
  /\ volume' = [v \in DOMAIN volume |->
                  IF v \in Volumes
                  THEN [volume[v] EXCEPT !.RootDir = NULL, !.DeviceHandle = NULL,
                                         !.WholeDiskBlockIO = NULL]
                  ELSE volume[v]]
  /\ pc' = "uninitself"
  /\ UNCHANGED <<ret, chosen, opens, Volumes, SelfVolume, entries, SelfRootDir,
                 SelfDir, DirHandle, devices>>

\* (faulty variant: SelfDir stays open)
UninitRefitLibKeepsDir ==
  /\ pc = "uninitself"
  /\ open' = open \ {SelfRootDir}
  /\ SelfRootDir' = NULL
  /\ pc' = "child"
  /\ UNCHANGED <<ret, chosen, opens, SelfDir, DirHandle, records, devices>>

UninitRefitLib ==
  /\ pc = "uninitself"
  /\ open' = open \ {SelfDir, SelfRootDir}
  /\ SelfDir' = NULL
  /\ SelfRootDir' = NULL
  /\ pc' = "child"
  /\ UNCHANGED <<ret, chosen, opens, DirHandle, records, devices>>

\* StartImage() returns.
ChildReturns ==
  /\ pc = "child"
  /\ pc' = "reinit"
  /\ UNCHANGED <<ret, chosen, opens, files, records, devices>>

\* ReinitVolumes() for one volume.
Reopened(v) ==
  LET r == volume[v]
      d == IF r.DevicePath = NULL THEN NULL ELSE LocateDevicePath(r.DevicePath)
      w == IF r.WholeDiskDevicePath = NULL THEN NULL
           ELSE LocateDevicePath(r.WholeDiskDevicePath)
  IN  [r EXCEPT !.DeviceHandle = IF d = NULL THEN @ ELSE d,
                !.RootDir = IF d = NULL THEN @ ELSE LibOpenRoot(d, File("RootDir", v)),
                !.WholeDiskBlockIO = IF w = NULL THEN @ ELSE w]

ReinitVolumes ==
  /\ pc = "reinit"
  /\ MayOpen
  /\ opens' = opens + 1
  /\ volume' = [v \in DOMAIN volume |->
                  IF v \in Volumes THEN Reopened(v) ELSE volume[v]]
  /\ open' = open \cup UNION {Set(Reopened(v).RootDir) : v \in Volumes}
  /\ pc' = "reinitself"
  /\ UNCHANGED <<ret, chosen, Volumes, SelfVolume, entries, SelfRootDir, SelfDir,
                 DirHandle, devices>>

\* (faulty variant: SelfRootDir becomes the root directory of SelfVolume always)
KeptAlways ==
  IF SelfVolume # NULL /\ volume[SelfVolume].RootDir # NULL
  THEN volume[SelfVolume].RootDir
  ELSE SelfRootDir

\* On EFI 1.x SelfRootDir becomes the root directory of SelfVolume.
Kept ==
  IF EFIMajor = 1 /\ SelfVolume # NULL /\ volume[SelfVolume].RootDir # NULL
  THEN volume[SelfVolume].RootDir
  ELSE SelfRootDir

ReinitRefitLib ==
  /\ pc = "reinitself"
  /\ MayOpen
  /\ FinishInitRefitLib(Kept)
  /\ opens' = opens + 1
  /\ pc' = ret
  /\ UNCHANGED <<ret, chosen, DirHandle, records, devices>>

-----------------------------------------------------------------------------
(* The world outside, while a program runs, while the menu waits, and when *)
(* drivers are connected: disks and partitions appear and disappear, file  *)
(* systems become readable.                                                *)

DevicesChange ==
  /\ pc \in {"child", "menu", "drivers"}
  /\ present' \in Attachable
  /\ mounted' \in Mountable(present')
  /\ UNCHANGED <<control, opens, files, records, Fixed>>

Init ==
  /\ pc = "start"
  /\ ret = "menu"
  /\ opens = 0
  /\ open = {}
  /\ volume = [v \in {} |-> NULL]
  /\ Volumes = {}
  /\ SelfVolume = NULL
  /\ SelfRootDir = NULL
  /\ SelfDir = NULL
  /\ DirHandle = NULL
  /\ entries = {}
  /\ chosen = NULL
  /\ Fixed \in Lasting
  /\ present \in Attachable
  /\ mounted \in Mountable(present)

Next ==
  \/ InitRefitLib \/ FirstScan
  \/ OpenDriverDir \/ StartDriver \/ CloseDriverDir \/ LoadDriversDone
  \/ UseSelfRootDir \/ ScanForBootloaders
  \/ RescanAll \/ StartLoaderOrTool \/ StartLegacy \/ Activate \/ Exit
  \/ LoadImage \/ UninitVolumes \/ UninitRefitLib \/ ChildReturns
  \/ ReinitVolumes \/ ReinitRefitLib
  \/ DevicesChange

Spec == Init /\ [][Next]_vars

-----------------------------------------------------------------------------
(* Properties.                                                             *)

Own  == Set(SelfRootDir) \cup Set(SelfDir) \cup Set(DirHandle)
Held == Roots \cup Own

(* Every file handle rEFInd still holds is open in the firmware: nothing   *)
(* closed is used, and UninitVolumes(), UninitRefitLib() and DirIterClose()*)
(* close each handle once, whatever was started, scanned or unplugged.     *)
HandlesLive == Held \subseteq open

(* While a program runs, rEFInd holds no directory but the one it reads    *)
(* drivers from, and no block device: none can go stale meanwhile.         *)
ChildHoldsNothing ==
  pc = "child" =>
    /\ Held \subseteq Set(DirHandle)
    /\ \A v \in Volumes : volume[v].DeviceHandle = NULL /\ volume[v].WholeDiskBlockIO = NULL

(* Where the program looks for drivers, boot loaders, icons and tools it   *)
(* uses SelfRootDir and SelfDir without a check: both are set, as long as  *)
(* the volume rEFInd started from stays mounted.                           *)
SelfUsable ==
  SelfDevice \in Fixed /\ pc \in {"scan", "drivers", "driverdir", "bootloaders", "menu",
                                  "activate", "load"}
    => SelfRootDir # NULL /\ SelfDir # NULL

(* A legacy entry of the menu refers to a volume of the current list, the  *)
(* one that UninitVolumes() and ReinitVolumes() maintain, through every    *)
(* rescan and every program started.                                       *)
EntriesCurrent ==
  /\ entries \subseteq Volumes
  /\ pc = "activate" => chosen \in Volumes

(* When StartLegacy() activates a partition that has a device of its own,  *)
(* the block device of its disk is there and is the right one, although it *)
(* was dropped and found again around each program run before.             *)
PrimaryReady ==
  pc = "activate" /\ volume[chosen].DevicePath \in Fixed
    => volume[chosen].WholeDiskBlockIO = DiskOf[volume[chosen].DevicePath]

(* A file handle is forgotten while open only by ScanVolumes(), which drops*)
(* the root directories of the previous list; no other step loses one.     *)
Lost == open \ Held
OnlyScansLose ==
  [][ \A f \in Lost' \ Lost : f \in Roots /\ opens' = opens + 1
                              /\ pc \in {"scan", "bootloaders", "menu"} ]_vars

-----------------------------------------------------------------------------
(* Proofs about RefitLib, for every set of devices and every history of    *)
(* programs started, disks changed and rescans. HandlesLive says nothing   *)
(* about where a handle can be; the inductive invariant IInv adds, for     *)
(* each point of the program, which handles exist, and what each was       *)
(* opened for, so that closing one never closes another.                   *)

Launching == {"load", "uninit", "uninitself", "child", "reinit", "reinitself"}

\* Drivers are being loaded, so there is no menu yet.
Loading == ret = "driverdir" /\ pc \in Launching

Rooted(v) == volume[v].RootDir # NULL

\* Each handle is open, and was opened for the place that holds it.
Live ==
  /\ \A v \in Volumes : Rooted(v) => /\ volume[v].RootDir \in open
                                     /\ volume[v].RootDir.of = "RootDir"
  /\ SelfRootDir # NULL => SelfRootDir \in open /\ SelfRootDir.of = "SelfRootDir"
  /\ SelfDir # NULL => SelfDir \in open /\ SelfDir.of = "SelfDir"
  /\ DirHandle # NULL => DirHandle \in open /\ DirHandle.of = "DirHandle"

\* What has been given up at each point of StartEFIImageList().
Dropped ==
  /\ pc \in {"uninitself", "child", "reinit"} =>
       \A v \in Volumes : /\ ~Rooted(v)
                          /\ volume[v].DeviceHandle = NULL
                          /\ volume[v].WholeDiskBlockIO = NULL
  /\ pc \in {"start", "child", "reinit", "reinitself"} => SelfRootDir = NULL /\ SelfDir = NULL
  /\ pc = "start" => Volumes = {}
  /\ DirHandle # NULL => pc = "driverdir" \/ Loading

\* Entries are made last.
Entered ==
  /\ entries \subseteq Volumes
  /\ pc \in {"start", "scan", "drivers", "driverdir", "bootloaders"} \/ Loading => entries = {}
  /\ pc = "activate" => chosen \in Volumes /\ ret = "menu"

\* What stays of the devices that stay.
Settled ==
  /\ Fixed \subseteq present
  /\ SelfDevice \in Fixed => SelfDevice \in mounted
  /\ SelfDevice \in Fixed /\ pc \notin {"start", "child", "reinit", "reinitself", "stopped"}
       => SelfRootDir # NULL /\ SelfDir # NULL
  /\ \A v \in Volumes : volume[v].DevicePath # NULL =>
       /\ volume[v].WholeDiskDevicePath = DiskOf[volume[v].DevicePath]
       /\ volume[v].DevicePath \in Fixed /\ pc \notin {"uninitself", "child", "reinit"} =>
            volume[v].WholeDiskBlockIO = DiskOf[volume[v].DevicePath]

IInv == TypeOK /\ Live /\ Dropped /\ Entered /\ Settled

-----------------------------------------------------------------------------
(* ScanVolumes() and FinishInitRefitLib(), which several actions call.     *)

\* What ScanVolumes() leaves behind.
LEMMA ScanVolumesFacts ==
  ASSUME TypeOK, ScanVolumes
  PROVE  /\ opens' \in Nat
         /\ open' \subseteq Files
         /\ open \subseteq open'
         /\ Volumes' \subseteq DOMAIN volume'
         /\ DOMAIN volume' \subseteq Ids
         /\ \A v \in DOMAIN volume' : volume'[v] \in REFIT_VOLUME
         /\ SelfVolume' \in DOMAIN volume' \cup {NULL}
         /\ Volumes' = Scanned
         /\ \A v \in Volumes' : volume'[v].RootDir # NULL =>
              volume'[v].RootDir \in open' /\ volume'[v].RootDir.of = "RootDir"
         /\ \A v \in Volumes' : volume'[v].DevicePath # NULL =>
              /\ volume'[v].WholeDiskDevicePath = DiskOf[volume'[v].DevicePath]
              /\ volume'[v].WholeDiskBlockIO = DiskOf[volume'[v].DevicePath]
<1> USE DevicesAssumption, NullAssumption
<1>1. Scanned \subseteq Ids
  BY DEF TypeOK, Scanned, Ids
<1>2. Found \in Scanned \cup DOMAIN volume \cup {NULL}
  BY DEF TypeOK, Found, Scanned
<1>3. \A v \in Ids : File("RootDir", v) \in Files
  BY DEF TypeOK, File, Files
<1>4. \A d \in mounted : <<opens, d>> \in Ids
  BY DEF TypeOK, Ids
<1>5. ASSUME NEW v \in Scanned
      PROVE  /\ ScanVolume(v) \in REFIT_VOLUME
             /\ ScanVolume(v).RootDir # NULL =>
                  /\ ScanVolume(v).RootDir = File("RootDir", v)
                  /\ v[2] \in mounted
             /\ ScanVolume(v).DevicePath # NULL =>
                  /\ ScanVolume(v).WholeDiskDevicePath = DiskOf[ScanVolume(v).DevicePath]
                  /\ ScanVolume(v).WholeDiskBlockIO = DiskOf[ScanVolume(v).DevicePath]
  <2>1. v \in Ids /\ v = <<opens, v[2]>> /\ v[2] \in Devices \cup Logicals
    BY <1>1 DEF Scanned, TypeOK
  <2>2. File("RootDir", v) \in Files
    BY <2>1, <1>3
  <2>3. CASE v[2] \in Devices
    <3>1. ScanVolume(v) = DeviceVolume(v)
      BY <2>3 DEF ScanVolume
    <3>2. DiskOf[v[2]] \in Devices
      BY <2>3
    <3>3. LibOpenRoot(v[2], File("RootDir", v)) \in Files \cup {NULL}
      BY <2>2 DEF LibOpenRoot
    <3>4. (v[2] \in Primary) \in BOOLEAN
      OBVIOUS
    <3>5. DeviceVolume(v) \in REFIT_VOLUME
      BY <2>3, <3>2, <3>3, <3>4 DEF DeviceVolume, REFIT_VOLUME
    <3>6. DeviceVolume(v).RootDir = LibOpenRoot(v[2], File("RootDir", v))
      BY DEF DeviceVolume
    <3>7. /\ DeviceVolume(v).DevicePath = v[2]
          /\ DeviceVolume(v).WholeDiskDevicePath = DiskOf[v[2]]
          /\ DeviceVolume(v).WholeDiskBlockIO = DiskOf[v[2]]
      BY DEF DeviceVolume
    <3> QED BY <3>1, <3>5, <3>6, <3>7 DEF LibOpenRoot
  <2>4. CASE v[2] \notin Devices
    <3>1. ScanVolume(v) = LogicalVolume(v)
      BY <2>4 DEF ScanVolume
    <3>2. LogicalDisk[v[2]] \in Devices
      BY <2>1, <2>4
    <3> QED BY <3>1, <3>2 DEF LogicalVolume, REFIT_VOLUME
  <2> QED BY <2>3, <2>4
<1>6. \A v \in Scanned : v = <<opens, v[2]>>
  BY DEF Scanned
<1>7. /\ Volumes' = Scanned
      /\ DOMAIN volume' = Scanned \cup Set(Found)
      /\ \A v \in DOMAIN volume' : volume'[v] = IF v \in Scanned THEN ScanVolume(v) ELSE volume[v]
      /\ SelfVolume' = Found
      /\ opens' = opens + 1
      /\ open' = open \cup {File("RootDir", <<opens, d>>) : d \in mounted}
  BY DEF ScanVolumes
<1>8. open' \subseteq Files /\ open \subseteq open' /\ opens' \in Nat
  <2>1. \A d \in mounted : File("RootDir", <<opens, d>>) \in Files
    BY <1>3, <1>4
  <2>2. opens' \in Nat /\ open \subseteq Files
    BY <1>7 DEF TypeOK
  <2> DEFINE new == {File("RootDir", <<opens, d>>) : d \in mounted}
  <2>3. ASSUME NEW f \in new
        PROVE  f \in Files
    <3>1. PICK d \in mounted : f = File("RootDir", <<opens, d>>)
      BY <2>3
    <3> QED BY <2>1, <3>1
  <2>4. open' = open \cup new
    BY <1>7
  <2> HIDE DEF new
  <2> QED BY <2>2, <2>3, <2>4
<1>9. DOMAIN volume' \subseteq Scanned \cup DOMAIN volume
  BY <1>7, <1>2 DEF Set
<1>10. \A v \in DOMAIN volume' : volume'[v] \in REFIT_VOLUME
  BY <1>5, <1>7, <1>9 DEF TypeOK
<1>11. ASSUME NEW v \in Volumes', volume'[v].RootDir # NULL
       PROVE  volume'[v].RootDir \in open' /\ volume'[v].RootDir.of = "RootDir"
  <2>1. v \in Scanned /\ volume'[v] = ScanVolume(v)
    BY <1>7
  <2>2. volume'[v].RootDir = File("RootDir", <<opens, v[2]>>) /\ v[2] \in mounted
    BY <2>1, <1>5, <1>6, <1>11
  <2>3. volume'[v].RootDir \in open'
    BY <2>2, <1>7
  <2> QED BY <2>2, <2>3 DEF File
<1>12. SelfVolume' \in DOMAIN volume' \cup {NULL}
  BY <1>7 DEF Set
<1>13. DOMAIN volume' \subseteq Ids
  BY <1>1, <1>9 DEF TypeOK
<1>14. ASSUME NEW v \in Volumes', volume'[v].DevicePath # NULL
       PROVE  /\ volume'[v].WholeDiskDevicePath = DiskOf[volume'[v].DevicePath]
              /\ volume'[v].WholeDiskBlockIO = DiskOf[volume'[v].DevicePath]
  BY <1>5, <1>7, <1>14
<1> QED BY <1>7, <1>8, <1>10, <1>11, <1>12, <1>13, <1>14

\* FinishInitRefitLib() with nothing to keep opens what it sets.
LEMMA FinishInitFacts ==
  ASSUME TypeOK, SelfRootDir = NULL, SelfDir = NULL, FinishInitRefitLib(NULL)
  PROVE  /\ open' \subseteq Files
         /\ open \subseteq open'
         /\ SelfRootDir' \in Files \cup {NULL}
         /\ SelfDir' \in Files \cup {NULL}
         /\ SelfRootDir' # NULL => SelfRootDir' \in open' /\ SelfRootDir'.of = "SelfRootDir"
         /\ SelfDir' # NULL => SelfDir' \in open' /\ SelfDir'.of = "SelfDir"
         /\ open' \subseteq open \cup Set(SelfRootDir') \cup Set(SelfDir')
         /\ SelfDevice \in Fixed /\ SelfDevice \in mounted =>
              SelfRootDir' # NULL /\ SelfDir' # NULL
<1> DEFINE opened == LibOpenRoot(SelfDevice, File("SelfRootDir", NULL))
<1>1. File("SelfRootDir", NULL) \in Files /\ File("SelfDir", NULL) \in Files
  BY DEF TypeOK, File, Files
<1>2. /\ SelfRootDir' = opened
      /\ \/ SelfDir' = File("SelfDir", NULL) /\ open' = open \cup Set(opened) \cup {SelfDir'}
         \/ SelfDir' = NULL /\ open' = open \cup Set(opened)
  BY DEF FinishInitRefitLib
<1>3. SelfDevice \in Fixed /\ SelfRootDir' # NULL => SelfDir' = File("SelfDir", NULL)
  BY DEF FinishInitRefitLib
<1>4. SelfDevice \in mounted => opened = File("SelfRootDir", NULL)
  BY DEF LibOpenRoot
<1>5. opened \in {File("SelfRootDir", NULL), NULL}
  BY DEF LibOpenRoot
<1>6. File("SelfRootDir", NULL).of = "SelfRootDir" /\ File("SelfDir", NULL).of = "SelfDir"
  BY DEF File
<1>7. File("SelfDir", NULL) # NULL
  BY <1>1, NullAssumption
<1> HIDE DEF opened
<1> QED BY <1>1, <1>2, <1>3, <1>4, <1>5, <1>6, <1>7, NullAssumption DEF TypeOK, Set
-----------------------------------------------------------------------------
LEMMA InitInvariant == Init => IInv
<1> SUFFICES ASSUME Init PROVE IInv
  OBVIOUS
<1> USE DEF Init
<1>1. mounted \subseteq present /\ present \subseteq Devices /\ Fixed \subseteq present
  BY DEF Attachable, Mountable
<1>2. SelfDevice \in Fixed => SelfDevice \in mounted
  BY DEF Mountable
<1>3. DOMAIN volume = {}
  OBVIOUS
<1>4. TypeOK
  BY <1>1, <1>3 DEF TypeOK, Points
<1>5. Live /\ Dropped /\ Entered
  BY DEF Live, Dropped, Entered, Loading, Launching
<1>6. Settled
  BY <1>1, <1>2 DEF Settled
<1> QED BY <1>4, <1>5, <1>6 DEF IInv

\* The steps that move the program on and touch no handle.
LEMMA ControlInvariant ==
  ASSUME IInv,
         StartDriver \/ LoadDriversDone \/ UseSelfRootDir \/ StartLoaderOrTool
           \/ StartLegacy \/ Activate \/ Exit \/ LoadImage \/ ChildReturns
  PROVE  IInv'
<1> USE DEF IInv, files, records, devices
<1>1. /\ UNCHANGED <<opens, open, volume, Volumes, SelfVolume, SelfRootDir, SelfDir,
                     DirHandle, entries, present, mounted, Fixed>>
  BY DEF StartDriver, LoadDriversDone, UseSelfRootDir, StartLoaderOrTool, StartLegacy,
         Activate, Exit, LoadImage, ChildReturns
<1>2. pc' \in Points /\ ret' \in {"driverdir", "menu"} /\ chosen' \in Ids \cup {NULL}
  BY DEF StartDriver, LoadDriversDone, UseSelfRootDir, StartLoaderOrTool, StartLegacy,
         Activate, Exit, LoadImage, ChildReturns, TypeOK, Points
<1>3. TypeOK'
  BY <1>1, <1>2 DEF TypeOK
<1>4. Live'
  BY <1>1 DEF Live, Rooted
<1>5. Dropped'
  BY <1>1 DEF Dropped, Rooted, Loading, Launching, TypeOK, StartDriver, LoadDriversDone,
     UseSelfRootDir, StartLoaderOrTool, StartLegacy, Activate, Exit, LoadImage, ChildReturns
<1>6. Entered'
  BY <1>1 DEF Entered, Loading, Launching, TypeOK, StartDriver, LoadDriversDone,
     UseSelfRootDir, StartLoaderOrTool, StartLegacy, Activate, Exit, LoadImage, ChildReturns
<1>7. Settled'
  BY <1>1 DEF Settled, TypeOK, StartDriver, LoadDriversDone,
     UseSelfRootDir, StartLoaderOrTool, StartLegacy, Activate, Exit, LoadImage, ChildReturns
<1> QED BY <1>3, <1>4, <1>5, <1>6, <1>7

\* The steps that make a new list of volumes.
LEMMA ScanInvariant ==
  ASSUME IInv, FirstScan \/ ScanForBootloaders \/ RescanAll
  PROVE  IInv'
<1> USE DEF IInv
<1>1. ScanVolumes /\ UNCHANGED <<SelfRootDir, SelfDir, DirHandle, present, mounted, Fixed>>
  BY DEF FirstScan, ScanForBootloaders, RescanAll, ScanVolumes, devices
<1>2. /\ \/ pc = "scan" /\ pc' = "drivers" /\ entries' = {}
         \/ pc = "bootloaders" /\ pc' = "menu" /\ entries' \subseteq Scanned
         \/ pc = "menu" /\ pc' = "bootloaders" /\ entries' = {}
      /\ UNCHANGED <<ret, chosen>>
  <2>1. CASE FirstScan
    BY <2>1 DEF FirstScan, Entered
  <2>2. CASE RescanAll
    BY <2>2 DEF RescanAll
  <2>3. CASE ScanForBootloaders
    <3>1. entries = {}
      BY <2>3 DEF ScanForBootloaders, Entered
    <3>2. entries' \subseteq Scanned
      BY <2>3, <3>1 DEF ScanForBootloaders
    <3> QED BY <2>3, <3>2 DEF ScanForBootloaders
  <2> QED BY <2>1, <2>2, <2>3
<1>3. TypeOK'
  BY <1>1, <1>2, ScanVolumesFacts DEF TypeOK, Points
<1>4. Live'
  BY <1>1, ScanVolumesFacts DEF Live, Rooted
<1>5. Dropped'
  BY <1>1, <1>2 DEF Dropped, Loading, Launching
<1>6. Entered'
  BY <1>1, <1>2, ScanVolumesFacts DEF Entered, Loading, Launching
<1>7. Settled'
  BY <1>1, <1>2, ScanVolumesFacts DEF Settled
<1> QED BY <1>3, <1>4, <1>5, <1>6, <1>7

\* Opening SelfRootDir and SelfDir, at the start and after a program.
LEMMA FinishInvariant ==
  ASSUME IInv, EFIMajor # 1, InitRefitLib \/ ReinitRefitLib
  PROVE  IInv'
<1> USE DEF IInv
<1>1. SelfRootDir = NULL /\ SelfDir = NULL
  BY DEF InitRefitLib, ReinitRefitLib, Dropped
<1>2. FinishInitRefitLib(NULL)
  BY <1>1 DEF InitRefitLib, ReinitRefitLib, Kept
<1>3. /\ UNCHANGED <<ret, chosen, DirHandle, volume, Volumes, SelfVolume, entries,
                     present, mounted, Fixed>>
      /\ opens' = opens + 1
  BY DEF InitRefitLib, ReinitRefitLib, records, devices
<1>4. \/ pc = "start" /\ pc' = "scan" /\ SelfDir' # NULL
      \/ pc = "start" /\ pc' = "stopped"
      \/ pc = "reinitself" /\ pc' = ret
  BY DEF InitRefitLib, ReinitRefitLib
<1>5. TypeOK'
  BY <1>1, <1>2, <1>3, <1>4, FinishInitFacts DEF TypeOK, Points
<1>6. Live'
  BY <1>1, <1>2, <1>3, FinishInitFacts DEF Live, Rooted
<1>7. Dropped'
  BY <1>3, <1>4 DEF Dropped, Loading, Launching, TypeOK, Rooted
<1>8. Entered'
  BY <1>3, <1>4 DEF Entered, Loading, Launching, TypeOK
<1>9. Settled'
  BY <1>1, <1>2, <1>3, <1>4, FinishInitFacts DEF Settled
<1> QED BY <1>5, <1>6, <1>7, <1>8, <1>9

\* Reading a driver directory.
LEMMA DriverDirInvariant ==
  ASSUME IInv, OpenDriverDir \/ CloseDriverDir
  PROVE  IInv'
<1> USE DEF IInv
<1>1. UNCHANGED <<ret, chosen, SelfRootDir, SelfDir, volume, Volumes, SelfVolume, entries,
                  present, mounted, Fixed>>
  BY DEF OpenDriverDir, CloseDriverDir, records, devices
<1>2. CASE OpenDriverDir
  <2> DEFINE new == File("DirHandle", NULL)
  <2>1. new \in Files /\ new.of = "DirHandle"
    BY DEF TypeOK, File, Files
  <2>2. /\ pc = "drivers" /\ pc' = "driverdir"
        /\ DirHandle' = new /\ open' = open \cup {new} /\ opens' = opens + 1
    BY <1>2 DEF OpenDriverDir
  <2> HIDE DEF new
  <2>3. TypeOK'
    BY <1>1, <2>1, <2>2 DEF TypeOK, Points
  <2>4. Live'
    BY <1>1, <2>1, <2>2 DEF Live, Rooted
  <2>5. Dropped' /\ Entered' /\ Settled'
    BY <1>1, <2>2 DEF Dropped, Entered, Settled, Loading, Launching
  <2> QED BY <2>3, <2>4, <2>5
<1>3. CASE CloseDriverDir
  <2>1. /\ pc = "driverdir" /\ pc' = "drivers" /\ opens' = opens
        /\ DirHandle' = NULL /\ open' = open \ {DirHandle}
    BY <1>3 DEF CloseDriverDir
  <2>2. TypeOK'
    BY <1>1, <2>1 DEF TypeOK, Points
  <2>3. Live'
    BY <1>1, <2>1 DEF Live, Rooted
  <2>4. Dropped' /\ Entered' /\ Settled'
    BY <1>1, <2>1 DEF Dropped, Entered, Settled, Loading, Launching
  <2> QED BY <2>2, <2>3, <2>4
<1> QED BY <1>2, <1>3

\* Giving the volumes up.
LEMMA UninitVolumesInvariant ==
  ASSUME IInv, UninitVolumes
  PROVE  IInv'
<1> USE DEF IInv
<1>1. /\ pc = "uninit" /\ pc' = "uninitself" /\ open' = open \ Roots
      /\ UNCHANGED <<ret, chosen, opens, Volumes, SelfVolume, entries, SelfRootDir, SelfDir,
                     DirHandle, present, mounted, Fixed>>
  BY DEF UninitVolumes, devices
<1>2. /\ DOMAIN volume' = DOMAIN volume
      /\ \A v \in DOMAIN volume :
           /\ v \in Volumes =>
                /\ volume'[v] = [volume[v] EXCEPT !.RootDir = NULL, !.DeviceHandle = NULL,
                                                  !.WholeDiskBlockIO = NULL]
                /\ volume'[v].RootDir = NULL
                /\ volume'[v].DeviceHandle = NULL
                /\ volume'[v].WholeDiskBlockIO = NULL
                /\ volume'[v].DevicePath = volume[v].DevicePath
                /\ volume'[v].WholeDiskDevicePath = volume[v].WholeDiskDevicePath
           /\ v \notin Volumes => volume'[v] = volume[v]
  BY DEF UninitVolumes, TypeOK, REFIT_VOLUME
<1>3. \A v \in DOMAIN volume' : volume'[v] \in REFIT_VOLUME
  <2>1. \A r \in REFIT_VOLUME : [r EXCEPT !.RootDir = NULL, !.DeviceHandle = NULL,
                                          !.WholeDiskBlockIO = NULL] \in REFIT_VOLUME
    BY DEF REFIT_VOLUME
  <2>2. \A v \in DOMAIN volume : volume[v] \in REFIT_VOLUME
    BY DEF TypeOK
  <2> QED BY <1>2, <2>1, <2>2
<1>4. TypeOK'
  BY <1>1, <1>2, <1>3 DEF TypeOK, Points
<1>5. \A f \in Roots : f.of = "RootDir"
  BY DEF Roots, Set, Live, Rooted
<1>6. Live'
  <2>1. \A v \in Volumes' : ~Rooted(v)'
    BY <1>1, <1>2 DEF TypeOK, Rooted
  <2>2. SelfRootDir # NULL => SelfRootDir \in open'
    BY <1>1, <1>5 DEF Live
  <2>3. SelfDir # NULL => SelfDir \in open'
    BY <1>1, <1>5 DEF Live
  <2>4. DirHandle # NULL => DirHandle \in open'
    BY <1>1, <1>5 DEF Live
  <2> QED BY <1>1, <2>1, <2>2, <2>3, <2>4 DEF Live
<1>7. Dropped'
  BY <1>1, <1>2 DEF Dropped, Loading, Launching, TypeOK, Rooted
<1>8. Entered'
  BY <1>1 DEF Entered, Loading, Launching
<1>9. Settled'
  <2>1. Volumes \subseteq DOMAIN volume
    BY DEF TypeOK
  <2>2. /\ Fixed \subseteq present'
        /\ SelfDevice \in Fixed => SelfDevice \in mounted'
        /\ SelfDevice \in Fixed => SelfRootDir' # NULL /\ SelfDir' # NULL
    BY <1>1 DEF Settled
  <2>3. \A v \in Volumes' : volume'[v].DevicePath # NULL =>
          volume'[v].WholeDiskDevicePath = DiskOf[volume'[v].DevicePath]
    BY <1>1, <1>2, <2>1, ZenonT(60) DEF Settled
  <2> QED BY <1>1, <2>2, <2>3 DEF Settled
<1> QED BY <1>4, <1>6, <1>7, <1>8, <1>9

\* Giving SelfDir and SelfRootDir up.
LEMMA UninitRefitLibInvariant ==
  ASSUME IInv, UninitRefitLib
  PROVE  IInv'
<1> USE DEF IInv
<1>1. /\ pc = "uninitself" /\ pc' = "child" /\ open' = open \ {SelfDir, SelfRootDir}
      /\ SelfDir' = NULL /\ SelfRootDir' = NULL
      /\ UNCHANGED <<ret, chosen, opens, DirHandle, volume, Volumes, SelfVolume, entries,
                     present, mounted, Fixed>>
  BY DEF UninitRefitLib, records, devices
<1>2. TypeOK'
  BY <1>1 DEF TypeOK, Points
<1>3. Live'
  BY <1>1 DEF Live, Dropped, Rooted
<1>4. Dropped'
  BY <1>1 DEF Dropped, Loading, Launching, Rooted
<1>5. Entered' /\ Settled'
  BY <1>1 DEF Entered, Settled, Loading, Launching
<1> QED BY <1>2, <1>3, <1>4, <1>5

\* Finding the volumes again.
LEMMA ReinitVolumesInvariant ==
  ASSUME IInv, ReinitVolumes
  PROVE  IInv'
<1> USE DEF IInv
<1>1. /\ pc = "reinit" /\ pc' = "reinitself" /\ opens' = opens + 1
      /\ open' = open \cup UNION {Set(Reopened(v).RootDir) : v \in Volumes}
      /\ DOMAIN volume' = DOMAIN volume
      /\ \A v \in DOMAIN volume :
           volume'[v] = IF v \in Volumes THEN Reopened(v) ELSE volume[v]
      /\ UNCHANGED <<ret, chosen, Volumes, SelfVolume, entries, SelfRootDir, SelfDir,
                     DirHandle, present, mounted, Fixed>>
  BY DEF ReinitVolumes, devices
<1>2. ASSUME NEW v \in Volumes
      PROVE  /\ Reopened(v) \in REFIT_VOLUME
             /\ Reopened(v).RootDir # NULL => Reopened(v).RootDir.of = "RootDir"
             /\ Reopened(v).DevicePath = volume[v].DevicePath
             /\ Reopened(v).WholeDiskDevicePath = volume[v].WholeDiskDevicePath
             /\ volume[v].WholeDiskDevicePath \in Fixed =>
                  Reopened(v).WholeDiskBlockIO = volume[v].WholeDiskDevicePath
  <2> DEFINE r == volume[v]
             d == IF r.DevicePath = NULL THEN NULL ELSE LocateDevicePath(r.DevicePath)
             w == IF r.WholeDiskDevicePath = NULL THEN NULL
                  ELSE LocateDevicePath(r.WholeDiskDevicePath)
             rootdir == LibOpenRoot(d, File("RootDir", v))
  <2>1. r \in REFIT_VOLUME /\ r.RootDir = NULL /\ v \in Ids
    BY <1>1 DEF TypeOK, Dropped, Rooted
  <2>2. d \in Devices \cup {NULL} /\ w \in Devices \cup {NULL}
    BY <2>1, DevicesAssumption DEF LocateDevicePath, REFIT_VOLUME
  <2>3. rootdir \in Files \cup {NULL} /\ (rootdir # NULL => rootdir.of = "RootDir")
    BY <2>1 DEF LibOpenRoot, File, Files, TypeOK
  <2>4. r.WholeDiskDevicePath \in Fixed => w = r.WholeDiskDevicePath /\ w # NULL
    BY <2>1, NullAssumption DEF LocateDevicePath, Settled, TypeOK
  <2>5. Reopened(v) = [r EXCEPT !.DeviceHandle = IF d = NULL THEN @ ELSE d,
                                !.RootDir = IF d = NULL THEN @ ELSE rootdir,
                                !.WholeDiskBlockIO = IF w = NULL THEN @ ELSE w]
    BY DEF Reopened
  <2> HIDE DEF r, d, w, rootdir
  <2>6. /\ Reopened(v) \in REFIT_VOLUME
        /\ Reopened(v).RootDir = (IF d = NULL THEN r.RootDir ELSE rootdir)
        /\ Reopened(v).DevicePath = r.DevicePath
        /\ Reopened(v).WholeDiskDevicePath = r.WholeDiskDevicePath
        /\ Reopened(v).WholeDiskBlockIO = (IF w = NULL THEN r.WholeDiskBlockIO ELSE w)
    BY <2>1, <2>2, <2>3, <2>5, ZenonT(60) DEF REFIT_VOLUME
  <2> QED BY <2>1, <2>3, <2>4, <2>6 DEF r
<1>3. \A v \in DOMAIN volume' : volume'[v] \in REFIT_VOLUME
  BY <1>1, <1>2 DEF TypeOK
<1>4. \A v \in Volumes : Reopened(v).RootDir # NULL => Reopened(v).RootDir \in open'
  BY <1>1 DEF Set
<1>5. UNION {Set(Reopened(v).RootDir) : v \in Volumes} \subseteq Files
  BY <1>2 DEF Set, REFIT_VOLUME
<1>6. open \subseteq open' /\ open' \subseteq Files
  BY <1>1, <1>5 DEF TypeOK
<1>7. TypeOK'
  BY <1>1, <1>3, <1>6 DEF TypeOK, Points
<1>8. Live'
  <2>1. \A v \in Volumes' : Rooted(v)' =>
          volume'[v].RootDir \in open' /\ volume'[v].RootDir.of = "RootDir"
    BY <1>1, <1>2, <1>4 DEF Rooted, TypeOK
  <2> QED BY <1>1, <1>6, <2>1 DEF Live
<1>9. Dropped' /\ Entered'
  BY <1>1 DEF Dropped, Entered, Loading, Launching
<1>10. Settled'
  <2>1. \A v \in Volumes : volume[v].DevicePath \in Devices \cup {NULL}
    BY DEF TypeOK, REFIT_VOLUME
  <2> QED BY <1>1, <1>2, <2>1, DevicesAssumption DEF Settled, TypeOK
<1> QED BY <1>7, <1>8, <1>9, <1>10

\* The devices change only where no handle moves.
LEMMA DevicesInvariant ==
  ASSUME IInv, DevicesChange
  PROVE  IInv'
<1> USE DEF IInv
<1>1. UNCHANGED <<pc, ret, chosen, opens, open, volume, Volumes, SelfVolume, entries,
                  SelfRootDir, SelfDir, DirHandle, Fixed>>
  BY DEF DevicesChange, control, files, records
<1>2. /\ present' \subseteq Devices /\ Fixed \subseteq present' /\ mounted' \subseteq present'
      /\ SelfDevice \in Fixed => SelfDevice \in mounted'
  BY DEF DevicesChange, Attachable, Mountable
<1>3. TypeOK'
  BY <1>1, <1>2 DEF TypeOK
<1>4. Live' /\ Dropped' /\ Entered'
  BY <1>1 DEF Live, Dropped, Entered, Loading, Rooted
<1>5. Settled'
  BY <1>1, <1>2 DEF Settled
<1> QED BY <1>3, <1>4, <1>5

-----------------------------------------------------------------------------
(* On UEFI 2 the invariant holds in every reachable state.                 *)

LEMMA NextInvariant ==
  ASSUME EFIMajor # 1
  PROVE  IInv /\ [Next]_vars => IInv'
<1> SUFFICES ASSUME IInv, [Next]_vars PROVE IInv'
  OBVIOUS
<1>1. CASE InitRefitLib \/ ReinitRefitLib
  BY <1>1, FinishInvariant
<1>2. CASE FirstScan \/ ScanForBootloaders \/ RescanAll
  BY <1>2, ScanInvariant
<1>3. CASE OpenDriverDir \/ CloseDriverDir
  BY <1>3, DriverDirInvariant
<1>4. CASE \/ StartDriver \/ LoadDriversDone \/ UseSelfRootDir \/ StartLoaderOrTool
           \/ StartLegacy \/ Activate \/ Exit \/ LoadImage \/ ChildReturns
  BY <1>4, ControlInvariant
<1>5. CASE UninitVolumes
  BY <1>5, UninitVolumesInvariant
<1>6. CASE UninitRefitLib
  BY <1>6, UninitRefitLibInvariant
<1>7. CASE ReinitVolumes
  BY <1>7, ReinitVolumesInvariant
<1>8. CASE DevicesChange
  BY <1>8, DevicesInvariant
<1>9. CASE UNCHANGED vars
  BY <1>9 DEF IInv, TypeOK, Live, Dropped, Entered, Settled, Loading, Rooted, vars
<1> QED BY <1>1, <1>2, <1>3, <1>4, <1>5, <1>6, <1>7, <1>8, <1>9 DEF Next

(* The inductive invariant: what is open, given up and listed at each      *)
(* point of StartEFIImageList(), LoadDrivers() and RescanAll().            *)
THEOREM RefitLibInvariant ==
  ASSUME EFIMajor # 1
  PROVE  Spec => []IInv
<1>1. Init => IInv
  BY InitInvariant
<1>2. IInv /\ [Next]_vars => IInv'
  BY NextInvariant
<1> QED BY <1>1, <1>2, PTL DEF Spec

LEMMA InvariantImplies ==
  IInv => TypeOK /\ HandlesLive /\ ChildHoldsNothing /\ SelfUsable /\ EntriesCurrent
            /\ PrimaryReady
<1> SUFFICES ASSUME IInv
             PROVE  TypeOK /\ HandlesLive /\ ChildHoldsNothing /\ SelfUsable /\ EntriesCurrent
                      /\ PrimaryReady
  OBVIOUS
<1> USE DEF IInv
<1>1. HandlesLive
  <2>1. Roots \subseteq open
    BY DEF Roots, Set, Live, Rooted
  <2>2. Own \subseteq open
    BY DEF Own, Set, Live
  <2> QED BY <2>1, <2>2 DEF HandlesLive, Held
<1>2. ChildHoldsNothing
  <2> SUFFICES ASSUME pc = "child"
               PROVE  /\ Held \subseteq Set(DirHandle)
                      /\ \A v \in Volumes : /\ volume[v].DeviceHandle = NULL
                                            /\ volume[v].WholeDiskBlockIO = NULL
    BY DEF ChildHoldsNothing
  <2>1. Roots = {}
    BY DEF Roots, Set, Dropped, Rooted
  <2>2. Own = Set(DirHandle)
    BY DEF Own, Set, Dropped
  <2> QED BY <2>1, <2>2 DEF Held, Dropped
<1>3. SelfUsable
  BY DEF SelfUsable, Settled
<1>4. EntriesCurrent
  BY DEF EntriesCurrent, Entered
<1>5. PrimaryReady
  BY NullAssumption, DevicesAssumption DEF PrimaryReady, Entered, Settled, TypeOK
<1> QED BY <1>1, <1>2, <1>3, <1>4, <1>5

(* On UEFI 2, for any disks, any changes to them and any programs started: *)
(* every handle rEFInd holds is open, so none is closed twice or used      *)
(* after UninitRefitLib() or DirIterClose() closed it.                     *)
THEOREM RefitLibHandlesLive ==
  ASSUME EFIMajor # 1
  PROVE  Spec => []HandlesLive
<1>1. IInv => HandlesLive
  BY InvariantImplies
<1> QED BY <1>1, RefitLibInvariant, PTL

(* Between UninitRefitLib() and ReinitRefitLib() nothing but a driver      *)
(* directory is held.                                                      *)
THEOREM RefitLibChildHoldsNothing ==
  ASSUME EFIMajor # 1
  PROVE  Spec => []ChildHoldsNothing
<1>1. IInv => ChildHoldsNothing
  BY InvariantImplies
<1> QED BY <1>1, RefitLibInvariant, PTL

(* SelfRootDir and SelfDir are set wherever the program uses them, if the  *)
(* volume it started from stays.                                           *)
THEOREM RefitLibSelfUsable ==
  ASSUME EFIMajor # 1
  PROVE  Spec => []SelfUsable
<1>1. IInv => SelfUsable
  BY InvariantImplies
<1> QED BY <1>1, RefitLibInvariant, PTL

(* Legacy entries always refer to the current list of volumes, and the     *)
(* disk of a primary partition that stays is there when StartLegacy()      *)
(* writes to it.                                                           *)
THEOREM RefitLibEntries ==
  ASSUME EFIMajor # 1
  PROVE  Spec => [](EntriesCurrent /\ PrimaryReady)
<1>1. IInv => EntriesCurrent /\ PrimaryReady
  BY InvariantImplies
<1> QED BY <1>1, RefitLibInvariant, PTL

\* What is open after a step and was open and held before it, is held still,
\* unless the step makes a new list of volumes.
LEMMA StepsLose ==
  ASSUME EFIMajor # 1, IInv, Next, NEW f \in Lost' \ Lost
  PROVE  f \in Roots /\ opens' = opens + 1 /\ pc \in {"scan", "bootloaders", "menu"}
<1> USE DEF IInv
<1>1. f \in open' /\ f \notin Roots' /\ f \notin Own' /\ (f \in open => f \in Roots \cup Own)
  BY DEF Lost, Held
<1>2. CASE InitRefitLib \/ ReinitRefitLib
  <2>1. SelfRootDir = NULL /\ SelfDir = NULL
    BY <1>2 DEF InitRefitLib, ReinitRefitLib, Dropped
  <2>2. FinishInitRefitLib(NULL) /\ UNCHANGED <<DirHandle, volume, Volumes>>
    BY <1>2, <2>1 DEF InitRefitLib, ReinitRefitLib, Kept, records
  <2>3. Roots' = Roots /\ Own \subseteq Own'
    BY <2>1, <2>2 DEF Roots, Own, Set
  <2>4. f \in open
    BY <1>1, <2>1, <2>2, FinishInitFacts DEF Own
  <2> QED BY <1>1, <2>3, <2>4
<1>3. CASE FirstScan \/ ScanForBootloaders \/ RescanAll
  <2>1. ScanVolumes /\ pc \in {"scan", "bootloaders", "menu"}
    BY <1>3 DEF FirstScan, ScanForBootloaders, RescanAll
  <2>2. Own' = Own /\ opens' = opens + 1
    BY <2>1 DEF ScanVolumes, Own
  <2>3. CASE f \in open
    BY <1>1, <2>1, <2>2, <2>3
  <2>4. CASE f \notin open
    <3>1. PICK d \in mounted : f = File("RootDir", <<opens, d>>)
      BY <1>1, <2>1, <2>4 DEF ScanVolumes
    <3> DEFINE v == <<opens, d>>
    <3>2. v \in Scanned /\ d \in Devices /\ v[2] = d
      BY DEF Scanned, TypeOK
    <3>3. v \in Volumes' /\ volume'[v] = ScanVolume(v)
      BY <2>1, <3>2 DEF ScanVolumes
    <3> HIDE DEF v
    <3>4. ScanVolume(v).RootDir = LibOpenRoot(d, File("RootDir", v))
      BY <3>2 DEF ScanVolume, DeviceVolume
    <3>5. volume'[v].RootDir = f
      BY <3>1, <3>3, <3>4 DEF LibOpenRoot, v
    <3>6. f # NULL
      BY <3>1, NullAssumption DEF File, Files, TypeOK, Ids
    <3>7. f \in Roots'
      BY <3>3, <3>5, <3>6 DEF Roots, Set
    <3> QED BY <1>1, <3>7
  <2> QED BY <2>3, <2>4
<1>4. CASE OpenDriverDir
  <2>1. DirHandle = NULL /\ open' = open \cup {DirHandle'} /\ Roots' = Roots
    BY <1>4 DEF OpenDriverDir, Dropped, Loading, Launching, records, Roots
  <2>2. UNCHANGED <<SelfRootDir, SelfDir>> /\ DirHandle' # NULL
    BY <1>4, NullAssumption DEF OpenDriverDir, File, Files, TypeOK
  <2> QED BY <1>1, <2>1, <2>2 DEF Own, Set
<1>5. CASE CloseDriverDir
  <2>1. open' = open \ {DirHandle} /\ Roots' = Roots /\ UNCHANGED <<SelfRootDir, SelfDir>>
    BY <1>5 DEF CloseDriverDir, records, Roots
  <2> QED BY <1>1, <2>1 DEF Own, Set
<1>6. CASE \/ StartDriver \/ LoadDriversDone \/ UseSelfRootDir \/ StartLoaderOrTool
           \/ StartLegacy \/ Activate \/ Exit \/ LoadImage \/ ChildReturns \/ DevicesChange
  <2>1. UNCHANGED <<open, volume, Volumes, SelfRootDir, SelfDir, DirHandle>>
    BY <1>6 DEF StartDriver, LoadDriversDone, UseSelfRootDir, StartLoaderOrTool, StartLegacy,
       Activate, Exit, LoadImage, ChildReturns, DevicesChange, files, records
  <2> QED BY <1>1, <2>1 DEF Roots, Own
<1>7. CASE UninitVolumes
  <2>1. open' = open \ Roots /\ Own' = Own
    BY <1>7 DEF UninitVolumes, Own
  <2> QED BY <1>1, <2>1
<1>8. CASE UninitRefitLib
  <2>1. /\ open' = open \ {SelfDir, SelfRootDir} /\ SelfDir' = NULL /\ SelfRootDir' = NULL
        /\ Roots' = Roots /\ DirHandle' = DirHandle
    BY <1>8 DEF UninitRefitLib, records, Roots
  <2> QED BY <1>1, <2>1 DEF Own, Set
<1>9. CASE ReinitVolumes
  <2>1. Roots = {}
    BY <1>9 DEF ReinitVolumes, Dropped, Rooted, Roots, Set
  <2>2. Own' = Own
    BY <1>9 DEF ReinitVolumes, Own
  <2>3. open' = open \cup UNION {Set(Reopened(v).RootDir) : v \in Volumes}
    BY <1>9 DEF ReinitVolumes
  <2>4. \A v \in Volumes : volume'[v] = Reopened(v) /\ v \in Volumes'
    BY <1>9 DEF ReinitVolumes, TypeOK
  <2>5. UNION {Set(Reopened(v).RootDir) : v \in Volumes} \subseteq Roots'
    BY <2>4 DEF Roots, Set
  <2> QED BY <1>1, <2>1, <2>2, <2>3, <2>5
<1> QED BY <1>2, <1>3, <1>4, <1>5, <1>6, <1>7, <1>8, <1>9 DEF Next

(* No step but a scan of the volumes forgets an open handle.               *)
THEOREM RefitLibOnlyScansLose ==
  ASSUME EFIMajor # 1
  PROVE  Spec => OnlyScansLose
<1>1. IInv /\ [Next]_vars =>
        [ \A f \in Lost' \ Lost : f \in Roots /\ opens' = opens + 1
                                  /\ pc \in {"scan", "bootloaders", "menu"} ]_vars
  BY StepsLose
<1> QED BY <1>1, RefitLibInvariant, PTL DEF Spec, OnlyScansLose
=============================================================================
