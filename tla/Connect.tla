------------------------------- MODULE Connect ------------------------------
(***************************************************************************)
(* How rEFInd loads its drivers and connects them to the devices:          *)
(* LoadDrivers() and RescanAll() of refind/main.c, the walk over all       *)
(* handles of either build (main.c for GNU-EFI with                        *)
(* refind/driver_support.c; EfiLib/BdsConnect.c for TianoCore), and the    *)
(* BIOS boot of a TianoCore build, which connects a device path first      *)
(* (EfiLib/BdsConnect.c, BdsTianoCore.c, BdsHelper.c). A step is one       *)
(* driver file, one handle or one round of a loop. Between two visits to   *)
(* the handles the user plugs and unplugs devices. The drivers are those   *)
(* of rEFInd (the binding in filesystems/fsw_efi.c) and of the firmware.   *)
(***************************************************************************)
EXTENDS Naturals, Sequences, SequencesExt, FiniteSets, FiniteSetsExt

CONSTANTS
  NoDevice,
  Device,       \* what each device is: [parent, kind, content, blockio]
  BusOf,        \* what each bus driver finds children on
  FsOf,         \* the file system of each file system driver; no bus driver
  Plain,        \* handles that are no device (images, services)
  DriverDirectories,  \* the driver files of each directory, in the order of LoadDrivers()
  Broken,       \* driver files that do not start
  Dormant,      \* drivers in firmware volumes, and the device that brings each
  BootVars,     \* the Boot#### variables: [active, path]; path is a sequence of device paths
  BootOrder,
  BbsTypes,     \* the type of each entry of the BBS table
  Machines,     \* the databases rEFInd starts in: [handles, holder, fs, volumes]
  Sockets,      \* devices that come and go
  MaxPlugs      \* bound on how often they do

-----------------------------------------------------------------------------
(* The handle database of the firmware, as far as rEFInd's drivers change  *)
(* it. The database db is a record:                                        *)
(*   handles  every handle, oldest first (LocateHandleBuffer)              *)
(*   holder   the driver that has the disk or the bus of a handle open     *)
(*            BY_DRIVER                                                    *)
(*   fs       the driver whose Simple File System is on a handle           *)
(*   volumes  the FSW_VOLUME_DATA in memory, as <<driver, handle>>         *)
(*   mounts   how often each device was mounted                            *)
(* The firmware's own services and its bus drivers are external: they are  *)
(* modelled as the code uses them. A handle that goes away and comes back  *)
(* keeps its address.                                                      *)

Devices == DOMAIN Device
Fsw     == DOMAIN FsOf
AllDrivers == DOMAIN BusOf \cup Fsw

Alive(db, h) == h \in Range(db.handles)

\* A device and those it is on.
Above[c \in Devices] ==
  {c} \cup IF Device[c].parent = NoDevice THEN {} ELSE Above[Device[c].parent]

\* The children a bus driver opened BY_CHILD_CONTROLLER.
Children(db, h) == {c \in Devices : Alive(db, c) /\ Device[c].parent = h}

\* Every disk: the driver that has it open has its file system on it and its
\* volume in memory.
AllOrNothing(db) ==
  /\ \A c \in Devices : (db.holder[c] \in Fsw \/ db.fs[c] # NoDevice) => db.holder[c] = db.fs[c]
  /\ db.volumes = {<<db.fs[c], c>> : c \in {x \in Devices : db.fs[x] # NoDevice}}

Sound(db) ==
  /\ DOMAIN db = {"handles", "holder", "fs", "volumes", "mounts"}
  /\ db.handles \in Seq(Range(db.handles))
  /\ db.holder \in [Devices -> AllDrivers \cup {NoDevice}]
  /\ db.fs \in [Devices -> Fsw \cup {NoDevice}]
  /\ AllOrNothing(db)

ASSUME MachineAssumption ==
  /\ IsFiniteSet(Devices) /\ Sockets \subseteq Devices
  /\ NoDevice \notin AllDrivers
  /\ Fsw \cap DOMAIN BusOf = {}
  /\ \A db \in Machines : Sound(db)

-----------------------------------------------------------------------------
(* fsw_efi.c, in each of rEFInd's file system drivers.                     *)

\* fsw_efi_DriverBinding_Supported(): the disk is free, and it is a disk.
FswSupported(db, d, h) == db.holder[h] = NoDevice /\ Device[h].blockio

\* fsw_efi_DriverBinding_Start(): everything is given back when the mount fails.
FswStart(db, d, h) ==
  IF Device[h].content = FsOf[d]
  THEN [db EXCEPT !.holder[h] = d, !.fs[h] = d, !.mounts[h] = @ + 1,
                  !.volumes = @ \cup {<<d, h>>}]
  ELSE db

\* (faulty variant: the disk is not closed)
FswStopHolds(db, d, h) ==
  IF db.fs[h] = NoDevice THEN db
  ELSE [db EXCEPT !.fs[h] = NoDevice, !.volumes = @ \ {<<db.fs[h], h>>}]

\* fsw_efi_DriverBinding_Stop(): the volume is the one whose interface is on the handle.
FswStop(db, d, h) ==
  IF db.fs[h] = NoDevice THEN db
  ELSE [db EXCEPT !.fs[h] = NoDevice, !.volumes = @ \ {<<db.fs[h], h>>}, !.holder[h] = NoDevice]

-----------------------------------------------------------------------------
(* The firmware.                                                           *)

\* A bus driver takes a bus no driver has, and makes a handle of each child.
BusStart(db, d, h, plugged) ==
  IF db.holder[h] # NoDevice \/ BusOf[d] # Device[h].kind THEN db
  ELSE [db EXCEPT !.holder[h]  = d,
                  !.handles = @ \o SetToSeq({c \in plugged : Device[c].parent = h})]

Start(db, d, h, plugged) ==
  CASE d \in DOMAIN BusOf -> BusStart(db, d, h, plugged)
    [] d \in Fsw -> IF FswSupported(db, d, h) THEN FswStart(db, d, h) ELSE db
    [] OTHER -> db

\* The one member of a set: a database bound in {...} is computed only once.
The(S) == CHOOSE x \in S : TRUE

\* Every driver is tried on a handle.
TryDrivers(db, h, plugged) ==
  LET tried[n \in 0 .. Len(db.handles)] ==
        IF n = 0 THEN db
        ELSE The({Start(s, db.handles[n], h, plugged) : s \in {tried[n - 1]}})
  IN  tried[Len(db.handles)]

(* BS->ConnectController() and BS->DisconnectController() go down a tree of *)
(* devices. w is how far they are: the database w.db and the handles w.todo *)
(* still to visit, the children of a handle before its next sibling.       *)

Connected(w, recursive, plugged) ==
  LET h == Head(w.todo)
      below(own) == IF recursive THEN SetToSeq(Children(own, h)) ELSE <<>>
  IN  IF ~ Alive(w.db, h) \/ h \notin Devices THEN [db |-> w.db, todo |-> Tail(w.todo)]
      ELSE The({ [db |-> own, todo |-> below(own) \o Tail(w.todo)]
                 : own \in {TryDrivers(w.db, h, plugged)} })

\* Every driver is tried, then the children in turn.
ConnectController(db, h, recursive, plugged) ==
  LET visited[n \in 0 .. Cardinality(Devices)] ==
        IF n = 0 THEN [db |-> db, todo |-> <<h>>]
        ELSE The({ IF w.todo = <<>> THEN w ELSE Connected(w, recursive, plugged)
                   : w \in {visited[n - 1]} })
  IN  visited[Cardinality(Devices)].db

Disconnected(w, root) ==
  LET h == Head(w.todo)
      d == w.db.holder[h]
      stopped  == IF d \in Fsw THEN FswStop(w.db, d, h) ELSE [w.db EXCEPT !.holder[h] = NoDevice]
      children == IF d \in DOMAIN BusOf THEN SetToSeq(Children(w.db, h)) ELSE <<>>
  IN  [ db   |-> [stopped EXCEPT !.handles = IF h = root THEN @ ELSE RemoveFirst(@, h)],
        todo |-> children \o Tail(w.todo) ]

\* Every driver of a handle stops; the children of a bus go with it.
DisconnectController(db, h) ==
  LET visited[n \in 0 .. Cardinality(Devices)] ==
        IF n = 0 THEN [db |-> db, todo |-> <<h>>]
        ELSE The({ IF w.todo = <<>> THEN w ELSE Disconnected(w, h) : w \in {visited[n - 1]} })
  IN  IF Alive(db, h) /\ h \in Devices THEN visited[Cardinality(Devices)].db ELSE db

\* What is left of a device path after the last handle on it.
LocateDevicePath(db, path) ==
  LET on == {n \in DOMAIN path : Alive(db, path[n])}
  IN  IF on = {} THEN [handle |-> NoDevice, remaining |-> path]
      ELSE [ handle |-> path[Max(on)], remaining |-> SubSeq(path, Max(on) + 1, Len(path)) ]

-----------------------------------------------------------------------------
VARIABLES
  build,        \* "gnuefi" or "tiano"
  db,           \* the handle database
  plugged,      \* devices that are there, connected or not
  pc,
  NumFound,     \* driver files found
  queue,        \* driver files still to load
  AllHandles,   \* AllHandleBuffer of the walk
  Index,        \* the next handle of the walk
  option,       \* the boot option that is being started
  instances,    \* its device path instances still to connect, the present one first
  PreviousHandle,
  Status,       \* what BdsLibConnectDevicePath() will return
  bbs,          \* the boot priority of each entry of the BBS table
  plugs,        \* how often devices came or went
  late          \* devices that came while the handles were walked over

walk == <<AllHandles, Index, late>>
boot == <<option, instances, PreviousHandle, Status, bbs>>
connectVars == <<build, db, plugged, pc, NumFound, queue, walk, boot, plugs>>

-----------------------------------------------------------------------------
(* ScanDriverDir() and LoadDrivers().                                      *)

ConnectInit ==
  /\ build \in {"gnuefi", "tiano"}
  /\ db \in Machines
  /\ plugged = {c \in Devices : c \in Sockets => Alive(db, c)}
  /\ pc = "load"
  /\ NumFound = 0
  /\ queue = FlattenSeq(DriverDirectories)
  /\ AllHandles = <<>> /\ Index = 0 /\ late = {}
  /\ option = NoDevice /\ instances = <<>> /\ PreviousHandle = NoDevice /\ Status = "SUCCESS"
  /\ bbs = [n \in DOMAIN BbsTypes |-> n]
  /\ plugs = 0

\* A driver that starts leaves its image, with the driver binding on it.
StartDriver ==
  /\ pc = "load" /\ queue # <<>>
  /\ queue' = Tail(queue)
  /\ NumFound' = NumFound + 1
  /\ db' = [db EXCEPT !.handles = IF Head(queue) \in Broken THEN @ ELSE Append(@, Head(queue))]
  /\ UNCHANGED <<build, plugged, pc, walk, boot, plugs>>

\* Nothing is connected when no file was found.
LoadedDrivers ==
  /\ pc = "load" /\ queue = <<>>
  /\ pc' = IF NumFound > 0 THEN "walk" ELSE "menu"
  /\ AllHandles' = IF NumFound > 0 THEN db.handles ELSE <<>>
  /\ Index' = 1 /\ late' = {}
  /\ UNCHANGED <<build, db, plugged, NumFound, queue, boot, plugs>>

-----------------------------------------------------------------------------
(* The walk: ConnectAllDriversToAllControllers(), and                      *)
(* BdsLibConnectMostlyAllEfi() of the TianoCore build.                     *)

\* LibScanHandleDatabase(): what handle h of the present database is to controller c.
HandleType(c, h) ==
  (IF h \in AllDrivers THEN {"IMAGE", "DRIVER_BINDING"}
   ELSE IF h \in Devices THEN {"DEVICE"} ELSE Plain[h])
  \cup (IF c \in Devices /\ Device[c].parent = h THEN {"PARENT"} ELSE {})
  \cup (IF c \in Devices /\ h = db.holder[c] THEN {"DEVICE_DRIVER"} ELSE {})
  \cup (IF c \in Devices /\ Device[c].parent \in Devices /\ h = db.holder[Device[c].parent]
        THEN {"BUS_DRIVER"} ELSE {})

\* ScanDeviceHandles(): the same, for every handle, in the order of the present database.
ScanDeviceHandles(c) ==
  [n \in DOMAIN db.handles |-> HandleType(c, db.handles[n]) \cap
     {"IMAGE", "DRIVER_BINDING", "DEVICE", "DEVICE_DRIVER", "PARENT", "BUS_DRIVER"}]

\* What the walk connects: no driver, no image, nobody's child. The type is
\* read at the place the handle had when the walk began.
IsRoot(types, n) ==
  /\ types[n] \cap {"DRIVER_BINDING", "IMAGE"} = {}
  /\ \A k \in DOMAIN types : "PARENT" \notin types[k]
  /\ "DEVICE" \in types[n]

\* IS_PCI_VGA: the TianoCore build disconnects a display first.
ResetVga(c) ==
  IF build = "tiano" /\ c \in Devices /\ Device[c].kind = "vga"
  THEN DisconnectController(db, c) ELSE db

ConnectHandle(c) ==
  The({ConnectController(s, c, TRUE, plugged) : s \in {ResetVga(c)}})

Walk ==
  /\ pc = "walk" /\ Index <= Len(AllHandles)
  /\ LET c == AllHandles[Index]
     IN  \E types \in {ScanDeviceHandles(c)} :
           db' = IF Index \in DOMAIN types /\ IsRoot(types, Index) THEN ConnectHandle(c) ELSE db
  /\ Index' = Index + 1
  /\ UNCHANGED <<build, plugged, pc, NumFound, queue, AllHandles, late, boot, plugs>>

\* The drivers the DXE dispatcher can start now.
Waiting == {d \in DOMAIN Dormant \ Range(db.handles) : Alive(db, Dormant[d])}

\* (faulty variant: nothing is connected again after Dispatch())
BdsLibConnectAllDriversToAllControllersOnce ==
  /\ pc = "walk" /\ Index > Len(AllHandles)
  /\ IF build = "tiano" /\ Waiting # {}
     THEN \E d \in Waiting : db' = [db EXCEPT !.handles = Append(@, d)]
     ELSE db' = db
  /\ pc' = "menu" /\ UNCHANGED walk
  /\ UNCHANGED <<build, plugged, NumFound, queue, boot, plugs>>

\* A TianoCore build walks again for as long as Dispatch() finds drivers.
BdsLibConnectAllDriversToAllControllers ==
  /\ pc = "walk" /\ Index > Len(AllHandles)
  /\ IF build = "tiano" /\ Waiting # {}
     THEN \E d \in Waiting :
            /\ db' = [db EXCEPT !.handles = Append(@, d)]
            /\ AllHandles' = db'.handles /\ Index' = 1 /\ late' = {} /\ pc' = pc
     ELSE pc' = "menu" /\ UNCHANGED <<db, walk>>
  /\ UNCHANGED <<build, plugged, NumFound, queue, boot, plugs>>

RescanAll ==
  /\ pc = "menu"
  /\ pc' = "walk" /\ AllHandles' = db.handles /\ Index' = 1 /\ late' = {}
  /\ UNCHANGED <<build, db, plugged, NumFound, queue, boot, plugs>>

\* The user, and the firmware's bus driver that notices. A device that goes
\* takes its handle out of the middle of the database.
Plug(c) ==
  /\ pc \in {"menu", "walk"} /\ plugs < MaxPlugs
  /\ plugs' = plugs + 1
  /\ IF c \in plugged
     THEN /\ plugged' = plugged \ {c}
          /\ db' = [DisconnectController(db, c) EXCEPT !.handles = RemoveFirst(@, c)]
          /\ late' = late
     ELSE /\ plugged' = plugged \cup {c}
          /\ db' = IF Device[c].parent = NoDevice \/ db.holder[Device[c].parent] # NoDevice
                   THEN [db EXCEPT !.handles = Append(@, c)] ELSE db
          /\ late' = late \cup {c}
  /\ UNCHANGED <<build, pc, NumFound, queue, AllHandles, Index, boot>>

-----------------------------------------------------------------------------
(* StartLegacyUEFI(): only a TianoCore build has it.                       *)

\* BdsLibVariableToOption(): an option that is there and active.
BdsLibVariableToOption(name) ==
  IF name \in DOMAIN BootVars /\ BootVars[name].active THEN BootVars[name] ELSE NoDevice

StartLegacyUEFI(name) ==
  /\ pc = "menu" /\ build = "tiano"
  /\ BdsLibVariableToOption(name) # NoDevice
  /\ option' = BdsLibVariableToOption(name)
  /\ instances' = option'.path
  /\ PreviousHandle' = NoDevice
  /\ pc' = "path"
  /\ UNCHANGED <<build, db, plugged, NumFound, queue, walk, Status, bbs, plugs>>

\* (faulty variant: a handle that did not change is connected again)
ConnectDevicePathBlind ==
  LET found == LocateDevicePath(db, Head(instances))
  IN  /\ pc = "path" /\ instances # <<>>
      /\ IF found.handle = NoDevice
         THEN Status' = "NOT_FOUND" /\ db' = db
         ELSE /\ Status' = "SUCCESS"
              /\ db' = ConnectController(db, found.handle, FALSE, plugged)
      /\ PreviousHandle' = found.handle
      /\ instances' = IF Status' = "NOT_FOUND" \/ found.remaining = <<>>
                      THEN Tail(instances) ELSE instances
      /\ UNCHANGED <<build, plugged, pc, NumFound, queue, walk, option, bbs, plugs>>

\* BdsLibConnectDevicePath(), one round: the best handle for the path is
\* connected; when it is the same as before, Dispatch() must find a driver.
\* What it returns is what the last instance came to.
ConnectDevicePath ==
  LET found == LocateDevicePath(db, Head(instances))
      stuck == found.handle = PreviousHandle /\ found.handle # NoDevice
  IN  /\ pc = "path" /\ instances # <<>>
      /\ IF found.handle = NoDevice \/ (stuck /\ Waiting = {})
         THEN Status' = "NOT_FOUND" /\ db' = db
         ELSE /\ Status' = "SUCCESS"
              /\ \E new \in IF stuck THEN {<<d>> : d \in Waiting} ELSE {<<>>} :
                   db' = ConnectController([db EXCEPT !.handles = @ \o new], found.handle,
                                           FALSE, plugged)
      /\ LET over == Status' = "NOT_FOUND" \/ found.remaining = <<>>
         IN  /\ instances' = IF over THEN Tail(instances) ELSE instances
             /\ PreviousHandle' = IF over THEN NoDevice ELSE found.handle
      /\ UNCHANGED <<build, plugged, pc, NumFound, queue, walk, option, bbs, plugs>>

\* UpdateBbsTable(): every device of a type comes first.
UpdateBbsTable(type) ==
  [n \in DOMAIN BbsTypes |-> IF BbsTypes[n] # 0 /\ BbsTypes[n] = type THEN 0 ELSE bbs[n]]

\* BdsLibDoLegacyBoot(): only a boot that failed comes back.
BdsLibDoLegacyBoot ==
  /\ pc = "path" /\ instances = <<>>
  /\ bbs' = UpdateBbsTable(option.type)
  /\ pc' \in {"menu", "booted"}
  /\ option' = NoDevice
  /\ UNCHANGED <<build, db, plugged, NumFound, queue, walk, instances, PreviousHandle, Status, plugs>>

Step ==
  \/ StartDriver
  \/ LoadedDrivers
  \/ Walk
  \/ BdsLibConnectAllDriversToAllControllers
  \/ ConnectDevicePath
  \/ BdsLibDoLegacyBoot

ConnectNext ==
  \/ Step
  \/ RescanAll
  \/ \E c \in Sockets : Plug(c)
  \/ \E n \in DOMAIN BootOrder : StartLegacyUEFI(BootOrder[n])

ConnectSpec == ConnectInit /\ [][ConnectNext]_connectVars /\ WF_connectVars(Step)
-----------------------------------------------------------------------------
(* Properties.                                                             *)

Loaded == Range(db.handles) \cap Fsw

\* A device the firmware can reach: plugged in, below devices that are, down
\* from a handle of its own, on buses that have a driver.
Reachable(c, there) ==
  \A a \in Above[c] :
    /\ a \in there
    /\ Device[a].parent # NoDevice =>
         \E d \in Range(db.handles) \cap DOMAIN BusOf : BusOf[d] = Device[Device[a].parent].kind

\* No handle the walk began with has moved: HandleType[Index] is the type of
\* AllHandleBuffer[Index] only then (main.c:1772, BdsConnect.c:450).
HandlesInPlace == IsPrefix(AllHandles, db.handles)

\* When the menu comes up, each volume that can be reached and whose file
\* system a loaded driver knows has its file system: LoadDrivers() and
\* RescanAll() leave none out, whatever the order of the handles, and whatever
\* Dispatch() and the user added on the way.
EveryVolumeServed ==
  [][ pc = "walk" /\ pc' = "menu" /\ HandlesInPlace =>
        \A c \in Devices :
          Reachable(c, plugged \ late) /\ Device[c].blockio
            /\ (\E d \in Loaded' : FsOf[d] = Device[c].content)
          => db'.fs[c] # NoDevice ]_connectVars

\* A file system driver has a disk open, its file system on it and a volume in
\* memory for it together or not at all, after failed mounts and stops too:
\* a disk that one driver cannot read is free for the next, and no volume of
\* a device that is gone stays behind.
HeldWhileServed == AllOrNothing(db)

\* Connecting ends: the walk whatever Dispatch() brings, and the rounds over
\* the device path of a boot option that names a device that never appears.
ConnectingEnds == (pc \in {"walk", "path"}) ~> (pc \in {"menu", "booted"})
=============================================================================
