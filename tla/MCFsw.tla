------------------------------- MODULE MCFsw --------------------------------
(***************************************************************************)
(* The parts of the file system driver in one run: the block cache of a    *)
(* volume, the directory nodes over it, and the drivers' way onto the      *)
(* disks. They share no variable, so a behaviour of all is any interleaving*)
(* of theirs; the run takes one part at a time, each from its own first    *)
(* state, the others at rest in theirs.                                    *)
(***************************************************************************)
EXTENDS FswCache, FswDnode, Connect, TLC

VARIABLE part

fswVars == <<part, cacheVars, vars, connectVars>>

CacheStep == part = "cache" /\ CacheNext /\ UNCHANGED <<part, vars, connectVars>>
DnodeStep == part = "dnode" /\ Next /\ UNCHANGED <<part, cacheVars, connectVars>>
DriverStep == part = "drivers" /\ ConnectNext /\ UNCHANGED <<part, cacheVars, vars>>

FswNext == CacheStep \/ DnodeStep \/ DriverStep

FswInit ==
  /\ part \in {"cache", "dnode", "drivers"}
  /\ CacheInit /\ Init /\ ConnectInit
  /\ part # "drivers" => build = "tiano" /\ db = CHOOSE m \in Machines : TRUE

\* Each part keeps the fairness it has by itself.
FswSpec ==
  /\ FswInit /\ [][FswNext]_fswVars
  /\ WF_vars(part = "dnode" /\ Program)
  /\ WF_connectVars(part = "drivers" /\ Step)

-----------------------------------------------------------------------------
(* Directories: one with a file, a link to it in the root under the same   *)
(* name as the file, and a link in the directory that leads over the first *)
(* one to the file.                                                        *)
CONSTANTS root, dir, file, link, long

MCType == root :> "DIR" @@ dir :> "DIR" @@ file :> "FILE"
            @@ link :> "SYMLINK" @@ long :> "SYMLINK"

MCEntries == { <<root, "dir", dir>>, <<root, "a", link>>,
               <<dir, "a", file>>, <<dir, "long", long>> }

MCTarget == link :> <<"dir">> @@ long :> <<"..", "a", ".", "a">>

MCPaths == { <<"a">>, <<"a", "long">>, <<"", "dir", "", "a">>,
             <<"..", "a", "long">>, <<"long", "dir">> }

-----------------------------------------------------------------------------
(* What a path leads to, from its first component on. *)

ParentOf(o) ==
  IF o = Root THEN NULL
  ELSE LET e == CHOOSE e \in Entries : e[3] = o IN e[1]

EntryOf(d, name) ==
  LET found == {e \in Entries : e[1] = d /\ e[2] = name}
  IN  IF found = {} THEN NULL ELSE (CHOOSE e \in found : TRUE)[3]

MCGoal[w \in Objects \X Seq(STRING) \X BOOLEAN] ==
  LET o == w[1]
      path == w[2]
      On(next, rest, whole) == IF next = NULL THEN NULL ELSE MCGoal[<<next, rest, whole>>]
  IN  IF path # << >> /\ Head(path) = ""
      THEN MCGoal[<<IF w[3] THEN Root ELSE o, Tail(path), FALSE>>]
      ELSE IF Type[o] = "SYMLINK" THEN On(On(ParentOf(o), Target[o], TRUE), path, w[3])
      ELSE IF path = << >> THEN o
      ELSE IF Type[o] = "FILE" THEN NULL
      ELSE On(CASE Head(path) = "."  -> o
                [] Head(path) = ".." -> ParentOf(o)
                [] OTHER             -> EntryOf(o, Head(path)), Tail(path), FALSE)

(* The same from its last component on. *)

OneStep[d \in Objects \cup {NULL}, name \in STRING] ==
  IF d = NULL \/ name = "" THEN d
  ELSE IF Type[d] # "DIR" THEN NULL
  ELSE CASE name = "."  -> d
         [] name = ".." -> ParentOf(d)
         [] OTHER       -> EntryOf(d, name)

\* The object that path names from directory from. A symbolic link stands for
\* what it names in the directory that holds it. An empty component at the start
\* is the root, elsewhere nothing.
NamedFrom[from \in Objects, path \in Seq(STRING)] ==
  IF path = <<>> THEN from
  ELSE IF path = <<"">> THEN Root
  ELSE LET o == OneStep[NamedFrom[from, SubSeq(path, 1, Len(path) - 1)], path[Len(path)]]
       IN  IF o # NULL /\ Type[o] = "SYMLINK" THEN NamedFrom[ParentOf(o), Target[o]] ELSE o

ASSUME BothAgree ==
  \A d \in Directories, path \in Paths : MCGoal[<<d, path, TRUE>>] = NamedFrom[d, path]

-----------------------------------------------------------------------------
(* A machine with a display, a disk and a USB stick, each with partitions  *)
(* or without, whose firmware connected no more than rEFInd's own volume.  *)

D(bus, kind, content, blockio) ==
  [parent |-> bus, kind |-> kind, content |-> content, blockio |-> blockio]

\* A display on the bus and one of its own, a disk and a stick on the bus, and
\* a card reader that is a root. Two drivers know ext4.
MCDevice ==
  "pci0"    :> D(NoDevice, "pci", NoDevice, FALSE)
  @@ "vga"  :> D("pci0", "vga", NoDevice, FALSE)
  @@ "gop"  :> D("vga", "console", NoDevice, FALSE)
  @@ "disk" :> D("pci0", "table", "table", TRUE)
  @@ "esp"  :> D("disk", "volume", "vfat", TRUE)
  @@ "root" :> D("disk", "volume", "ext4", TRUE)
  @@ "usb"  :> D("pci0", "table", "table", TRUE)
  @@ "iso"  :> D("usb", "volume", "iso9660", TRUE)
  @@ "vga1" :> D(NoDevice, "vga", NoDevice, FALSE)
  @@ "gop1" :> D("vga1", "console", NoDevice, FALSE)
  @@ "card" :> D(NoDevice, "raw", "ext4", TRUE)
MCBusOf   == "pcibus" :> "pci" @@ "gopdrv" :> "vga" @@ "partition" :> "table"
MCFsOf    == "fat" :> "vfat" @@ "ext4" :> "ext4" @@ "ext4again" :> "ext4" @@ "fviso" :> "iso9660"
             @@ "fvhfs" :> "hfs"
MCPlain   == "refind" :> {"IMAGE"} @@ "service" :> {}
MCDriverDirectories == << <<"ext4", "hfsbad">>, <<>>, <<"ext4again">> >>
MCDormant == "fviso" :> "usb" @@ "fvhfs" :> "gop"
MCBootVars ==
  "Boot0001" :> [active |-> TRUE, type |-> 2,
                 path |-> << <<"pci0", "usb", "iso">>, <<"pci0", "disk", "esp">> >>]
  @@ "Boot0002" :> [active |-> TRUE, type |-> 3, path |-> << <<"pci0", "gop">> >>]
  @@ "Boot0003" :> [active |-> FALSE, type |-> 2, path |-> << <<"pci0">> >>]
MCBootOrder == <<"Boot0001", "Boot0002", "Boot0003", "Boot0004">>
MCBbsTypes  == <<2, 3, 2, 0>>

\* What the firmware connected: everything up to rEFInd's own volume.
Database(order, pci, disk, esp) ==
  [ handles |-> order,
    holder  |-> [c \in Devices |-> CASE c = "pci0" -> pci [] c = "disk" -> disk
                                     [] c = "esp" -> esp [] OTHER -> NoDevice],
    fs      |-> [c \in Devices |-> IF c = "esp" THEN esp ELSE NoDevice],
    mounts  |-> [c \in Devices |-> 0],
    volumes |-> IF esp = NoDevice THEN {} ELSE {<<esp, "esp">>} ]
MCMachines ==
  { Database(<<"service", "pcibus", "gopdrv", "partition", "fat", "pci0", "vga", "disk", "card",
               "esp", "root", "refind">>, "pcibus", "partition", "fat"),
    Database(<<"vga1", "pci0", "pcibus", "card", "service", "vga", "disk", "partition", "gopdrv", "esp",
               "root", "fat", "refind">>, "pcibus", "partition", "fat") }
MCSockets == {"usb", "card"}
MCBroken  == {"hfsbad"}
=============================================================================
