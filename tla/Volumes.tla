------------------------------ MODULE Volumes -------------------------------
(***************************************************************************)
(* How rEFInd describes the block devices of the firmware (refind/lib.c):  *)
(* the kind of disk, the name, what boots on it. A device is what the      *)
(* firmware says of a handle:                                              *)
(*   handle     the handle, and its block device                           *)
(*   blocksize  bytes per block; 0 when it has no BlockIO protocol         *)
(*   path       the types of the nodes of its device path                  *)
(*   whole      the device LocateDevicePath() finds for the path up to the *)
(*              messaging node, or NULL                                    *)
(*   sector     what the first sectors hold: the marks this code looks for *)
(*   logical    the same of each logical partition, on a whole disk        *)
(*   part       its entry in the partition table of its disk, or 0         *)
(*   fs         its directories, or NULL when it has no file system        *)
(*   label, size  what the file system says of itself; size NULL when it   *)
(*              says nothing                                               *)
(* The block device of a logical partition is that of its disk.            *)
(***************************************************************************)
EXTENDS Naturals, Sequences, SequencesExt, TLC

CONSTANT NULL

VOL_UNREADABLE == 999

USBLike    == {"usb", "usbclass", "1394", "fibrechannel"}
Messaging  == USBLike \cup {"sata", "atapi"}

\* IdentifyFilesystemType(): the first mark found.
FSTypeName(sector) ==
  LET found == SelectSeq(<<"FAT", "ext4", "ext3", "ext2", "ReiserFS", "HFS+">>,
                         LAMBDA t : t \in sector)
  IN  IF "aa55" \in sector THEN " FAT" ELSE IF found = <<>> THEN "" ELSE " " \o found[1]

\* SizeInIEEEUnits(): cut to a number of 1024 at most, in a unit that has a name.
UnitNames == <<"-byte", " KiB", " MiB", " GiB", " TiB", " PiB", " EiB", " ZiB">>

SizeInIEEEUnits(bytes) ==
  LET size[n \in DOMAIN UnitNames] == IF n = 1 THEN bytes ELSE size[n - 1] \div 1024
      index == CHOOSE n \in DOMAIN UnitNames :
                 /\ \A k \in 1 .. n - 1 : size[k] > 1024
                 /\ n = Len(UnitNames) \/ size[n] <= 1024
  IN  ToString(size[index]) \o UnitNames[index]

\* GetVolumeName(): the label, unless it is the one rEFInd's HFS+ driver always gives.
GetVolumeName(d) ==
  IF d.size = NULL
  THEN IF FSTypeName(d.sector) = "" THEN "unknown volume" ELSE FSTypeName(d.sector) \o " volume"
  ELSE IF d.label # "" /\ ~ (d.label = "HFS+ volume" /\ FSTypeName(d.sector) = " HFS+")
  THEN d.label
  ELSE SizeInIEEEUnits(d.size) \o FSTypeName(d.sector) \o " volume"

-----------------------------------------------------------------------------
(* ScanVolumeBootcode().                                                   *)

\* The marks, in the order they are looked for, and the system they tell.
Signatures ==
  << <<"LILO", "Linux">>, <<"SYSLINUX", "Linux">>, <<"ISOLINUX", "Linux">>, <<"Geom", "Linux">>,
     <<"BTX loader", "FreeBSD">>, <<"!Loading", "OpenBSD">>, <<"/cdboot", "OpenBSD">>,
     <<"Not a bootxx image", "NetBSD">>, <<"NTLDR", "Windows">>, <<"BOOTMGR", "Windows">>,
     <<"CPUBOOT SYS", "FreeDOS">>, <<"OS2LDR", "eComStation">>, <<"Be Boot Loader", "BeOS">>,
     <<"yT Boot Loader", "ZETA">>, <<"haiku_loader", "Haiku">> >>

Dummies == {"Non-system disk", "This is not a bootable disk", "Press any key to restart"}

Bootcode(sector) ==
  LET found    == SelectSeq(Signatures, LAMBDA s : s[1] \in sector)
      bootable == {"aa55", "code"} \subseteq sector
  IN  [ Bootable    |-> bootable,
        HasBootCode |-> (bootable \/ found # <<>>) /\ sector \cap Dummies = {},
        OSName      |-> IF found = <<>> THEN NULL ELSE found[1][2] ]

-----------------------------------------------------------------------------
(* ScanVolume(): what the nodes of the device path tell, one after another. *)

Kind0(d) == IF d.blocksize = 2048 THEN "optical" ELSE "internal"

Node(d, blocksize, s, node) ==
  CASE node \in Messaging ->
         [s EXCEPT !.kind = IF blocksize[d.whole] = 2048 THEN "optical"
                            ELSE IF node \in USBLike THEN "external" ELSE @,
                   !.whole = IF blocksize[d.whole] = 0 THEN NULL ELSE d.whole]
    [] node = "cdrom"  -> [s EXCEPT !.kind = "optical", !.bootable = TRUE]
    [] node = "vendor" -> [s EXCEPT !.legacy = TRUE, !.bootable = FALSE]
    [] OTHER           -> s

\* blocksize[h] is the block size of the device with handle h; blocksize[NULL] = 0.
ScanVolume(d, blocksize) ==
  LET code == IF d.blocksize = 0 THEN Bootcode({}) ELSE Bootcode(d.sector)
      told[n \in 0 .. Len(d.path)] ==
        IF n = 0 THEN [kind |-> Kind0(d), whole |-> NULL, legacy |-> FALSE, bootable |-> code.Bootable]
        ELSE Node(d, blocksize, told[n - 1], d.path[n])
      s == told[Len(d.path)]
  IN  [ DeviceHandle     |-> d.handle,
        VolName          |-> IF d.fs = NULL THEN NULL ELSE GetVolumeName(d),
        VolNumber        |-> VOL_UNREADABLE,
        DiskKind         |-> s.kind,
        IsAppleLegacy    |-> s.legacy,
        HasBootCode      |-> code.HasBootCode /\ s.bootable,
        OSName           |-> code.OSName,
        BlockIO          |-> IF d.blocksize = 0 THEN NULL ELSE d.handle,
        BlockIOOffset    |-> 0,
        WholeDiskBlockIO |-> s.whole,
        IsReadable       |-> d.fs # NULL ]

\* ScanExtendedPartition(): a volume without a device for each logical partition.
LogicalVolume(disk, sector, i) ==
  LET code == Bootcode(sector)
  IN  [ DeviceHandle     |-> NULL,
        VolName          |-> "Partition " \o ToString(i + 4),
        VolNumber        |-> 0,
        DiskKind         |-> disk.DiskKind,
        IsAppleLegacy    |-> FALSE,
        HasBootCode      |-> code.HasBootCode /\ code.Bootable,
        OSName           |-> code.OSName,
        BlockIO          |-> disk.BlockIO,
        BlockIOOffset    |-> i,
        WholeDiskBlockIO |-> disk.BlockIO,
        IsReadable       |-> FALSE ]

-----------------------------------------------------------------------------
(* ScanVolumes(): the readable volumes are numbered from 0; the logical    *)
(* partitions of the whole disks come after all devices.                   *)

Numbered(vs) ==
  [i \in DOMAIN vs |->
     IF vs[i].IsReadable
     THEN [vs[i] EXCEPT !.VolNumber = Len(SelectSeq(SubSeq(vs, 1, i - 1),
                                                    LAMBDA v : v.IsReadable))]
     ELSE vs[i]]

\* A partition that is found in the table of its disk has at least that name.
InTable(devices, vs) ==
  [i \in DOMAIN vs |->
     IF /\ vs[i].VolName = NULL /\ devices[i].part # 0
        /\ vs[i].WholeDiskBlockIO # vs[i].BlockIO
        /\ \E j \in DOMAIN vs : /\ vs[j].BlockIO # NULL /\ vs[j].BlockIO = vs[i].WholeDiskBlockIO
                               /\ "table" \in devices[j].sector
     THEN [vs[i] EXCEPT !.VolName = "Partition " \o ToString(devices[i].part)]
     ELSE vs[i]]

Logicals(devices, vs) ==
  FlattenSeq([i \in DOMAIN vs |->
    IF vs[i].BlockIO # NULL /\ vs[i].BlockIO = vs[i].WholeDiskBlockIO
       /\ "table" \in devices[i].sector
    THEN [j \in DOMAIN devices[i].logical |->
            LogicalVolume(vs[i], devices[i].logical[j], j)]
    ELSE <<>>])

ScanVolumes(devices) ==
  LET blocksize == [h \in {devices[i].handle : i \in DOMAIN devices} \cup {NULL} |->
                      IF h = NULL THEN 0
                      ELSE LET i == CHOOSE i \in DOMAIN devices : devices[i].handle = h
                           IN  devices[i].blocksize]
      vs == Numbered([i \in DOMAIN devices |-> ScanVolume(devices[i], blocksize)])
  IN  InTable(devices, vs) \o Logicals(devices, vs)
=============================================================================
