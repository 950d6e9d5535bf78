------------------------------- MODULE MCScan -------------------------------
(***************************************************************************)
(* A few machines: disks with loaders of every kind, and configurations    *)
(* that exclude, add and describe them.                                    *)
(***************************************************************************)
EXTENDS Scan, TLC

\* Names and what they match. Every other name matches nothing.
Matching ==
  "refind.efi" :> {"*.efi"} @@ "grub.efi" :> {"*.efi", "grub"} @@ "elilo.efi" :> {"*.efi", "elilo"}
  @@ "boot.efi" :> {"*.efi"} @@ "xom.efi" :> {"*.efi"} @@ "bootmgfw.efi" :> {"*.efi"}
  @@ "bootx64.efi" :> {"*.efi"} @@ "shell.efi" :> {"*.efi", "shell"} @@ ".old.efi" :> {"*.efi", ".*"}
  @@ "MokManager.efi" :> {"*.efi"} @@ "gptsync.efi" :> {"*.efi"} @@ "os.efi" :> {"*.efi"}
  @@ "vmlinuz-3" :> {"vmlinuz*", "vmlinuz"} @@ "vmlinuz-4.efi" :> {"*.efi", "vmlinuz*", "vmlinuz"}
  @@ "bzimage" :> {"bzimage*", "bzimage"} @@ "init-3" :> {"init*"} @@ "init-4" :> {"init*"}
  @@ "init" :> {"init*"}

Plain == {"EFI", "boot", "tools", "refind", "Linux", "grub", "Microsoft", "System", "Library",
          "CoreServices", ".diagnostics", "diags.efi", "com.apple.recovery.boot",
          "refind_linux.conf", "refind-linux.conf", "shellx64.efi", "fedora", "nemo.efi",
          "TextMode.efi", "shim.efi", "ebounce.efi", "GraphicsConsole.efi", "extra"}

MCTraits  == [n \in DOMAIN Matching \cup Plain |-> IF n \in Plain THEN {} ELSE Matching[n]]
MCNumbers == "vmlinuz-3" :> "3" @@ "vmlinuz-4.efi" :> "4" @@ "init-3" :> "3" @@ "init-4" :> "4"
MCText    ==
  "plain" :> << <<"Normal", "ro">>, <<"Single", "ro single">>, <<"none">>, <<"Never", "ro">> >>
  @@ "named" :> << <<"Named", "ro initrd=init">> >>
MCWords   ==
  "ro single" :> << <<"ro">>, <<"single">> >>
  @@ "ro initrd=init" :> << <<"ro">>, <<"initrd=", "boot", "init">> >>
MCPathSpec ==
  "EFI/grub" :> [vol |-> NULL, path |-> <<"EFI", "grub">>]
  @@ "Root:boot" :> [vol |-> "Root", path |-> <<"boot">>]
  @@ "fs0:EFI/Linux" :> [vol |-> "fs0", path |-> <<"EFI", "Linux">>]
  @@ "/boot/vmlinuz-4.efi" :> [vol |-> NULL, path |-> <<"boot", "vmlinuz-4.efi">>]
  @@ "/EFI/grub/grub.efi" :> [vol |-> NULL, path |-> <<"EFI", "grub", "grub.efi">>]
  @@ "/boot/init" :> [vol |-> NULL, path |-> <<"boot", "init">>]
MCRooted  == {"/boot/vmlinuz-4.efi", "/EFI/grub/grub.efi"}
MCAtoi    == "0" :> 0 @@ "5" :> 5 @@ "800" :> 800
Letters_  ==
  "scanfor" :> "s" @@ "internal" :> "i" @@ "external" :> "e" @@ "optical" :> "o" @@ "manual" :> "m"
  @@ "hdbios" :> "h" @@ "biosexternal" :> "b" @@ "cd" :> "c" @@ "Windows" :> "w" @@ "Linux" :> "l"
  @@ "about" :> "a" @@ "exit" :> "e" @@ "reboot" :> "r" @@ "EFI" :> "e" @@ "boot" :> "b"
  @@ "grub" :> "g" @@ "CoreServices" :> "c" @@ "extra" :> "e" @@ "refind" :> "r"
MCInitial  == Letters_
MCLetter   == "MacOS" :> "M" @@ "Linux" :> "L"
MCVolIndex == "0:" :> 0 @@ "1:" :> 1 @@ "9:" :> 9
MCSelfDirPath == <<"EFI", "refind">>
MCFsNumber == "fs0" :> 0 @@ "fs1" :> 1

-----------------------------------------------------------------------------
\* Disks.

Time(month, day) == <<2012, month, day, 12, 0, 0>>

F(name, time, data) == [name |-> name, dir |-> FALSE, time |-> time, data |-> data]
D(name)             == [name |-> name, dir |-> TRUE, time |-> Time(1, 1), data |-> NULL]

Device(handle, path, whole) ==
  [ handle |-> handle, blocksize |-> 512, path |-> path, whole |-> whole, sector |-> {},
    logical |-> <<>>, part |-> 0, fs |-> NULL, label |-> "", size |-> 1073741824 ]

Boots == {"aa55", "code"}

Disk0 == [Device("disk0", <<"pci", "sata">>, "disk0")
            EXCEPT !.sector = Boots \cup {"table"}, !.logical = << {"BOOTMGR", "aa55", "code"}, {} >>]

Esp ==
  [Device("esp", <<"pci", "sata", "hd">>, "disk0") EXCEPT !.part = 1, !.label = "ESP", !.fs =
     <<>> :> <<D("EFI"), F("os.efi", Time(2, 1), "o1"), F(".old.efi", Time(3, 1), "o0")>>
     @@ <<"EFI">> :> <<D("refind"), D("boot"), D("tools"), D("grub"), D("Linux")>>
     @@ <<"EFI", "refind">> :> <<F("refind.efi", Time(9, 1), "r1"), F("MokManager.efi", Time(9, 1), "k1")>>
     @@ <<"EFI", "boot">> :> <<F("bootx64.efi", Time(1, 2), "g1")>>
     @@ <<"EFI", "tools">> :> <<F("shell.efi", Time(1, 3), "s1"), F("gptsync.efi", Time(1, 3), "p1")>>
     @@ <<"EFI", "Linux">> :> <<F("bzimage", Time(5, 5), "b1"), F("init", Time(1, 1), "i1")>>
     @@ <<"EFI", "grub">> :> <<F("elilo.efi", Time(1, 31), "e1"), F("shell.efi", Time(4, 1), "s1"),
                                F("grub.efi", Time(3, 1), "g1")>>]

Root(conf) ==
  [Device("root", <<"pci", "sata", "hd">>, "disk0") EXCEPT !.part = 2, !.label = "Root",
     !.sector = {"ext4", "aa55"}, !.fs =
     <<>> :> <<D("boot"), D("extra")>>
     @@ <<"extra">> :> <<F("os.efi", Time(1, 1), "o2")>>
     @@ <<"boot">> :> <<F("init-3", Time(1, 1), "i3"), F("vmlinuz-3", Time(1, 1), "v3"),
                        F("init", Time(1, 1), "i0"), F("init-4", Time(1, 1), "i4"),
                        F("vmlinuz-4.efi", Time(6, 1), "v4"),
                        F("refind_linux.conf", Time(1, 1), conf)>>]

\* A Mac volume, and the legacy device of Apple's firmware for its disk.
Mac ==
  [Device("mac", <<"pci", "sata", "hd">>, "disk1") EXCEPT !.label = "HFS+ volume", !.sector = {"HFS+"},
     !.fs =
     <<>> :> <<D("System"), D("com.apple.recovery.boot")>>
     @@ <<"com.apple.recovery.boot">> :> <<F("boot.efi", Time(1, 1), "m2")>>
     @@ CORE_SERVICES :> <<F("boot.efi", Time(1, 1), "m1"), F("xom.efi", Time(1, 1), "x1")>>
     @@ Front(DIAGS) :> <<F("diags.efi", Time(1, 1), "d1")>>]

MacDisk == [Device("disk1", <<"pci", "sata">>, "disk1") EXCEPT !.sector = {"aa55"}]
Apple   == Device("apple", <<"pci", "sata", "vendor">>, "disk1")

Stick ==
  [Device("stick", <<"pci", "usb">>, "stick") EXCEPT !.label = "STICK", !.sector = Boots \cup {"SYSLINUX"},
     !.fs =
     <<>> :> <<D("EFI"), D("boot")>>
     @@ <<"EFI">> :> <<D("boot"), D("Microsoft")>>
     @@ <<"EFI", "boot">> :> <<F("bootx64.efi", Time(1, 1), "w1"), F("grub.efi", Time(1, 1), "g2")>>
     @@ <<"EFI", "Microsoft">> :> <<D("boot")>>
     @@ MICROSOFT :> <<F("bootmgfw.efi", Time(1, 1), "w1")>>
     @@ <<"boot">> :> <<F("os.efi", Time(1, 1), "w1")>>]

Cd ==
  [Device("cd", <<"pci", "atapi", "cdrom">>, "cd") EXCEPT !.blocksize = 2048, !.sector = {"ISOLINUX"},
     !.size = NULL, !.fs =
     <<>> :> <<D("EFI")>> @@ <<"EFI">> :> <<D("boot")>>
     @@ <<"EFI", "boot">> :> <<F("bootx64.efi", Time(1, 1), "c1")>>]

-----------------------------------------------------------------------------
\* Configurations.

None_ == [n \in {} |-> <<>>]
Plain_ == CONFIG_FILE_NAME :> << <<"timeout", "5">>, <<"scan_all_linux_kernels">> >>

Everything ==
  CONFIG_FILE_NAME :>
    << <<"scanfor", "internal", "hdbios", "external", "biosexternal", "optical", "cd", "manual">>,
       <<"menuentry", "One">>, <<"volume", "Root">>, <<"loader", "/boot/vmlinuz-4.efi">>,
       <<"options", "ro single">>, <<"initrd", "/boot/init">>, <<"}">>,
       <<"menuentry", "Two", "{">>, <<"options", "ro">>, <<"loader", "/EFI/grub/grub.efi">>,
       <<"submenuentry", "Sub", "{">>, <<"add_options", "ro single">>, <<"options">>, <<"disabled">>, <<"}">>,
       <<"submenuentry", "Other">>, <<"volume", "1:">>, <<"graphics", "on">>, <<"initrd">>, <<"}">>,
       <<"volume", "9:">>, <<"}">>,
       <<"include", "more.conf">>, <<"hideui", "safemode", "hwtest">>,
       <<"showtools", "shell", "gptsync", "mok_tool", "apple_recovery", "about", "exit">>,
       <<"menuentry", "Three">>, <<"loader", "os.efi">>, <<"disabled">> >>
  @@ "more.conf" :>
    << <<"menuentry", "Four">>, <<"ostype", "MacOS">>, <<"}">>, <<"dont_scan_files", "os.efi">> >>

Excluding ==
  CONFIG_FILE_NAME :>
    << <<"dont_scan_dirs", "EFI/grub", "fs0:EFI/Linux">>, <<"dont_scan_files", "boot.efi", "grub.efi">>,
       <<"also_scan_dirs", "Root:boot", "extra">>, <<"scan_all_linux_kernels">> >>

Volume_ ==
  CONFIG_FILE_NAME :>
    << <<"also_scan_dirs", "extra">>, <<"dont_scan_volumes", "STICK", "Root">>, <<"scan_all_linux_kernels", "0">>,
       <<"use_graphics_for", "linux", "grub">>, <<"resolution", "800">> >>

\* null: the text at address 0.
World(devices, conf, null) ==
  [ devices |-> devices, conf |-> conf, null |-> null,
    bootorder |-> << [kind |-> "internal", type |-> "BIOS", description |-> "Hard disk"],
                     [kind |-> "internal", type |-> "EFI", description |-> "Manager"],
                     [kind |-> "external", type |-> "BIOS", description |-> "Stick"] >> ]

MCWorlds ==
  << World(<<Disk0, Esp, Root("plain")>>, None_, ""),
     World(<<Disk0, Esp, Root("plain"), Stick, Cd>>, Plain_, "4"),
     World(<<Disk0, Esp, Root("named"), MacDisk, Mac, Apple, Stick, Cd>>, Everything, "3"),
     World(<<Esp, Disk0, Root("plain"), Stick, MacDisk, Mac, Apple>>, Excluding, "4"),
     World(<<Root("plain"), [Esp EXCEPT !.label = "BOOT"], Disk0, Stick, Cd>>, Volume_, "") >>

-----------------------------------------------------------------------------
\* Texts and paths. Characters of the texts: a b e-acute, and those that matter.

Texts_ == INSTANCE Texts WITH
  Values     <- {<<>>, <<97>>, <<97, 32, 98>>, <<34>>, <<97, 34, 34>>, <<47, 233>>,
                 <<97, 35>>, <<44>>, <<61, 97>>},
  Separators <- {<<32>>, <<44, 32>>, <<9, 61>>},
  Ends       <- {<<10>>, <<32, 13, 10>>, <<35, 34, 10>>},
  Fillers    <- {<<>>, <<10, 32, 35, 97, 13, 10>>},
  NameChars  <- {"a", "b"},
  MaxLength  <- 4,
  MaxCount   <- 20

\* Every way refind.conf can be written - quotes, separators, comments, ends of
\* line, encodings - is read as the tokens that were written (ReadTokenLine());
\* the paths, lists and names of volumes among them are taken apart into what
\* they were put together from (CleanUpPathNameSlashes() and those that cut its
\* results).
TextsRead == phase = "off" => Texts_!WrittenIsRead /\ Texts_!Sound

-----------------------------------------------------------------------------
\* Pictures. Sides of 2, 3, 1 and 4 pixels stand for 128, 48, 32 and 16; lines
\* of BMP files of 1 to 9 pixels fill their last byte, and the last four, to
\* every extent.

Images_ == INSTANCE Images WITH Sides <- <<2, 3, 1, 4>>, Values <- {7, 200}, MaxWidth <- 9

\* A picture shows what was stored, in every format and compression, no reader
\* writes past it, and an entry gets the best icon there is (egDecodeAny(),
\* egPrepareEmbeddedImage(), egFindIcon(), LoadOSIcon()).
PicturesRight == phase = "off" => Images_!Sound
=============================================================================
