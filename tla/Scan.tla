-------------------------------- MODULE Scan --------------------------------
(***************************************************************************)
(* How rEFInd fills its main menu (refind/main.c): it reads refind.conf,   *)
(* describes the volumes, and adds the entries of what each letter of      *)
(* ScanFor asks for, then the tools; Escape does it all again. Between two *)
(* scans the user may change the disks, the files on them and refind.conf. *)
(***************************************************************************)
EXTENDS Loaders, FiniteSets

CONSTANTS
  Worlds,       \* the disks and the configurations there can be, in a sequence
  SelfHandle,   \* the device rEFInd was loaded from
  SelfDirPath,  \* its directory there
  FsNumber      \* "fs0", "fs1", ... as volume names, and their numbers

\* An entry of a directory. A time is the year, month, day, hour, minute and second.
File == [name : STRING, dir : BOOLEAN, time : Seq(Nat), data : STRING \cup {NULL}]

\* Disks have directories in which no two entries have the same name; refind.conf
\* and the options files are lines of tokens, none without one; options are words.
ASSUME WorldsAssumption ==
  /\ SelfDirPath \in Seq(STRING)
  /\ \A t \in DOMAIN Text : Text[t] \in Seq(Seq(STRING) \ {<<>>})
  /\ \A t \in DOMAIN Words : Words[t] \in Seq(Seq(STRING))
  /\ NULL # "L"
  /\ \A t \in DOMAIN PathSpec : PathSpec[t].path \in Seq(STRING)
  /\ \A w \in ToSet(Worlds) :
       /\ \A name \in DOMAIN w.conf : w.conf[name] \in Seq(Seq(STRING) \ {<<>>})
       /\ w.bootorder \in Seq(ToSet(w.bootorder))
       /\ w.devices \in Seq(ToSet(w.devices))
       /\ \A d \in ToSet(w.devices) :
            /\ d.path \in Seq(STRING) /\ d.logical \in Seq(SUBSET STRING)
            /\ d.fs # NULL => \A dir \in DOMAIN d.fs :
                 /\ d.fs[dir] \in Seq(File)
                 /\ \A e, f \in ToSet(d.fs[dir]) : e.name = f.name => e = f

VARIABLES
  phase,        \* "off", "config", "loaders", "tools" or "ready"
  turn,         \* the index in ScanFor, when phase = "loaders"
  Volumes,
  SelfVolume,
  MainMenu,     \* its entries
  LegacyType

scanVars == <<world, GlobalConfig, phase, turn, Volumes, SelfVolume, MainMenu, LegacyType>>

V == INSTANCE Volumes

NUM_SHORTCUTS == 9

-----------------------------------------------------------------------------
(* The loaders of a directory.                                             *)

\* TimeComp(): months count as 31 days, so the parts compare one by one.
Older(t1, t2) ==
  \E k \in DOMAIN t1 : t1[k] < t2[k] /\ \A j \in 1 .. k - 1 : t1[j] = t2[j]

\* AddLoaderListEntry(): before the first that is not newer.
AddLoaderListEntry(list, e) ==
  LET newer == CHOOSE n \in 0 .. Len(list) :
                 /\ \A k \in 1 .. n : Older(e.time, list[k].time)
                 /\ n = Len(list) \/ ~ Older(e.time, list[n + 1].time)
  IN  InsertAt(list, newer + 1, e)

OnSelf(v) == v.DeviceHandle = SelfHandle

\* An element of a list of directories that is about path on volume v.
Concerns(element, v, path) ==
  /\ element.path = path
  /\ \/ element.vol = NULL \/ element.vol = v.VolName
     \/ element.vol \in DOMAIN FsNumber /\ FsNumber[element.vol] = v.VolNumber

\* (faulty variant: only dont_scan_dirs keeps rEFInd from its own directory)
ShouldScanSelf(v, path) ==
  /\ v.VolName \notin ToSet(GlobalConfig.DontScanVolumes)
  /\ \A n \in DOMAIN GlobalConfig.DontScanDirs : ~ Concerns(GlobalConfig.DontScanDirs[n], v, path)

\* The test of ScanLoaderDir() for rEFInd's own directory. For the root of a
\* volume that is "", and the path it is compared with is "\\".
OwnDirectory(v, path) == path = SelfDirPath /\ path # <<>> /\ OnSelf(v)

\* That test and ShouldScan().
ShouldScan(v, path) ==
  /\ ~ OwnDirectory(v, path)
  /\ v.VolName \notin ToSet(GlobalConfig.DontScanVolumes)
  /\ \A n \in DOMAIN GlobalConfig.DontScanDirs : ~ Concerns(GlobalConfig.DontScanDirs[n], v, path)

\* IsIn(), for a path in a list of directories or files.
InList(path, list) == [vol |-> NULL, path |-> path] \in ToSet(list)

FALLBACK_FULLNAME == <<"EFI", "boot", "bootx64.efi">>

\* (faulty variant: what the two files hold is not compared)
DuplicatesFallbackAny(v, path) ==
  /\ path # FALLBACK_FULLNAME
  /\ FileExists(v, path) /\ FileExists(v, FALLBACK_FULLNAME)

DuplicatesFallback(v, path) ==
  /\ path # FALLBACK_FULLNAME
  /\ FileExists(v, path) /\ FileExists(v, FALLBACK_FULLNAME)
  /\ Data(v, path) = Data(v, FALLBACK_FULLNAME)

MatchPatterns == {"*.efi"} \cup IF GlobalConfig.ScanAllLinux THEN {"vmlinuz*", "bzimage*"} ELSE {}

Skipped(path) ==
  \/ Is(Last(path), {".*", "*.icns", "*.png", "shell"})
  \/ path = FALLBACK_FULLNAME
  \/ InList(<<Last(path)>>, GlobalConfig.DontScanFiles)

\* ScanLoaderDir(): the paths it adds, newest first.
ScanLoaderDir(v, path) ==
  LET files == Where(FilesIn(v, path, MatchPatterns), LAMBDA e : ~ Skipped(Append(path, e.name)))
      list[n \in 0 .. Len(files)] ==
        IF n = 0 THEN <<>> ELSE AddLoaderListEntry(list[n - 1], files[n])
      newest == list[Len(files)]
  IN  IF ShouldScan(v, path)
      THEN [n \in DOMAIN newest |-> Append(path, newest[n].name)] ELSE <<>>

-----------------------------------------------------------------------------
(* ScanEfiFiles(): what it adds for a volume, in order.                    *)

CORE_SERVICES == <<"System", "Library", "CoreServices">>
MICROSOFT     == <<"EFI", "Microsoft", "boot">>

Known ==
  << [dir |-> CORE_SERVICES, file |-> "boot.efi", tests |-> "boot.efi", title |-> "Mac OS X"],
     [dir |-> CORE_SERVICES, file |-> "xom.efi", tests |-> "boot.efi", title |-> "Windows XP (XoM)"],
     [dir |-> MICROSOFT, file |-> "bootmgfw.efi", tests |-> "bootmgfw.efi",
      title |-> "Microsoft EFI boot"] >>

KnownLoaders(v) ==
  Where(Known, LAMBDA k : /\ FileExists(v, Append(k.dir, k.file))
                          /\ ~ InList(k.dir, GlobalConfig.DontScanDirs)
                          /\ ~ InList(<<k.tests>>, GlobalConfig.DontScanFiles))

EfiDirs(v) ==
  LET dirs == Where(DirsIn(v, <<"EFI">>), LAMBDA e : e.name # "tools" /\ ~ Is(e.name, {".*"}))
  IN  [n \in DOMAIN dirs |-> <<"EFI", dirs[n].name>>]

AlsoDirs(v) ==
  LET wanted == Where(GlobalConfig.AlsoScan, LAMBDA a : Concerns(a, v, a.path))
  IN  [n \in DOMAIN wanted |-> wanted[n].path]

\* The fallback loader is listed unless it is rEFInd or a copy of a listed one.
FallbackEntry(v, paths) ==
  IF /\ FileExists(v, FALLBACK_FULLNAME)
     /\ ~ (SelfDirPath = <<"EFI", "boot">> /\ OnSelf(v))
     /\ \A n \in DOMAIN paths : ~ DuplicatesFallback(v, paths[n])
  THEN <<LoaderEntry(FALLBACK_FULLNAME, "Fallback boot loader", v)>> ELSE <<>>

ScanEfiFiles(v) ==
  LET InDirs(dirs) == FlattenSeq([n \in DOMAIN dirs |-> ScanLoaderDir(v, dirs[n])])
      Titled(known)  == [n \in DOMAIN known |-> <<Append(known[n].dir, known[n].file), known[n].title>>]
      All(found) ==
        [n \in DOMAIN found |-> LoaderEntry(found[n][1], found[n][2], v)]
        \o FallbackEntry(v, [n \in DOMAIN found |-> found[n][1]])
      paths == InDirs(<<<<>>>> \o EfiDirs(v) \o AlsoDirs(v))
  IN  IF ~ v.IsReadable THEN <<>>
      ELSE All(Titled(KnownLoaders(v)) \o [n \in DOMAIN paths |-> <<paths[n], NULL>>])

\* ScanInternal(), ScanExternal(), ScanOptical().
ScanKind(kind) ==
  LET vs == Where(Volumes, LAMBDA v : v.DiskKind = kind)
  IN  FlattenSeq([n \in DOMAIN vs |-> ScanEfiFiles(vs[n])])

-----------------------------------------------------------------------------
(* Systems booted through the BIOS.                                        *)

MediaOption(kind) ==
  CASE kind = "optical" -> "CD" [] kind = "external" -> "USB" [] OTHER -> "HD"

LegacySubScreen(e) == << [e EXCEPT !.VolTitle = NULL, !.ShortcutLetter = NULL], MenuEntryReturn >>

AddLegacyEntry(v) ==
  LET title == IF v.OSName = NULL THEN "Legacy OS" ELSE v.OSName
      desc == IF v.VolName # NULL THEN v.VolName
              ELSE IF v.DiskKind = "optical" THEN "CD" ELSE "HD"
      e == [NewEntry EXCEPT !.Tag = "legacy", !.Title = <<title>>, !.VolTitle = desc,
                            !.ShortcutLetter = IF title \in {"Windows", "Linux"}
                                               THEN Initial[title] ELSE NULL,
                            !.LoadOptions = << W(MediaOption(v.DiskKind)) >>, !.Volume = v]
  IN  [e EXCEPT !.SubScreen = LegacySubScreen(e)]

\* A boot option of the firmware: [kind, type, description].
AddLegacyEntryUEFI(option) ==
  LET e == [NewEntry EXCEPT !.Tag = "legacy_uefi", !.Title = <<option.description>>,
                            !.LoadOptions = << W(MediaOption(option.kind)) >>]
  IN  [e EXCEPT !.SubScreen = LegacySubScreen([e EXCEPT !.LoadOptions = <<>>])]

ScanLegacyUEFI(kind) ==
  LET found == Where(world.bootorder, LAMBDA o : o.kind = kind /\ o.type = "BIOS")
  IN  [n \in DOMAIN found |-> AddLegacyEntryUEFI(found[n])]

OthersOnDisk(n) ==
  {k \in DOMAIN Volumes \ {n} : /\ Volumes[k].HasBootCode
                                /\ Volumes[k].WholeDiskBlockIO = Volumes[n].WholeDiskBlockIO}

\* ScanLegacyVolume(): a whole disk that names no system gives way to others.
ShowsVolume(n) ==
  LET v == Volumes[n]
      whole == v.BlockIO = v.WholeDiskBlockIO /\ v.BlockIOOffset = 0 /\ v.OSName = NULL
  IN  /\ v.IsAppleLegacy \/ v.HasBootCode
      /\ v.IsAppleLegacy \/ whole => OthersOnDisk(n) = {}

ScanLegacy(kind) ==
  CASE LegacyType = "MAC" ->
         FlattenSeq([n \in DOMAIN Volumes |->
           IF Volumes[n].DiskKind = kind /\ ShowsVolume(n)
           THEN <<AddLegacyEntry(Volumes[n])>> ELSE <<>>])
    [] LegacyType = "UEFI" -> ScanLegacyUEFI(kind)
    [] OTHER -> <<>>

-----------------------------------------------------------------------------
(* ScanForTools().                                                         *)

SHELL_NAMES == << <<"EFI", "tools", "shell.efi">>, <<"EFI", "tools", "shellx64.efi">>,
                  <<"shellx64.efi">> >>
MOK_NAMES   == << <<"EFI", "tools", "MokManager.efi">>, <<"EFI", "fedora", "MokManager.efi">> >>
GPTSYNC     == <<"EFI", "tools", "gptsync.efi">>
RECOVERY    == <<"com.apple.recovery.boot", "boot.efi">>

AddToolEntry(v, path, title, letter, graphics) ==
  [NewEntry EXCEPT !.Tag = "tool", !.Title = <<title>>, !.Row = 1, !.ShortcutLetter = letter,
                   !.LoaderPath = path, !.DevicePath = FileDevicePath(v, path),
                   !.UseGraphicsMode = graphics]

\* The tools of these paths that are on rEFInd's volume.
OwnTools(paths, title, letter) ==
  LET there == Where(paths, LAMBDA p : FileExists(SelfVolume, p))
  IN  [n \in DOMAIN there |-> AddToolEntry(SelfVolume, there[n], title, letter, FALSE)]

\* CopyMenuEntry() of an entry that is built in.
BuiltIn(tag) ==
  [NewEntry EXCEPT !.Tag = tag, !.Title = <<tag>>, !.Row = 1,
                   !.ShortcutLetter = IF tag = "shutdown" THEN "u" ELSE Initial[tag]]

ToolEntries(tool) ==
  LET bootable == Where(Volumes, LAMBDA v : v.IsReadable /\ FileExists(v, RECOVERY))
  IN  CASE tool \in {"about", "exit", "reboot", "shutdown"} -> <<BuiltIn(tool)>>
        [] tool = "shell"    -> OwnTools(SHELL_NAMES, "EFI Shell", "s")
        [] tool = "gptsync"  -> OwnTools(<<GPTSYNC>>, "Make Hybrid MBR", "p")
        [] tool = "mok_tool" -> OwnTools(Append(MOK_NAMES, Append(SelfDirPath, "MokManager.efi")),
                                         "MOK Key Manager", "s")
        [] tool = "apple_recovery" ->
             [n \in DOMAIN bootable |->
                AddToolEntry(bootable[n], RECOVERY, "Apple Recovery", "r", TRUE)]
        [] OTHER -> <<>>

-----------------------------------------------------------------------------
(* The program.                                                            *)

ScanVolumes ==
  LET Self(self) == IF self = <<>> THEN SelfVolume ELSE self[1]
  IN  \E vs \in {V!ScanVolumes(world.devices)} :
        /\ Volumes' = vs
        /\ SelfVolume' = Self(Where(vs, LAMBDA v : v.DeviceHandle = SelfHandle))

ScanInit ==
  /\ world \in ToSet(Worlds) /\ GlobalConfig = GlobalConfig0
  /\ phase = "off" /\ turn = 0 /\ Volumes = <<>> /\ SelfVolume = NULL /\ MainMenu = <<>>
  /\ LegacyType = "NONE"

Letters(s) == [n \in 1 .. NUM_SCAN_OPTIONS |-> IF n <= Len(s) THEN s[n] ELSE " "]

\* The legacy support there is: Apple's, whatever else there may be.
FindLegacyBootType(apple, csm) == IF apple THEN "MAC" ELSE IF csm THEN "UEFI" ELSE "NONE"

\* efi_main() up to ReadConfig(). apple, csm: what the firmware is.
Start(apple, csm) ==
  /\ phase = "off"
  /\ LegacyType' = FindLegacyBootType(apple, csm)
  /\ GlobalConfig' = [GlobalConfig EXCEPT
                         !.ScanFor = Letters(IF apple THEN <<"i", "h", "e", "b", "o", "c", "m">>
                                             ELSE <<"i", "e", "o", "m">>)]
  /\ ScanVolumes
  /\ phase' = "config"
  /\ UNCHANGED <<world, turn, MainMenu>>

SelfElement == [vol |-> SelfVolume.VolName, path |-> SelfDirPath]

\* ReadConfig(); then ScanForBootloaders() scans the volumes again.
Configure ==
  /\ phase = "config"
  /\ GlobalConfig' = ReadConfig(GlobalConfig, world.conf, SelfElement)
  /\ ScanVolumes
  /\ phase' = "loaders" /\ turn' = 1
  /\ UNCHANGED <<world, MainMenu, LegacyType>>

ThisLetter == GlobalConfig.ScanFor[turn]

\* One letter of ScanFor.
ScanOption(letters, entries) ==
  /\ phase = "loaders" /\ turn <= NUM_SCAN_OPTIONS /\ ThisLetter \in letters
  /\ MainMenu' = MainMenu \o entries
  /\ turn' = turn + 1
  /\ UNCHANGED <<world, GlobalConfig, phase, Volumes, SelfVolume, LegacyType>>

ScanLegacyDisc      == ScanOption({"c"}, ScanLegacy("optical"))
ScanLegacyInternal  == ScanOption({"h"}, ScanLegacy("internal"))
ScanLegacyExternal  == ScanOption({"b"}, ScanLegacy("external"))
ScanConfigured      == ScanOption({"m"}, ScanUserConfigured(world.conf, Volumes, SelfVolume))
ScanExternal        == ScanOption({"e"}, ScanKind("external"))
ScanInternal        == ScanOption({"i"}, ScanKind("internal"))
ScanOptical         == ScanOption({"o"}, ScanKind("optical"))
ScanNothing         == ScanOption({ThisLetter} \ {"c", "h", "b", "m", "e", "i", "o"}, <<>>)

\* The end of ScanForBootloaders(): the keys of the first entries.
AssignShortcuts ==
  /\ phase = "loaders" /\ turn > NUM_SCAN_OPTIONS
  /\ MainMenu' = [n \in DOMAIN MainMenu |->
                    IF n <= NUM_SHORTCUTS THEN [MainMenu[n] EXCEPT !.ShortcutDigit = n]
                    ELSE MainMenu[n]]
  /\ phase' = "tools"
  /\ UNCHANGED <<world, GlobalConfig, turn, Volumes, SelfVolume, LegacyType>>

ScanForTools ==
  /\ phase = "tools"
  /\ MainMenu' = MainMenu \o FlattenSeq([n \in 1 .. NUM_TOOLS |->
                                           ToolEntries(GlobalConfig.ShowTools[n])])
  /\ phase' = "ready"
  /\ UNCHANGED <<world, GlobalConfig, turn, Volumes, SelfVolume, LegacyType>>

\* RescanAll(), up to ReadConfig(). The user may have changed the disks and
\* refind.conf before.
RescanAll ==
  /\ phase = "ready"
  /\ world' \in ToSet(Worlds)
  /\ MainMenu' = <<>>
  /\ phase' = "config" /\ turn' = 0
  /\ UNCHANGED <<GlobalConfig, Volumes, SelfVolume, LegacyType>>

ScanNext ==
  \/ \E apple, csm \in BOOLEAN : Start(apple, csm)
  \/ Configure
  \/ ScanLegacyDisc \/ ScanLegacyInternal \/ ScanLegacyExternal \/ ScanConfigured
  \/ ScanExternal \/ ScanInternal \/ ScanOptical \/ ScanNothing
  \/ AssignShortcuts \/ ScanForTools \/ RescanAll

ScanSpec == ScanInit /\ [][ScanNext]_scanVars
-----------------------------------------------------------------------------
(* Properties, of a menu that is ready.                                    *)

Conf == AllLines(world.conf)

\* The entries that refind.conf does not describe.
Automatic ==
  {n \in DOMAIN MainMenu :
     /\ MainMenu[n].Tag = "loader"
     /\ \A k \in DOMAIN Conf :
          Conf[k][1] = "menuentry" /\ Len(Conf[k]) > 1 => MainMenu[n].Title # <<Conf[k][2]>>}

\* The letters of ScanFor that ask for the loaders of this kind of disk.
LettersOf(kind) ==
  LET letter == CASE kind = "internal" -> "i" [] kind = "external" -> "e" [] OTHER -> "o"
  IN  {k \in 1 .. NUM_SCAN_OPTIONS : GlobalConfig.ScanFor[k] = letter}

LoaderDirs(v) == {<<>>} \cup ToSet(EfiDirs(v)) \cup ToSet(AlsoDirs(v))

Excluded(v, dir, name) ==
  \/ OwnDirectory(v, dir)
  \/ v.VolName \in ToSet(GlobalConfig.DontScanVolumes)
  \/ \E k \in DOMAIN GlobalConfig.DontScanDirs : Concerns(GlobalConfig.DontScanDirs[k], v, dir)
  \/ InList(<<name>>, GlobalConfig.DontScanFiles)
  \/ Is(name, {".*", "*.icns", "*.png", "shell"})

\* Entry e boots a file of volume v that holds data.
Offers(e, v, data) ==
  /\ e.Tag = "loader"
  /\ e.DevicePath = FileDevicePath(v, e.LoaderPath)
  /\ FileExists(v, e.LoaderPath) /\ Data(v, e.LoaderPath) = data

\* Every loader that is not excluded can be booted from the menu: by its own
\* entry, or by that of a file with the same content.
NoLoaderMissed ==
  phase = "ready" =>
    \A v \in ToSet(Volumes) :
      v.IsReadable /\ LettersOf(v.DiskKind) # {} =>
        \A dir \in LoaderDirs(v) : \A f \in ToSet(FilesIn(v, dir, MatchPatterns)) :
          ~ Excluded(v, dir, f.name) =>
            \E n \in DOMAIN MainMenu : Offers(MainMenu[n], v, f.data)

\* rEFInd never lists itself or another program of its directory, whatever
\* dont_scan_dirs and also_scan_dirs say.
NeverListsItself ==
  \A n \in Automatic :
    ~ (MainMenu[n].DevicePath.device = SelfHandle /\ Front(MainMenu[n].LoaderPath) = SelfDirPath)

InitrdWords(options) == Where(options, LAMBDA w : w[1] = "initrd=")

\* The RAM disks of a kernel's directory.
RamDisks(v, path) == FilesIn(v, Front(path), {"init*"})

\* Those with the kernel's version.
SameVersion(v, path) ==
  {n \in DOMAIN RamDisks(v, path) : Version(RamDisks(v, path)[n].name) = Version(Last(path))}

\* Those without a version that come before them, for a kernel that has one: what
\* they are compared with is read through a null pointer.
NullCompared(v, path) ==
  {n \in DOMAIN RamDisks(v, path) :
     /\ Version(RamDisks(v, path)[n].name) = NULL /\ Version(Last(path)) # NULL
     /\ \A k \in SameVersion(v, path) : n < k}

\* The RAM disks in the options of a kernel are those that a line of its options
\* file names; or one of these disks, and none only if none has its version.
WithDisk(options, v, path, disks) ==
  LET words == InitrdWords(options)
  IN  \/ words # <<>> /\ \E l \in ToSet(ReadLinuxOptionsFile(v, path)) :
                            Len(l) > 1 /\ words = InitrdWords(Options(l[2]))
      \/ \E n \in disks :
           words = << <<"initrd=">> \o Append(Front(path), RamDisks(v, path)[n].name) >>
      \/ words = <<>> /\ SameVersion(v, path) = {}

RightInitrd(options, v, path) ==
  WithDisk(options, v, path, SameVersion(v, path) \cup NullCompared(v, path))

\* What an entry and those of its submenu boot.
Booting(e) == {e} \cup ToSet(Where(e.SubScreen, LAMBDA x : x.Tag = "loader"))

\* Every kernel that is found is booted with the RAM disks its options file names
\* or with one of its own version, with none only if there is none; from its
\* submenu, too (FindInitrd(), AddInitrdToOptions(), GenerateSubScreen()). The one
\* exception is a disk without a version in front of those with the kernel's:
\* whether that is taken is for the memory at address 0 to say (main.c:336). In no
\* case does a kernel get the RAM disk of another version.
InitrdMatches ==
  \A n \in Automatic : \A v \in ToSet(Volumes) :
    MainMenu[n].OSType = "L" /\ v.DeviceHandle = MainMenu[n].DevicePath.device =>
      \A x \in Booting(MainMenu[n]) : RightInitrd(x.LoadOptions, v, MainMenu[n].LoaderPath)

\* The lists of directories, files and volumes, the lines of this refind.conf that
\* set one, and what such a line says.
ListKeys == DOMAIN ListSettings \cup {"dont_scan_volumes"}

List(gc, key) ==
  IF key = "dont_scan_volumes" THEN gc.DontScanVolumes ELSE gc[ListSettings[key]]

SaidOf(key) == {n \in DOMAIN Conf : Conf[n][1] = key}

Given(key, line) == IF key = "dont_scan_volumes" THEN Args(line) ELSE Elements(Args(line))

\* What a list is when refind.conf does not mention it. Two of them keep the value
\* they have.
Unsaid(key) ==
  CASE key = "also_scan_dirs"  -> ALSO_SCAN_DIRS
    [] key = "dont_scan_dirs"  -> <<SelfElement>>
    [] key = "dont_scan_files" -> DONT_SCAN_FILES
    [] OTHER                   -> List(GlobalConfig, key)

\* A dont_scan_volumes line sets AlsoScan as well: nothing is said here of
\* also_scan_dirs when one comes after its last line, or there is no such line.
Overridden(key) ==
  /\ key = "also_scan_dirs"
  /\ \E n \in SaidOf("dont_scan_volumes") : \A k \in SaidOf(key) : k < n

ReadsLists ==
  IF phase = "config"
  THEN \A key \in ListKeys :
         \/ Overridden(key)
         \/ List(GlobalConfig', key) =
              IF SaidOf(key) # {} THEN Given(key, Conf[Max(SaidOf(key))]) ELSE Unsaid(key)
  ELSE \A key \in ListKeys : List(GlobalConfig', key) = List(GlobalConfig, key)

\* ReadConfig() makes every list what the last line about it in this refind.conf
\* says, whatever earlier lines and an earlier refind.conf said; without a line the
\* first three are their defaults. No other step of the program touches a list, so
\* that all loaders of a menu are chosen by the same ones. (The two exceptions -
\* Overridden(), and the lists that keep an old value - go against the
\* documentation: AlsoScanIndependent and VolumesFresh.)
SettingsFresh == [][ReadsLists]_scanVars

\* "also_scan_dirs: adds the specified directory or directories to the directory
\* list ... The default value is boot" (docs/refind/configfile.html:248), whatever
\* dont_scan_volumes says. config.c:427 refutes it.
AlsoScanIndependent ==
  phase = "ready" =>
    GlobalConfig.AlsoScan =
      IF SaidOf("also_scan_dirs") # {}
      THEN Given("also_scan_dirs", Conf[Max(SaidOf("also_scan_dirs"))]) ELSE ALSO_SCAN_DIRS

\* "Partitions to omit from scans ... The default is an empty list"
\* (refind.conf-sample:198), also after Escape, which is to "immediately implement
\* changes to the configuration file" (NEWS.txt:500). config.c:347 refutes it.
VolumesFresh ==
  phase = "ready" /\ SaidOf("dont_scan_volumes") = {} => GlobalConfig.DontScanVolumes = <<>>

\* An entry of refind.conf boots what its lines say: the loader, on the volume
\* that was named before it, with the options given after it and the RAM disk.
Main == Lines(world.conf, CONFIG_FILE_NAME)

HowMany(n, m, keys) == Cardinality({k \in n .. m : Main[k][1] \in keys})

EndOf(n) ==
  CHOOSE m \in n + 1 .. Len(Main) + 1 :
    /\ \A k \in n + 1 .. m - 1 : HowMany(n, k, {"}"}) <= HowMany(n, k, {"submenuentry"})
    /\ m <= Len(Main) => HowMany(n, m, {"}"}) > HowMany(n, m, {"submenuentry"})

\* The lines of the stanza at n that are not in a submenu.
Own(n) ==
  {k \in n + 1 .. EndOf(n) - 1 :
     /\ HowMany(n, k, {"}"}) = HowMany(n, k, {"submenuentry"})
     /\ Main[k][1] # "}"}

\* The value that the last such line with this key gives, among those in lines.
Said(lines, key, default) ==
  LET there == {k \in lines : Main[k][1] = key /\ Len(Main[k]) > 1}
  IN  IF there = {} THEN default ELSE Main[CHOOSE k \in there : \A j \in there : j <= k][2]

\* Every "menuentry" of refind.conf is in the menu as it is written there - its
\* volume, loader, options and RAM disk - unless it is disabled; what belongs to
\* its submenus or to another stanza does not leak into it (AddStanzaEntries()).
AsConfigured ==
  phase = "ready" /\ "m" \in ToSet(GlobalConfig.ScanFor) =>
    \A n \in DOMAIN Main :
      LET own == Own(n)
          loader == {k \in own : Main[k][1] = "loader" /\ Len(Main[k]) > 1}
          last == CHOOSE k \in loader : \A j \in loader : j <= k
          Finds(k) == Main[k][1] = "volume" /\ FindVolume(Volumes, Main[k][2], NULL) # NULL
          volume == Said({k \in own : k < last /\ Finds(k)}, "volume", NULL)
          named == IF volume = NULL THEN SelfVolume ELSE FindVolume(Volumes, volume, SelfVolume)
          options == Said({k \in own : k > last}, "options", NULL)
          initrd == Said(own, "initrd", NULL)
          words == IF options = NULL THEN <<>> ELSE Options(options)
      IN  Main[n][1] = "menuentry" /\ Len(Main[n]) > 1 /\ HowMany(n, n, {"menuentry"}) = 1 /\ loader # {} =>
            IF \E k \in own : Main[k][1] = "disabled"
            THEN \A m \in DOMAIN MainMenu : MainMenu[m].Title # <<Main[n][2]>>
            ELSE \E m \in DOMAIN MainMenu :
                   /\ MainMenu[m].Title = <<Main[n][2]>>
                   /\ MainMenu[m].DevicePath = FileDevicePath(named, Element(Main[last][2]).path)
                   /\ MainMenu[m].LoadOptions =
                        IF initrd = NULL THEN words ELSE WithInitrd(words, Element(initrd).path)

=============================================================================
