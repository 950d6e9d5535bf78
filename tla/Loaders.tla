------------------------------ MODULE Loaders -------------------------------
(***************************************************************************)
(* Reading refind.conf (refind/config.c): what the lines of tokens do to   *)
(* GlobalConfig. A file is a sequence of lines, as ReadTokenLine() gives   *)
(* them; the first token of a line is its keyword. Then the entries of boot*)
(* loaders (refind/main.c): what rEFInd makes of the path of a loader - its*)
(* type, options, initial RAM disk and submenu.                            *)
(*                                                                         *)
(* A path is the sequence of its names, without the slash at its start. A  *)
(* directory is the sequence of its entries in the order the firmware      *)
(* lists them: [name, dir, time, data]. Names are compared without case,   *)
(* so each is written in one way. Options are a sequence of words; a word  *)
(* is a sequence of strings, so that one can hold a path.                  *)
(***************************************************************************)
EXTENDS Naturals, Sequences, SequencesExt

CONSTANTS
  NULL,
  Atoi,        \* the number a token spells; tokens it has not spell 0
  Initial,     \* the first letter of a token, in lower case
  PathSpec,    \* tokens with slashes or a colon: [vol, path] as
               \* SplitVolumeAndFilename() and CleanUpPathNameSlashes() give it
  Traits,      \* what patterns and substrings a name matches: "*.efi", "vmlinuz", ...
  Numbers,     \* the part of a name that FindNumbers() cuts out, where there is one
  Text,        \* the token lines of the options files, by content
  Words,       \* the words of a token that holds several
  Rooted,      \* tokens that start with a slash
  VolIndex,    \* tokens that name a volume by its number ("1:"), and the number
  Letter       \* the first letter of a token, as it is written

VARIABLES
  world,         \* [devices, conf, bootorder, null]: the disks, files and boot
                 \* options, and the text that a read through a null pointer finds
  GlobalConfig

\* The elements of a sequence that are in a set, in their order.
Select(s, wanted) ==
  LET kept[n \in 0 .. Len(s)] ==
        IF n = 0 THEN <<>> ELSE IF s[n] \in wanted THEN Append(kept[n - 1], s[n]) ELSE kept[n - 1]
  IN  kept[Len(s)]

Where(s, Test(_)) == Select(s, {x \in ToSet(s) : Test(x)})

-----------------------------------------------------------------------------
(* refind.conf.                                                            *)

CONFIG_FILE_NAME == "refind.conf"
NUM_TOOLS        == 11
NUM_SCAN_OPTIONS == 10
HIDEUI_FLAG_ALL  == {"banner", "label", "singleuser", "hwtest", "arrows", "hints",
                     "editor", "safemode"}
Tools            == {"shell", "gptsync", "about", "exit", "reboot", "shutdown",
                     "apple_recovery", "mok_tool"}
Graphics         == {"osx", "linux", "elilo", "grub", "windows"}

Number(t)  == IF t \in DOMAIN Atoi THEN Atoi[t] ELSE 0

\* An element of a list of directories or files.
Element(t) == IF t \in DOMAIN PathSpec THEN PathSpec[t] ELSE [vol |-> NULL, path |-> <<t>>]

Elements(ts) == [i \in DOMAIN ts |-> Element(ts[i])]

ALSO_SCAN_DIRS  == Elements(<<"boot">>)
DONT_SCAN_FILES == Elements(<<"shim.efi", "MokManager.efi", "TextMode.efi", "ebounce.efi",
                              "GraphicsConsole.efi">>)

-----------------------------------------------------------------------------
(* The settings that a keyword with one argument, or a list, sets.         *)

IntSettings ==
  [ timeout |-> "Timeout", scan_delay |-> "ScanDelay",
    textmode |-> "RequestedTextMode", max_tags |-> "MaxTags" ]

StringSettings ==
  [ icons_dir |-> "IconsDir", banner |-> "BannerFileName",
    selection_small |-> "SelectionSmallFileName", selection_big |-> "SelectionBigFileName",
    default_selection |-> "DefaultSelection" ]

ListSettings ==
  [ also_scan_dirs |-> "AlsoScan", dont_scan_dirs |-> "DontScanDirs",
    dont_scan_files |-> "DontScanFiles", scan_driver_dirs |-> "DriverDirs" ]

SwitchSettings == [ textonly |-> "TextOnly", scan_all_linux_kernels |-> "ScanAllLinux" ]

Args(line) == Tail(line)

\* (faulty variant: a list setting adds to the list there is)
HandleStringsAppends(gc, line, setting) == [gc EXCEPT ![setting] = @ \o Elements(Args(line))]

\* HandleStrings() replaces the list.
HandleStrings(gc, line, setting) == [gc EXCEPT ![setting] = Elements(Args(line))]

\* "all" sets every flag; the others add to the flags that are set.
HideUI(flags, args) ==
  IF "all" \in ToSet(args) THEN HIDEUI_FLAG_ALL
  ELSE flags \cup (ToSet(args) \cap HIDEUI_FLAG_ALL)

\* scanfor keeps the first letter of each token, its own keyword first.
ScanFor(line) ==
  [i \in 1..NUM_SCAN_OPTIONS |-> IF i <= Len(line) THEN Initial[line[i]] ELSE " "]

ShowTools(args) ==
  [i \in 1..NUM_TOOLS |->
     IF i <= Len(args) /\ i < NUM_TOOLS /\ args[i] \in Tools THEN args[i] ELSE NULL]

HandleLine(gc, line) ==
  LET key == line[1]
      args == Args(line)
      on == ~ (Len(line) >= 2 /\ line[2] = "0")
  IN  CASE key \in DOMAIN IntSettings /\ Len(line) = 2 ->
             [gc EXCEPT ![IntSettings[key]] = Number(line[2])]
        [] key \in DOMAIN StringSettings /\ Len(line) = 2 ->
             [gc EXCEPT ![StringSettings[key]] = line[2]]
        [] key \in DOMAIN ListSettings   -> HandleStrings(gc, line, ListSettings[key])
        [] key \in DOMAIN SwitchSettings -> [gc EXCEPT ![SwitchSettings[key]] = on]
        [] key = "dont_scan_volumes"     ->
             [HandleStrings(gc, line, "AlsoScan") EXCEPT !.DontScanVolumes = args]
        [] key = "hideui"    -> [gc EXCEPT !.HideUIFlags = HideUI(@, args)]
        [] key = "scanfor"   -> [gc EXCEPT !.ScanFor = ScanFor(line)]
        [] key = "showtools" -> [gc EXCEPT !.ShowTools = ShowTools(args)]
        [] key = "use_graphics_for" -> [gc EXCEPT !.GraphicsFor = ToSet(args) \cap Graphics]
        [] key = "resolution" /\ Len(line) \in {2, 3} ->
             [gc EXCEPT !.RequestedScreenWidth = Number(line[2]),
                        !.RequestedScreenHeight = IF Len(line) = 3 THEN Number(line[3]) ELSE 0]
        [] OTHER -> gc

-----------------------------------------------------------------------------
(* ReadConfig(refind.conf). A file it includes is read at that point; an   *)
(* include in there does nothing.                                          *)

Includes(line) == line[1] = "include" /\ Len(line) = 2 /\ line[2] # CONFIG_FILE_NAME

\* files: the lines of each file there is.
Lines(files, name) == IF name \in DOMAIN files THEN files[name] ELSE <<>>

AllLines(files) ==
  LET main == Lines(files, CONFIG_FILE_NAME)
  IN  FlattenSeq([i \in DOMAIN main |->
        IF Includes(main[i]) THEN Lines(files, main[i][2]) ELSE <<main[i]>>])

\* The settings that do not outlive a reading. self: the directory of rEFInd.
Reset(gc, self) ==
  [gc EXCEPT !.AlsoScan      = ALSO_SCAN_DIRS,
             !.DontScanDirs  = <<self>>,
             !.DontScanFiles = DONT_SCAN_FILES]

ReadConfig(gc, files, self) ==
  LET lines == AllLines(files)
      read[n \in 0 .. Len(lines)] ==
        IF n = 0 THEN Reset(gc, self) ELSE HandleLine(read[n - 1], lines[n])
  IN  read[Len(lines)]

GlobalConfig0 ==
  [ TextOnly |-> FALSE, ScanAllLinux |-> FALSE,
    RequestedScreenWidth |-> 0, RequestedScreenHeight |-> 0, RequestedTextMode |-> NULL,
    Timeout |-> 20, HideUIFlags |-> {}, MaxTags |-> 0, GraphicsFor |-> {"osx"},
    ScanDelay |-> 0, BannerFileName |-> NULL, SelectionSmallFileName |-> NULL,
    SelectionBigFileName |-> NULL, DefaultSelection |-> NULL, IconsDir |-> NULL,
    AlsoScan |-> <<>>, DontScanVolumes |-> <<>>, DontScanDirs |-> <<>>,
    DontScanFiles |-> <<>>, DriverDirs |-> <<>>,
    ShowTools |-> ShowTools(<<"shell", "apple_recovery", "mok_tool", "about", "shutdown",
                              "reboot">>),
    ScanFor |-> <<>> ]

-----------------------------------------------------------------------------
(* Loaders.                                                                *)

Has(path, trait) == \E i \in DOMAIN path : trait \in Traits[path[i]]
Is(name, traits) == traits \cap Traits[name] # {}
Version(name)    == IF name \in DOMAIN Numbers THEN Numbers[name] ELSE NULL
Options(token)   == IF token \in DOMAIN Words THEN Words[token] ELSE <<<<token>>>>

-----------------------------------------------------------------------------
(* Files. A volume without a file system has none.                         *)

Directories(v) ==
  LET on == {d \in ToSet(world.devices) : d.handle = v.DeviceHandle /\ d.fs # NULL}
  IN  IF on = {} THEN <<>> ELSE (CHOOSE d \in on : TRUE).fs

Dir(v, path) == IF path \in DOMAIN Directories(v) THEN Directories(v)[path] ELSE <<>>

Found(v, path) == {e \in ToSet(Dir(v, Front(path))) : e.name = Last(path)}

FileExists(v, path) == Found(v, path) # {}

Data(v, path) == (CHOOSE e \in Found(v, path) : TRUE).data

\* The files (FilterMode 2) and the directories (1) that DirIterNext() gives.
FilesIn(v, path, traits) ==
  Where(Dir(v, path), LAMBDA e : ~ e.dir /\ Is(e.name, traits))
DirsIn(v, path) == Where(Dir(v, path), LAMBDA e : e.dir)

\* (faulty variant: the first RAM disk of the directory, whatever its version)
FindInitrdFirst(v, path) ==
  LET matching == FilesIn(v, Front(path), {"init*"})
  IN  IF matching = <<>> THEN <<>> ELSE Append(Front(path), matching[1].name)

\* A kernel with a version compares it with that of the RAM disk by StriCmp(),
\* through a null pointer if the disk has none.
Fits(name, version) ==
  IF version = NULL THEN Version(name) = NULL
  ELSE version = IF Version(name) = NULL THEN world.null ELSE Version(name)

\* FindInitrd(): the first RAM disk in the kernel's directory that fits, <<>> if
\* there is none.
FindInitrd(v, path) ==
  LET matching == Where(FilesIn(v, Front(path), {"init*"}),
                        LAMBDA e : Fits(e.name, Version(Last(path))))
  IN  IF matching = <<>> THEN <<>> ELSE Append(Front(path), matching[1].name)

\* ReadLinuxOptionsFile(): the lines of the first options file there is.
ReadLinuxOptionsFile(v, path) ==
  LET names == Where(<<"refind_linux.conf", "refind-linux.conf">>,
                         LAMBDA n : FileExists(v, Append(Front(path), n)))
  IN  IF names = <<>> THEN <<>> ELSE Lines(Text, Data(v, Append(Front(path), names[1])))

GetFirstOptionsFromFile(v, path) ==
  LET lines == ReadLinuxOptionsFile(v, path)
  IN  IF lines # <<>> /\ Len(lines[1]) > 1 THEN Options(lines[1][2]) ELSE <<>>

-----------------------------------------------------------------------------
(* Entries.                                                                *)

WithInitrd(options, initrd) == Append(options, <<"initrd=">> \o initrd)

AddInitrdToOptions(options, initrd) ==
  IF initrd = <<>> \/ \E i \in DOMAIN options : options[i][1] = "initrd="
  THEN options ELSE WithInitrd(options, initrd)

\* InitializeLoaderEntry(NULL); a submenu that is not there is empty.
NewEntry ==
  [ Tag |-> "loader", Title |-> <<>>, VolTitle |-> NULL, Row |-> 0,
    ShortcutDigit |-> 0, ShortcutLetter |-> NULL, SubScreen |-> <<>>,
    LoaderPath |-> NULL, VolName |-> NULL, DevicePath |-> NULL,
    UseGraphicsMode |-> FALSE, Enabled |-> TRUE, LoadOptions |-> <<>>,
    InitrdPath |-> <<>>, OSType |-> NULL, Volume |-> NULL ]

FileDevicePath(v, path) == [device |-> v.DeviceHandle, file |-> path]

InitializeLoaderEntry(e) ==
  [NewEntry EXCEPT !.LoaderPath = e.LoaderPath, !.VolName = e.VolName,
                   !.DevicePath = e.DevicePath, !.UseGraphicsMode = e.UseGraphicsMode,
                   !.LoadOptions = e.LoadOptions, !.InitrdPath = e.InitrdPath]

SubEntry(e, title, options, graphics) ==
  [InitializeLoaderEntry(e) EXCEPT !.Title = <<title>>, !.LoadOptions = options,
                                   !.UseGraphicsMode = graphics]

MenuEntryReturn == [NewEntry EXCEPT !.Tag = "return", !.Title = <<"Return to Main Menu">>]

For(system) == system \in GlobalConfig.GraphicsFor

\* InitializeSubScreen(): the submenu there is, or one with the default entry.
InitializeSubScreen(e) ==
  IF e.SubScreen # <<>> THEN e.SubScreen
  ELSE << SubEntry(e, "Boot using default options",
                   AddInitrdToOptions(e.LoadOptions, e.InitrdPath), e.UseGraphicsMode) >>

DIAGS == <<"System", "Library", "CoreServices", ".diagnostics", "diags.efi">>

W(word) == <<word>>

MacEntries(e, v) ==
  LET shown(flag, es) == IF flag \in GlobalConfig.HideUIFlags THEN <<>> ELSE es
      verbose(title, words) == SubEntry(e, title, words, FALSE)
      diags == [SubEntry(e, "Run Apple Hardware Test", e.LoadOptions, For("osx"))
                  EXCEPT !.LoaderPath = DIAGS, !.DevicePath = FileDevicePath(v, DIAGS)]
  IN  << SubEntry(e, "64-bit kernel", <<W("arch=x86_64")>>, For("osx")),
         SubEntry(e, "32-bit kernel", <<W("arch=i386")>>, For("osx")) >>
      \o shown("singleuser",
               << verbose("verbose", <<W("-v")>>),
                  verbose("verbose (64-bit)", <<W("-v"), W("arch=x86_64")>>),
                  verbose("verbose (32-bit)", <<W("-v"), W("arch=i386")>>),
                  verbose("single user", <<W("-v"), W("-s")>>) >>)
      \o shown("safemode", << verbose("safe mode", <<W("-v"), W("-x")>>) >>)
      \o shown("hwtest", IF FileExists(v, DIAGS) THEN <<diags>> ELSE <<>>)

\* The first line of the options file names the default entry; each following
\* line, up to one without options, is an entry of its own.
LinuxEntries(e, sub, v) ==
  LET initrd == FindInitrd(v, e.LoaderPath)
      LastOf(lines) == CHOOSE n \in 1..Len(lines) :
                        /\ \A i \in 2..n : Len(lines[i]) > 1
                        /\ n = Len(lines) \/ Len(lines[n + 1]) <= 1
      Of(lines) ==
        IF lines = <<>> THEN sub
        ELSE [sub EXCEPT ![1].Title = <<lines[1][1]>>]
             \o [i \in 1..LastOf(lines) - 1 |->
                   SubEntry(e, lines[i + 1][1],
                            AddInitrdToOptions(Options(lines[i + 1][2]), initrd), For("linux"))]
  IN  Of(ReadLinuxOptionsFile(v, e.LoaderPath))

EliloEntries(e) ==
  [i \in 1..4 |->
     SubEntry(e, <<"interactive mode", "17-inch iMac (*)", "20-inch iMac (*)", "Mac Mini (*)">>[i],
              << <<W("-p")>>, <<W("-d"), W("0"), W("i17")>>, <<W("-d"), W("0"), W("i20")>>,
                 <<W("-d"), W("0"), W("mini")>> >>[i], For("elilo"))]

XomEntries(e) ==
  [i \in 1..3 |->
     SubEntry(e, <<"Windows from Hard Disk", "Windows from CD-ROM", "text mode">>[i],
              << <<W("-s"), W("-h")>>, <<W("-s"), W("-c")>>, <<W("-v")>> >>[i], For("windows"))]

GenerateSubScreen(e, v) ==
  LET sub == InitializeSubScreen(e)
      all == CASE e.OSType = "M" -> sub \o MacEntries(e, v)
               [] e.OSType = "L" /\ e.LoaderPath # NULL -> LinuxEntries(e, sub, v)
               [] e.OSType = "E" -> sub \o EliloEntries(e)
               [] e.OSType = "X" -> sub \o XomEntries(e)
               [] OTHER -> sub
  IN  [e EXCEPT !.SubScreen = Append(all, MenuEntryReturn),
                !.LoadOptions = IF e.OSType = "X" THEN <<W("-s"), W("-h")>> ELSE @]

-----------------------------------------------------------------------------
(* SetLoaderDefaults(): the type of system, by what the path names.        *)

MACOSX_LOADER_PATH == <<"System", "Library", "CoreServices", "boot.efi">>

GetMainLinuxOptions(v, path) ==
  AddInitrdToOptions(GetFirstOptionsFromFile(v, path), FindInitrd(v, path))

\* [type, letter, over, graphics]: over means that the letter wins over the
\* directory's. The first description that fits is the one.
OSOf(path, rooted) ==
  LET file == Last(path)
      os(type, letter, over, graphics) ==
        [type |-> type, letter |-> letter, over |-> over, graphics |-> graphics]
  IN  CASE Has(path, "bzimage") \/ Has(path, "vmlinuz") -> os("L", "l", FALSE, "linux")
        [] Has(path, "refit")      -> os("R", "r", TRUE, NULL)
        [] path = MACOSX_LOADER_PATH /\ ~ rooted -> os("M", "m", TRUE, "osx")
        [] file = "diags.efi"      -> os(NULL, NULL, FALSE, NULL)
        [] Is(file, {"elilo"}) \/ file = "e.efi" -> os("E", "l", FALSE, "elilo")
        [] Is(file, {"grub"})      -> os("G", "g", TRUE, "grub")
        [] file \in {"cdboot.efi", "bootmgr.efi", "bootmgfw.efi"} -> os("W", "w", TRUE, "windows")
        [] file = "xom.efi"        -> os("X", "w", TRUE, "windows")
        [] OTHER                   -> os(NULL, NULL, FALSE, NULL)

SetLoaderDefaults(e, path, rooted, v) ==
  LET dir  == IF Len(path) > 1 THEN Initial[path[Len(path) - 1]] ELSE NULL
      kind == OSOf(path, rooted)
  IN  [e EXCEPT
         !.OSType          = IF kind.type = NULL THEN @ ELSE kind.type,
         !.ShortcutLetter  = IF dir = NULL \/ kind.over THEN kind.letter ELSE dir,
         !.LoadOptions     = IF kind.type = "L" THEN GetMainLinuxOptions(v, path) ELSE @,
         !.UseGraphicsMode = IF kind.graphics = NULL THEN @ ELSE For(kind.graphics)]

\* AddLoaderEntry(): the entry of a loader that was found.
LoaderEntry(path, title, v) ==
  LET e == [NewEntry EXCEPT
              !.Title = IF title = NULL THEN path ELSE <<title>>,
              !.VolTitle = v.VolName, !.VolName = v.VolName,
              !.LoaderPath = path, !.DevicePath = FileDevicePath(v, path)]
  IN  GenerateSubScreen(SetLoaderDefaults(e, path, FALSE, v), v)

-----------------------------------------------------------------------------
(* The menu entries that refind.conf describes (refind/config.c): what     *)
(* ScanUserConfigured() makes of the lines between "menuentry" and "}",    *)
(* and of the "submenuentry" parts in there.                               *)

\* FindVolume(): the volume that an identifier names, or the one there was.
FindVolume(volumes, id, current) ==
  LET readable == Where(volumes, LAMBDA v : v.IsReadable)
      labelled == Where(volumes, LAMBDA v : v.VolName = id)
  IN  IF id \in DOMAIN VolIndex
      THEN IF VolIndex[id] < Len(readable) THEN readable[VolIndex[id] + 1] ELSE current
      ELSE IF labelled # <<>> THEN labelled[1] ELSE current

\* The part of a line that an entry and an entry of its submenu treat alike.
Setting(e, line) ==
  LET arg == line[2]
  IN  CASE line[1] = "disabled" -> [e EXCEPT !.Enabled = FALSE]
        [] line[1] = "graphics" /\ Len(line) > 1 -> [e EXCEPT !.UseGraphicsMode = (arg = "on")]
        [] line[1] = "initrd"   /\ Len(line) > 1 -> [e EXCEPT !.InitrdPath = Element(arg).path]
        [] line[1] = "options"  /\ Len(line) > 1 -> [e EXCEPT !.LoadOptions = Options(arg)]
        [] OTHER -> e

\* A "volume" line names the volume of the lines that follow.
OnVolume(e, title, v) ==
  [e EXCEPT !.Title = <<title>>, !.VolTitle = v.VolName, !.VolName = v.VolName]

\* The RAM disk goes to the end of the options.
Closed(e) ==
  IF e.InitrdPath = <<>> THEN e
  ELSE [e EXCEPT !.LoadOptions = WithInitrd(@, e.InitrdPath), !.InitrdPath = <<>>]

-----------------------------------------------------------------------------
(* AddSubmenu(). s.sub is the entry it prepares, s.subvol its volume.      *)

BeginSubmenu(s, title) ==
  [s EXCEPT !.mode = "submenu", !.subvol = s.vol, !.subtitle = title, !.added = TRUE,
            !.entry.SubScreen = InitializeSubScreen(s.entry),
            !.sub = [InitializeLoaderEntry(s.entry) EXCEPT !.Title = <<title>>]]

EndSubmenu(s) ==
  [s EXCEPT !.mode = "stanza",
            !.entry.SubScreen = IF s.sub.Enabled THEN Append(@, Closed(s.sub)) ELSE @]

SubmenuLine(s, line, volumes) ==
  LET v == FindVolume(volumes, line[2], NULL)
  IN  CASE line[1] = "}" -> EndSubmenu(s)
        [] line[1] = "loader" /\ Len(line) > 1 ->
             [s EXCEPT !.sub.LoaderPath = Element(line[2]).path,
                       !.sub.DevicePath = FileDevicePath(s.subvol, Element(line[2]).path)]
        [] line[1] = "volume" /\ Len(line) > 1 ->
             IF v = NULL THEN s
             ELSE [s EXCEPT !.subvol = v, !.sub = OnVolume(@, s.subtitle, v)]
        [] line = <<"initrd">>  -> [s EXCEPT !.sub.InitrdPath = <<>>]
        [] line = <<"options">> -> [s EXCEPT !.sub.LoadOptions = <<>>]
        [] line[1] = "add_options" /\ Len(line) > 1 ->
             [s EXCEPT !.sub.LoadOptions = @ \o Options(line[2])]
        [] OTHER -> [s EXCEPT !.sub = Setting(@, line)]

-----------------------------------------------------------------------------
(* AddStanzaEntries(). s.vol is CurrentVolume.                             *)

NEMO == <<"EFI", "boot", "nemo.efi">>

BeginStanza(s, title, self) ==
  [s EXCEPT !.mode = "stanza", !.vol = self, !.title = title, !.added = FALSE,
            !.defaults = FALSE, !.entry = OnVolume(NewEntry, title, self)]

\* (faulty variant: what SetLoaderDefaults() finds stays in the options)
LoaderLineKeeps(s, token) ==
  LET path == Element(token).path
  IN  [s EXCEPT !.defaults = TRUE,
                !.entry = SetLoaderDefaults([@ EXCEPT !.LoaderPath = path,
                                                      !.DevicePath = FileDevicePath(s.vol, path)],
                                            path, token \in Rooted, s.vol)]

\* "loader": the defaults of that loader, but no options.
LoaderLine(s, token) ==
  LET path == Element(token).path
      e == [s.entry EXCEPT !.LoaderPath = path, !.DevicePath = FileDevicePath(s.vol, path)]
  IN  [s EXCEPT !.defaults = TRUE,
                !.entry = [SetLoaderDefaults(e, path, token \in Rooted, s.vol)
                             EXCEPT !.LoadOptions = <<>>]]

StanzaLine(s, line, volumes) ==
  LET v == FindVolume(volumes, line[2], NULL)
  IN  CASE line[1] = "loader" /\ Len(line) > 1 -> LoaderLine(s, line[2])
        [] line[1] = "volume" /\ Len(line) > 1 ->
             IF v = NULL THEN s
             ELSE [s EXCEPT !.vol = v, !.entry = OnVolume(@, s.title, v)]
        [] line[1] = "ostype" /\ Len(line) > 1 -> [s EXCEPT !.entry.OSType = Letter[line[2]]]
        [] line[1] = "submenuentry" /\ Len(line) > 1 -> BeginSubmenu(s, line[2])
        [] OTHER -> [s EXCEPT !.entry = Setting(@, line)]

\* The end of a stanza. A submenu that is not there is made for rEFInd's own volume.
EndStanza(s, self) ==
  LET e1 == IF s.added THEN [s.entry EXCEPT !.SubScreen = Append(@, MenuEntryReturn)] ELSE s.entry
      Defaulted(e) == IF s.defaults THEN e ELSE SetLoaderDefaults(e, NEMO, TRUE, s.vol)
      WithSubmenu(e) == IF e.SubScreen = <<>> THEN GenerateSubScreen(e, self) ELSE e
      Added(e) == IF e.Enabled THEN Append(s.entries, WithSubmenu(e)) ELSE s.entries
  IN  [s EXCEPT !.mode = "file", !.entries = Added(Defaulted(Closed(e1)))]

-----------------------------------------------------------------------------
(* ScanUserConfigured().                                                   *)

Line(s, line, volumes, self) ==
  CASE s.mode = "submenu" -> SubmenuLine(s, line, volumes)
    [] s.mode = "stanza"  -> IF line[1] = "}" THEN EndStanza(s, self)
                             ELSE StanzaLine(s, line, volumes)
    [] OTHER -> IF line[1] = "menuentry" /\ Len(line) > 1 THEN BeginStanza(s, line[2], self)
                ELSE s

NoStanza ==
  [ mode |-> "file", entries |-> <<>>, entry |-> NewEntry, title |-> NULL, vol |-> NULL,
    added |-> FALSE, defaults |-> FALSE, sub |-> NewEntry, subvol |-> NULL, subtitle |-> NULL ]

\* The end of a file ends what is open.
AtEOF(s, self) ==
  LET InStanza(t) == IF t.mode = "stanza" THEN EndStanza(t, self) ELSE t
  IN  InStanza(IF s.mode = "submenu" THEN EndSubmenu(s) ELSE s)

IncludedEntries(lines, volumes, self) ==
  LET read[n \in 0 .. Len(lines)] ==
        IF n = 0 THEN NoStanza ELSE Line(read[n - 1], lines[n], volumes, self)
  IN  AtEOF(read[Len(lines)], self).entries

\* A file that is included outside of stanzas is scanned on its own; what it
\* includes is not.
MainLine(s, line, files, volumes, self) ==
  IF s.mode = "file" /\ Includes(line)
  THEN [s EXCEPT !.entries = @ \o IncludedEntries(Lines(files, line[2]), volumes, self)]
  ELSE Line(s, line, volumes, self)

ScanUserConfigured(files, volumes, self) ==
  LET lines == Lines(files, CONFIG_FILE_NAME)
      read[n \in 0 .. Len(lines)] ==
        IF n = 0 THEN NoStanza ELSE MainLine(read[n - 1], lines[n], files, volumes, self)
  IN  AtEOF(read[Len(lines)], self).entries
=============================================================================
