# Verification of rEFInd

rEFInd is a boot manager: firmware starts it, it finds operating systems on the
disks, shows them as icons, and starts what the user chooses. This directory
models its control logic in TLA+, checks the models with TLC, and proves the
most important properties for every size of menu, disk and cache with TLAPS.

Sources are under `src/`: `refind/` (the program), `mok/` (Secure Boot),
`filesystems/` (drivers for ext2/3/4, HFS+, ISO-9660 and ReiserFS), `libeg/`
(graphics), `EfiLib/` (taken from EDK2), and the installation scripts at the top.
Line numbers below are theirs.

## 1. Inventory

### The parts

**Main control loop** (`refind/main.c`: `efi_main`, `RescanAll`,
`SecureBootSetup`/`Uninstall`). State: the main menu, the title to select next,
the exit code and the chosen entry. It calls the scanner, the menu engine, and
one function per tag; a loader that fails returns to it. Correct: what reaches
the switch was chosen by the user or the timeout from the menu scanned last; the
automatic boot happens once; resets end the program; the firmware gets its hooks
back.

**Menu engine** (`refind/menu.c`). State: `SCROLL_STATE` (selection, window of
visible icons, two rows), the timeout countdown, what is on the screen. It reads
keys, moves the selection, scrolls, repaints all or only two entries, in one of
three styles (icons, submenu in graphics, text). Correct: indices stay in range,
the selected entry is in view, the screen shows the state, the call returns once
with an entry of the screen.

**Volumes and file handles** (`refind/lib.c`: `InitRefitLib` … `ReinitVolumes`,
directory iterators; callers in `main.c`). State: the list of volumes with their
root directories and whole disks, `SelfRootDir`, `SelfDir`, `SelfVolume`, the
directory a driver scan iterates over. Every started program is bracketed by
`UninitRefitLib` and `ReinitRefitLib`, so that it may reconnect or reformat the
devices. Correct: no handle is closed twice or used closed, none is lost, entries
refer to volumes of the current list.

**External program launch** (`StartEFIImageList`, `StartLoader`, `StartTool`,
`StartLegacy`). Loads an image through `LoadImage` under the hooks below, gives
up the handles, starts it and, when it returns, takes them back.

**MBR numbering and activation** (`ScanExtendedPartition` in `lib.c`,
`ActivateMbrPartition` in `main.c`). State on the disk: the tables of the MBR and
the chain of EMBRs, with their active flags. Correct: the two walks agree, so
that what is booted is what was chosen, and nothing but flags changes.

**Loader scanning** (`main.c`: `ScanForBootloaders`, `ScanEfiFiles`,
`ScanLoaderDir`, `AddLoaderEntry`, `ScanLegacy*`, `ScanForTools`; `lib.c`:
`ScanVolume*`). State: the volumes as the firmware describes them, the entries
of the menu. Correct: a loader that is not excluded is in the menu and rEFInd
itself is not, a kernel gets its own RAM disk and options.

**Configuration** (`refind/config.c`). State: `GlobalConfig`, for the life of the
program. Reads `refind.conf` and the files it includes, stanzas of boot entries,
`refind_linux.conf`. Correct: the tokens are those that were written, a stanza is
booted as it is described, a rescan starts from the defaults.

**String and path helpers** (`lib.c`): pure functions on lists and paths. Correct:
what is put together and split again is the same.

**Screen modes and line editor** (`refind/screen.c`, `libeg/screen.c`). The
display is in text or graphics mode, in a resolution that rEFInd, the firmware or
a program set; three places remember its size. `line_edit` keeps a buffer, its
length, the first column shown and the cursor. Correct: a menu is painted on the
screen that is shown, in its size, and completely; the editor edits the text as a
text field does and stays in its buffer.

**libeg** (`image.c`, `text.c`, `load_bmp.c`, `load_icns.c`; `refind/icns.c`):
images composed pixel by pixel, decoders of BMP and Apple icon files, icons with
a built-in substitute. Correct: a decoded picture is the one that was encoded.
**PNG decoding** (`lodepng.c`) is third-party code.

**fsw core** (`filesystems/fsw_core.c`, `fsw_lib.c`): the file systems' common
half. State: a cache of blocks with reference counts and levels; a table of
directory nodes with reference counts; per open file a position and the current
extent. Correct: a buffer stays what it is while held, references are the
holders, the cache is bounded by what is held, strings keep their text.

**fsw EFI host driver** (`fsw_efi.c`, `fsw_efi_lib.c`): driver binding, the file
and file system protocols on top of the core. **File system drivers**
(`fsw_ext2.c`, `fsw_ext4.c`, `fsw_hfs.c`, `fsw_iso9660.c`, `fsw_reiserfs.c`):
callbacks that parse the disk. Correct: a path opens what it names, a listing has
each entry once, a read returns the bytes the format puts there, in spite of
blocks that cannot be read and buffers that are too small.

**EfiLib and driver connection** (`EfiLib/Bds*.c`, `main.c`: `LoadDrivers`,
`ConnectAllDriversToAllControllers`; `refind/driver_support.c`). Drivers are
started and connected to all devices; a build with the TianoCore kit boots BIOS
systems through device paths. Correct: every volume that a driver knows is
mounted, whatever the order of handles; the walk ends.

**Secure Boot** (`mok/`): with shim present, two function pointers of the
firmware are replaced by rEFInd's, which chain to the old ones.

**Installation scripts** (`install.sh`, `mvrefind.sh`, `mkrlconf.sh`): copy the
program, its drivers and keys to the EFI System Partition, move it into the place
of another loader and back, and make the firmware start it. State: the files and
the boot entries. Correct: what the firmware starts afterwards is rEFInd, the
user's configuration and the loaders of others survive.

### How they interact

`efi_main` calls scanner → menu → launch, in one thread. Concurrency is at the
edges: between two instructions of rEFInd a *started program or driver* runs and
changes disks, variables, video modes and the firmware's tables; *devices* come
and go, and connecting one makes others appear; the *user* presses keys while a
countdown runs and edits files between two scans; *I/O* fails at any step. The
fsw drivers run as separate images that the firmware calls; inside one, callers
hold several blocks at once while they ask for others. The scripts run beside a
Windows that repairs its loader, and can be killed between two commands.

### What is hard

Handles given up and taken back around every program; state of one scan used
after the next; two counters that must agree (MBR numbers); removal of hooks that
fails half way; painting less than everything on a display that others use;
devices that appear while the list of them is walked; cache entries reused while
held; extents remembered across reads that fail; a directory position advanced by
an entry that did not fit; a text buffer edited through a scrolling window; a
script killed between moving one file and the next. `PROJECT.json` lists each
hazard at its line, with the properties that cover it or the reason why none does.

## 2. Modules

| module | models | proofs |
|---|---|---|
| `Menu` | `RunGenericMenu` and its styles, `menu.c` | `Menu_proofs` |
| `MenuContract` | what one call of it promises (abstract) | `Menu` implements it: `KeepsContract` |
| `MainLoop` | `efi_main`, `RunMainMenu`, the hooks | at its end |
| `RefitLib` | handles and volumes, `lib.c` with `main.c` | at its end |
| `Mbr` | MBR/EMBR numbering and activation | at its end |
| `Volumes`, `Loaders`, `Scan` | what a scan finds and lists: block devices; configuration, paths and entries; the scan and the rescans | `Menu_proofs`, after those of `Menu` |
| `Texts` | encodings, lines, tokens, paths and lists (`config.c`, `lib.c`) | |
| `Images` | BMP and ICNS files, icons (`libeg`, `icns.c`) | |
| `Screen`, `Display` | pixels, video modes and what is drawn; `Display` runs the loop of `Menu` on it | `Display_proofs` |
| `LineEdit` | `line_edit`, `screen.c` | at its end |
| `TextField` | what an editor of one line promises (abstract) | `LineEdit` implements it: `EditsText` |
| `FswCache` | the block cache of `fsw_core.c` | `Fsw_proofs` |
| `FswDnode` | directory nodes, lookups and links of `fsw_core.c`, file handles of `fsw_efi.c` | `Fsw_proofs` |
| `FileTree` | what `EFI_FILE.Open` promises (abstract) | `FswDnode` implements it: `OpensWhatIsNamed` |
| `FswBase`, `FswShandle` | what core and drivers exchange, strings; reading through extents | |
| `Ext2`, `Ext4`, `ExtDir`, `Hfs`, `Iso9660`, `Reiserfs` | the drivers, as operators on a volume | |
| `FswFile` | the file protocol of `fsw_efi.c` over all of them | |
| `ByteFile` | what a read-only file promises (abstract) | `FswFile` implements it: `ReadsContent` |
| `Connect` | loading, binding and connecting drivers, the handle database | `Fsw_proofs` |
| `Setup` | the installation scripts | at its end |

Compositions: `MainLoop` takes the outcomes of a menu from `MenuContract`, and
`Menu` is shown to have no others. `Display` is `Menu` (an instance) with
`Screen`, the text screens, programs and rescans. `Scan` is built from `Volumes`,
`Loaders` and `Texts`. `FswFile` takes every driver as an instance, each with its
own `FswShandle`. Names of actions, operators and variables are those of the code
wherever TLA+ allows; `map` in `PROJECT.json` gives the lines of every
definition. An operator marked *faulty variant* is no part of a model: it is the
definition below it with a plausible mistake, used to see that a property notices
the mistake.

**Menu.** `Screens` are the calls: style, entries of each row, display, timeout,
default. `Begin` is the start of `RunGenericMenu`; `PaintAll`, `PaintSelection`
and `PaintNothing` are the painting at the head of its loop, `Wait` the point
where it reads keys, `Tick`/`Expire` the countdown, `KeyMove`, `KeyExit`,
`KeyShortcut` and `KeyIgnored` the keys. What the screen shows is a variable,
`painted`, so that the partial repaint can be compared with a full one.

**MainLoop.** One action per step of `efi_main`: `Boot` (the hooks are installed),
`OpenMenu`, the user's answers in menu, submenu and options editor, dispatch on
the tag, `ProgramReturns`, `RescanAll`, `Exit`, `Reset`. A scan finds any of
`Menus`. Titles are values with a relation `Contains` for the substring test; a
`default_selection` of one character is one of `Keys`, compared in upper case with
the letter and the digit of an entry. A title has two characters or more.

**RefitLib.** A handle is named by when it was opened and for what, so closing it
twice is visible. Each handler is an action; `StartEFIImageList` is the sequence
load – uninit – child – reinit; `DevicesChange` is the world.

**Mbr.** `ScanPrimary`, `ScanEmbr` number the partitions, `ActivatePrimary` and
`ActivateLogical` rewrite one sector each, with failure as an alternative.
`Booted` is what BIOS code would follow the active flags to (it is a part of the
properties, not of the program).

**Volumes, Loaders, Scan, Texts.** The state of `Scan` is the world (disks, files,
`refind.conf`), `GlobalConfig`, the list of volumes and the menu. `Configure`, one
step for each letter of `ScanFor`, and the tools follow each other, again after
`RescanAll`, which begins with whatever the user changed; `phase` says which is due
and `turn` which letter. A directory is the sequence of its entries in the order the firmware lists them. `Texts` has
no state: it is the path from bytes to tokens, with the faults of a file that
cannot be opened, measured or read. The world has a text `null`, what is at address
0: `FindInitrd` reads it for a RAM disk without a version (`Fits`). A path is a
sequence of names and the root the empty one; that `SelfDirPath` is another string
than the root's is `OwnDirectory`.

**Images.** A picture is its pixels; `WrittenBmp`, `Streams` (all the
ways to compress a plane) and `Block` are encoders written from the formats,
against which the decoders of the code are compared. What no instruction writes is `NULL`.

**Screen, Display.** A pixel is the sequence of strokes made on it. The state is
the record `scr` (video memory, mode, the sizes that `libeg`, the menus and the
hardware think they have, the text console). `MenuOnScreen` computes the picture
that should be there from the state of the menu and compares every pixel.

**LineEdit.** One action per key; a loop inside a key is its result, `hung` when
it has none. Behind the terminator the buffer is not initialised: one arbitrary
character stands for it.

**FswCache.** `fsw_block_get` for a place that uses a block (`BlockUsers`) is a hit or
a miss that may fail after the entry was marked invalid; `Forgetful` users do not
release their block (the ISO-9660 driver is one; the run has none, the theorem
`BufferStable` allows any).

**FswDnode.** The calls of `fsw_efi_dir_open`, `fsw_dnode_lookup_path` and
`fsw_dnode_resolve` in progress are a stack, `frames`, each with its `dno`; a call
that has returned leaves `status` and `out`, the pointer it returned, for its
caller. `releasing` is the argument of a `fsw_dnode_release` not yet made: freeing
a node goes on to its parent. At every step that reads the disk or allocates the
error path is an alternative. `References` counts the pointers to a node, so that
the count kept by the code can be compared with it. Every file has one name (no
hard links, which ext2 has: a node then remembers the parent it was found under
first); in the run links lead to no cycle, in the proofs they may.

**FswFile and the drivers.** `disk` names one of `Volumes`, a record of what its
blocks contain; `file` is the handle, with its storage handle or directory
position. A call is one step: an operator of the driver takes the volume, the set
of blocks that cannot be read in this call, and gives a status with its results
(`FswBase`). `v.truth` is the tree of files that the volume was laid out for, and
the assumption `VolumesSound` says that its blocks have the types of the on-disk
structures.

**Connect.** `db` is the firmware's handle database: handles in their order, which
driver holds which device, the file systems installed. `ConnectController` and the
binding (`FswSupported`, `FswStart`, `FswStop`) follow the code, the recursion of the
firmware as a worklist of handles; `Walk` visits one handle a step, in either build,
and repeats as `Dispatch()` finds more; `Plug` is the user.

**Setup.** A function of a script is a list of commands that `Command` executes
one a step; a command can fail half-way, and the script be killed before any.
`UserEdits` and `WindowsRepairs` happen between scripts.

## 3. Runs

The first ten runs pass: TLC visits every state and finds no error. Each property
has been seen to fail for a model with a plausible mistake (`mutants` in
`PROJECT.json`). The last two check what a comment or the documentation says, and
TLC finds a behaviour of the code that violates it (*Findings* below).

| run | instance | shows |
|---|---|---|
| `menu` | icon menus of 0–5 loaders and 1–3 tools on displays of 3 or 4 tiles and `max_tags` 0/2, submenus, text menus longer than the console, with and without timeout | `DisplayInSync`: the screen is in step with the state; `KeepsContract`: refines `MenuContract`; `TimeoutEnds`: an untouched timeout ends the call |
| `main_loop` | four rounds over two scans, with and without Secure Boot, shim and the two protocols; any title, letter or digit as `default_selection` | `AutobootOnce`; `HooksRemoved`: the firmware gets its handlers back |
| `refitlib` | a disk, the partition rEFInd started from, a logical partition; which of the devices last is an initial choice; 8 openings; UEFI 2 | `HandlesLive`: none is closed twice or used closed; `ChildHoldsNothing` while a program runs; `EntriesCurrent` |
| `mbr` | tables of 3 entries, chains of up to 3 EMBRs, entries in every order, each table with at most one flag set or bad | `BootsChosen`: the flags lead to the chosen partition; `AtMostOneActive`, failures included |
| `scan` | five machines and configurations, in any order, with rescans, on Apple and other firmware | `NoLoaderMissed`, `NeverListsItself`, `InitrdMatches`, `SettingsFresh`, `AsConfigured`; and, for every bounded input, `TextsRead`, `PicturesRight` |
| `display` | screens of 16×22 and 20×24 pixels, tiles of 3 and 2, one or two screens, modes by number and size, hidden parts, text only | `MenuOnScreen`: every pixel; `ScreenAgrees`: sizes and modes; `ErrorsAreRead` |
| `line_edit` | console of 4 columns, buffer of 8 characters, four kinds of users, each with the keys of one of `Habits` | `BufferSafe`: buffer and terminator; `EditsText`: typing and moving refine `TextField` |
| `fsw` | one part after the other: 3 users, 3 blocks, 2 levels, a cache of 2 growing to 4; two directories, a file, a link, a link through that link, five paths, three handles; display, disk, stick and card reader, two orders of the handles, both builds, two devices plugged | `HeldStable`, `CacheFresh`; `NotFreedInUse`, `OnlyFailuresLeak`, `OpensWhatIsNamed`: `Open` refines `FileTree`, `OpenEnds`: it ends; `EveryVolumeServed`, `HeldWhileServed`, `ConnectingEnds` |
| `fsw_file` | seven volumes, of ext2, ext4, HFS+, HFSX, ISO 9660 with and without Rock Ridge, ReiserFS; two to seven sets of unreadable blocks each | `OpensWhatIsNamed`, `ListingComplete`, `InfoTrue`, `StringsSound`; `ReadsContent`: refines `ByteFile` |
| `install` | six machines, four packages, six states of the ESP; two scripts, one failure, kills anywhere | `RefindBoots`, `ConfigKept`, `OthersKept`, `KeysFit` |
| `also_scan_lost` | as `scan` | refutes `AlsoScanIndependent`: `dont_scan_volumes` replaces the directories of `also_scan_dirs` |
| `volumes_stale` | as `scan` | refutes `VolumesFresh`: `dont_scan_volumes` survives the rescan of a `refind.conf` without it |

**Findings.**

- `also_scan_lost` (`config.c:427`). The line above the comment "Don't use
  HandleStrings()" calls `HandleStrings` for `AlsoScan`.
  `docs/refind/configfile.html:248` and 254 describe two independent settings.
- `volumes_stale` (`config.c:347`). `ReadConfig` resets three lists, and not
  `DontScanVolumes` (nor `DriverDirs`, for which nothing is stated);
  `refind.conf-sample:198` says that the default is an empty list, `NEWS.txt:500` that
  Esc implements changes to the file.

**Bounds, and why they are enough.**

- *Menus* longer than the window by two and shorter ones bring out every branch of
  the scrolling; one to three visible icons cover the proportional jump. `Word` is
  the range of the unsigned countdown, so that an underflow would show.
- Four *rounds of the main loop* are two returns with a rescan between; eight
  *openings* in `RefitLib` (`MaxOpens`) are two programs and a rescan.
- *MBR*: three EMBRs have a first, an inner and a last one; three slots have one on
  either side of a link (the code's tables have four). Chains end, as
  `DisksAssumption` does not ask: with a cyclic one the scan never ends.
- *Scan*: each machine has loaders of every type that the code tells apart, in
  directories that are listed, excluded and added. *Texts*: every file of up to
  two tokens from nine values with every separator, end of line and encoding;
  UTF-8 is used for ASCII only, since the code does not decode it, and files have
  four bytes at least, for the mark of UTF-16. *Paths*: all of up to four
  characters from two letters, both slashes and the dot; lists of three. Beyond them:
  an extension in a string without dot or slash (the code reads before its
  start), a match at the last place `FindMem` does not look at, empty elements at
  the start of a list, which `MergeStrings` cannot write. *Images*: sides of 2,
  3, 1, 4 stand for 128, 48, 32, 16; BMP lines of 1–9 pixels fill their last byte
  and word to every extent; samples have two values.
- *Display*: two sizes of screen, the smaller just wide enough for two tiles and
  arrows; titles that fit their lines. `AsItShouldBe` leaves out a failed screen
  shot and a resolution changed behind rEFInd's back, which repaint nothing.
- *Line editor*: four columns and eight free characters scroll a line twice; the
  assumptions on widths hold for the real numbers (80 columns, 1024 characters).
- *The parts of the file system driver* share no variable: `MCFsw` lets one move while
  the others are at rest, which loses no behaviour of any. *Cache*: two entries and
  three users make the cache full, discard and grow, and no more than three blocks are
  held at a time; block `INVALID_BNO` is outside the blocks. Symmetry is not used.
- *Dnodes*: a link to a directory on the way to the target of another link makes
  the stack four calls deep; three handles keep a directory, a file below it and the
  root open at once; no call begins while a node has five references (`MaxRefs`),
  which stops what failures leak.
- *Files*: with blocks of 8 bytes (16 on ISO 9660), pointers of 4 and two direct
  blocks a file of 16 blocks uses every level of indirection, and every tree has a
  level above its leaves. Positions have `PosBits` = 10 bits, which no file here
  reaches. ISO directories end with their block; continuation areas of Rock Ridge
  are readable. Names on ext, ISO 9660 and ReiserFS are taken as ISO 8859-1, as
  the drivers do. The walk into the first entry of an ext4 index node, where the
  code takes the wrong child for positions before it, does not occur.
- *Connect*: `EveryVolumeServed` asks that no handle moved during the walk
  (`HandlesInPlace`); the code takes the types of handles by an index that is stale
  then (`main.c:1772`). `MaxPlugs` = 2 lets both devices come, or one come and go.
- *Install*: two scripts with one failure are an interrupted run and its repeat.
  The properties name the cases beyond them, each met in the code (section 5).

**Fairness.** `Menu`, `MainLoop` and `FswDnode` assume weak fairness of the
program's own actions (`WF_vars(Program)`), `Connect` of a step of the walk
(`WF_vars(Step)`): rEFInd and a driver called by it are a single thread that never
yields, so an enabled step is taken. Nothing is assumed of users, of devices or of
started programs, which may never answer or return. The other modules have safety
properties only.

**Deadlock.** `RefitLib`, `MainLoop`, `LineEdit`, `MCFsw` (for `FswDnode` and
`Connect`) and `Setup` switch the deadlock check off, because the program really ends there (it
returns to the firmware, a program never comes back, the machine is off or boots a
BIOS system, the editor is left, the volume is unmounted) or a bound is reached.

## 4. Proofs

For each module an inductive invariant is stated (`IInv` or a name of its own), `Init`
is proved to imply it and every action to keep it, one lemma per action or group of
actions, and the properties follow from it. All sizes are arbitrary.

**Menu.** `MenuSelectionInRange`, `MenuTypeCorrect`, `MenuKeepsContract`. The
selection is in range only because a window of icons lies within the entries of
row 0 and, in the icon style, a selection in row 0 lies in that window whenever a
key is read: a move between rows computes its target from the window. `IInv`
keeps these with the rows identified before the first key. The contract needs
also that the selection is the default as long as the countdown runs.
`MenuDisplayInSync`: what is painted is the picture of the state, or, while a
partial repaint is due, of the state before the last key (`InStep`); a partial
repaint suffices because the window is always filled and every full repaint draws
the same places (`Filled`). Its hypothesis `HasTools`, that an icon menu has a tool,
holds for the run's screens; without tools the statement is false (section 5).

**MainLoop.** `MainLoopHandlers`, `MainLoopDispatchesAChoice`,
`MainLoopAutobootOnce`, `MainLoopTypeCorrect`, and `MainLoopHooksRemoved` under
the assumption `SecureStable` (started programs leave the Secure Boot state
alone; without it the hooks stay, `main.c:2080`). `IInv`: the handlers are clean,
hooked or half removed, the last only on the way to a reset.

**RefitLib.** `RefitLibHandlesLive`, `RefitLibChildHoldsNothing`,
`RefitLibSelfUsable`, `RefitLibEntries`, `RefitLibOnlyScansLose`, all under
`EFIMajor # 1` (on EFI 1.x an alias is closed twice, `lib.c:237`). `IInv` says
which handles are open, given up and listed at each point; that handles are named
by their time of opening makes a new one different from all others.

**Mbr.** `MbrTypeCorrect` and `MbrAtMostOneActive`, for tables and chains of any
length, links that lead back into the chain included, under `FlagsAssumption`
(the disk has one extended partition and no table with two active entries, nor an
active free entry in an EMBR). The kinds of entries never change, so a walk ends
in an EMBR where the scan did; activating an entry rewrites all entries before
the break, and the entry there only if it is the link. `MbrBootsChosen`: after a
successful activation the flags lead to the chosen partition and to no other. Only
flags ever change (`Same`), so the scan and the activation follow one walk
(`Walks`), numbered alike; `WInv` says where on it the activation is and which
flags it has set and cleared so far. A chain may come back to an EMBR: the argument
takes the first visit of the last one, and, the sectors being finitely many, what
the flags lead to (`Led`) is reached in as many steps as there are sectors.

**LineEdit.** `LineEditBufferSafe`: `BufferSafe` for consoles and options of any
width, under `WidthAssumption` (a line has room for what Backspace shows again, and
the buffer for two lines beyond the options; `Jump` is not 0: with the code's 10
and 1024 this is any console of 12 to 512 columns) and
`CharsAssumption` (the terminator is no printable character). `IInv`, for the users
`BufferSafe` speaks of, says that the first column shown is a line's width before
the end of the buffer (`Room`), that what End adds stays in it (`Slack`) and that
the text has a terminator or room for one behind it (`Ends`, `Terminated`).
`LineEditEditsText`: for users without End, Delete and Backspace, every step is one
of `TextField`, scrolling included. `EInv`: the terminator is right behind the text
and the cursor in the text or right behind it; then the loops that skip words stop
there (`SkipLands`), and a key inserted is inserted at the cursor of the text.

**Display.** `ScreenAlwaysAgrees`: a menu is painted on the screen that is shown and
for the size this has. `ErrorsAlwaysRead`: no menu wipes away a message before the
user has read it. `DisplayInv`: what a function of `Screen` does is drawing
(`OnlyDraws`), a change of modes that ends with `libeg` reading the size (`Ready`), or
the start of a program, after which `FinishExternalScreen` reads it; the style of a
menu, what the configuration allows and the console that is on are one decision
(`Decided`, `MenuScreen`). `ScreensAssumption`, `ModesAssumption`, `ConfigsAssumption`
type the menus, the modes of the hardware and the settings.

**Scan.** `LoadersListed`, `ItselfNotListed`, `DisksMatch` and `ListsFresh` state
`NoLoaderMissed`, `NeverListsItself`, `InitrdMatches` and `SettingsFresh` for any disks,
directories, options files and `refind.conf` that `WorldsAssumption` types (names in a
directory are unique, a line has a token, options are words), any names and settings in
them, and any number of rescans with changes in between. `ScanInv`: once `refind.conf`
is read the readable volumes of a kind whose letter has been followed have all their
loaders offered (`OffersAll`), since a loader is left out of the list of its directory
only if it is excluded or the same as the fallback loader, and that one only if a loader
like it is listed (`AllOffered`); what was found is not rEFInd (`NoneOfSelf`); and an
entry for a kernel has right RAM disks, itself and in its submenu (`KernelRight`):
options come from a line of the options file or there are none, and what is added to
them is right (`RightAdded`, `LinuxRight`), on each of the volumes of a device, which
have the same files (`RightOnDevice`). The loops of the code (over lines, volumes,
directories and files) are recursive functions; one induction over the number of turns
serves them all (`TurnsExist`, `TurnsKeep`), with what each of them keeps in `Kept`.
`ItselfNotListed` assumes that rEFInd's directory is not the root, where it does not
know it (`main.c:1012`), and neither of the two whose loaders are
added without `ShouldScan`: in `EFI/Microsoft/Boot`, where the scripts may put it,
rEFInd lists itself as Windows (`main.c:1094`). `DisksMatch` holds for every text at
address 0: the disk that is found is the first that fits (`FirstKept`), so one compared
through the null pointer is in front of all those with the kernel's version.
`ListsFresh`: reading the lines one after the other gives each list its last line
(`ReadIsFresh`, `LastSaid`), and nothing else changes one; it speaks of `also_scan_dirs`
only where no `dont_scan_volumes` line comes after it, and of `dont_scan_volumes` and
`scan_driver_dirs` without a line as the code does: they stay as they are. That each
list entry of a directory survives the sorting needs nothing of the times (`AddedIs`).

**FswCache.** `CacheTypeCorrect`, `BufferStable`, `CacheCoherent`, `DiscardsRight`,
and `CountsExact` if no user is forgetful. `CacheInv` is `HeldStable`,
`RefcountCovers`, `NoBlockTwice` and `CacheFresh` together: a victim has no
references, so by `RefcountCovers` no holders, so discarding it breaks no
`HeldStable`; a release finds only the holder's entry because of `NoBlockTwice`.

**FswDnode.** `TypeCorrect`, `NeverFreedInUse`, `NoOtherLeak`, `OpensNamed`, for
every tree, cyclic links included, and without the bound on references. The key is exact: each
action changes a node's count and the number of its pointers by the same amount
(`Balanced`), except three error paths that only raise the count. That needs in
`IInv` that a result is on its way exactly when a call has succeeded, that a node
without references has no parent, and that the stack starts with
`fsw_efi_dir_open` and has a node in every other frame. `OpensNamed` (the safety half
of the refinement of `FileTree`) adds `OInv`: each call on the stack leads to what
the call below it waits for (`Chained`), and so does an answer on its way
(`AnswerRight`), so what is left of a path always leads to what the whole names;
parents are those of the tree (`ParentsTrue`). What a path leads to is `Goal`, any
solution of the equations `GoalRight` of the tree; the run's is the recursive
function `MCGoal`. `NamesAssumption`: names are unique, directories and links have one.

**Connect.** `HeldOnlyWhileServed`: for every machine, set of drivers and order of
handles, and whatever is plugged in or out, a driver of file systems has a disk open
exactly while its file system is on it and its volume in memory. `ConnectInv` is that
and the types of the database (`Sound`). A driver that starts or stops on one handle
changes all three or none (`FswStartKeeps`, `FswStopKeeps`), and what every turn of
the loops over drivers and handles keeps, the loop keeps (`TurnsKeep`). `MachineAssumption`: the devices are
finitely many, no file system driver is a bus driver, and the database is sound at
the start.

**Setup.** All four properties, for any machines, packages and starts, and any number
of runs, kills, failures, edits and repairs.

`SetupConfigKept`: what the user wrote into a `refind.conf` is lost only by a move of
`mvrefind.sh` onto the directory of another installation. `ConfInv`: a configuration
lies only under that name (`InPlace`); of the commands of a list at most one concerns
configurations, in the directory of the script (`Orderly`); and while that one is
awaited there is no configuration there, or the move overwrites it knowingly (`Room`).

`SetupKeysFit`: as long as no command has failed, and wherever runs were killed, an
installation with keys of one's own leaves the certificate of the key that rEFInd is
signed with. `KeysFit` speaks of the end of a run, so `KeysInv` follows the set of keys
to there: the certificate in DER form is made last and only when it is missing, so a
set that has it is whole (`Whole`; `Generating` while it is made); after the signing
the run has a whole set; and from `CopyRefindFiles` on each of the two places holds a
content of this key or has a command to come that writes one (`Carried`), which no
other command to come touches (`Spares`).

`SetupOthersKept`: a step of a script takes the last loader of a kind only as `GivenUp`
says. `OthInv`: other loaders lie only where `MayLie` allows, never under a name that
only rEFInd's files have; a command to come is `Tame`: it removes and writes over no
place where they may lie, but in the ways `GivenUp` names; a fresh installation in
EFI/BOOT finds that directory empty of them, or its backup full (`DefaultFree`), and
one in EFI/Microsoft/Boot has moved the loader of Windows away or is about to
(`WindowsAway`). Both that a second backup has no room and that a move can give a
Windows loader a name of rEFInd's need three runs of scripts or more; the run's two
do not reach them, and the attempt to prove a property without these cases did.

`SetupRefindBoots`: at the end of a script that reports no problem the program asked
for is in place and is what the firmware starts. `BootInv`: from the list of copies or
moves on, each place that matters has its content, or a command to come gives it, none
after that one takes it away, and, if it is a move, none before touches either end
(`Ends`); a copy that fails is reported, so that `Arrives` or `problems` survives each
command; the names are those of the directory (`Fits`), except after the upgrade of two
installations at once; an entry of the firmware that was asked for is the first from
then until the end (`First`). This one, too, was restated: an upgrade of two
installations keeps the names of the wrong one, and Windows can put its entry first
where rEFInd makes none (`Doubtful`, `Told`).

Assumptions on the machine at the start: `StartsAssumption` types the ESP;
`KeysAssumption`: a keys directory with the certificate in DER form has the whole set;
`OthersAssumption`: other loaders lie in their own directories or are the default
loader; `NvramAssumption`: the boot entries are a list; `ElsewhereAssumption`: the other
directory a move may name is none of the known ones; `MacAssumption`: a Mac's processor
is x64 or ia32 (`install.sh:401`).

**Only model-checked**: `MenuOnScreen` (every pixel) of `Display`; of `Scan`,
`AsConfigured` (what pairs of braces enclose), the texts and the pictures; `FswFile`
with the drivers, `EveryVolumeServed` of `Connect`, and liveness (`TimeoutEnds`,
`ConnectingEnds`, `OpenEnds`), which like ENABLED and induction over data is out of
this prover's reach. The drivers use recursive operators (trees on disk), for which it
has no SMT.

## 5. Not modelled

- The PNG decoder `lodepng` (third-party): `DecodePNG` is what the program asks of
  it. Fonts are glyphs of one pixel; the layout of their image is left out.
- The verification of images inside shim (external; the hooks are modelled), and
  the GPT signature check before a loader is started.
- Layout and wording: text screens, titles, the list of modes in an error message.
- In `EfiLib`, the text form of device paths and the collection of BBS entries:
  conversions for display, not used by the paths that boot.
- Journals (the drivers ignore them) and volumes damaged beyond blocks that cannot
  be read; times of ISO 9660, which its driver does not report.
- GUID conversions; settings that are one assignment to a variable nothing else
  here reads; icons of volumes.
- In `install.sh`, mounting and dialogues, and the OS X half beyond copying and
  blessing. The package is complete. File names have one case: the scripts look for
  `*.efi` (`install.sh:736`, `mvrefind.sh:142`) by a case-sensitive match, and so miss,
  and write over, a default loader that its owner named BOOTX64.EFI.
- Cyclic chains of EMBRs in a run, sectors beyond 32 bits, partitions matched by
  contents.

### Where the code differs from what one would expect

Met while modelling; the properties say where they leave such a case out.

*Programs and handles.* A failed activation still boots, another partition
(`main.c:1354`). On EFI 1.x an alias of `SelfRootDir` is closed twice
(`lib.c:237`). `WholeDiskBlockIO` of a logical partition is NULL after a tool
(`lib.c:1085`). Hooks stay when `secure_mode()` changes (`main.c:2080`).
`ScanVolumes` drops the root directories of the old list (`lib.c:936`). Two
extended partitions get one number (`main.c:1224`); cyclic EMBR chains are walked
for ever (`main.c:1238`, `lib.c:873`).

*Menus and display.* Without tools the last loader is never scrolled into view
(`menu.c:342`). The selection after a program goes by a substring of the title
(`menu.c:324`). The options editor opens on legacy entries (`menu.c:1161`). The
title is drawn over the old one when labels are hidden (`menu.c:907`, missing
braces). A failed screen shot leaves the console in text mode
(`libeg/screen.c:507`). A resolution that a program changed is set back only if
one was requested; the banner is lost when the screen grew. Lines of text menus
are not padded (`menu.c:560`). Sizes of the font stay those of the old one after
`egLoadFont` (`libeg/text.c:149`).

*Line editor.* Down after Delete hangs (`screen.c:666`); End on a scrolled line,
Backspace in column 0 and Delete misplace the cursor or leave spaces (`screen.c:648`,
712, 691).

*Configuration and scan.* Two cases have runs of their own (*Findings*, section 3).
`FindNumbers` returns NULL for a RAM disk without digits, and `FindInitrd` compares
that with the version of the kernel (`main.c:336`). Where address 0 can be read, what
is there decides, and a kernel may get that disk, against `main.c:301`: the one
exception that `InitrdMatches` names. Where the access stops the machine, rEFInd hangs
while it scans, and the behaviour has no further step. `SelfDirPath` is empty in the
root, which is scanned as a backslash (`main.c:1012`, 1104): the two never compare
equal. The default of `dont_scan_dirs` still excludes it; with a line of the user
rEFInd in the root is in its own menu, against `docs/refind/configfile.html:129`.
`dont_scan_volumes` does not keep out OS X, Windows and fallback loaders (`main.c:1074`–1141;
`docs/refind/configfile.html:254`). `dont_scan_dirs` drops the default
exclusion; rEFInd in `EFI/Microsoft/Boot` lists itself (`main.c:1094`). `volume` after `loader` in a stanza leaves the loader on the old volume
(`config.c:675`); submenus of stanzas use `SelfVolume` (`config.c:761`). UTF-8 is
not decoded (`config.c:188`). The name of a volume is freed twice in
`ScanEfiFiles` (`main.c:1134`); an
empty `refind_linux.conf` is dereferenced (`main.c:613`); the difference of two times
overflows from October 2064 (`main.c:858`); xom.efi is excluded by the test for
boot.efi (`main.c:1087`). `FindMem` stops one place early (`lib.c:1353`);
`FindNumbers` does not see a digit in the first place; `FreeList` leaves its
pointer and count (`lib.c:294`).

*Images.* A 4-bit BMP one pixel wide makes a loop run 2^32 times
(`load_bmp.c:148`); an ICNS block of length 0 is read for ever
(`load_icns.c:122`–168); compressed data as long as raw data is taken for it (189);
`egLoadIcon` dereferences the NULL of an undecodable file (`image.c:280`); a
screen shot over a longer file keeps its tail.

*File systems.* PhysicalSize of ext4 and ReiserFS takes sectors for blocks; the
fallback in `dnode_stat` returns blocks for bytes (`fsw_core.c:495`); ext2 and HFS+
sizes overflow 32 bits. The HFS+ label is a constant, read beyond its end
(`fsw_hfs.c:302`); letters beyond Latin-1 are not folded; the fork type of a key is
not initialised. ISO 9660: a block that cannot be read is used
(`fsw_iso9660.c:371`), a block is kept after mounting (364), a lookup stops at the
first zero record (517), a listing skips a block after a short padding. ext4: the
walk into the first index entry, and references to blocks lost on its errors.
ReiserFS: a hole reads block 0. A path that goes on after a file, and a name that
cannot be copied, leave a directory node retained (`fsw_core.c:593`, 397); a hard
link shows the name it was opened under first (368); cycles of links are followed
for ever. UTF-8 to UTF-16 cuts characters beyond the BMP.

*Connecting.* Types of handles are taken by a stale index (`main.c:1772`,
`BdsConnect.c:450`); `ScanDeviceHandles` succeeds with a NULL list
(`BdsConnect.c:310`); `BdsLibConnectDevicePath` returns the status of the last
instance only; `UpdateBbsTable` never gives a priority back (`BdsHelper.c:58`).

*Installation.* A move to `EFI/Microsoft/Boot` replaces the Windows loader, because
its backup looks for it by a path on the ESP (`mvrefind.sh:168`;
`docs/refind/installing.html` says that it is moved). The backups of the two
scripts have different names (`mvrefind.sh:149`, 163). `PostMoveCleanup` and
`AddNvramEntry` test variables that are never set; `CheckForFiles` tests
`SourceShim` for a file name (120); "Aborting!" in BIOS mode does not
(131–136). After Windows repaired its loader over a rEFInd in its place, both
scripts take that loader for rEFInd. With installations in `EFI/refind` and
`EFI/BOOT` the wrong name is kept (`install.sh:719`–730). Copies of drivers, keys
and the 32-bit program are not checked. An unfinished `refind_linux.conf` is never
completed (659).

## 6. Further work

A proof of `AsConfigured`; an abstract discipline of handles that `RefitLib` refines; HFS+
volumes with names outside Latin-1; `Connect` with two file system drivers for one
volume that stop.
