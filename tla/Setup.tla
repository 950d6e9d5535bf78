-------------------------------- MODULE Setup -------------------------------
(***************************************************************************)
(* The life of an installation: install.sh installs rEFInd on the EFI      *)
(* System Partition, or upgrades it there; mvrefind.sh and mkrlconf.sh run *)
(* on the same machine after it, beside a user who edits the configuration *)
(* and a Windows that repairs its loader. The state is what the scripts    *)
(* can change: files, and the boot entries of the firmware in their order. *)
(* The script runs one command after the other; the commands of its        *)
(* functions are lists that Command executes. It can be killed between any *)
(* two of them, and a command can fail half-way.                           *)
(*                                                                         *)
(* --usedefault names the ESP itself; --root is "/"; an empty directory is *)
(* the same as none; the package of a run is complete.                     *)
(***************************************************************************)
EXTENDS Integers, Sequences, FiniteSets, FiniteSetsExt, FiniteSetTheorems,
        SequenceTheorems, TLAPS

CONSTANTS
  Machines,       \* [os, cpu, efi, secure, driver, efibootmgr, openssl, sbsign]
  Packages,       \* [ver, usedefault, esp, drivers, shim, localkeys, yes]: command lines
  MaxRuns,        \* Bound: scripts started
  MaxFailures,    \* Bound: commands that fail
  Starts,         \* [files, nvram]: machines without rEFInd, or with one
  Elsewhere       \* any other directory on the ESP to move to

\* A configuration of one's own is a refind.conf.
ASSUME StartsAssumption ==
  \A s \in Starts : \A p \in DOMAIN s.files :
    p = <<p[1], p[2]>> /\ (s.files[p].what = "mine" => p[2] = "refind.conf")

VARIABLES
  mach,           \* the machine
  files,          \* <<directory, name>> -> content
  nvram,          \* the paths of the boot entries, in boot order
  sh,             \* the script that runs: its pc, variables and commands to come
  runs, failures

vars == <<mach, files, nvram, sh, runs, failures>>

REFIND == "EFI/refind"
BOOT == "EFI/BOOT"
MSBOOT == "EFI/Microsoft/Boot"
MS == "EFI/Microsoft"
BACKUP == "EFI/BOOT-rEFIndBackup"
NESTED == "EFI/BOOT-rEFIndBackup/BOOT"
KEYS == "/etc/refind.d/keys"
LINUX == "/boot"
Esp == {REFIND, BOOT, MSBOOT, MS, BACKUP, NESTED}

-----------------------------------------------------------------------------
(* Files. A program is for one architecture and signed with one key (0:    *)
(* the key of the rEFInd project).                                         *)

Content(what, ver, arch, key) == [what |-> what, ver |-> ver, arch |-> arch, key |-> key]
Torn == Content("torn", 0, "any", 0)

IsFile(d, n) == <<d, n>> \in DOMAIN files
IsDir(d) == \E p \in DOMAIN files : p[1] = d
With(f, p, c) == [q \in {p} \cup DOMAIN f |-> IF q = p THEN c ELSE f[q]]
Without(f, P) == [p \in DOMAIN f \ P |-> f[p]]
Keys == { files[p].key : p \in DOMAIN files }

\* A set of keys of one's own: the private key and both forms of the certificate.
\* The certificate in DER form comes last, and is there only with what it belongs to.
Whole(f) ==
  \A n \in {"key", "crt", "cer"} :
    <<KEYS, n>> \in DOMAIN f /\ f[<<KEYS, n>>].key = f[<<KEYS, "key">>].key
ASSUME KeysAssumption == \A s \in Starts : <<KEYS, "cer">> \in DOMAIN s.files => Whole(s.files)

\* Other loaders lie where their systems put them, and as the default loader.
Foreign(content) == content.what \in {"windows", "grub"}
ASSUME OthersAssumption ==
  \A s \in Starts : \A p \in DOMAIN s.files :
    Foreign(s.files[p]) =>
      /\ p[1] \in {BOOT, MSBOOT, MS}
      /\ p[2] \in {"bootx64.efi", "bootia32.efi", "grubx64.efi", "bootmgfw.efi"}

ASSUME NvramAssumption == \A s \in Starts : s.nvram \in Seq({ s.nvram[i] : i \in DOMAIN s.nvram })
ASSUME ElsewhereAssumption == Elsewhere \notin Esp \cup {KEYS, LINUX}

\* The firmware-abi of a Mac is EFI64 or EFI32.
ASSUME MacAssumption == \A m \in Machines : m.os = "Darwin" => m.cpu \in {"x64", "ia32"}

\* Commands: cp, rm, mv of a file (-n: not over another) and mv of a directory.
\* "checked": the script reports that it failed.
Cp(content, d, n, checked) ==
  [op |-> "cp", content |-> content, from |-> << >>, to |-> <<d, n>>, checked |-> checked]
Openssl(content, n) ==
  [op |-> "openssl", content |-> content, from |-> << >>, to |-> <<KEYS, n>>, checked |-> FALSE]
Rm(d, n) == [op |-> "rm", content |-> Torn, from |-> <<d, n>>, to |-> << >>, checked |-> FALSE]
Mv(op, from, to) ==
  [op |-> op, content |-> Torn, from |-> from, to |-> to, checked |-> FALSE]

Moved(f, from, to) == With(Without(f, {from}), to, f[from])

\* mv of a directory: into the target if that exists, unless it is there already.
MovedDir(f, from, to, nested) ==
  LET Holds(d) == \E p \in DOMAIN f : p[1] = d
      target == IF Holds(to) THEN nested ELSE to
      Dest(p) == IF p[1] = from THEN <<target, p[2]>> ELSE p
  IN  IF Holds(target) \/ ~Holds(from) THEN f
      ELSE [q \in { Dest(p) : p \in DOMAIN f } |-> f[CHOOSE p \in DOMAIN f : Dest(p) = q]]

Executed(f, c) ==
  CASE c.op \in {"cp", "openssl"} -> With(f, c.to, c.content)
    [] c.op = "rm"    -> Without(f, {c.from})
    [] c.op = "mv"    -> IF c.from \in DOMAIN f THEN Moved(f, c.from, c.to) ELSE f
    [] c.op = "mv-n" -> IF c.from \in DOMAIN f /\ c.to \notin DOMAIN f
                         THEN Moved(f, c.from, c.to) ELSE f

Idle == [script |-> "none", pc |-> "idle", dir |-> REFIND, todo |-> << >>, problems |-> FALSE]

Command ==
  /\ sh.todo # << >>
  /\ files' = Executed(files, Head(sh.todo))
  /\ sh' = [sh EXCEPT !.todo = Tail(@)]
  /\ UNCHANGED <<mach, nvram, runs, failures>>

\* A copy runs out of space or out of luck.
CommandFails(torn) ==
  /\ sh.todo # << >> /\ Head(sh.todo).op = "cp" /\ failures < MaxFailures
  /\ files' = IF torn THEN With(files, Head(sh.todo).to, Torn) ELSE files
  /\ sh' = [sh EXCEPT !.todo = Tail(@), !.problems = @ \/ Head(sh.todo).checked]
  /\ failures' = failures + 1
  /\ UNCHANGED <<mach, nvram, runs>>

Kill ==
  /\ sh.pc \notin {"idle", "done"}
  /\ sh' = Idle
  /\ UNCHANGED <<mach, files, nvram, runs, failures>>

\* Between commands.
At(pc) == sh.pc = pc /\ sh.todo = << >>
Exit == sh' = Idle /\ UNCHANGED <<mach, files, nvram, runs, failures>>
Go(pc, todo) ==
  sh' = [sh EXCEPT !.pc = pc, !.todo = todo] /\ UNCHANGED <<mach, files, nvram, runs, failures>>
If(condition, commands) == IF condition THEN commands ELSE << >>
Answers == IF sh.a.yes THEN {TRUE} ELSE BOOLEAN

-----------------------------------------------------------------------------
(* Which directory, and the names of the programs in it.                   *)

SetVarsForBoot(s) ==
  IF s.a.shim THEN [s EXCEPT !.dir = BOOT, !.x64 = "grubx64.efi", !.ia32 = "bootia32.efi",
                             !.shim = "bootx64.efi"]
  ELSE [s EXCEPT !.dir = BOOT, !.x64 = "bootx64.efi", !.ia32 = "bootia32.efi"]

SetVarsForMsBoot(s) ==
  IF s.a.shim THEN [s EXCEPT !.dir = MSBOOT, !.x64 = "grubx64.efi", !.shim = "bootmgfw.efi"]
  ELSE [s EXCEPT !.dir = MSBOOT, !.x64 = "bootmgfw.efi"]

HasConf(d) == IsFile(d, "refind.conf")

\* find "*.efi": programs, and the directories of drivers.
ProgramNames ==
  { "bootx64.efi", "bootia32.efi", "grubx64.efi", "bootmgfw.efi", "refind_x64.efi", "refind_ia32.efi",
    "shim.efi", "MokManager.efi", "drivers_x64", "drivers_ia32" }
HasPrograms(d) == \E n \in ProgramNames : IsFile(d, n)

\* An installation in EFI/refind keeps the names of one found elsewhere.
Upgraded(s) ==
  LET b == IF HasConf(BOOT) THEN SetVarsForBoot(s) ELSE s
      m == IF HasConf(MSBOOT) THEN SetVarsForMsBoot(b) ELSE b
      r == IF HasConf(REFIND) THEN [m EXCEPT !.dir = REFIND] ELSE m
  IN  [r EXCEPT !.upgrade = \E d \in {BOOT, MSBOOT, REFIND} : HasConf(d)]

\* GetParams() and CheckForFiles() accept the command line.
Accepts(a) ==
  /\ ~(a.esp /\ a.usedefault)
  /\ mach.os = "Darwin" => ~a.shim /\ ~a.localkeys

Install(a) ==
  /\ sh.pc = "idle" /\ runs < MaxRuns /\ Accepts(a)
  /\ runs' = runs + 1
  /\ sh' = [ script |-> "install", pc |-> IF a.usedefault \/ mach.os = "Darwin" THEN "cpu" ELSE "target",
             a |-> a, todo |-> << >>, problems |-> FALSE, upgrade |-> FALSE,
             dir |-> IF a.usedefault THEN BOOT ELSE REFIND,
             x64 |-> IF a.shim THEN "grubx64.efi"
                     ELSE IF a.usedefault THEN "bootx64.efi" ELSE "refind_x64.efi",
             ia32 |-> IF a.usedefault THEN "bootia32.efi" ELSE "refind_ia32.efi",
             shim |-> "shim.efi", double |-> FALSE ]
  /\ UNCHANGED <<mach, files, nvram, failures>>

Double == HasConf(REFIND) /\ (HasConf(BOOT) \/ HasConf(MSBOOT))

\* (faulty variant: mv without -n)
HijackOver == <<Mv("mv", <<MSBOOT, "bootmgfw.efi">>, <<MS, "bootmgfw.efi">>)>>

Hijack == <<Mv("mv-n", <<MSBOOT, "bootmgfw.efi">>, <<MS, "bootmgfw.efi">>)>>

\* DetermineTargetDir(): an upgrade, or EFI/refind in EFI mode.
FindTarget ==
  /\ At("target")
  /\ Upgraded(sh).upgrade \/ mach.efi
  /\ sh' = [Upgraded(sh) EXCEPT !.pc = "cpu", !.double = Double]
  /\ UNCHANGED <<mach, files, nvram, runs, failures>>

InBiosMode == At("target") /\ ~Upgraded(sh).upgrade /\ ~mach.efi
NoConf == \A d \in Esp \cup {Elsewhere} : ~HasConf(d)

\* In BIOS mode: under the name of the Windows loader ...
TakeWindows ==
  /\ InBiosMode /\ NoConf /\ IsFile(MSBOOT, "bootmgfw.efi")
  /\ sh' = [SetVarsForMsBoot(sh) EXCEPT !.pc = "cpu", !.todo = Hijack]
  /\ UNCHANGED <<mach, files, nvram, runs, failures>>

\* ... or as the default loader ...
TakeDefault ==
  /\ InBiosMode /\ ~(NoConf /\ IsFile(MSBOOT, "bootmgfw.efi")) /\ ~HasPrograms(BOOT)
  /\ sh' = [SetVarsForBoot(sh) EXCEPT !.pc = "cpu"]
  /\ UNCHANGED <<mach, files, nvram, runs, failures>>

\* ... in the place of another, which is backed up once.
ReplaceDefault ==
  /\ InBiosMode /\ ~(NoConf /\ IsFile(MSBOOT, "bootmgfw.efi")) /\ HasPrograms(BOOT)
  /\ \E yes \in (IF IsDir(BACKUP) THEN Answers ELSE {TRUE}) :
       IF ~yes THEN sh' = Idle /\ UNCHANGED files
       ELSE /\ sh' = [SetVarsForBoot(sh) EXCEPT !.pc = "cpu"]
            /\ files' = MovedDir(files, BOOT, BACKUP, NESTED)
  /\ UNCHANGED <<mach, nvram, runs, failures>>

-----------------------------------------------------------------------------
(* Checks, and keys of one's own.                                          *)

\* The processor; a 32-bit one in EFI mode is questioned.
CheckCpu ==
  /\ At("cpu")
  /\ IF mach.os = "Darwin" \/ mach.cpu = "x64" \/ (mach.cpu = "ia32" /\ ~mach.efi)
     THEN Go("sign", << >>)
     ELSE \/ mach.cpu = "ia32" /\ ~sh.a.shim /\ Go("sign", << >>)
          \/ (mach.cpu # "ia32" \/ sh.a.shim \/ ~sh.a.yes) /\ Exit

HaveKeys == \A n \in {"key", "crt", "cer"} : IsFile(KEYS, n)

\* (faulty variant: the certificate in DER form is not looked for)
GenerateKeysPair ==
  IF IsFile(KEYS, "key") /\ IsFile(KEYS, "crt") THEN << >>
  ELSE LET new == Content("key", 0, "any", 1 + Max({0} \cup Keys))
       IN  <<Openssl(new, "key"), Openssl(new, "crt"), Openssl(new, "cer")>>

\* A file of one's own keys is copied before it is written again.
BackupName(n) ==
  CASE n = "key" -> "key.backup" [] n = "crt" -> "crt.backup" [] n = "cer" -> "cer.backup"
BackUpKey(n) == If(IsFile(KEYS, n), <<Cp(files[<<KEYS, n>>], KEYS, BackupName(n), FALSE)>>)

\* openssl writes the private key and the certificate, then the DER form of it.
GenerateKeys ==
  IF HaveKeys THEN << >>
  ELSE LET new == Content("key", 0, "any", 1 + Max({0} \cup Keys))
       IN  BackUpKey("key") \o BackUpKey("crt") \o BackUpKey("cer")
           \o <<Openssl(new, "key"), Openssl(new, "crt"), Openssl(new, "cer")>>

\* ReSignBinaries() works on a temporary copy of the package.
ReSignBinaries ==
  /\ At("sign")
  /\ IF ~sh.a.localkeys THEN Go("secure", << >>)
     ELSE IF ~mach.sbsign \/ (GenerateKeys # << >> /\ ~mach.openssl) THEN Exit
     ELSE Go("signed", GenerateKeys)

\* sbsign needs the private key and its certificate.
SignBinaries ==
  At("signed") /\ IF IsFile(KEYS, "key") /\ IsFile(KEYS, "crt") THEN Go("secure", << >>) ELSE Exit

CheckSecureBoot ==
  /\ At("secure")
  /\ LET doubtful == mach.os = "Linux"
                     /\ \/ mach.secure /\ sh.dir # BOOT /\ ~sh.a.shim
                        \/ ~mach.secure /\ (sh.a.shim \/ sh.a.localkeys)
     IN  \/ Go("copy", << >>)
         \/ doubtful /\ ~sh.a.yes /\ Exit

-----------------------------------------------------------------------------
(* CopyRefindFiles().                                                      *)

Key == IF sh.a.localkeys THEN files[<<KEYS, "key">>].key ELSE 0
Program(arch) == Content("rEFInd", sh.a.ver, arch, IF arch = "x64" THEN Key ELSE 0)
Icons == Content("icons", sh.a.ver, "any", 0)
Sample == Content("sample", sh.a.ver, "any", 0)

\* cp -b keeps what was there under another name.
Kept(n) ==
  CASE n = "shim.efi" -> "shim.efi~" [] n = "bootx64.efi" -> "bootx64.efi~"
    [] n = "bootmgfw.efi" -> "bootmgfw.efi~"
CopyShimFiles(to) ==
  If(sh.a.shim, If(IsFile(sh.dir, to), <<Cp(files[<<sh.dir, to>>], sh.dir, Kept(to), FALSE)>>)
                \o <<Cp(Content("shim", 0, "x64", 0), sh.dir, to, TRUE),
                     Cp(Content("MokManager", 0, "x64", 0), sh.dir, "MokManager.efi", TRUE)>>)

CopyKeys ==
  If(sh.a.localkeys /\ IsFile(KEYS, "cer"), <<Cp(files[<<KEYS, "cer">>], sh.dir, "local.cer", FALSE)>>)

DriversDir(arch) == IF arch = "x64" THEN "drivers_x64" ELSE "drivers_ia32"

\* The driver of /boot, if there is one for it.
CopyDrivers(arch) ==
  If(sh.a.drivers = "all" \/ (sh.a.drivers = "boot" /\ mach.driver),
     <<Cp(Content("drivers", sh.a.ver, arch, 0), sh.dir, DriversDir(arch), FALSE)>>)

ToDefault ==
  <<Cp(Program("ia32"), sh.dir, sh.ia32, FALSE), Cp(Program("x64"), sh.dir, sh.x64, TRUE)>>
  \o CopyShimFiles("bootx64.efi")
  \o (IF sh.a.drivers = "all" THEN CopyDrivers("x64") \o CopyDrivers("ia32")
      ELSE If(sh.upgrade, CopyDrivers(mach.cpu)))
  \o CopyKeys

To64 ==
  <<Cp(Program("x64"), sh.dir, sh.x64, TRUE)>> \o CopyDrivers("x64") \o CopyKeys
  \o CopyShimFiles(sh.shim)

To32 == <<Cp(Program("ia32"), sh.dir, sh.ia32, TRUE)>> \o CopyDrivers("ia32")

CopyIcons ==
  If(IsFile(sh.dir, "icons"),
     <<Rm(sh.dir, "icons-backup"), Mv("mv", <<sh.dir, "icons">>, <<sh.dir, "icons-backup">>)>>)
  \o <<Cp(Icons, sh.dir, "icons", TRUE)>>

CopyAllKeys ==
  <<Cp(Content("key", 0, "any", 0), sh.dir, "refind.cer", FALSE)>>
  \o If(IsFile(KEYS, "cer"), <<Cp(files[<<KEYS, "cer">>], sh.dir, "local.cer", FALSE)>>)

\* (faulty variant: the sample always becomes the configuration)
CopyConfOver == <<Cp(Sample, sh.dir, "refind.conf", TRUE)>>

CopyConf ==
  <<Cp(Sample, sh.dir, IF HasConf(sh.dir) THEN "refind.conf-sample" ELSE "refind.conf", TRUE)>>

CopyRefindFiles ==
  /\ At("copy")
  /\ LET programs == IF sh.dir = BOOT THEN ToDefault
                     ELSE IF mach.cpu = "x64" \/ sh.dir = MSBOOT THEN To64 ELSE To32
     IN  Go("entry", programs \o CopyIcons \o CopyAllKeys \o CopyConf)

-----------------------------------------------------------------------------
(* Boot entries, and the options for Linux kernels.                        *)

Refind ==
  IF mach.cpu = "ia32" THEN "refind_ia32.efi"
  ELSE IF sh.a.shim THEN sh.shim ELSE "refind_x64.efi"

IsEntry(path) == \E i \in DOMAIN nvram : nvram[i] = path
EntriesWithout(path) ==
  IF ~IsEntry(path) THEN nvram
  ELSE LET i == CHOOSE i \in DOMAIN nvram : nvram[i] = path
       IN  SubSeq(nvram, 1, i - 1) \o SubSeq(nvram, i + 1, Len(nvram))

\* (faulty variant: an entry that exists is left where it is)
AddBootEntryOnce(path, next) ==
  /\ sh' = [sh EXCEPT !.pc = IF mach.efibootmgr /\ ~IsEntry(path) THEN "create" ELSE next,
                      !.problems = @ \/ ~mach.efibootmgr]
  /\ UNCHANGED <<mach, files, nvram, runs, failures>>

\* An entry that is not the first is deleted and made again. In BIOS mode
\* efibootmgr sees none.
AddBootEntry(path, next) ==
  LET seen  == mach.efi /\ IsEntry(path)
      first == seen /\ nvram[1] = path
  IN  /\ sh' = [sh EXCEPT !.pc = IF mach.efibootmgr /\ ~first THEN "create" ELSE next,
                          !.problems = @ \/ ~mach.efibootmgr]
      /\ nvram' = IF mach.efibootmgr /\ seen /\ ~first THEN EntriesWithout(path) ELSE nvram
      /\ UNCHANGED <<mach, files, runs, failures>>

\* efibootmgr -c puts the new entry first.
CreateEntry(path, next) ==
  \/ /\ mach.efi
     /\ nvram' = <<path>> \o nvram
     /\ sh' = [sh EXCEPT !.pc = next]
     /\ UNCHANGED <<mach, files, runs, failures>>
  \/ /\ ~mach.efi \/ failures < MaxFailures
     /\ failures' = IF mach.efi THEN failures + 1 ELSE failures
     /\ sh' = [sh EXCEPT !.pc = next, !.problems = TRUE]
     /\ UNCHANGED <<mach, files, nvram, runs>>

\* bless, on a Mac, and its exit status.
Bless ==
  /\ At("entry") /\ sh.script = "install" /\ mach.os = "Darwin" /\ sh.dir # BOOT
  /\ \/ /\ nvram' = <<<<sh.dir, Refind>>>> \o EntriesWithout(<<sh.dir, Refind>>)
        /\ sh' = [sh EXCEPT !.pc = "done"]
        /\ UNCHANGED failures
     \/ /\ failures < MaxFailures
        /\ failures' = failures + 1
        /\ sh' = [sh EXCEPT !.pc = "done", !.problems = TRUE]
        /\ UNCHANGED nvram
  /\ UNCHANGED <<mach, files, runs>>

\* Nothing to do for a loader that the firmware finds by its name.
NoEntry ==
  At("entry") /\ sh.script = "install" /\ sh.dir \in {BOOT, MSBOOT} /\ Go("done", << >>)

InstallEntry ==
  \/ /\ At("entry") /\ sh.script = "install" /\ mach.os = "Linux" /\ sh.dir = REFIND
     /\ AddBootEntry(<<sh.dir, Refind>>, "options")
  \/ At("create") /\ sh.script = "install" /\ CreateEntry(<<sh.dir, Refind>>, "options")

\* One line after the other; an existing file is never completed.
GenerateRefindLinuxConf ==
  /\ At("options")
  /\ Go("done", If(~IsFile(LINUX, "refind_linux.conf"),
                   [i \in 1 .. 2 |-> Cp(Content("options", i, "any", 0), LINUX, "refind_linux.conf", FALSE)]))

Finish == At("done") /\ Exit

InstallNext ==
  \/ \E a \in Packages : Install(a)
  \/ Command \/ (\E torn \in BOOLEAN : CommandFails(torn)) \/ Kill
  \/ FindTarget \/ TakeWindows \/ TakeDefault \/ ReplaceDefault
  \/ CheckCpu \/ ReSignBinaries \/ SignBinaries \/ CheckSecureBoot
  \/ CopyRefindFiles \/ Bless \/ NoEntry \/ InstallEntry \/ GenerateRefindLinuxConf \/ Finish

-----------------------------------------------------------------------------
(* mvrefind.sh.                                                            *)

\* AdjustFilenames(): the programs of rEFInd have other names in two places.
Name64(d) ==
  CASE d = BOOT -> "bootx64.efi" [] d = MSBOOT -> "bootmgfw.efi" [] OTHER -> "refind_x64.efi"
Name32(d) == IF d = BOOT THEN "bootia32.efi" ELSE "refind_ia32.efi"

Standard(d) == d \in {BOOT, MSBOOT}

\* CheckForFiles() looks for a shim under a wrong name: no installation with
\* one is ever found.
IsInstallation(d) ==
  /\ ~IsFile(d, "grubx64.efi")
  /\ IsFile(d, Name64(d)) \/ IsFile(d, Name32(d))
  /\ HasConf(d)

\* Is that rEFInd for this machine? The script only looks at names.
HasRefind(d) ==
  LET p == <<d, IF mach.cpu = "x64" THEN Name64(d) ELSE Name32(d)>>
  IN  p \in DOMAIN files /\ files[p].what = "rEFInd" /\ files[p].arch = mach.cpu /\ IsFile(d, "icons")

Move(src, dst) ==
  /\ sh.pc = "idle" /\ runs < MaxRuns /\ mach.os = "Linux"
  /\ src # dst /\ IsInstallation(src)
  /\ ~Standard(dst) => mach.efibootmgr /\ ~HasPrograms(dst)
  /\ runs' = runs + 1
  /\ sh' = [ script |-> "mvrefind", pc |-> "backup", src |-> src, dir |-> dst, todo |-> << >>, problems |-> FALSE,
             overwrites |-> HasConf(dst), rEFInd |-> HasRefind(src), a |-> [yes |-> FALSE] ]
  /\ UNCHANGED <<mach, files, nvram, failures>>

\* The loader in EFI/Microsoft/Boot should be moved away as well, but the path
\* is one of the ESP and not of the system: nothing is moved.
BackUpTarget ==
  /\ At("backup")
  /\ IF sh.dir # BOOT \/ ~IsDir(BOOT) THEN Go("move", << >>)
     ELSE IF IsDir(BACKUP) THEN \E yes \in Answers : IF yes THEN Go("move", << >>) ELSE Exit
     ELSE /\ files' = MovedDir(files, BOOT, BACKUP, NESTED)
          /\ sh' = [sh EXCEPT !.pc = "move"]
          /\ UNCHANGED <<mach, nvram, runs, failures>>

\* A directory is not moved over another; the rest is moved over what is there.
\* PostMoveCleanup() tests variables that are never set, and restores nothing.
MoveDir(n) == Mv("mv-n", <<sh.src, n>>, <<sh.dir, n>>)
MoveFile(n, m) == Mv("mv", <<sh.src, n>>, <<sh.dir, m>>)

MoveFiles ==
  /\ At("move")
  /\ Go("entry", <<MoveDir("icons"), MoveDir("icons-backup"), MoveDir("drivers_x64"),
                   MoveDir("drivers_ia32"), MoveDir("refind.cer"), MoveDir("local.cer"),
                   MoveFile(Name64(sh.src), Name64(sh.dir)), MoveFile(Name32(sh.src), Name32(sh.dir)),
                   MoveFile("refind.conf", "refind.conf"),
                   MoveFile("refind.conf-sample", "refind.conf-sample")>>)

MovedEntry == <<sh.dir, IF mach.cpu = "x64" THEN Name64(sh.dir) ELSE Name32(sh.dir)>>

AddNvramEntry ==
  \/ At("entry") /\ sh.script = "mvrefind" /\ AddBootEntry(MovedEntry, "done")
  \/ At("create") /\ sh.script = "mvrefind" /\ CreateEntry(MovedEntry, "done")

-----------------------------------------------------------------------------
(* Everything else that changes these files.                               *)

\* mkrlconf.sh
MkRlConf(force) ==
  /\ sh.pc = "idle" /\ runs < MaxRuns /\ mach.os = "Linux"
  /\ ~IsFile(LINUX, "refind_linux.conf") \/ force
  /\ runs' = runs + 1
  /\ sh' = [Idle EXCEPT !.pc = "rlconf",
              !.todo = [i \in 1 .. 2 |-> Cp(Content("options", i, "any", 0), LINUX, "refind_linux.conf", FALSE)]]
  /\ UNCHANGED <<mach, files, nvram, failures>>

MkRlConfEnds == At("rlconf") /\ Exit

\* A configuration of one's own in this directory, unlike any before.
Mine == { files[p] : p \in { q \in DOMAIN files : files[q].what = "mine" } }

UserEdits(d) ==
  /\ sh.pc = "idle" /\ HasConf(d) /\ files[<<d, "refind.conf">>].what = "sample"
  /\ files' = With(files, <<d, "refind.conf">>,
                   Content("mine", 1 + Max({0} \cup { m.ver : m \in Mine }), "any", 0))
  /\ UNCHANGED <<mach, nvram, sh, runs, failures>>

\* Windows puts its loader back, and its entry first.
WindowsRepairs ==
  /\ sh.pc = "idle" /\ <<MSBOOT, "bootmgfw.efi">> \in DOMAIN files
  /\ files[<<MSBOOT, "bootmgfw.efi">>].what # "windows"
  /\ files' = With(files, <<MSBOOT, "bootmgfw.efi">>, Content("windows", 0, mach.cpu, 0))
  /\ nvram' = <<<<MSBOOT, "bootmgfw.efi">>>> \o EntriesWithout(<<MSBOOT, "bootmgfw.efi">>)
  /\ UNCHANGED <<mach, sh, runs, failures>>

Init ==
  /\ mach \in Machines
  /\ \E s \in Starts :
       /\ \A p \in DOMAIN s.files : s.files[p].arch \in {"any", mach.cpu}
       /\ files = s.files /\ nvram = s.nvram
  /\ sh = Idle /\ runs = 0 /\ failures = 0

Next ==
  \/ InstallNext
  \/ \E src, dst \in {REFIND, BOOT, MSBOOT, Elsewhere} : Move(src, dst)
  \/ BackUpTarget \/ MoveFiles \/ AddNvramEntry
  \/ \E force \in BOOLEAN : MkRlConf(force)
  \/ MkRlConfEnds
  \/ \E d \in Esp \cup {Elsewhere} : UserEdits(d)
  \/ WindowsRepairs

Spec == Init /\ [][Next]_vars

-----------------------------------------------------------------------------
(* What the firmware starts: the first entry that it can load, or else the *)
(* default loader.                                                         *)

Loads(path) ==
  /\ path \in DOMAIN files /\ files[path].what # "torn" /\ files[path].arch = mach.cpu
  /\ files[path].what = "shim" => IsFile(path[1], "grubx64.efi")

Fallback == <<BOOT, IF mach.cpu = "x64" THEN "bootx64.efi" ELSE "bootia32.efi">>
Loaded(path) == IF files[path].what = "shim" THEN <<path[1], "grubx64.efi">> ELSE path
Candidates == Append(nvram, Fallback)
Booted ==
  LET loading == { i \in DOMAIN Candidates : Loads(Candidates[i]) }
  IN  IF loading = {} THEN << >> ELSE Loaded(Candidates[Min(loading)])

\* What a script put in place for the firmware to start.
Target ==
  IF sh.script = "mvrefind" THEN MovedEntry
  ELSE <<sh.dir, IF mach.cpu = "ia32" THEN sh.ia32
                 ELSE IF ~sh.a.shim THEN sh.x64
                 ELSE IF sh.dir = BOOT THEN "bootx64.efi" ELSE sh.shim>>

Installed == sh.pc = "done" /\ sh.todo = << >> /\ ~sh.problems

\* An upgrade of two installations at once (DetermineTargetDir() keeps the names
\* of the one it does not upgrade); a 32-bit machine whose program is not in
\* EFI/refind (the copy is not checked, or is the 64-bit program); a move of what
\* is no installation of rEFInd, as the loader of Windows is that came back.
Doubtful ==
  \/ sh.script = "install" /\ (sh.double \/ (mach.cpu = "ia32" /\ sh.dir # REFIND))
  \/ sh.script = "mvrefind" /\ ~sh.rEFInd

\* The firmware was told of it, or has no entry for anything else.
Told ==
  \/ sh.script = "mvrefind" \/ sh.dir = REFIND
  \/ sh.dir = BOOT /\ \A i \in DOMAIN nvram : ~Loads(nvram[i])

(* When install.sh or mvrefind.sh ends and reports no problem, the rEFInd  *)
(* just installed or moved is there in full: a program that the firmware   *)
(* can load, through shim if asked, with its configuration and icons; and  *)
(* the next start of the machine is this program if the firmware was told, *)
(* whatever was killed, failed or was repaired by Windows before.          *)
RefindBoots ==
  Installed /\ sh.script # "none" /\ ~Doubtful =>
    /\ Loads(Target)
    /\ Loaded(Target) \in DOMAIN files /\ files[Loaded(Target)].what = "rEFInd"
    /\ sh.script = "install" => files[Loaded(Target)].ver = sh.a.ver
    /\ HasConf(sh.dir) /\ IsFile(sh.dir, "icons")
    /\ Told => Booted = Loaded(Target)

(* What the user wrote into a refind.conf is never lost, whichever scripts *)
(* run, fail or are killed: only a move onto the directory of another      *)
(* installation replaces the configuration there.                          *)
ConfigKept ==
  [][ \/ Mine \subseteq Mine'
      \/ sh.script = "mvrefind" /\ sh.overwrites ]_vars

(* The scripts keep the loaders of other systems on the ESP, if only under *)
(* the name of a backup, however many run. The last one of a kind goes     *)
(* only where the script says so, or takes it for its own: --usedefault; a *)
(* move into its place, and an upgrade there, though Windows may have come *)
(* back or a copy have failed; the loader of Windows when the place to     *)
(* keep it is taken; the default loader when there is no room for another  *)
(* backup; and one that mvrefind.sh has given a name of rEFInd's.          *)
Others == { files[p].what : p \in { q \in DOMAIN files : Foreign(files[q]) } }

GivenUp(k) ==
  \/ sh.script = "mvrefind" /\ Standard(sh.dir)
  \/ sh.script = "install" /\ (sh.a.usedefault \/ (sh.upgrade /\ Standard(sh.dir)))
  \/ sh.script = "install" /\ sh.dir = MSBOOT
     /\ IsFile(MS, "bootmgfw.efi") /\ files[<<MS, "bootmgfw.efi">>].what # k
  \/ sh.script = "install" /\ sh.dir = BOOT /\ IsDir(NESTED)
  \/ \E p \in DOMAIN files :
       files[p].what = k /\ p[2] \in {"refind_x64.efi", "refind_ia32.efi"}

OthersKept == [][ sh.pc = "idle" \/ \A k \in Others \ Others' : GivenUp(k) ]_vars

(* After an installation with --localkeys, if no command has failed in it  *)
(* or before it, the certificate that lies beside rEFInd for the user to   *)
(* enroll is the one of the key that rEFInd is signed with, even if an     *)
(* earlier run was killed while it made the keys.                          *)
KeysFit ==
  Installed /\ failures = 0 /\ sh.script = "install" /\ mach.os = "Linux" /\ sh.a.localkeys /\ mach.cpu = "x64" =>
    /\ IsFile(sh.dir, "local.cer")
    /\ files[<<sh.dir, "local.cer">>].key = files[<<sh.dir, sh.x64>>].key
-----------------------------------------------------------------------------
(* Proofs: what keeps a configuration of the user's. A content of "mine"   *)
(* lies only under the name refind.conf; no list of commands writes that   *)
(* name but one, and only where no such file was when the list was made    *)
(* and none can have come since, or where the move overwrites it knowingly.*)

Conf(d) == <<d, "refind.conf">>
Pair(p) == p = <<p[1], p[2]>>

InPlace(f) == \A p \in DOMAIN f : Pair(p) /\ (f[p].what = "mine" => p[2] = "refind.conf")

\* A command that leaves the configurations alone.
Quiet(c) ==
  /\ c.op \in {"cp", "openssl", "rm", "mv", "mv-n"}
  /\ c.op \in {"cp", "openssl"} => Pair(c.to) /\ c.to[2] # "refind.conf" /\ c.content.what # "mine"
  /\ c.op = "rm" => c.from[2] # "refind.conf"
  /\ c.op \in {"mv", "mv-n"} => /\ Pair(c.to) /\ c.to[2] # "refind.conf"
                                 /\ c.from[2] # "refind.conf"

\* One that puts a configuration into d: the sample, or one from elsewhere.
Configures(c, d) ==
  /\ c.to = Conf(d)
  /\ \/ c.op = "cp" /\ c.content.what # "mine"
     \/ c.op = "mv" /\ c.from[2] = "refind.conf"

IsList(s) == \E S : s \in Seq(S)

Orderly(todo, d) ==
  \A i \in 1 .. Len(todo) :
    \/ Quiet(todo[i])
    \/ Configures(todo[i], d) /\ \A j \in 1 .. Len(todo) \ {i} : Quiet(todo[j])

Overwrites == sh.script = "mvrefind" /\ sh.overwrites

\* The fields the script's variables have.
Fields ==
  /\ sh.script \in {"none", "install", "mvrefind"}
  /\ {"script", "pc", "dir", "todo", "problems"} \subseteq DOMAIN sh
  /\ sh.script = "install" => {"a", "upgrade", "x64", "ia32", "shim", "double"} \subseteq DOMAIN sh
  /\ sh.script = "mvrefind" => {"a", "src", "overwrites", "rEFInd"} \subseteq DOMAIN sh

\* No program has the name of the configuration.
Named(s) ==
  s.script = "install" =>
    /\ s.x64 \in {"refind_x64.efi", "bootx64.efi", "grubx64.efi", "bootmgfw.efi"}
    /\ s.ia32 \in {"refind_ia32.efi", "bootia32.efi"}
    /\ s.shim \in {"shim.efi", "bootx64.efi", "bootmgfw.efi"}

\* Which script is at work.
InstallSteps == {"target", "cpu", "sign", "signed", "secure", "copy"}
MoveSteps == {"backup", "move"}

\* A configuration is still to come.
Awaited ==
  \/ sh.pc \in MoveSteps
  \/ \E i \in 1 .. Len(sh.todo) : Configures(sh.todo[i], sh.dir)

Room == Awaited => Conf(sh.dir) \notin DOMAIN files \/ Overwrites

ConfInv ==
  /\ InPlace(files)
  /\ Fields /\ Named(sh)
  /\ sh.pc = "idle" => sh.todo = << >> /\ sh.script = "none"
  /\ sh.pc \in InstallSteps => sh.script = "install"
  /\ sh.pc \in MoveSteps => sh.todo = << >> /\ sh.script = "mvrefind"
  /\ IsList(sh.todo) /\ Orderly(sh.todo, sh.dir)
  /\ Room

-----------------------------------------------------------------------------
\* What a command does to the configurations.

MineOf(f) == { f[p] : p \in { q \in DOMAIN f : f[q].what = "mine" } }

LEMMA TornIsNotMine == Torn.what # "mine"
BY DEF Torn, Content

LEMMA Written ==
  ASSUME NEW f, InPlace(f), NEW p, Pair(p), NEW c, c.what # "mine",
         p[2] # "refind.conf" \/ p \notin DOMAIN f
  PROVE  /\ InPlace(With(f, p, c)) /\ MineOf(f) \subseteq MineOf(With(f, p, c))
         /\ DOMAIN With(f, p, c) = {p} \cup DOMAIN f
<1>. DEFINE e == With(f, p, c)
<1>1. DOMAIN e = {p} \cup DOMAIN f /\ e[p] = c /\ \A q \in DOMAIN f : q # p => e[q] = f[q]
  BY DEF With
<1>. HIDE DEF e
<1>2. InPlace(e)
  BY <1>1 DEF InPlace
<1>3. ASSUME NEW q \in DOMAIN f, f[q].what = "mine" PROVE q \in DOMAIN e /\ e[q] = f[q]
  BY <1>1, <1>3 DEF InPlace
<1>4. MineOf(f) \subseteq MineOf(e)
  BY <1>3 DEF MineOf
<1>. QED BY <1>1, <1>2, <1>4 DEF e

\* A write over a configuration of one's own spoils that one only.
LEMMA WrittenInPlace ==
  ASSUME NEW f, InPlace(f), NEW p, Pair(p), NEW c, c.what = "mine" => p[2] = "refind.conf"
  PROVE  InPlace(With(f, p, c))
BY DEF InPlace, With

LEMMA Removed ==
  ASSUME NEW f, InPlace(f), NEW p, p[2] # "refind.conf"
  PROVE  /\ InPlace(Without(f, {p})) /\ MineOf(f) \subseteq MineOf(Without(f, {p}))
         /\ DOMAIN Without(f, {p}) = DOMAIN f \ {p}
<1>. DEFINE e == Without(f, {p})
<1>1. DOMAIN e = DOMAIN f \ {p} /\ \A q \in DOMAIN e : e[q] = f[q]
  BY DEF Without
<1>. HIDE DEF e
<1>2. InPlace(e)
  BY <1>1 DEF InPlace
<1>3. ASSUME NEW q \in DOMAIN f, f[q].what = "mine" PROVE q \in DOMAIN e /\ e[q] = f[q]
  BY <1>1, <1>3 DEF InPlace
<1>4. MineOf(f) \subseteq MineOf(e)
  BY <1>3 DEF MineOf
<1>. QED BY <1>1, <1>2, <1>4 DEF e

LEMMA MovedQuietly ==
  ASSUME NEW f, InPlace(f), NEW from \in DOMAIN f, NEW to, Pair(to),
         from[2] # "refind.conf", to[2] # "refind.conf"
  PROVE  /\ InPlace(Moved(f, from, to)) /\ MineOf(f) \subseteq MineOf(Moved(f, from, to))
         /\ DOMAIN Moved(f, from, to) \subseteq {to} \cup DOMAIN f
<1>. DEFINE g == Without(f, {from})
<1>1. InPlace(g) /\ MineOf(f) \subseteq MineOf(g) /\ DOMAIN g = DOMAIN f \ {from}
  BY Removed
<1>2. f[from].what # "mine"
  BY DEF InPlace
<1>3. Moved(f, from, to) = With(g, to, f[from])
  BY DEF Moved
<1>. HIDE DEF g
<1>4. /\ InPlace(With(g, to, f[from])) /\ MineOf(g) \subseteq MineOf(With(g, to, f[from]))
      /\ DOMAIN With(g, to, f[from]) = {to} \cup DOMAIN g
  BY <1>1, <1>2, Written
<1>. QED BY <1>1, <1>3, <1>4

LEMMA QuietExecuted ==
  ASSUME NEW f, InPlace(f), NEW c, Quiet(c)
  PROVE  /\ InPlace(Executed(f, c)) /\ MineOf(f) \subseteq MineOf(Executed(f, c))
         /\ \A d : Conf(d) \in DOMAIN Executed(f, c) => Conf(d) \in DOMAIN f
<1>. DEFINE e == Executed(f, c)
<1>0. \A d : Conf(d)[2] = "refind.conf"
  BY DEF Conf
<1>1. CASE c.op \in {"cp", "openssl"}
  <2>1. e = With(f, c.to, c.content)
    BY <1>1 DEF Executed
  <2>2. Pair(c.to) /\ c.to[2] # "refind.conf" /\ c.content.what # "mine"
    BY <1>1 DEF Quiet
  <2>3. InPlace(e) /\ MineOf(f) \subseteq MineOf(e) /\ DOMAIN e = {c.to} \cup DOMAIN f
    BY <2>1, <2>2, Written
  <2>. QED BY <1>0, <2>2, <2>3
<1>2. CASE c.op = "rm"
  <2>1. e = Without(f, {c.from})
    BY <1>2 DEF Executed
  <2>2. c.from[2] # "refind.conf"
    BY <1>2 DEF Quiet
  <2>3. InPlace(e) /\ MineOf(f) \subseteq MineOf(e) /\ DOMAIN e = DOMAIN f \ {c.from}
    BY <2>1, <2>2, Removed
  <2>. QED BY <2>3
<1>3. CASE c.op \in {"mv", "mv-n"}
  <2>1. e = f \/ (c.from \in DOMAIN f /\ e = Moved(f, c.from, c.to))
    BY <1>3 DEF Executed
  <2>2. Pair(c.to) /\ c.to[2] # "refind.conf" /\ c.from[2] # "refind.conf"
    BY <1>3 DEF Quiet
  <2>3. CASE c.from \in DOMAIN f /\ e = Moved(f, c.from, c.to)
    <3>1. InPlace(e) /\ MineOf(f) \subseteq MineOf(e) /\ DOMAIN e \subseteq {c.to} \cup DOMAIN f
      BY <2>2, <2>3, MovedQuietly
    <3>. QED BY <1>0, <2>2, <3>1
  <2>. QED BY <2>1, <2>3
<1>. QED BY <1>1, <1>2, <1>3 DEF Quiet

LEMMA ConfExecuted ==
  ASSUME NEW f, InPlace(f), NEW c, NEW d, Configures(c, d)
  PROVE  /\ InPlace(Executed(f, c))
         /\ Conf(d) \notin DOMAIN f => MineOf(f) \subseteq MineOf(Executed(f, c))
<1>. DEFINE e == Executed(f, c)
<1>0. Pair(Conf(d)) /\ Conf(d)[2] = "refind.conf" /\ c.to = Conf(d)
  BY DEF Conf, Pair, Configures
<1>1. CASE c.op = "cp" /\ c.content.what # "mine"
  <2>1. e = With(f, Conf(d), c.content)
    BY <1>0, <1>1 DEF Executed
  <2>. QED BY <1>0, <1>1, <2>1, Written, WrittenInPlace
<1>2. CASE c.op = "mv" /\ c.from[2] = "refind.conf"
  <2>1. e = IF c.from \in DOMAIN f THEN Moved(f, c.from, Conf(d)) ELSE f
    BY <1>0, <1>2 DEF Executed
  <2>2. CASE c.from \notin DOMAIN f
    BY <2>1, <2>2
  <2>3. CASE c.from \in DOMAIN f
    <3>1. e = With(Without(f, {c.from}), Conf(d), f[c.from])
      BY <2>1, <2>3 DEF Moved
    <3>2. /\ DOMAIN e = {Conf(d)} \cup (DOMAIN f \ {c.from})
          /\ e[Conf(d)] = f[c.from]
          /\ \A q \in DOMAIN f \ {c.from} : q # Conf(d) => e[q] = f[q]
      BY <3>1 DEF With, Without
    <3>. HIDE DEF e
    <3>3. InPlace(e)
      BY <1>0, <3>2 DEF InPlace
    <3>4. ASSUME Conf(d) \notin DOMAIN f PROVE MineOf(f) \subseteq MineOf(e)
      <4>1. ASSUME NEW q \in DOMAIN f PROVE \E r \in DOMAIN e : e[r] = f[q]
        BY <3>2, <3>4
      <4>. QED BY <4>1 DEF MineOf
    <3>. QED BY <3>3, <3>4 DEF e
  <2>. QED BY <2>2, <2>3
<1>. QED BY <1>1, <1>2 DEF Configures

LEMMA DirMoved ==
  ASSUME NEW f, InPlace(f), NEW from, NEW to, NEW nested, from # to, from # nested
  PROVE  LET e == MovedDir(f, from, to, nested)
         IN  /\ InPlace(e) /\ MineOf(f) \subseteq MineOf(e)
             /\ \A d : d \notin {to, nested} /\ Conf(d) \in DOMAIN e => Conf(d) \in DOMAIN f
<1>. DEFINE Holds(d) == \E p \in DOMAIN f : p[1] = d
            target == IF Holds(to) THEN nested ELSE to
            Dest(p) == IF p[1] = from THEN <<target, p[2]>> ELSE p
            e == MovedDir(f, from, to, nested)
<1>1. e = IF Holds(target) \/ ~Holds(from) THEN f
          ELSE [q \in { Dest(p) : p \in DOMAIN f } |-> f[CHOOSE p \in DOMAIN f : Dest(p) = q]]
  BY DEF MovedDir
<1>2. target \in {to, nested} /\ target # from
  OBVIOUS
<1>3. CASE Holds(target) \/ ~Holds(from)
  BY <1>1, <1>3
<1>4. CASE ~Holds(target) /\ Holds(from)
  <2>1. DOMAIN e = { Dest(p) : p \in DOMAIN f }
        /\ \A q \in DOMAIN e : e[q] = f[CHOOSE p \in DOMAIN f : Dest(p) = q]
    BY <1>1, <1>4
  <2>. HIDE DEF e
  <2>2. \A p \in DOMAIN f : p = <<p[1], p[2]>> /\ p[1] # target
    BY <1>4 DEF InPlace, Pair
  <2>. HIDE DEF target
  <2>3. ASSUME NEW p \in DOMAIN f, NEW q \in DOMAIN f, Dest(p) = Dest(q) PROVE p = q
    BY <1>2, <2>2, <2>3, ZenonT(40)
  <2>4. ASSUME NEW p \in DOMAIN f
        PROVE  Dest(p) \in DOMAIN e /\ e[Dest(p)] = f[p] /\ Dest(p)[2] = p[2] /\ Pair(Dest(p))
    <3>1. Dest(p)[2] = p[2] /\ Pair(Dest(p))
      BY <2>2 DEF Pair
    <3>2. Dest(p) \in DOMAIN e
      BY <2>1, ZenonT(40)
    <3>. HIDE DEF Dest
    <3>3. PICK q \in DOMAIN f : q = CHOOSE x \in DOMAIN f : Dest(x) = Dest(p)
      OBVIOUS
    <3>4. Dest(q) = Dest(p)
      BY <3>3
    <3>5. q = p
      BY <2>3, <3>4
    <3>. QED BY <2>1, <3>1, <3>2, <3>3, <3>5
  <2>5. ASSUME NEW q \in DOMAIN e
        PROVE  \E p \in DOMAIN f : q = Dest(p) /\ e[q] = f[p] /\ q[2] = p[2] /\ Pair(q)
    <3>1. PICK p \in DOMAIN f : q = Dest(p)
      BY <2>1
    <3>. HIDE DEF Dest
    <3>2. e[q] = f[p] /\ q[2] = p[2] /\ Pair(q)
      BY <2>4, <3>1
    <3>. QED BY <3>1, <3>2
  <2>. HIDE DEF Dest
  <2>6. InPlace(e)
    BY <2>5 DEF InPlace
  <2>7. MineOf(f) \subseteq MineOf(e)
    <3>1. \A p \in DOMAIN f : Dest(p) \in DOMAIN e /\ e[Dest(p)] = f[p]
      BY <2>4
    <3>. QED BY <3>1 DEF MineOf
  <2>8. ASSUME NEW d, d \notin {to, nested}, Conf(d) \in DOMAIN e PROVE Conf(d) \in DOMAIN f
    BY <1>2, <2>5, <2>8 DEF Conf, Dest
  <2>. QED BY <2>6, <2>7, <2>8 DEF e
<1>. QED BY <1>3, <1>4

-----------------------------------------------------------------------------
\* Lists of commands.

QuietList(s) == \E S : s \in Seq(S) /\ \A c \in S : Quiet(c)

LEMMA QuietIntro ==
  ASSUME NEW S, NEW s \in Seq(S), \A c \in S : Quiet(c) PROVE QuietList(s)
BY Zenon DEF QuietList

LEMMA QuietNothing == QuietList(<< >>)
<1>. DEFINE T == {}
            l == << >>
<1>1. l \in Seq(T) /\ \A c \in T : Quiet(c)
  BY EmptySeq
<1>. HIDE DEF T, l
<1>2. QuietList(l)
  BY <1>1, QuietIntro
<1>. QED BY <1>2 DEF l

LEMMA QuietOne == ASSUME NEW c, Quiet(c) PROVE QuietList(<<c>>)
<1>. DEFINE T == {c}
            l == <<c>>
<1>1. l \in Seq(T) /\ \A x \in T : Quiet(x)
  OBVIOUS
<1>. HIDE DEF T, l
<1>2. QuietList(l)
  BY <1>1, QuietIntro
<1>. QED BY <1>2 DEF l

LEMMA QuietBoth ==
  ASSUME NEW a, NEW b, QuietList(a), QuietList(b) PROVE QuietList(a \o b)
<1>1. PICK S : a \in Seq(S) /\ \A c \in S : Quiet(c)
  BY DEF QuietList
<1>2. PICK T : b \in Seq(T) /\ \A c \in T : Quiet(c)
  BY DEF QuietList
<1>3. a \in Seq(S \cup T) /\ b \in Seq(S \cup T)
  BY <1>1, <1>2
<1>4. a \o b \in Seq(S \cup T)
  BY <1>3, ConcatProperties
<1>. QED BY <1>1, <1>2, <1>4 DEF QuietList

LEMMA QuietIf ==
  ASSUME NEW g, NEW a, g => QuietList(a) PROVE QuietList(If(g, a))
BY QuietNothing DEF If

LEMMA Exclusive == ASSUME NEW c, NEW d, Quiet(c), Configures(c, d) PROVE FALSE
<1>1. c.to[2] = "refind.conf"
  BY DEF Configures, Conf
<1>2. c.op \in {"cp", "mv"}
  BY DEF Configures
<1>. QED BY <1>1, <1>2 DEF Quiet

LEMMA QuietOrderly ==
  ASSUME NEW s, QuietList(s), NEW d
  PROVE  /\ IsList(s) /\ Len(s) \in Nat
         /\ \A i \in 1 .. Len(s) : Quiet(s[i])
         /\ Orderly(s, d) /\ ~\E i \in 1 .. Len(s) : Configures(s[i], d)
<1>1. PICK S : s \in Seq(S) /\ \A c \in S : Quiet(c)
  BY DEF QuietList
<1>2. Len(s) \in Nat /\ \A i \in 1 .. Len(s) : s[i] \in S
  BY <1>1, LenProperties, ElementOfSeq
<1>3. \A i \in 1 .. Len(s) : Quiet(s[i])
  BY <1>1, <1>2
<1>4. \A c : Quiet(c) => ~Configures(c, d)
  BY Exclusive
<1>. QED BY <1>1, <1>2, <1>3, <1>4 DEF IsList, Orderly

LEMMA OneConfigures ==
  ASSUME NEW a, NEW b, QuietList(a), QuietList(b), NEW d, NEW c, Configures(c, d)
  PROVE  IsList(a \o <<c>> \o b) /\ Orderly(a \o <<c>> \o b, d)
<1>1. PICK S : a \in Seq(S) /\ \A x \in S : Quiet(x)
  BY DEF QuietList
<1>2. PICK T : b \in Seq(T) /\ \A x \in T : Quiet(x)
  BY DEF QuietList
<1>. DEFINE U == S \cup T \cup {c}
            l == a \o <<c>>
            s == l \o b
<1>3. a \in Seq(U) /\ b \in Seq(U) /\ <<c>> \in Seq(U)
  BY <1>1, <1>2
<1>. HIDE DEF U
<1>4. /\ l \in Seq(U) /\ Len(l) = Len(a) + 1 /\ Len(a) \in Nat
      /\ \A i \in 1 .. Len(l) : l[i] = IF i <= Len(a) THEN a[i] ELSE c
  BY <1>3
<1>. HIDE DEF l
<1>5. /\ s \in Seq(U) /\ Len(s) = Len(l) + Len(b) /\ Len(b) \in Nat
      /\ \A i \in 1 .. Len(s) : s[i] = IF i <= Len(l) THEN l[i] ELSE b[i - Len(l)]
  BY <1>3, <1>4, SMTT(40)
<1>. HIDE DEF s
<1>6. ASSUME NEW i \in 1 .. Len(s), i # Len(a) + 1 PROVE Quiet(s[i])
  <2>1. CASE i <= Len(a)
    BY <1>1, <1>4, <1>5, <2>1
  <2>2. CASE i > Len(a)
    <3>1. i > Len(l) /\ i - Len(l) \in 1 .. Len(b)
      BY <1>4, <1>5, <1>6, <2>2
    <3>. QED BY <1>2, <1>5, <3>1
  <2>. QED BY <1>4, <2>1, <2>2
<1>7. Len(a) + 1 \in 1 .. Len(s) /\ s[Len(a) + 1] = c
  BY <1>4, <1>5
<1>8. Orderly(s, d)
  BY <1>6, <1>7 DEF Orderly
<1>. QED BY <1>5, <1>8 DEF IsList, s, l

LEMMA NoList == IsList(<< >>) /\ \A d : Orderly(<< >>, d)
BY QuietNothing, QuietOrderly

\* The rest of a list.
LEMMA RestOrderly ==
  ASSUME NEW s, IsList(s), s # << >>, NEW d, Orderly(s, d)
  PROVE  /\ Head(s) = s[1] /\ 1 \in 1 .. Len(s) /\ IsList(Tail(s))
         /\ Quiet(Head(s)) \/ Configures(Head(s), d)
         /\ Orderly(Tail(s), d)
         /\ \A i \in 1 .. Len(Tail(s)) : Tail(s)[i] = s[i + 1] /\ i + 1 \in 1 .. Len(s)
         /\ Configures(Head(s), d) => \A i \in 1 .. Len(Tail(s)) : ~Configures(Tail(s)[i], d)
<1>1. PICK S : s \in Seq(S)
  BY DEF IsList
<1>2. /\ Head(s) = s[1] /\ Len(s) \in Nat /\ Len(s) > 0 /\ Tail(s) \in Seq(S)
      /\ Len(Tail(s)) = Len(s) - 1
      /\ \A i \in 1 .. Len(Tail(s)) : Tail(s)[i] = s[i + 1]
  BY <1>1
<1>3. \A i \in 1 .. Len(Tail(s)) : i + 1 \in 1 .. Len(s) /\ i + 1 # 1
  BY <1>2
<1>4. \A c : ~(Quiet(c) /\ Configures(c, d))
  BY Exclusive
<1>5. 1 \in 1 .. Len(s)
  BY <1>2
<1>6. Quiet(Head(s)) \/ Configures(Head(s), d)
  BY <1>2, <1>5 DEF Orderly
<1>7. ASSUME NEW i \in 1 .. Len(Tail(s)), ~Quiet(Tail(s)[i])
      PROVE  Configures(Tail(s)[i], d) /\ \A j \in 1 .. Len(Tail(s)) \ {i} : Quiet(Tail(s)[j])
  <2>1. Configures(s[i + 1], d) /\ \A j \in 1 .. Len(s) \ {i + 1} : Quiet(s[j])
    BY <1>2, <1>3, <1>7 DEF Orderly
  <2>2. ASSUME NEW j \in 1 .. Len(Tail(s)), j # i PROVE Quiet(Tail(s)[j])
    <3>1. j + 1 \in 1 .. Len(s) /\ j + 1 # i + 1
      BY <1>2, <2>2
    <3>. QED BY <1>2, <2>1, <3>1
  <2>. QED BY <1>2, <2>1, <2>2
<1>8. Orderly(Tail(s), d)
  BY <1>7 DEF Orderly
<1>9. ASSUME Configures(Head(s), d), NEW i \in 1 .. Len(Tail(s)) PROVE ~Configures(Tail(s)[i], d)
  BY <1>2, <1>3, <1>4, <1>5, <1>9 DEF Orderly
<1>. QED BY <1>1, <1>2, <1>3, <1>5, <1>6, <1>8, <1>9 DEF IsList

-----------------------------------------------------------------------------
\* What every step does: one lemma per action.

Keeps == ConfInv' /\ (Mine \subseteq Mine' \/ Overwrites)

\* Another step of the same script, with a list that is quiet.
LEMMA Continues ==
  ASSUME ConfInv, InPlace(files'), MineOf(files) \subseteq MineOf(files'),
         DOMAIN sh' = DOMAIN sh, sh'.script = sh.script, Named(sh'),
         sh'.pc \notin MoveSteps \cup {"idle"},
         sh'.pc \in InstallSteps => sh.script = "install",
         QuietList(sh'.todo)
  PROVE  Keeps
<1>1. /\ IsList(sh'.todo) /\ Orderly(sh'.todo, sh'.dir)
      /\ \A i \in 1 .. Len(sh'.todo) : ~Configures(sh'.todo[i], sh'.dir)
  BY QuietOrderly
<1>2. Fields'
  BY DEF ConfInv, Fields
<1>3. sh'.pc \notin MoveSteps /\ sh'.pc # "idle"
  OBVIOUS
<1>4. ~Awaited'
  BY <1>1, <1>3 DEF Awaited
<1>5. ConfInv'
  <2>1. Room'
    BY <1>4 DEF Room
  <2>2. sh'.pc \in InstallSteps => sh'.script = "install"
    OBVIOUS
  <2>3. Named(sh)'
    OBVIOUS
  <2>. QED BY <1>1, <1>2, <1>3, <2>1, <2>2, <2>3 DEF ConfInv
<1>6. Mine \subseteq Mine'
  BY DEF Mine, MineOf
<1>. QED BY <1>5, <1>6 DEF Keeps

LEMMA Goes ==
  ASSUME ConfInv, NEW p, NEW l, Go(p, l), p \notin MoveSteps \cup {"idle"},
         p \in InstallSteps => sh.script = "install", QuietList(l)
  PROVE  Keeps
<1>1. sh' = [sh EXCEPT !.pc = p, !.todo = l] /\ files' = files
  BY DEF Go
<1>2. /\ DOMAIN sh' = DOMAIN sh /\ sh'.pc = p /\ sh'.todo = l
      /\ sh'.script = sh.script /\ Named(sh')
  BY <1>1 DEF ConfInv, Fields, Named
<1>3. InPlace(files') /\ MineOf(files) \subseteq MineOf(files')
  BY <1>1 DEF ConfInv
<1>. QED BY <1>2, <1>3, Continues

LEMMA Exits == ASSUME ConfInv, sh' = Idle, files' = files PROVE Keeps
<1>1. /\ sh'.todo = << >> /\ sh'.script = "none" /\ sh'.pc = "idle"
      /\ {"script", "pc", "dir", "todo", "problems"} \subseteq DOMAIN sh'
  BY DEF Idle
<1>2. Orderly(sh'.todo, sh'.dir) /\ IsList(sh'.todo) /\ Len(sh'.todo) = 0
  BY <1>1, NoList
<1>3. Fields' /\ Named(sh)'
  BY <1>1 DEF Fields, Named
<1>4. ~Awaited'
  BY <1>1, <1>2 DEF Awaited, MoveSteps
<1>5. ConfInv'
  BY <1>1, <1>2, <1>3, <1>4 DEF ConfInv, Room, InstallSteps, MoveSteps
<1>6. Mine \subseteq Mine'
  BY DEF Mine
<1>. QED BY <1>5, <1>6 DEF Keeps

\* The next command of a list.
LEMMA CommandKeeps == ASSUME ConfInv, Command PROVE Keeps
<1>. DEFINE c == Head(sh.todo)
<1>1. /\ sh.todo # << >> /\ files' = Executed(files, c)
      /\ sh' = [sh EXCEPT !.todo = Tail(@)]
  BY DEF Command
<1>2. /\ InPlace(files) /\ Fields /\ Named(sh) /\ IsList(sh.todo) /\ Orderly(sh.todo, sh.dir)
      /\ sh.pc \notin MoveSteps \cup {"idle"}
  BY <1>1 DEF ConfInv
<1>3. /\ DOMAIN sh' = DOMAIN sh /\ sh'.pc = sh.pc /\ sh'.dir = sh.dir /\ sh'.script = sh.script
      /\ sh'.todo = Tail(sh.todo) /\ Named(sh')
      /\ sh.script = "mvrefind" => sh'.overwrites = sh.overwrites
  BY <1>1, <1>2 DEF Fields, Named
<1>4. /\ c = sh.todo[1] /\ 1 \in 1 .. Len(sh.todo) /\ IsList(sh'.todo)
      /\ Quiet(c) \/ Configures(c, sh.dir)
      /\ Orderly(sh'.todo, sh'.dir)
      /\ \A i \in 1 .. Len(sh'.todo) : sh'.todo[i] = sh.todo[i + 1] /\ i + 1 \in 1 .. Len(sh.todo)
      /\ Configures(c, sh.dir) => \A i \in 1 .. Len(sh'.todo) : ~Configures(sh'.todo[i], sh.dir)
  BY <1>1, <1>2, <1>3, RestOrderly
<1>. HIDE DEF c
<1>5. InPlace(files') /\ (MineOf(files) \subseteq MineOf(files') \/ Overwrites) /\ Room'
  <2>1. CASE Quiet(c)
    <3>1. /\ InPlace(files') /\ MineOf(files) \subseteq MineOf(files')
          /\ Conf(sh.dir) \in DOMAIN files' => Conf(sh.dir) \in DOMAIN files
      BY <1>1, <1>2, <2>1, QuietExecuted DEF c
    <3>2. Awaited' => Awaited
      BY <1>3, <1>4 DEF Awaited
    <3>3. Overwrites => Overwrites'
      BY <1>3 DEF Overwrites
    <3>4. Conf(sh'.dir) = Conf(sh.dir)
      BY <1>3
    <3>. QED BY <3>1, <3>2, <3>3, <3>4 DEF Room, ConfInv
  <2>2. CASE Configures(c, sh.dir)
    <3>1. /\ InPlace(files')
          /\ Conf(sh.dir) \notin DOMAIN files => MineOf(files) \subseteq MineOf(files')
      BY <1>1, <1>2, <2>2, ConfExecuted DEF c
    <3>2. Awaited
      BY <1>4, <2>2 DEF Awaited
    <3>3. ~Awaited'
      BY <1>2, <1>3, <1>4, <2>2 DEF Awaited
    <3>. QED BY <3>1, <3>2, <3>3 DEF Room, ConfInv
  <2>. QED BY <1>4, <2>1, <2>2
<1>6. Fields'
  BY <1>2, <1>3 DEF Fields
<1>7. ConfInv'
  BY <1>2, <1>3, <1>4, <1>5, <1>6 DEF ConfInv
<1>. QED BY <1>5, <1>7 DEF Keeps, Mine, MineOf

LEMMA CommandFailsKeeps == ASSUME ConfInv, NEW torn, CommandFails(torn) PROVE Keeps
<1>. DEFINE c == Head(sh.todo)
<1>1. /\ sh.todo # << >> /\ c.op = "cp"
      /\ files' = IF torn THEN With(files, c.to, Torn) ELSE files
      /\ sh' = [sh EXCEPT !.todo = Tail(@), !.problems = @ \/ Head(sh.todo).checked]
  BY DEF CommandFails
<1>2. /\ InPlace(files) /\ Fields /\ Named(sh) /\ IsList(sh.todo) /\ Orderly(sh.todo, sh.dir)
      /\ sh.pc \notin MoveSteps \cup {"idle"}
  BY <1>1 DEF ConfInv
<1>3. /\ DOMAIN sh' = DOMAIN sh /\ sh'.pc = sh.pc /\ sh'.dir = sh.dir /\ sh'.script = sh.script
      /\ sh'.todo = Tail(sh.todo) /\ Named(sh')
      /\ sh.script = "mvrefind" => sh'.overwrites = sh.overwrites
  BY <1>1, <1>2 DEF Fields, Named
<1>4. /\ c = sh.todo[1] /\ 1 \in 1 .. Len(sh.todo) /\ IsList(sh'.todo)
      /\ Quiet(c) \/ Configures(c, sh.dir)
      /\ Orderly(sh'.todo, sh'.dir)
      /\ \A i \in 1 .. Len(sh'.todo) : sh'.todo[i] = sh.todo[i + 1] /\ i + 1 \in 1 .. Len(sh.todo)
      /\ Configures(c, sh.dir) => \A i \in 1 .. Len(sh'.todo) : ~Configures(sh'.todo[i], sh.dir)
  BY <1>1, <1>2, <1>3, RestOrderly
<1>. HIDE DEF c
<1>5. InPlace(files') /\ (MineOf(files) \subseteq MineOf(files') \/ Overwrites) /\ Room'
  <2>1. CASE Quiet(c)
    <3>1. Pair(c.to) /\ c.to[2] # "refind.conf"
      BY <1>1, <2>1 DEF Quiet
    <3>2. /\ InPlace(files') /\ MineOf(files) \subseteq MineOf(files')
          /\ DOMAIN files' \subseteq {c.to} \cup DOMAIN files
      BY <1>1, <1>2, <3>1, Written, TornIsNotMine
    <3>3. Awaited' => Awaited
      BY <1>3, <1>4 DEF Awaited
    <3>4. Overwrites => Overwrites'
      BY <1>3 DEF Overwrites
    <3>5. Conf(sh'.dir) = Conf(sh.dir) /\ c.to # Conf(sh.dir)
      BY <1>3, <3>1 DEF Conf
    <3>. QED BY <3>2, <3>3, <3>4, <3>5 DEF Room, ConfInv
  <2>2. CASE Configures(c, sh.dir)
    <3>1. c.to = Conf(sh.dir) /\ Pair(Conf(sh.dir))
      BY <2>2 DEF Configures, Conf, Pair
    <3>2. /\ InPlace(files')
          /\ Conf(sh.dir) \notin DOMAIN files => MineOf(files) \subseteq MineOf(files')
      BY <1>1, <1>2, <3>1, Written, WrittenInPlace, TornIsNotMine
    <3>3. Awaited
      BY <1>4, <2>2 DEF Awaited
    <3>4. ~Awaited'
      BY <1>2, <1>3, <1>4, <2>2 DEF Awaited
    <3>. QED BY <3>2, <3>3, <3>4 DEF Room, ConfInv
  <2>. QED BY <1>4, <2>1, <2>2
<1>6. Fields'
  BY <1>2, <1>3 DEF Fields
<1>7. ConfInv'
  BY <1>2, <1>3, <1>4, <1>5, <1>6 DEF ConfInv
<1>. QED BY <1>5, <1>7 DEF Keeps, Mine, MineOf

\* The lists of install.sh.

LEMMA QuietTwo ==
  ASSUME NEW a, NEW b, Quiet(a), Quiet(b) PROVE QuietList(<<a, b>>)
<1>. DEFINE T == {a, b}
            s == <<a, b>>
<1>1. s \in Seq(T) /\ \A x \in T : Quiet(x)
  OBVIOUS
<1>. HIDE DEF T, s
<1>2. QuietList(s)
  BY <1>1, QuietIntro
<1>. QED BY <1>2 DEF s

LEMMA QuietThree ==
  ASSUME NEW a, NEW b, NEW c, Quiet(a), Quiet(b), Quiet(c) PROVE QuietList(<<a, b, c>>)
<1>. DEFINE T == {a, b, c}
            s == <<a, b, c>>
<1>1. s \in Seq(T) /\ \A x \in T : Quiet(x)
  OBVIOUS
<1>. HIDE DEF T, s
<1>2. QuietList(s)
  BY <1>1, QuietIntro
<1>. QED BY <1>2 DEF s

LEMMA QuietCp ==
  ASSUME NEW c, c.what # "mine", NEW d, NEW n, n # "refind.conf", NEW checked
  PROVE  Quiet(Cp(c, d, n, checked)) /\ QuietList(<<Cp(c, d, n, checked)>>)
<1>1. Quiet(Cp(c, d, n, checked))
  BY DEF Quiet, Cp, Pair
<1>. QED BY <1>1, QuietOne

LEMMA QuietOpenssl ==
  ASSUME NEW c, c.what # "mine", NEW n, n # "refind.conf"
  PROVE  Quiet(Openssl(c, n)) /\ QuietList(<<Openssl(c, n)>>)
<1>1. Quiet(Openssl(c, n))
  BY DEF Quiet, Openssl, Pair
<1>. QED BY <1>1, QuietOne

LEMMA QuietRm == ASSUME NEW d, NEW n, n # "refind.conf"
  PROVE  Quiet(Rm(d, n)) /\ QuietList(<<Rm(d, n)>>)
<1>1. Quiet(Rm(d, n))
  BY DEF Quiet, Rm
<1>. QED BY <1>1, QuietOne

LEMMA QuietMv ==
  ASSUME NEW op \in {"mv", "mv-n"}, NEW d, NEW n, n # "refind.conf",
         NEW e, NEW m, m # "refind.conf"
  PROVE  /\ Quiet(Mv(op, <<d, n>>, <<e, m>>))
         /\ QuietList(<<Mv(op, <<d, n>>, <<e, m>>)>>)
<1>. DEFINE from == <<d, n>>
            to == <<e, m>>
<1>1. from[2] # "refind.conf" /\ to[2] # "refind.conf" /\ Pair(to)
  BY DEF Pair
<1>. HIDE DEF from, to
<1>2. Quiet(Mv(op, from, to))
  BY <1>1 DEF Quiet, Mv
<1>3. QuietList(<<Mv(op, from, to)>>)
  BY <1>2, QuietOne
<1>. QED BY <1>2, <1>3 DEF from, to

\* A copy of a file that is no configuration.
LEMMA QuietCopy ==
  ASSUME InPlace(files), NEW d, NEW n, n # "refind.conf", NEW e, NEW m, m # "refind.conf",
         NEW g, g => IsFile(d, n)
  PROVE  QuietList(If(g, <<Cp(files[<<d, n>>], e, m, FALSE)>>))
<1>1. ASSUME g PROVE files[<<d, n>>].what # "mine"
  BY <1>1 DEF InPlace, IsFile
<1>2. g => QuietList(<<Cp(files[<<d, n>>], e, m, FALSE)>>)
  BY <1>1, QuietCp
<1>. QED BY <1>2, QuietIf

LEMMA BackUpKeyQuiet ==
  ASSUME InPlace(files), NEW n \in {"key", "crt", "cer"} PROVE QuietList(BackUpKey(n))
<1>1. BackupName(n) # "refind.conf"
  BY DEF BackupName
<1>. QED BY <1>1, QuietCopy DEF BackUpKey

LEMMA GenerateKeysQuiet == ASSUME InPlace(files) PROVE QuietList(GenerateKeys)
<1>1. CASE HaveKeys
  BY <1>1, QuietNothing DEF GenerateKeys
<1>2. CASE ~HaveKeys
  <2>. DEFINE new == Content("key", 0, "any", 1 + Max({0} \cup Keys))
              backups == BackUpKey("key") \o BackUpKey("crt") \o BackUpKey("cer")
              made == <<Openssl(new, "key"), Openssl(new, "crt"), Openssl(new, "cer")>>
  <2>1. new.what # "mine"
    BY DEF Content
  <2>2. GenerateKeys = backups \o made
    BY <1>2, Zenon DEF GenerateKeys
  <2>. HIDE DEF new
  <2>3. Quiet(Openssl(new, "key")) /\ Quiet(Openssl(new, "crt")) /\ Quiet(Openssl(new, "cer"))
    BY <2>1, QuietOpenssl
  <2>4. QuietList(made)
    BY <2>3, QuietThree
  <2>5. QuietList(backups)
    BY BackUpKeyQuiet, QuietBoth
  <2>. HIDE DEF backups, made
  <2>. QED BY <2>2, <2>4, <2>5, QuietBoth
<1>. QED BY <1>1, <1>2

LEMMA ShimQuiet ==
  ASSUME InPlace(files), NEW to \in {"shim.efi", "bootx64.efi", "bootmgfw.efi"}
  PROVE  QuietList(CopyShimFiles(to))
<1>. DEFINE old == If(IsFile(sh.dir, to), <<Cp(files[<<sh.dir, to>>], sh.dir, Kept(to), FALSE)>>)
            both == <<Cp(Content("shim", 0, "x64", 0), sh.dir, to, TRUE),
                      Cp(Content("MokManager", 0, "x64", 0), sh.dir, "MokManager.efi", TRUE)>>
<1>1. Kept(to) # "refind.conf" /\ to # "refind.conf"
  BY DEF Kept
<1>2. QuietList(old)
  BY <1>1, QuietCopy
<1>3. /\ Quiet(Cp(Content("shim", 0, "x64", 0), sh.dir, to, TRUE))
      /\ Quiet(Cp(Content("MokManager", 0, "x64", 0), sh.dir, "MokManager.efi", TRUE))
  <2>1. Content("shim", 0, "x64", 0).what # "mine" /\ Content("MokManager", 0, "x64", 0).what # "mine"
    BY DEF Content
  <2>. QED BY <1>1, <2>1, QuietCp
<1>4. QuietList(both)
  BY <1>3, QuietTwo
<1>5. CopyShimFiles(to) = If(sh.a.shim, old \o both)
  BY DEF CopyShimFiles
<1>. HIDE DEF old, both
<1>6. QuietList(old \o both)
  BY <1>2, <1>4, QuietBoth
<1>. QED BY <1>5, <1>6, QuietIf

LEMMA DriversQuiet == ASSUME NEW arch PROVE QuietList(CopyDrivers(arch))
<1>1. DriversDir(arch) # "refind.conf"
  BY DEF DriversDir
<1>2. QuietList(<<Cp(Content("drivers", sh.a.ver, arch, 0), sh.dir, DriversDir(arch), FALSE)>>)
  BY <1>1, QuietCp DEF Content
<1>. QED BY <1>2, QuietIf DEF CopyDrivers

LEMMA KeysQuiet == ASSUME InPlace(files) PROVE QuietList(CopyKeys) /\ QuietList(CopyAllKeys)
<1>1. QuietList(CopyKeys)
  BY QuietCopy DEF CopyKeys
<1>2. QuietList(<<Cp(Content("key", 0, "any", 0), sh.dir, "refind.cer", FALSE)>>)
  <2>1. Content("key", 0, "any", 0).what # "mine"
    BY DEF Content
  <2>. QED BY <2>1, QuietCp
<1>3. QuietList(If(IsFile(KEYS, "cer"), <<Cp(files[<<KEYS, "cer">>], sh.dir, "local.cer", FALSE)>>))
  BY QuietCopy
<1>. QED BY <1>1, <1>2, <1>3, QuietBoth DEF CopyAllKeys

LEMMA IconsQuiet == QuietList(CopyIcons)
<1>. DEFINE both == <<Rm(sh.dir, "icons-backup"),
                      Mv("mv", <<sh.dir, "icons">>, <<sh.dir, "icons-backup">>)>>
            cp == <<Cp(Icons, sh.dir, "icons", TRUE)>>
<1>1. /\ Quiet(Rm(sh.dir, "icons-backup"))
      /\ Quiet(Mv("mv", <<sh.dir, "icons">>, <<sh.dir, "icons-backup">>))
  BY QuietRm, QuietMv
<1>2. QuietList(both)
  BY <1>1, QuietTwo
<1>3. QuietList(cp)
  <2>1. Icons.what # "mine"
    BY DEF Content, Icons
  <2>. QED BY <2>1, QuietCp
<1>4. CopyIcons = If(IsFile(sh.dir, "icons"), both) \o cp
  BY DEF CopyIcons
<1>. HIDE DEF both, cp
<1>. QED BY <1>2, <1>3, <1>4, QuietIf, QuietBoth

LEMMA ProgramsQuiet ==
  ASSUME ConfInv, sh.script = "install"
  PROVE  QuietList(ToDefault) /\ QuietList(To64) /\ QuietList(To32)
<1>1. /\ sh.x64 # "refind.conf" /\ sh.ia32 # "refind.conf"
      /\ sh.shim \in {"shim.efi", "bootx64.efi", "bootmgfw.efi"}
      /\ InPlace(files)
  BY DEF ConfInv, Named
<1>. DEFINE p64 == <<Cp(Program("x64"), sh.dir, sh.x64, TRUE)>>
            p32(checked) == <<Cp(Program("ia32"), sh.dir, sh.ia32, checked)>>
            both == <<Cp(Program("ia32"), sh.dir, sh.ia32, FALSE),
                      Cp(Program("x64"), sh.dir, sh.x64, TRUE)>>
            drivers == IF sh.a.drivers = "all" THEN CopyDrivers("x64") \o CopyDrivers("ia32")
                       ELSE If(sh.upgrade, CopyDrivers(mach.cpu))
<1>2. Program("x64").what # "mine" /\ Program("ia32").what # "mine"
  BY DEF Program, Content
<1>3. /\ QuietList(p64) /\ QuietList(p32(TRUE))
      /\ Quiet(Cp(Program("ia32"), sh.dir, sh.ia32, FALSE))
      /\ Quiet(Cp(Program("x64"), sh.dir, sh.x64, TRUE))
  BY <1>1, <1>2, QuietCp
<1>6. QuietList(both)
  BY <1>3, QuietTwo
<1>4. QuietList(drivers)
  <2>1. QuietList(CopyDrivers("x64") \o CopyDrivers("ia32"))
    BY DriversQuiet, QuietBoth
  <2>2. QuietList(If(sh.upgrade, CopyDrivers(mach.cpu)))
    BY DriversQuiet, QuietIf
  <2>. QED BY <2>1, <2>2
<1>5. /\ ToDefault = both \o CopyShimFiles("bootx64.efi") \o drivers \o CopyKeys
      /\ To64 = p64 \o CopyDrivers("x64") \o CopyKeys \o CopyShimFiles(sh.shim)
      /\ To32 = p32(TRUE) \o CopyDrivers("ia32")
  BY DEF ToDefault, To64, To32
<1>. HIDE DEF p64, p32, both, drivers
<1>7. QuietList(ToDefault)
  <2>1. QuietList(both \o CopyShimFiles("bootx64.efi"))
    BY <1>1, <1>6, ShimQuiet, QuietBoth
  <2>2. QuietList(both \o CopyShimFiles("bootx64.efi") \o drivers)
    BY <1>4, <2>1, QuietBoth
  <2>. QED BY <1>1, <1>5, <2>2, KeysQuiet, QuietBoth
<1>8. QuietList(To64)
  <2>1. QuietList(p64 \o CopyDrivers("x64"))
    BY <1>3, DriversQuiet, QuietBoth
  <2>2. QuietList(p64 \o CopyDrivers("x64") \o CopyKeys)
    BY <1>1, <2>1, KeysQuiet, QuietBoth
  <2>. QED BY <1>1, <1>5, <2>2, ShimQuiet, QuietBoth
<1>9. QuietList(To32)
  BY <1>3, <1>5, DriversQuiet, QuietBoth
<1>. QED BY <1>7, <1>8, <1>9

-----------------------------------------------------------------------------
\* The actions of install.sh.

\* A script begins.
LEMMA Begins ==
  ASSUME ConfInv, files' = files, Fields', Named(sh'), QuietList(sh'.todo),
         sh'.pc \notin MoveSteps \cup {"idle"}, sh'.pc \in InstallSteps => sh'.script = "install"
  PROVE  Keeps
<1>1. /\ IsList(sh'.todo) /\ Orderly(sh'.todo, sh'.dir)
      /\ \A i \in 1 .. Len(sh'.todo) : ~Configures(sh'.todo[i], sh'.dir)
  BY QuietOrderly
<1>2. sh'.pc \notin MoveSteps /\ sh'.pc # "idle"
  OBVIOUS
<1>3. ~Awaited'
  BY <1>1, <1>2 DEF Awaited
<1>4. InPlace(files') /\ Mine \subseteq Mine'
  BY DEF ConfInv, Mine
<1>5. Named(sh)'
  OBVIOUS
<1>. QED BY <1>1, <1>2, <1>3, <1>4, <1>5 DEF Keeps, ConfInv, Room

LEMMA InstallKeeps == ASSUME ConfInv, NEW a, Install(a) PROVE Keeps
<1>1. /\ sh'.script = "install" /\ sh'.pc \in {"cpu", "target"} /\ sh'.todo = << >> /\ files' = files
      /\ sh'.x64 \in {"grubx64.efi", "bootx64.efi", "refind_x64.efi"}
      /\ sh'.ia32 \in {"bootia32.efi", "refind_ia32.efi"} /\ sh'.shim = "shim.efi"
      /\ DOMAIN sh' = {"script", "pc", "a", "todo", "problems", "upgrade", "dir", "x64", "ia32",
                       "shim", "double"}
  BY DEF Install
<1>2. Fields'
  BY <1>1 DEF Fields
<1>3. Named(sh')
  BY <1>1 DEF Named
<1>4. sh'.pc \notin MoveSteps \cup {"idle"}
  BY <1>1 DEF MoveSteps
<1>. QED BY <1>1, <1>2, <1>3, <1>4, Begins, QuietNothing

LEMMA KillKeeps == ASSUME ConfInv, Kill \/ Exit \/ Finish PROVE Keeps
BY Exits DEF Kill, Exit, Finish

LEMMA Renamed ==
  ASSUME NEW s, s.script = "install", Named(s),
         {"script", "pc", "dir", "todo", "a", "x64", "ia32", "shim"} \subseteq DOMAIN s
  PROVE  \A t \in {SetVarsForBoot(s), SetVarsForMsBoot(s)} :
           /\ DOMAIN t = DOMAIN s /\ t.script = "install" /\ t.todo = s.todo /\ Named(t)
<1>1. LET t == SetVarsForBoot(s)
      IN  DOMAIN t = DOMAIN s /\ t.script = "install" /\ t.todo = s.todo /\ Named(t)
  BY DEF SetVarsForBoot, Named
<1>2. LET t == SetVarsForMsBoot(s)
      IN  DOMAIN t = DOMAIN s /\ t.script = "install" /\ t.todo = s.todo /\ Named(t)
  BY DEF SetVarsForMsBoot, Named
<1>. QED BY <1>1, <1>2

\* What a step of install.sh knows.
LEMMA AtInstall ==
  ASSUME ConfInv, NEW p \in InstallSteps, At(p)
  PROVE  /\ sh.script = "install" /\ sh.todo = << >> /\ Named(sh) /\ InPlace(files)
         /\ {"script", "pc", "dir", "todo", "problems", "a", "upgrade", "x64", "ia32", "shim",
             "double"} \subseteq DOMAIN sh
BY DEF ConfInv, At, Fields

LEMMA FindTargetKeeps == ASSUME ConfInv, FindTarget PROVE Keeps
<1>1. At("target") /\ "target" \in InstallSteps
  BY DEF FindTarget, InstallSteps
<1>. DEFINE b == IF HasConf(BOOT) THEN SetVarsForBoot(sh) ELSE sh
            m == IF HasConf(MSBOOT) THEN SetVarsForMsBoot(b) ELSE b
            r == IF HasConf(REFIND) THEN [m EXCEPT !.dir = REFIND] ELSE m
            u == [r EXCEPT !.upgrade = \E d \in {BOOT, MSBOOT, REFIND} : HasConf(d)]
            Fine(t) == /\ DOMAIN t = DOMAIN sh /\ t.script = "install" /\ t.todo = << >> /\ Named(t)
<1>2. Fine(sh)
  BY <1>1, AtInstall
<1>3. {"script", "pc", "dir", "todo", "a", "upgrade", "x64", "ia32", "shim", "double"} \subseteq DOMAIN sh
  BY <1>1, AtInstall
<1>4. u = Upgraded(sh)
  BY DEF Upgraded
<1>5. Fine(b)
  BY <1>2, <1>3, Renamed
<1>. HIDE DEF b
<1>6. Fine(m)
  BY <1>3, <1>5, Renamed
<1>. HIDE DEF m
<1>7. Fine(r)
  BY <1>3, <1>6 DEF Named
<1>. HIDE DEF r
<1>8. Fine(u)
  BY <1>3, <1>7 DEF Named
<1>. HIDE DEF u
<1>9. sh' = [u EXCEPT !.pc = "cpu", !.double = Double] /\ files' = files
  BY <1>4 DEF FindTarget
<1>10. Fine(sh') /\ sh'.pc = "cpu"
  BY <1>3, <1>8, <1>9 DEF Named
<1>. QED BY <1>1, <1>9, <1>10, AtInstall, Continues, QuietNothing DEF InstallSteps, MoveSteps

LEMMA HijackQuiet == QuietList(Hijack)
BY QuietMv DEF Hijack

LEMMA TakesKeeps == ASSUME ConfInv, TakeWindows \/ TakeDefault PROVE Keeps
<1>1. At("target") /\ "target" \in InstallSteps /\ files' = files
  BY DEF TakeWindows, TakeDefault, InBiosMode, InstallSteps
<1>2. /\ sh.script = "install" /\ sh.todo = << >> /\ Named(sh) /\ InPlace(files)
      /\ {"script", "pc", "dir", "todo", "problems", "a", "upgrade", "x64", "ia32", "shim",
          "double"} \subseteq DOMAIN sh
  BY <1>1, AtInstall
<1>3. PICK t \in {SetVarsForBoot(sh), SetVarsForMsBoot(sh)} :
        sh' = [t EXCEPT !.pc = "cpu", !.todo = Hijack] \/ sh' = [t EXCEPT !.pc = "cpu"]
  BY DEF TakeWindows, TakeDefault
<1>4. DOMAIN t = DOMAIN sh /\ t.script = "install" /\ t.todo = << >> /\ Named(t)
  BY <1>2, Renamed
<1>5. /\ DOMAIN sh' = DOMAIN sh /\ sh'.script = "install" /\ Named(sh') /\ sh'.pc = "cpu"
      /\ sh'.todo \in {Hijack, << >>}
  BY <1>2, <1>3, <1>4 DEF Named
<1>. QED BY <1>1, <1>2, <1>5, Continues, QuietNothing, HijackQuiet DEF MoveSteps

LEMMA Apart == BOOT # BACKUP /\ BOOT # NESTED
BY DEF BOOT, BACKUP, NESTED

LEMMA ReplaceDefaultKeeps == ASSUME ConfInv, ReplaceDefault PROVE Keeps
<1>1. At("target") /\ "target" \in InstallSteps
  BY DEF ReplaceDefault, InBiosMode, InstallSteps
<1>2. /\ sh.script = "install" /\ sh.todo = << >> /\ Named(sh) /\ InPlace(files)
      /\ {"script", "pc", "dir", "todo", "problems", "a", "upgrade", "x64", "ia32", "shim",
          "double"} \subseteq DOMAIN sh
  BY <1>1, AtInstall
<1>. DEFINE t == SetVarsForBoot(sh)
<1>3. \/ sh' = Idle /\ files' = files
      \/ sh' = [t EXCEPT !.pc = "cpu"] /\ files' = MovedDir(files, BOOT, BACKUP, NESTED)
  BY DEF ReplaceDefault
<1>4. DOMAIN t = DOMAIN sh /\ t.script = "install" /\ t.todo = << >> /\ Named(t)
  BY <1>2, Renamed
<1>. HIDE DEF t
<1>5. CASE sh' = Idle /\ files' = files
  BY <1>5, Exits
<1>6. CASE sh' = [t EXCEPT !.pc = "cpu"] /\ files' = MovedDir(files, BOOT, BACKUP, NESTED)
  <2>1. InPlace(files') /\ MineOf(files) \subseteq MineOf(files')
    BY <1>2, <1>6, Apart, DirMoved
  <2>2. /\ DOMAIN sh' = DOMAIN sh /\ sh'.script = "install" /\ Named(sh') /\ sh'.pc = "cpu"
        /\ sh'.todo = << >>
    BY <1>2, <1>4, <1>6 DEF Named
  <2>. QED BY <1>2, <2>1, <2>2, Continues, QuietNothing DEF MoveSteps
<1>. QED BY <1>3, <1>5, <1>6

LEMMA ChecksKeep ==
  ASSUME ConfInv, CheckCpu \/ ReSignBinaries \/ SignBinaries \/ CheckSecureBoot PROVE Keeps
<1>1. PICK p \in {"cpu", "sign", "signed", "secure"} : At(p)
  BY DEF CheckCpu, ReSignBinaries, SignBinaries, CheckSecureBoot
<1>2. p \in InstallSteps
  BY DEF InstallSteps
<1>3. sh.script = "install" /\ InPlace(files)
  BY <1>1, <1>2, AtInstall
<1>4. \/ Exit
      \/ \E q \in {"sign", "secure", "copy", "signed"}, l \in {<< >>, GenerateKeys} : Go(q, l)
  BY DEF CheckCpu, ReSignBinaries, SignBinaries, CheckSecureBoot
<1>5. ASSUME NEW q \in {"sign", "secure", "copy", "signed"}, NEW l \in {<< >>, GenerateKeys}, Go(q, l)
      PROVE  Keeps
  <2>1. QuietList(l)
    BY <1>3, GenerateKeysQuiet, QuietNothing
  <2>2. q \notin MoveSteps \cup {"idle"}
    BY DEF MoveSteps
  <2>. QED BY <1>3, <1>5, <2>1, <2>2, Goes
<1>. QED BY <1>4, <1>5, KillKeeps

\* A list with a command that configures, where there is room for it.
LEMMA ConfigureGoes ==
  ASSUME ConfInv, NEW p, p \notin MoveSteps \cup InstallSteps \cup {"idle"}, NEW l, Go(p, l),
         IsList(l), Orderly(l, sh.dir), Conf(sh.dir) \notin DOMAIN files \/ Overwrites
  PROVE  Keeps
<1>1. sh' = [sh EXCEPT !.pc = p, !.todo = l] /\ files' = files
  BY DEF Go
<1>2. /\ DOMAIN sh' = DOMAIN sh /\ sh'.pc = p /\ sh'.todo = l /\ sh'.dir = sh.dir
      /\ sh'.script = sh.script /\ Named(sh') /\ (Overwrites => Overwrites')
  BY <1>1 DEF ConfInv, Fields, Named, Overwrites
<1>3. Fields'
  BY <1>2 DEF ConfInv, Fields
<1>4. Conf(sh'.dir) \notin DOMAIN files' \/ Overwrites'
  BY <1>1, <1>2 DEF Conf
<1>5. InPlace(files') /\ Mine \subseteq Mine'
  BY <1>1 DEF ConfInv, Mine
<1>6. sh'.pc \notin MoveSteps \cup InstallSteps \cup {"idle"}
  BY <1>2
<1>7. Named(sh)' /\ IsList(sh'.todo) /\ Orderly(sh'.todo, sh'.dir)
  BY <1>2
<1>8. Room'
  BY <1>4 DEF Room
<1>. QED BY <1>3, <1>5, <1>6, <1>7, <1>8 DEF Keeps, ConfInv

LEMMA CopyRefindFilesKeeps == ASSUME ConfInv, CopyRefindFiles PROVE Keeps
<1>. DEFINE programs == IF sh.dir = BOOT THEN ToDefault
                        ELSE IF mach.cpu = "x64" \/ sh.dir = MSBOOT THEN To64 ELSE To32
            before == programs \o CopyIcons \o CopyAllKeys
            l == before \o CopyConf
            n == IF HasConf(sh.dir) THEN "refind.conf-sample" ELSE "refind.conf"
            c == Cp(Sample, sh.dir, n, TRUE)
<1>1. At("copy") /\ "copy" \in InstallSteps /\ Go("entry", l)
  BY DEF CopyRefindFiles, InstallSteps
<1>2. sh.script = "install" /\ InPlace(files)
  BY <1>1, AtInstall
<1>3. QuietList(programs)
  BY <1>2, ProgramsQuiet
<1>. HIDE DEF programs
<1>4. QuietList(programs \o CopyIcons)
  BY <1>3, IconsQuiet, QuietBoth
<1>5. QuietList(before)
  BY <1>2, <1>4, KeysQuiet, QuietBoth
<1>6. CopyConf = <<c>>
  BY DEF CopyConf
<1>7. Sample.what # "mine"
  BY DEF Sample, Content
<1>8. "entry" \notin MoveSteps \cup InstallSteps \cup {"idle"}
  BY DEF MoveSteps, InstallSteps
<1>. HIDE DEF before, c
<1>9. CASE HasConf(sh.dir)
  <2>1. Quiet(c)
    BY <1>7, <1>9, QuietCp DEF c
  <2>2. QuietList(<<c>>)
    BY <2>1, QuietOne
  <2>3. QuietList(l)
    BY <1>5, <1>6, <2>2, QuietBoth
  <2>. HIDE DEF l
  <2>. QED BY <1>1, <1>8, <2>3, Goes
<1>10. CASE ~HasConf(sh.dir)
  <2>1. Configures(c, sh.dir)
    BY <1>7, <1>10 DEF c, Configures, Cp, Conf
  <2>2. IsList(before \o <<c>> \o << >>) /\ Orderly(before \o <<c>> \o << >>, sh.dir)
    BY <1>5, <2>1, OneConfigures, QuietNothing
  <2>3. before \o <<c>> \o << >> = before \o <<c>>
    <3>1. PICK S : before \in Seq(S) /\ \A x \in S : Quiet(x)
      BY <1>5 DEF QuietList
    <3>. DEFINE T == S \cup {c}
                q == <<c>>
                r == before \o q
    <3>2. before \in Seq(T) /\ q \in Seq(T)
      BY <3>1
    <3>. HIDE DEF T, q
    <3>3. r \in Seq(T)
      BY <3>2, ConcatProperties
    <3>. HIDE DEF r
    <3>4. r \o << >> = r
      BY <3>3, ConcatEmptySeq
    <3>. QED BY <3>4 DEF r, q
  <2>4. IsList(l) /\ Orderly(l, sh.dir)
    BY <1>6, <2>2, <2>3
  <2>5. Conf(sh.dir) \notin DOMAIN files
    BY <1>10 DEF HasConf, IsFile, Conf
  <2>. HIDE DEF l
  <2>. QED BY <1>1, <1>8, <2>4, <2>5, ConfigureGoes
<1>. QED BY <1>9, <1>10

\* The firmware's boot entries: the files stay as they are.
LEMMA EntryKeeps ==
  ASSUME ConfInv, NEW path, NEW next \in {"options", "done"}, sh.todo = << >>,
         AddBootEntry(path, next) \/ CreateEntry(path, next)
  PROVE  Keeps
<1>1. files' = files
  BY DEF AddBootEntry, CreateEntry
<1>2. PICK p \in {"create", next} : \E q : \/ sh' = [sh EXCEPT !.pc = p, !.problems = q]
                                            \/ sh' = [sh EXCEPT !.pc = p]
  BY Zenon DEF AddBootEntry, CreateEntry
<1>3. /\ DOMAIN sh' = DOMAIN sh /\ sh'.script = sh.script /\ sh'.todo = << >> /\ Named(sh')
      /\ sh'.pc \in {"create", "options", "done"}
  BY <1>2 DEF ConfInv, Fields, Named
<1>4. InPlace(files') /\ MineOf(files) \subseteq MineOf(files')
  BY <1>1 DEF ConfInv
<1>. QED BY <1>3, <1>4, Continues, QuietNothing DEF MoveSteps, InstallSteps

LEMMA EntriesKeep ==
  ASSUME ConfInv, InstallEntry \/ AddNvramEntry \/ NoEntry \/ Bless PROVE Keeps
<1>1. CASE InstallEntry
  BY <1>1, EntryKeeps DEF InstallEntry, At
<1>2. CASE AddNvramEntry
  BY <1>2, EntryKeeps DEF AddNvramEntry, At
<1>3. CASE NoEntry
  BY <1>3, Goes, QuietNothing DEF NoEntry, MoveSteps, InstallSteps
<1>4. CASE Bless
  <2>1. /\ files' = files /\ sh.todo = << >>
        /\ \/ sh' = [sh EXCEPT !.pc = "done"]
           \/ sh' = [sh EXCEPT !.pc = "done", !.problems = TRUE]
    BY <1>4 DEF Bless, At
  <2>2. /\ DOMAIN sh' = DOMAIN sh /\ sh'.script = sh.script /\ sh'.todo = << >> /\ Named(sh')
        /\ sh'.pc = "done"
    BY <2>1 DEF ConfInv, Fields, Named
  <2>3. InPlace(files') /\ MineOf(files) \subseteq MineOf(files')
    BY <2>1 DEF ConfInv
  <2>. QED BY <2>2, <2>3, Continues, QuietNothing DEF MoveSteps, InstallSteps
<1>. QED BY <1>1, <1>2, <1>3, <1>4

\* The lines of refind_linux.conf.
LEMMA OptionsQuiet ==
  QuietList([i \in 1 .. 2 |-> Cp(Content("options", i, "any", 0), LINUX, "refind_linux.conf", FALSE)])
<1>. DEFINE Line(i) == Cp(Content("options", i, "any", 0), LINUX, "refind_linux.conf", FALSE)
            T == { Line(i) : i \in 1 .. 2 }
            l == [i \in 1 .. 2 |-> Line(i)]
<1>1. \A i \in 1 .. 2 : Quiet(Line(i))
  <2>1. TAKE i \in 1 .. 2
  <2>2. Content("options", i, "any", 0).what # "mine"
    BY DEF Content
  <2>. QED BY <2>2, QuietCp
<1>2. \A c \in T : Quiet(c)
  BY <1>1
<1>. HIDE DEF Line
<1>3. l \in [1 .. 2 -> T] /\ 2 \in Nat
  OBVIOUS
<1>. HIDE DEF T, l
<1>4. l \in Seq(T)
  BY <1>3, SeqDef
<1>5. QuietList(l)
  BY <1>2, <1>4, QuietIntro
<1>. QED BY <1>5 DEF l, Line

LEMMA OptionsKeep == ASSUME ConfInv, GenerateRefindLinuxConf PROVE Keeps
<1>. DEFINE l == [i \in 1 .. 2 |-> Cp(Content("options", i, "any", 0), LINUX, "refind_linux.conf", FALSE)]
            g == ~IsFile(LINUX, "refind_linux.conf")
<1>1. QuietList(l)
  BY OptionsQuiet
<1>2. Go("done", If(g, l))
  BY DEF GenerateRefindLinuxConf
<1>. HIDE DEF l, g
<1>3. QuietList(If(g, l))
  BY <1>1, QuietIf
<1>. QED BY <1>2, <1>3, Goes DEF MoveSteps, InstallSteps

LEMMA InstallNextKeeps == ASSUME ConfInv, InstallNext PROVE Keeps
BY InstallKeeps, CommandKeeps, CommandFailsKeeps, KillKeeps, FindTargetKeeps, TakesKeeps,
   ReplaceDefaultKeeps, ChecksKeep, CopyRefindFilesKeeps, EntriesKeep, OptionsKeep DEF InstallNext

-----------------------------------------------------------------------------
\* The actions of mvrefind.sh and the rest.

LEMMA MoveKeeps == ASSUME ConfInv, NEW src, NEW dst, Move(src, dst) PROVE Keeps
<1>1. /\ files' = files /\ sh'.script = "mvrefind" /\ sh'.pc = "backup" /\ sh'.todo = << >>
      /\ sh'.dir = dst /\ sh'.overwrites = HasConf(dst)
      /\ DOMAIN sh' = {"script", "pc", "src", "dir", "todo", "problems", "overwrites", "rEFInd", "a"}
  BY DEF Move
<1>2. Fields' /\ Named(sh)'
  BY <1>1 DEF Fields, Named
<1>3. Conf(sh'.dir) \notin DOMAIN files' \/ Overwrites'
  BY <1>1 DEF Overwrites, HasConf, IsFile, Conf
<1>4. IsList(sh'.todo) /\ Orderly(sh'.todo, sh'.dir)
  BY <1>1, NoList
<1>5. InPlace(files') /\ Mine \subseteq Mine'
  BY <1>1 DEF ConfInv, Mine
<1>6. sh'.pc \notin InstallSteps \cup {"idle"}
  BY <1>1 DEF InstallSteps
<1>. QED BY <1>1, <1>2, <1>3, <1>4, <1>5, <1>6 DEF Keeps, ConfInv, Room

\* What a step of mvrefind.sh knows before the files are moved.
LEMMA AtMove ==
  ASSUME ConfInv, NEW p \in MoveSteps, At(p)
  PROVE  /\ sh.script = "mvrefind" /\ sh.todo = << >> /\ InPlace(files)
         /\ {"script", "pc", "dir", "todo", "problems", "a", "src", "overwrites", "rEFInd"} \subseteq DOMAIN sh
         /\ Conf(sh.dir) \notin DOMAIN files \/ Overwrites
BY DEF ConfInv, At, Fields, Room, Awaited

LEMMA BackUpTargetKeeps == ASSUME ConfInv, BackUpTarget PROVE Keeps
<1>1. At("backup") /\ "backup" \in MoveSteps
  BY DEF BackUpTarget, MoveSteps
<1>2. /\ sh.script = "mvrefind" /\ sh.todo = << >> /\ InPlace(files)
      /\ {"script", "pc", "dir", "todo", "problems", "a", "src", "overwrites", "rEFInd"} \subseteq DOMAIN sh
      /\ Conf(sh.dir) \notin DOMAIN files \/ Overwrites
  BY <1>1, AtMove
<1>3. \/ Exit
      \/ files' = files /\ sh' = [sh EXCEPT !.pc = "move", !.todo = << >>]
      \/ /\ sh.dir = BOOT /\ files' = MovedDir(files, BOOT, BACKUP, NESTED)
         /\ sh' = [sh EXCEPT !.pc = "move"]
  BY Zenon DEF BackUpTarget, Go
<1>4. CASE Exit
  BY <1>4, KillKeeps
<1>5. ASSUME \/ files' = files /\ sh' = [sh EXCEPT !.pc = "move", !.todo = << >>]
             \/ /\ sh.dir = BOOT /\ files' = MovedDir(files, BOOT, BACKUP, NESTED)
                /\ sh' = [sh EXCEPT !.pc = "move"]
      PROVE  Keeps
  <2>1. /\ DOMAIN sh' = DOMAIN sh /\ sh'.pc = "move" /\ sh'.todo = << >> /\ sh'.dir = sh.dir
        /\ sh'.script = "mvrefind" /\ sh'.overwrites = sh.overwrites
    BY <1>2, <1>5
  <2>2. /\ InPlace(files') /\ MineOf(files) \subseteq MineOf(files')
        /\ Conf(sh.dir) \in DOMAIN files' => Conf(sh.dir) \in DOMAIN files
    <3>1. CASE files' = files
      BY <1>2, <3>1
    <3>2. CASE sh.dir = BOOT /\ files' = MovedDir(files, BOOT, BACKUP, NESTED)
      <4>1. /\ InPlace(files') /\ MineOf(files) \subseteq MineOf(files')
            /\ \A d : d \notin {BACKUP, NESTED} /\ Conf(d) \in DOMAIN files' => Conf(d) \in DOMAIN files
        BY <1>2, <3>2, Apart, DirMoved
      <4>. QED BY <3>2, <4>1, Apart
    <3>. QED BY <1>5, <3>1, <3>2
  <2>3. Fields' /\ Named(sh)'
    BY <1>2, <2>1 DEF Fields, Named
  <2>4. Conf(sh'.dir) \notin DOMAIN files' \/ Overwrites'
    BY <1>2, <2>1, <2>2 DEF Overwrites
  <2>5. IsList(sh'.todo) /\ Orderly(sh'.todo, sh'.dir)
    BY <2>1, NoList
  <2>6. sh'.pc \notin InstallSteps \cup {"idle"}
    BY <2>1 DEF InstallSteps
  <2>7. Mine \subseteq Mine'
    BY <2>2 DEF Mine, MineOf
  <2>. QED BY <2>1, <2>2, <2>3, <2>4, <2>5, <2>6, <2>7 DEF Keeps, ConfInv, Room
<1>. QED BY <1>3, <1>4, <1>5

\* Ten commands of which the ninth configures.
LEMMA NinthConfigures ==
  ASSUME NEW c1, NEW c2, NEW c3, NEW c4, NEW c5, NEW c6, NEW c7, NEW c8, NEW c9, NEW c10,
         Quiet(c1), Quiet(c2), Quiet(c3), Quiet(c4), Quiet(c5), Quiet(c6), Quiet(c7), Quiet(c8),
         Quiet(c10), NEW d, Configures(c9, d)
  PROVE  /\ IsList(<<c1, c2, c3, c4, c5, c6, c7, c8, c9, c10>>)
         /\ Orderly(<<c1, c2, c3, c4, c5, c6, c7, c8, c9, c10>>, d)
<1>. DEFINE T == {c1, c2, c3, c4, c5, c6, c7, c8, c9, c10}
            l == <<c1, c2, c3, c4, c5, c6, c7, c8, c9, c10>>
<1>1. /\ l \in Seq(T) /\ Len(l) = 10 /\ l[9] = c9
      /\ \A i \in 1 .. 10 : i # 9 => l[i] \in T \ {c9} \/ Quiet(l[i])
  OBVIOUS
<1>2. \A c \in T \ {c9} : Quiet(c)
  OBVIOUS
<1>. HIDE DEF T, l
<1>3. \A i \in 1 .. 10 : i # 9 => Quiet(l[i])
  BY <1>1, <1>2
<1>4. Orderly(l, d)
  BY <1>1, <1>3 DEF Orderly
<1>5. IsList(l)
  BY <1>1 DEF IsList
<1>. QED BY <1>4, <1>5 DEF l

LEMMA MoveFilesKeeps == ASSUME ConfInv, MoveFiles PROVE Keeps
<1>. DEFINE l == <<MoveDir("icons"), MoveDir("icons-backup"), MoveDir("drivers_x64"),
                   MoveDir("drivers_ia32"), MoveDir("refind.cer"), MoveDir("local.cer"),
                   MoveFile(Name64(sh.src), Name64(sh.dir)), MoveFile(Name32(sh.src), Name32(sh.dir)),
                   MoveFile("refind.conf", "refind.conf"),
                   MoveFile("refind.conf-sample", "refind.conf-sample")>>
<1>1. At("move") /\ "move" \in MoveSteps /\ Go("entry", l)
  BY DEF MoveFiles, MoveSteps
<1>2. Conf(sh.dir) \notin DOMAIN files \/ Overwrites
  BY <1>1, AtMove
<1>3. \A d : Name64(d) # "refind.conf" /\ Name32(d) # "refind.conf"
  <2>1. TAKE d
  <2>2. Name64(d) \in {"bootx64.efi", "bootmgfw.efi", "refind_x64.efi"}
    BY Zenon DEF Name64
  <2>3. Name32(d) \in {"bootia32.efi", "refind_ia32.efi"}
    BY DEF Name32
  <2>. QED BY <2>2, <2>3
<1>4. /\ Quiet(MoveDir("icons")) /\ Quiet(MoveDir("icons-backup")) /\ Quiet(MoveDir("drivers_x64"))
      /\ Quiet(MoveDir("drivers_ia32")) /\ Quiet(MoveDir("refind.cer")) /\ Quiet(MoveDir("local.cer"))
  BY QuietMv DEF MoveDir
<1>5. /\ Quiet(MoveFile(Name64(sh.src), Name64(sh.dir)))
      /\ Quiet(MoveFile(Name32(sh.src), Name32(sh.dir)))
      /\ Quiet(MoveFile("refind.conf-sample", "refind.conf-sample"))
  BY <1>3, QuietMv DEF MoveFile
<1>6. Configures(MoveFile("refind.conf", "refind.conf"), sh.dir)
  BY DEF Configures, MoveFile, Mv, Conf
<1>7. IsList(l) /\ Orderly(l, sh.dir)
  BY <1>4, <1>5, <1>6, NinthConfigures
<1>8. "entry" \notin MoveSteps \cup InstallSteps \cup {"idle"}
  BY DEF MoveSteps, InstallSteps
<1>. HIDE DEF l
<1>. QED BY <1>1, <1>2, <1>7, <1>8, ConfigureGoes

LEMMA MkRlConfKeeps == ASSUME ConfInv, NEW force, MkRlConf(force) PROVE Keeps
<1>. DEFINE l == [i \in 1 .. 2 |-> Cp(Content("options", i, "any", 0), LINUX, "refind_linux.conf", FALSE)]
<1>1. QuietList(l)
  BY OptionsQuiet
<1>2. sh' = [Idle EXCEPT !.pc = "rlconf", !.todo = l] /\ files' = files
  BY DEF MkRlConf
<1>. HIDE DEF l
<1>3. /\ sh'.script = "none" /\ sh'.pc = "rlconf" /\ sh'.todo = l
      /\ DOMAIN sh' = {"script", "pc", "dir", "todo", "problems"}
  BY <1>2 DEF Idle
<1>4. Fields' /\ Named(sh')
  BY <1>3 DEF Fields, Named
<1>. QED BY <1>1, <1>2, <1>3, <1>4, Begins DEF MoveSteps, InstallSteps

\* Between the scripts only the files change.
LEMMA Beside ==
  ASSUME ConfInv, sh.pc = "idle", sh' = sh, InPlace(files'), MineOf(files) \subseteq MineOf(files')
  PROVE  Keeps
<1>1. sh.todo = << >> /\ Fields /\ Named(sh) /\ sh.script = "none"
  BY DEF ConfInv
<1>2. Fields' /\ Named(sh)'
  BY <1>1 DEF Fields, Named
<1>3. IsList(sh'.todo) /\ Orderly(sh'.todo, sh'.dir) /\ Len(sh'.todo) = 0
  BY <1>1, NoList
<1>4. ~Awaited'
  BY <1>3 DEF Awaited, MoveSteps
<1>5. Mine \subseteq Mine'
  BY DEF Mine, MineOf
<1>. QED BY <1>1, <1>2, <1>3, <1>4, <1>5 DEF Keeps, ConfInv, Room, MoveSteps, InstallSteps

LEMMA UserEditsKeeps == ASSUME ConfInv, NEW d, UserEdits(d) PROVE Keeps
<1>. DEFINE c == Content("mine", 1 + Max({0} \cup { m.ver : m \in Mine }), "any", 0)
            p == <<d, "refind.conf">>
<1>1. /\ sh.pc = "idle" /\ sh' = sh /\ p \in DOMAIN files /\ files[p].what = "sample"
      /\ files' = With(files, p, c)
  BY DEF UserEdits, HasConf, IsFile
<1>2. Pair(p) /\ p[2] = "refind.conf"
  BY DEF Pair
<1>3. InPlace(files)
  BY DEF ConfInv
<1>. HIDE DEF c, p
<1>4. InPlace(files')
  BY <1>1, <1>2, <1>3, WrittenInPlace
<1>5. ASSUME NEW q \in DOMAIN files, files[q].what = "mine"
      PROVE  q \in DOMAIN files' /\ files'[q] = files[q]
  BY <1>1, <1>5 DEF With
<1>6. MineOf(files) \subseteq MineOf(files')
  BY <1>5 DEF MineOf
<1>. QED BY <1>1, <1>4, <1>6, Beside

LEMMA WindowsRepairsKeeps == ASSUME ConfInv, WindowsRepairs PROVE Keeps
<1>. DEFINE c == Content("windows", 0, mach.cpu, 0)
            p == <<MSBOOT, "bootmgfw.efi">>
<1>1. sh.pc = "idle" /\ sh' = sh /\ files' = With(files, p, c)
  BY DEF WindowsRepairs
<1>2. Pair(p) /\ p[2] # "refind.conf" /\ c.what # "mine" /\ InPlace(files)
  BY DEF Pair, Content, ConfInv
<1>. HIDE DEF c, p
<1>3. InPlace(files') /\ MineOf(files) \subseteq MineOf(files')
  BY <1>1, <1>2, Written
<1>. QED BY <1>1, <1>3, Beside

LEMMA StaysKeeps == ASSUME ConfInv, UNCHANGED vars PROVE Keeps
<1>1. sh' = sh /\ files' = files
  BY DEF vars
<1>2. Mine \subseteq Mine'
  BY <1>1 DEF Mine
<1>3. ConfInv'
  BY <1>1 DEF ConfInv, Fields, Room, Awaited, Overwrites
<1>. QED BY <1>2, <1>3 DEF Keeps

LEMMA ConfInit == Init => ConfInv
<1>. SUFFICES ASSUME Init PROVE ConfInv
  OBVIOUS
<1>1. sh = Idle /\ InPlace(files)
  BY StartsAssumption DEF Init, InPlace, Pair
<1>2. /\ sh.todo = << >> /\ sh.script = "none" /\ sh.pc = "idle"
      /\ {"script", "pc", "dir", "todo", "problems"} \subseteq DOMAIN sh
  BY <1>1 DEF Idle
<1>3. IsList(sh.todo) /\ Orderly(sh.todo, sh.dir) /\ Len(sh.todo) = 0
  BY <1>2, NoList
<1>. QED BY <1>1, <1>2, <1>3 DEF ConfInv, Fields, Named, Room, Awaited, MoveSteps, InstallSteps

LEMMA ConfNext == ASSUME ConfInv, [Next]_vars PROVE Keeps
<1>1. CASE InstallNext
  BY <1>1, InstallNextKeeps
<1>2. CASE \E src, dst \in {REFIND, BOOT, MSBOOT, Elsewhere} : Move(src, dst)
  BY <1>2, MoveKeeps
<1>3. CASE \E force \in BOOLEAN : MkRlConf(force)
  BY <1>3, MkRlConfKeeps
<1>4. CASE \E d \in Esp \cup {Elsewhere} : UserEdits(d)
  BY <1>4, UserEditsKeeps
<1>5. CASE MkRlConfEnds
  BY <1>5, KillKeeps DEF MkRlConfEnds
<1>6. CASE BackUpTarget \/ MoveFiles \/ AddNvramEntry \/ WindowsRepairs
  BY <1>6, BackUpTargetKeeps, MoveFilesKeeps, EntriesKeep, WindowsRepairsKeeps
<1>7. CASE UNCHANGED vars
  BY <1>7, StaysKeeps
<1>. QED BY <1>1, <1>2, <1>3, <1>4, <1>5, <1>6, <1>7 DEF Next

(* The configurations of the user's survive every sequence of runs, kills, *)
(* failures and repairs, but for a move onto another installation.         *)
THEOREM SetupConfigKept == Spec => ConfigKept
<1>1. Init => ConfInv
  BY ConfInit
<1>2. ConfInv /\ [Next]_vars => ConfInv'
  BY ConfNext DEF Keeps
<1>3. ConfInv /\ [Next]_vars => [Mine \subseteq Mine' \/ (sh.script = "mvrefind" /\ sh.overwrites)]_vars
  BY ConfNext DEF Keeps, Overwrites
<1>. QED BY <1>1, <1>2, <1>3, PTL DEF Spec, ConfigKept

-----------------------------------------------------------------------------
(* Proofs: what makes the keys fit. The certificate in DER form is written *)
(* last of the three files of a set, and only when it is missing: whenever *)
(* it is there, the set is whole. So it is once keys were made or found,   *)
(* and from CopyRefindFiles() on every command for the program, or for the *)
(* certificate beside it, writes what belongs to this key.                 *)

KeyNames == {"key", "crt", "cer"}
KeyPlaces == { <<KEYS, n>> : n \in KeyNames }

\* The commands of a list; those that do not touch these places, and those
\* that write a content of this key to a place.
Commands(s) == { s[i] : i \in 1 .. Len(s) }

Spares(c, P) ==
  /\ c.op \in {"cp", "openssl", "rm", "mv", "mv-n"}
  /\ c.op \in {"cp", "openssl"} => c.to \notin P
  /\ c.op = "rm" => c.from \notin P
  /\ c.op \in {"mv", "mv-n"} => c.from \notin P /\ c.to \notin P

Delivers(c, p, k) == c.op = "cp" /\ c.to = p /\ c.content.key = k

\* What the commands make of a place: content of this key.
Carried(f, C, p, k) ==
  /\ \A c \in C : Delivers(c, p, k) \/ Spares(c, {p})
  /\ (p \in DOMAIN f /\ f[p].key = k) \/ \E c \in C : Delivers(c, p, k)

\* In GenerateKeys(), with these commands to come: copies of what there was,
\* then the three files of the new set, c.
Generating(f, todo) ==
  LET c == todo[Len(todo)].content
  IN  /\ Len(todo) > 0 /\ <<KEYS, "cer">> \notin DOMAIN f
      /\ \A i \in 1 .. Len(todo) - 3 : todo[i].op = "cp" /\ Spares(todo[i], KeyPlaces)
      /\ todo[Len(todo)] = Openssl(c, "cer")
      /\ IF Len(todo) > 1 THEN todo[Len(todo) - 1] = Openssl(c, "crt")
         ELSE <<KEYS, "crt">> \in DOMAIN f /\ f[<<KEYS, "crt">>] = c
      /\ IF Len(todo) > 2 THEN todo[Len(todo) - 2] = Openssl(c, "key")
         ELSE <<KEYS, "key">> \in DOMAIN f /\ f[<<KEYS, "key">>] = c

\* The run has its keys; it has the list of what to copy.
CopySteps == {"entry", "create", "options", "done"}
Signed == sh.script = "install" /\ sh.pc \in {"secure", "copy"} \cup CopySteps /\ sh.a.localkeys
Copied == Signed /\ sh.pc \in CopySteps /\ mach.cpu = "x64"

KeyOf(f) == f[<<KEYS, "key">>].key

KeysInv ==
  /\ failures \in Nat
  /\ <<KEYS, "cer">> \in DOMAIN files => Whole(files)
  /\ sh.script = "install" /\ sh.a.shim => sh.x64 = "grubx64.efi"
  /\ IF sh.pc = "signed"
     THEN sh.a.localkeys /\ (Generating(files, sh.todo) \/ (sh.todo = << >> /\ Whole(files)))
     ELSE \A c \in Commands(sh.todo) : Spares(c, KeyPlaces)
  /\ Signed => Whole(files)
  /\ Copied /\ failures = 0 =>
       \A n \in {sh.x64, "local.cer"} :
         Carried(files, Commands(sh.todo), <<sh.dir, n>>, KeyOf(files))
-----------------------------------------------------------------------------
\* The commands of lists that are put together.

LEMMA CommandsOf ==
  /\ IsList(<< >>) /\ Commands(<< >>) = {}
  /\ \A c : IsList(<<c>>) /\ Commands(<<c>>) = {c}
  /\ \A c, d : IsList(<<c, d>>) /\ Commands(<<c, d>>) = {c, d}
<1>1. IsList(<< >>) /\ Commands(<< >>) = {}
  BY NoList DEF Commands
<1>2. ASSUME NEW c PROVE IsList(<<c>>) /\ Commands(<<c>>) = {c}
  <2>. DEFINE l == <<c>>
  <2>1. l \in Seq({c}) /\ Len(l) = 1 /\ l[1] = c
    OBVIOUS
  <2>. HIDE DEF l
  <2>2. Commands(l) = {c}
    BY <2>1 DEF Commands
  <2>. QED BY <2>1, <2>2 DEF IsList, l
<1>3. ASSUME NEW c, NEW d PROVE IsList(<<c, d>>) /\ Commands(<<c, d>>) = {c, d}
  <2>. DEFINE l == <<c, d>>
  <2>1. l \in Seq({c, d}) /\ Len(l) = 2 /\ l[1] = c /\ l[2] = d
    OBVIOUS
  <2>. HIDE DEF l
  <2>2. Commands(l) = {c, d}
    BY <2>1 DEF Commands
  <2>. QED BY <2>1, <2>2 DEF IsList, l
<1>. QED BY <1>1, <1>2, <1>3

LEMMA Joined ==
  ASSUME NEW a, NEW b, IsList(a), IsList(b)
  PROVE  /\ IsList(a \o b) /\ Len(a \o b) = Len(a) + Len(b) /\ Len(a) \in Nat /\ Len(b) \in Nat
         /\ \A i \in 1 .. Len(a \o b) : (a \o b)[i] = IF i <= Len(a) THEN a[i] ELSE b[i - Len(a)]
<1>1. PICK S : a \in Seq(S)
  BY DEF IsList
<1>2. PICK T : b \in Seq(T)
  BY DEF IsList
<1>. DEFINE U == S \cup T
            s == a \o b
<1>3. a \in Seq(U) /\ b \in Seq(U)
  BY <1>1, <1>2
<1>. HIDE DEF U
<1>4. /\ s \in Seq(U) /\ Len(s) = Len(a) + Len(b) /\ Len(a) \in Nat /\ Len(b) \in Nat
      /\ \A i \in 1 .. Len(s) : s[i] = IF i <= Len(a) THEN a[i] ELSE b[i - Len(a)]
  BY <1>3, ConcatProperties, LenProperties
<1>. HIDE DEF s
<1>. QED BY <1>4 DEF s, IsList

LEMMA CommandsBoth ==
  ASSUME NEW a, NEW b, IsList(a), IsList(b)
  PROVE  IsList(a \o b) /\ Commands(a \o b) = Commands(a) \cup Commands(b)
<1>. DEFINE s == a \o b
<1>4. /\ IsList(s) /\ Len(s) = Len(a) + Len(b) /\ Len(a) \in Nat /\ Len(b) \in Nat
      /\ \A i \in 1 .. Len(s) : s[i] = IF i <= Len(a) THEN a[i] ELSE b[i - Len(a)]
  BY Joined
<1>. HIDE DEF s
<1>5. ASSUME NEW i \in 1 .. Len(a) PROVE a[i] \in Commands(s)
  <2>1. i \in 1 .. Len(s) /\ s[i] = a[i]
    BY <1>4
  <2>. QED BY <2>1 DEF Commands
<1>6. ASSUME NEW i \in 1 .. Len(b) PROVE b[i] \in Commands(s)
  <2>. DEFINE j == i + Len(a)
  <2>1. j \in 1 .. Len(s) /\ ~(j <= Len(a)) /\ j - Len(a) = i
    BY <1>4
  <2>. HIDE DEF j
  <2>2. s[j] = b[i]
    BY <1>4, <2>1
  <2>. QED BY <2>1, <2>2 DEF Commands
<1>7. ASSUME NEW i \in 1 .. Len(s) PROVE s[i] \in Commands(a) \cup Commands(b)
  <2>1. CASE i <= Len(a)
    BY <1>4, <2>1 DEF Commands
  <2>2. CASE ~(i <= Len(a))
    <3>1. i - Len(a) \in 1 .. Len(b) /\ s[i] = b[i - Len(a)]
      BY <1>4, <2>2
    <3>. QED BY <3>1 DEF Commands
  <2>. QED BY <2>1, <2>2
<1>8. Commands(s) = Commands(a) \cup Commands(b)
  BY <1>5, <1>6, <1>7 DEF Commands
<1>. QED BY <1>4, <1>8 DEF s

LEMMA CommandsIf ==
  ASSUME NEW g, NEW a, g => IsList(a)
  PROVE  /\ IsList(If(g, a)) /\ (~g => Commands(If(g, a)) = {})
         /\ g => Commands(If(g, a)) = Commands(a)
BY CommandsOf DEF If

LEMMA CommandsRest ==
  ASSUME NEW s, IsList(s), s # << >>
  PROVE  /\ Head(s) = s[1] /\ Len(s) \in Nat /\ Len(s) > 0 /\ Len(Tail(s)) = Len(s) - 1
         /\ IsList(Tail(s)) /\ (Len(Tail(s)) = 0 => Tail(s) = << >>)
         /\ \A i \in 1 .. Len(s) - 1 : Tail(s)[i] = s[i + 1]
         /\ Commands(s) = {Head(s)} \cup Commands(Tail(s))
<1>1. PICK S : s \in Seq(S)
  BY DEF IsList
<1>. DEFINE t == Tail(s)
<1>0. t \in Seq(S) /\ (Len(t) = 0 => t = << >>)
  <2>1. t \in Seq(S)
    BY <1>1
  <2>. HIDE DEF t
  <2>. QED BY <2>1, EmptySeq
<1>2. /\ Head(s) = s[1] /\ Len(s) \in Nat /\ Len(s) > 0 /\ Len(t) = Len(s) - 1
      /\ \A i \in 1 .. Len(s) - 1 : t[i] = s[i + 1]
  BY <1>1
<1>. HIDE DEF t
<1>3. ASSUME NEW i \in 1 .. Len(s) PROVE s[i] \in {Head(s)} \cup Commands(t)
  <2>1. CASE i = 1
    BY <1>2, <2>1
  <2>2. CASE i # 1
    <3>1. i - 1 \in 1 .. Len(t) /\ t[i - 1] = s[i]
      BY <1>2, <2>2
    <3>. QED BY <3>1 DEF Commands
  <2>. QED BY <2>1, <2>2
<1>4. ASSUME NEW i \in 1 .. Len(t) PROVE t[i] \in Commands(s)
  <2>1. i + 1 \in 1 .. Len(s) /\ t[i] = s[i + 1]
    BY <1>2
  <2>. QED BY <2>1 DEF Commands
<1>5. Head(s) \in Commands(s)
  <2>1. 1 \in 1 .. Len(s)
    BY <1>2
  <2>. QED BY <1>2, <2>1 DEF Commands
<1>6. Commands(s) = {Head(s)} \cup Commands(t)
  BY <1>3, <1>4, <1>5 DEF Commands
<1>. QED BY <1>0, <1>2, <1>6 DEF t, IsList

-----------------------------------------------------------------------------
\* What a command does to a place.

LEMMA SparedStays ==
  ASSUME NEW f, NEW c, NEW P, Spares(c, P), NEW p \in P
  PROVE  /\ p \in DOMAIN Executed(f, c) <=> p \in DOMAIN f
         /\ p \in DOMAIN f => Executed(f, c)[p] = f[p]
<1>. DEFINE e == Executed(f, c)
<1>1. CASE c.op \in {"cp", "openssl"}
  <2>1. e = With(f, c.to, c.content) /\ c.to # p
    BY <1>1 DEF Executed, Spares
  <2>. QED BY <2>1 DEF With
<1>2. CASE c.op = "rm"
  <2>1. e = Without(f, {c.from}) /\ c.from # p
    BY <1>2 DEF Executed, Spares
  <2>. QED BY <2>1 DEF Without
<1>3. CASE c.op \in {"mv", "mv-n"}
  <2>1. e = f \/ e = Moved(f, c.from, c.to)
    BY <1>3 DEF Executed
  <2>2. c.from # p /\ c.to # p
    BY <1>3 DEF Spares
  <2>3. CASE e = Moved(f, c.from, c.to)
    <3>. DEFINE g == Without(f, {c.from})
    <3>1. (p \in DOMAIN g <=> p \in DOMAIN f) /\ (p \in DOMAIN f => g[p] = f[p])
      BY <2>2 DEF Without
    <3>2. e = With(g, c.to, f[c.from])
      BY <2>3 DEF Moved
    <3>. HIDE DEF g
    <3>. QED BY <2>2, <3>1, <3>2 DEF With
  <2>. QED BY <2>1, <2>3
<1>. QED BY <1>1, <1>2, <1>3 DEF Spares

LEMMA WrittenTo ==
  ASSUME NEW f, NEW q, NEW c
  PROVE  LET e == With(f, q, c)
         IN  /\ DOMAIN e = {q} \cup DOMAIN f /\ e[q] = c
             /\ \A p \in DOMAIN f : p # q => e[p] = f[p]
BY DEF With

\* The set of keys depends on nothing else.
LEMMA KeysSpared ==
  ASSUME NEW f, NEW e,
         \A p \in KeyPlaces : (p \in DOMAIN e <=> p \in DOMAIN f) /\ (p \in DOMAIN f => e[p] = f[p])
  PROVE  /\ Whole(f) => Whole(e) /\ KeyOf(e) = KeyOf(f)
         /\ (<<KEYS, "cer">> \in DOMAIN f => Whole(f)) => (<<KEYS, "cer">> \in DOMAIN e => Whole(e))
<1>1. \A n \in {"key", "crt", "cer"} : <<KEYS, n>> \in KeyPlaces
  BY DEF KeyPlaces, KeyNames
<1>2. \A n \in {"key", "crt", "cer"} :
        /\ <<KEYS, n>> \in DOMAIN e <=> <<KEYS, n>> \in DOMAIN f
        /\ <<KEYS, n>> \in DOMAIN f => e[<<KEYS, n>>] = f[<<KEYS, n>>]
  BY <1>1
<1>3. Whole(f) => Whole(e) /\ KeyOf(e) = KeyOf(f)
  BY <1>2 DEF Whole, KeyOf
<1>. QED BY <1>2, <1>3

LEMMA PlacesApart ==
  /\ \A d, n : n \notin KeyNames => <<d, n>> \notin KeyPlaces
  /\ \A d, n : d # KEYS => <<d, n>> \notin KeyPlaces
BY DEF KeyPlaces

\* A command that delivers, or spares, keeps what is carried.
LEMMA CarriedOn ==
  ASSUME NEW f, NEW c, NEW C, NEW p, NEW k, Carried(f, {c} \cup C, p, k)
  PROVE  Carried(Executed(f, c), C, p, k)
<1>. DEFINE e == Executed(f, c)
<1>1. CASE Delivers(c, p, k)
  <2>1. e = With(f, p, c.content) /\ c.content.key = k
    BY <1>1 DEF Delivers, Executed
  <2>2. p \in DOMAIN e /\ e[p].key = k
    BY <2>1 DEF With
  <2>. QED BY <2>2 DEF Carried
<1>2. CASE Spares(c, {p}) /\ ~Delivers(c, p, k)
  <2>1. (p \in DOMAIN e <=> p \in DOMAIN f) /\ (p \in DOMAIN f => e[p] = f[p])
    BY <1>2, SparedStays
  <2>. HIDE DEF e
  <2>. QED BY <1>2, <2>1 DEF Carried, e
<1>. QED BY <1>1, <1>2 DEF Carried

-----------------------------------------------------------------------------
\* Commands keep the invariant.

LEMMA SameKeys ==
  ASSUME NEW c, Spares(c, KeyPlaces), files' = Executed(files, c) \/ files' = files
                                      \/ (c.op = "cp" /\ files' = With(files, c.to, Torn))
  PROVE  \A p \in KeyPlaces :
           (p \in DOMAIN files' <=> p \in DOMAIN files) /\ (p \in DOMAIN files => files'[p] = files[p])
<1>1. CASE files' = Executed(files, c)
  BY <1>1, SparedStays
<1>2. CASE c.op = "cp" /\ files' = With(files, c.to, Torn)
  <2>1. c.to \notin KeyPlaces
    BY <1>2 DEF Spares
  <2>. QED BY <1>2, <2>1 DEF With
<1>. QED BY <1>1, <1>2

\* The list of the step and what its head is.
LEMMA NextCommand ==
  ASSUME ConfInv, sh.todo # << >>, sh'.todo = Tail(sh.todo),
         \A x \in DOMAIN sh \ {"todo", "problems"} : sh'[x] = sh[x]
  PROVE  /\ sh'.todo = Tail(sh.todo) /\ sh'.pc = sh.pc /\ sh'.script = sh.script /\ sh'.dir = sh.dir
         /\ sh.script = "install" => sh'.a = sh.a /\ sh'.x64 = sh.x64
         /\ Len(sh.todo) \in Nat /\ Len(sh.todo) > 0 /\ Len(sh'.todo) = Len(sh.todo) - 1
         /\ Head(sh.todo) = sh.todo[1] /\ (Len(sh'.todo) = 0 => sh'.todo = << >>)
         /\ \A i \in 1 .. Len(sh.todo) - 1 : sh'.todo[i] = sh.todo[i + 1]
         /\ Commands(sh.todo) = {Head(sh.todo)} \cup Commands(sh'.todo)
         /\ sh.pc = "signed" => sh.script = "install"
<1>1. Fields /\ IsList(sh.todo) /\ (sh.pc = "signed" => sh.script = "install")
  BY DEF ConfInv, InstallSteps
<1>2. /\ sh'.todo = Tail(sh.todo) /\ sh'.pc = sh.pc /\ sh'.script = sh.script /\ sh'.dir = sh.dir
      /\ sh.script = "install" => sh'.a = sh.a /\ sh'.x64 = sh.x64
  BY <1>1 DEF Fields
<1>. QED BY <1>1, <1>2, CommandsRest

\* While keys are made.
LEMMA GenerateStep ==
  ASSUME NEW T, Generating(files, T), NEW c, c = T[1], NEW U,
         Len(T) \in Nat, Len(T) > 0, Len(U) = Len(T) - 1, \A i \in 1 .. Len(T) - 1 : U[i] = T[i + 1],
         files' = Executed(files, c) \/ (c.op = "cp" /\ (files' = files \/ files' = With(files, c.to, Torn)))
  PROVE  /\ Generating(files', U) \/ (Len(U) = 0 /\ Whole(files'))
         /\ <<KEYS, "cer">> \in DOMAIN files' => Whole(files')
<1>1. /\ c = T[1] /\ Len(T) \in Nat /\ Len(T) > 0 /\ Len(U) = Len(T) - 1
      /\ \A i \in 1 .. Len(T) - 1 : U[i] = T[i + 1]
  OBVIOUS
<1>. DEFINE k == T[Len(T)].content
<1>2. /\ <<KEYS, "cer">> \notin DOMAIN files
      /\ \A i \in 1 .. Len(T) - 3 : T[i].op = "cp" /\ Spares(T[i], KeyPlaces)
      /\ T[Len(T)] = Openssl(k, "cer")
      /\ Len(T) > 1 => T[Len(T) - 1] = Openssl(k, "crt")
      /\ ~(Len(T) > 1) => <<KEYS, "crt">> \in DOMAIN files /\ files[<<KEYS, "crt">>] = k
      /\ Len(T) > 2 => T[Len(T) - 2] = Openssl(k, "key")
      /\ ~(Len(T) > 2) => <<KEYS, "key">> \in DOMAIN files /\ files[<<KEYS, "key">>] = k
  BY DEF Generating
<1>3. Len(T) > 1 => U[Len(U)] = T[Len(T)] /\ Len(U) > 0
  BY <1>1
<1>4. Len(T) > 2 => U[Len(U) - 1] = T[Len(T) - 1]
  BY <1>1
<1>5. Len(T) > 3 => U[Len(U) - 2] = T[Len(T) - 2]
  BY <1>1
<1>6. \A i \in 1 .. Len(U) - 3 : U[i].op = "cp" /\ Spares(U[i], KeyPlaces)
  <2>1. TAKE i \in 1 .. Len(U) - 3
  <2>2. U[i] = T[i + 1] /\ i + 1 \in 1 .. Len(T) - 3
    BY <1>1
  <2>. QED BY <1>2, <2>2
<1>7. \A n \in {"key", "crt", "cer"} : <<KEYS, n>> \in KeyPlaces
  BY DEF KeyPlaces, KeyNames
<1>. HIDE DEF k
<1>8. \A n : /\ Openssl(k, n).op = "openssl" /\ Openssl(k, n).to = <<KEYS, n>>
             /\ Openssl(k, n).content = k
  BY DEF Openssl
<1>9. ASSUME NEW n, c = Openssl(k, n)
      PROVE  /\ <<KEYS, n>> \in DOMAIN files' /\ files'[<<KEYS, n>>] = k
             /\ \A m : m # n =>
                  /\ <<KEYS, m>> \in DOMAIN files' <=> <<KEYS, m>> \in DOMAIN files
                  /\ <<KEYS, m>> \in DOMAIN files => files'[<<KEYS, m>>] = files[<<KEYS, m>>]
  <2>1. c.op = "openssl" /\ c.to = <<KEYS, n>> /\ c.content = k
    BY <1>8, <1>9
  <2>2. files' = With(files, <<KEYS, n>>, k)
    BY <2>1 DEF Executed
  <2>3. \A m : m # n => <<KEYS, m>> # <<KEYS, n>>
    OBVIOUS
  <2>. QED BY <2>2, <2>3 DEF With
<1>10. CASE Len(T) > 3
  <2>1. c.op = "cp" /\ Spares(c, KeyPlaces)
    BY <1>1, <1>2, <1>10
  <2>2. \A p \in KeyPlaces : (p \in DOMAIN files' <=> p \in DOMAIN files)
                             /\ (p \in DOMAIN files => files'[p] = files[p])
    BY <2>1, SameKeys
  <2>3. <<KEYS, "cer">> \notin DOMAIN files'
    BY <1>2, <1>7, <2>2
  <2>4. U[Len(U)] = Openssl(k, "cer") /\ U[Len(U)].content = k
    BY <1>2, <1>3, <1>8, <1>10
  <2>5. U[Len(U) - 1] = Openssl(k, "crt") /\ U[Len(U) - 2] = Openssl(k, "key")
    BY <1>1, <1>2, <1>4, <1>5, <1>10
  <2>6. Len(U) > 2 /\ Len(U) > 1 /\ Len(U) > 0
    BY <1>1, <1>10
  <2>7. Generating(files', U)
    BY <1>6, <2>3, <2>4, <2>5, <2>6 DEF Generating
  <2>. QED BY <2>3, <2>7
<1>11. CASE Len(T) = 3
  <2>1. c = Openssl(k, "key")
    BY <1>1, <1>2, <1>11
  <2>2. <<KEYS, "cer">> \notin DOMAIN files' /\ <<KEYS, "key">> \in DOMAIN files' /\ files'[<<KEYS, "key">>] = k
    BY <1>2, <1>9, <2>1
  <2>3. U[Len(U)] = Openssl(k, "cer") /\ U[Len(U)].content = k /\ U[Len(U) - 1] = Openssl(k, "crt")
    BY <1>1, <1>2, <1>3, <1>4, <1>8, <1>11
  <2>4. Len(U) > 0 /\ Len(U) > 1 /\ ~(Len(U) > 2)
    <3>1. Len(U) = 2
      BY <1>1, <1>11
    <3>2. 2 > 0 /\ 2 > 1 /\ ~(2 > 2)
      OBVIOUS
    <3>. QED BY <3>1, <3>2, Zenon
  <2>5. Generating(files', U)
    BY <1>6, <2>2, <2>3, <2>4 DEF Generating
  <2>. QED BY <2>2, <2>5
<1>12. CASE Len(T) = 2
  <2>1. c = Openssl(k, "crt")
    BY <1>1, <1>2, <1>12
  <2>2. /\ <<KEYS, "cer">> \notin DOMAIN files'
        /\ \A n \in {"key", "crt"} : <<KEYS, n>> \in DOMAIN files' /\ files'[<<KEYS, n>>] = k
    BY <1>2, <1>9, <1>12, <2>1
  <2>3. U[Len(U)] = Openssl(k, "cer") /\ U[Len(U)].content = k
    BY <1>2, <1>3, <1>8, <1>12
  <2>4. Len(U) > 0 /\ ~(Len(U) > 1) /\ ~(Len(U) > 2)
    <3>1. Len(U) = 1
      BY <1>1, <1>12
    <3>2. 1 > 0 /\ ~(1 > 1) /\ ~(1 > 2)
      OBVIOUS
    <3>. QED BY <3>1, <3>2, Zenon
  <2>5. Generating(files', U)
    BY <1>6, <2>2, <2>3, <2>4 DEF Generating
  <2>. QED BY <2>2, <2>5
<1>13. CASE Len(T) = 1
  <2>1. c = Openssl(k, "cer")
    BY <1>1, <1>2, <1>13
  <2>2. \A n \in {"key", "crt", "cer"} : <<KEYS, n>> \in DOMAIN files' /\ files'[<<KEYS, n>>] = k
    BY <1>2, <1>9, <1>13, <2>1
  <2>3. Whole(files')
    BY <2>2 DEF Whole
  <2>4. Len(U) = 0
    BY <1>1, <1>13
  <2>. QED BY <2>3, <2>4
<1>14. Len(T) > 3 \/ Len(T) = 3 \/ Len(T) = 2 \/ Len(T) = 1
  BY <1>1
<1>. QED BY <1>10, <1>11, <1>12, <1>13, <1>14

\* A command, done or failed.
LEMMA CommandKeys ==
  ASSUME ConfInv, KeysInv, Command \/ (\E torn : CommandFails(torn)) PROVE KeysInv'
<1>. DEFINE c == Head(sh.todo)
<1>1. sh.todo # << >> /\ mach' = mach
  BY DEF Command, CommandFails
<1>2. \/ files' = Executed(files, c) /\ failures' = failures
      \/ c.op = "cp" /\ (files' = files \/ files' = With(files, c.to, Torn)) /\ failures' = failures + 1
  BY DEF Command, CommandFails
<1>3. /\ sh'.todo = Tail(sh.todo) /\ sh'.pc = sh.pc /\ sh'.script = sh.script /\ sh'.dir = sh.dir
      /\ sh.script = "install" => sh'.a = sh.a /\ sh'.x64 = sh.x64
      /\ Commands(sh.todo) = {c} \cup Commands(sh'.todo)
      /\ sh.pc = "signed" => sh.script = "install"
      /\ Len(sh.todo) \in Nat /\ Len(sh.todo) > 0 /\ Len(sh'.todo) = Len(sh.todo) - 1
      /\ c = sh.todo[1] /\ (Len(sh'.todo) = 0 => sh'.todo = << >>)
      /\ \A i \in 1 .. Len(sh.todo) - 1 : sh'.todo[i] = sh.todo[i + 1]
  <2>1. CASE Command
    <3>1. sh'.todo = Tail(sh.todo) /\ \A x \in DOMAIN sh \ {"todo"} : sh'[x] = sh[x]
      BY <2>1 DEF Command, ConfInv, Fields
    <3>. QED BY <1>1, <3>1, NextCommand
  <2>2. CASE \E torn : CommandFails(torn)
    <3>. DEFINE q == sh.problems \/ Head(sh.todo).checked
    <3>1. sh' = [sh EXCEPT !.todo = Tail(@), !.problems = q]
      BY <2>2 DEF CommandFails
    <3>. HIDE DEF q
    <3>2. sh'.todo = Tail(sh.todo) /\ \A x \in DOMAIN sh \ {"todo", "problems"} : sh'[x] = sh[x]
      BY <3>1 DEF ConfInv, Fields
    <3>. QED BY <1>1, <3>2, NextCommand
  <2>. QED BY <2>1, <2>2
<1>. HIDE DEF c
<1>4. failures' \in Nat /\ (failures' = 0 => failures = 0 /\ files' = Executed(files, c))
  BY <1>2 DEF KeysInv
<1>5. sh'.script = "install" /\ sh'.a.shim => sh'.x64 = "grubx64.efi"
  BY <1>3 DEF KeysInv
<1>6. CASE sh.pc = "signed"
  <2>1. sh.a.localkeys /\ Generating(files, sh.todo)
    BY <1>1, <1>6 DEF KeysInv
  <2>2. /\ Generating(files', sh'.todo) \/ (Len(sh'.todo) = 0 /\ Whole(files'))
        /\ <<KEYS, "cer">> \in DOMAIN files' => Whole(files')
    BY <1>2, <1>3, <2>1, GenerateStep
  <2>3. Generating(files', sh'.todo) \/ (sh'.todo = << >> /\ Whole(files'))
    BY <1>3, <2>2
  <2>4. ~Signed'
    BY <1>3, <1>6 DEF Signed, CopySteps
  <2>5. sh'.a.localkeys
    BY <1>3, <1>6, <2>1
  <2>. QED BY <1>3, <1>4, <1>5, <1>6, <2>2, <2>3, <2>4, <2>5 DEF KeysInv, Copied
<1>7. CASE sh.pc # "signed"
  <2>1. /\ Spares(c, KeyPlaces) /\ \A d \in Commands(sh'.todo) : Spares(d, KeyPlaces)
        /\ <<KEYS, "cer">> \in DOMAIN files => Whole(files)
    BY <1>3, <1>7 DEF KeysInv
  <2>2. \A p \in KeyPlaces : (p \in DOMAIN files' <=> p \in DOMAIN files)
                             /\ (p \in DOMAIN files => files'[p] = files[p])
    BY <1>2, <2>1, SameKeys
  <2>3. /\ Whole(files) => Whole(files') /\ KeyOf(files') = KeyOf(files)
        /\ <<KEYS, "cer">> \in DOMAIN files' => Whole(files')
    BY <2>1, <2>2, KeysSpared
  <2>4. (Signed' => Signed) /\ (Copied' => Copied)
    BY <1>1, <1>3 DEF Signed, Copied
  <2>5. Signed' => Whole(files')
    BY <2>3, <2>4 DEF KeysInv
  <2>6. ASSUME Copied', failures' = 0, NEW n \in {sh'.x64, "local.cer"}
        PROVE  Carried(files', Commands(sh'.todo), <<sh'.dir, n>>, KeyOf(files'))
    <3>1. Copied /\ Signed /\ failures = 0 /\ files' = Executed(files, c) /\ Whole(files)
      BY <1>4, <2>4, <2>6 DEF Copied, KeysInv
    <3>2. n \in {sh.x64, "local.cer"} /\ sh'.dir = sh.dir
      BY <1>3, <2>6, <3>1 DEF Signed
    <3>3. Carried(files, {c} \cup Commands(sh'.todo), <<sh.dir, n>>, KeyOf(files))
      BY <1>3, <3>1, <3>2 DEF KeysInv
    <3>4. Carried(Executed(files, c), Commands(sh'.todo), <<sh.dir, n>>, KeyOf(files))
      BY <3>3, CarriedOn
    <3>. QED BY <2>3, <3>1, <3>2, <3>4
  <2>. QED BY <1>3, <1>4, <1>5, <1>7, <2>1, <2>3, <2>5, <2>6 DEF KeysInv
<1>. QED BY <1>6, <1>7

-----------------------------------------------------------------------------
\* The other actions of the scripts.

SameKeyFiles ==
  \A p \in KeyPlaces : /\ p \in DOMAIN files' <=> p \in DOMAIN files
                       /\ p \in DOMAIN files => files'[p] = files[p]

\* A step that leaves the keys alone, in a run that has not got its own yet.
LEMMA KeysAlone ==
  ASSUME KeysInv, failures' \in Nat, SameKeyFiles,
         \A c \in Commands(sh'.todo) : Spares(c, KeyPlaces), sh'.pc # "signed",
         sh'.script = "install" => sh'.pc \notin {"secure", "copy"} \cup CopySteps,
         sh'.script = "install" /\ sh'.a.shim => sh'.x64 = "grubx64.efi"
  PROVE  KeysInv'
<1>1. <<KEYS, "cer">> \in DOMAIN files' => Whole(files')
  BY KeysSpared DEF KeysInv, SameKeyFiles
<1>2. ~Signed'
  BY DEF Signed
<1>. QED BY <1>1, <1>2 DEF KeysInv, Copied

LEMMA SameFilesSameKeys == files' = files => SameKeyFiles
BY DEF SameKeyFiles

LEMMA KeysAtEnd == ASSUME KeysInv, failures' \in Nat, files' = files, sh' = Idle PROVE KeysInv'
<1>1. sh'.pc = "idle" /\ sh'.script = "none" /\ sh'.todo = << >>
  BY DEF Idle
<1>. QED BY <1>1, CommandsOf, SameFilesSameKeys, KeysAlone

LEMMA ExitKeys == ASSUME ConfInv, KeysInv, Exit \/ Kill PROVE KeysInv'
BY KeysAtEnd DEF Exit, Kill, KeysInv

LEMMA InstallKeys == ASSUME ConfInv, KeysInv, NEW a, Install(a) PROVE KeysInv'
<1>1. /\ files' = files /\ failures' = failures
      /\ sh'.todo = << >> /\ sh'.pc \in {"cpu", "target"}
      /\ sh'.a.shim => sh'.x64 = "grubx64.efi"
  BY DEF Install
<1>. QED BY <1>1, CommandsOf, SameFilesSameKeys, KeysAlone DEF KeysInv, CopySteps

\* The names in another place are those for this command line.
ShimNamed(t) == t.script = "install" /\ t.a = sh.a /\ (t.a.shim => t.x64 = "grubx64.efi")

LEMMA RenamedKeys ==
  ASSUME NEW s, ShimNamed(s), Named(s),
         {"script", "pc", "dir", "todo", "a", "x64", "ia32", "shim"} \subseteq DOMAIN s
  PROVE  \A t \in {SetVarsForBoot(s), SetVarsForMsBoot(s)} : ShimNamed(t)
<1>1. ShimNamed(SetVarsForBoot(s))
  BY DEF SetVarsForBoot, ShimNamed
<1>2. ShimNamed(SetVarsForMsBoot(s))
  BY DEF SetVarsForMsBoot, ShimNamed
<1>. QED BY <1>1, <1>2

LEMMA FindTargetKeys == ASSUME ConfInv, KeysInv, FindTarget PROVE KeysInv'
<1>1. At("target") /\ "target" \in InstallSteps
  BY DEF FindTarget, InstallSteps
<1>. DEFINE b == IF HasConf(BOOT) THEN SetVarsForBoot(sh) ELSE sh
            m == IF HasConf(MSBOOT) THEN SetVarsForMsBoot(b) ELSE b
            r == IF HasConf(REFIND) THEN [m EXCEPT !.dir = REFIND] ELSE m
            u == [r EXCEPT !.upgrade = \E d \in {BOOT, MSBOOT, REFIND} : HasConf(d)]
            Fine(t) == /\ DOMAIN t = DOMAIN sh /\ t.script = "install" /\ t.todo = << >> /\ Named(t)
                       /\ ShimNamed(t)
<1>2. /\ Fine(sh)
      /\ {"script", "pc", "dir", "todo", "a", "upgrade", "x64", "ia32", "shim", "double"} \subseteq DOMAIN sh
  BY <1>1, AtInstall DEF ShimNamed, KeysInv
<1>3. u = Upgraded(sh)
  BY DEF Upgraded
<1>4. Fine(b)
  BY <1>2, Renamed, RenamedKeys
<1>. HIDE DEF b
<1>5. Fine(m)
  BY <1>2, <1>4, Renamed, RenamedKeys
<1>. HIDE DEF m
<1>6. Fine(r)
  BY <1>2, <1>5 DEF Named, ShimNamed
<1>. HIDE DEF r
<1>7. Fine(u)
  BY <1>2, <1>6 DEF Named, ShimNamed
<1>. HIDE DEF u
<1>8. sh' = [u EXCEPT !.pc = "cpu", !.double = Double] /\ files' = files /\ failures' = failures
  BY <1>3 DEF FindTarget
<1>9. sh'.todo = << >> /\ sh'.pc = "cpu" /\ (sh'.a.shim => sh'.x64 = "grubx64.efi")
  BY <1>2, <1>7, <1>8 DEF ShimNamed
<1>. QED BY <1>8, <1>9, CommandsOf, SameFilesSameKeys, KeysAlone DEF KeysInv, CopySteps

LEMMA HijackSpares == \A c \in Commands(Hijack) : Spares(c, KeyPlaces)
<1>1. "bootmgfw.efi" \notin KeyNames
  BY DEF KeyNames
<1>. QED BY <1>1, CommandsOf, PlacesApart DEF Hijack, Mv, Spares

LEMMA DirMovedKeys ==
  ASSUME NEW f, InPlace(f), NEW e, e = MovedDir(f, BOOT, BACKUP, NESTED), NEW p \in KeyPlaces
  PROVE  (p \in DOMAIN e <=> p \in DOMAIN f) /\ (p \in DOMAIN f => e[p] = f[p])
<1>. DEFINE Holds(d) == \E q \in DOMAIN f : q[1] = d
            target == IF Holds(BACKUP) THEN NESTED ELSE BACKUP
            Dest(q) == IF q[1] = BOOT THEN <<target, q[2]>> ELSE q
<1>1. e = IF Holds(target) \/ ~Holds(BOOT) THEN f
          ELSE [q \in { Dest(r) : r \in DOMAIN f } |-> f[CHOOSE r \in DOMAIN f : Dest(r) = q]]
  BY Zenon DEF MovedDir
<1>2. target \in {BACKUP, NESTED}
  OBVIOUS
<1>3. p[1] = KEYS /\ KEYS \notin {BOOT, BACKUP, NESTED}
  BY DEF KeyPlaces, KEYS, BOOT, BACKUP, NESTED
<1>. HIDE DEF target
<1>4. \A q \in DOMAIN f : Dest(q) = p <=> q = p
  BY <1>2, <1>3
<1>. HIDE DEF Dest
<1>5. CASE e = f
  BY <1>5
<1>6. CASE e = [q \in { Dest(r) : r \in DOMAIN f } |-> f[CHOOSE r \in DOMAIN f : Dest(r) = q]]
  <2>1. p \in DOMAIN e <=> p \in DOMAIN f
    BY <1>4, <1>6
  <2>2. ASSUME p \in DOMAIN f PROVE e[p] = f[p]
    <3>1. p \in DOMAIN e
      BY <2>1, <2>2
    <3>2. e[p] = f[CHOOSE r \in DOMAIN f : Dest(r) = p]
      BY <1>6, <3>1
    <3>3. PICK q \in DOMAIN f : q = CHOOSE r \in DOMAIN f : Dest(r) = p
      BY <1>4, <2>2
    <3>4. Dest(q) = p
      BY <1>4, <2>2, <3>3
    <3>5. q = p
      BY <1>4, <3>4
    <3>. QED BY <3>2, <3>3, <3>5
  <2>. QED BY <2>1, <2>2
<1>. QED BY <1>1, <1>5, <1>6

LEMMA TakesKeys ==
  ASSUME ConfInv, KeysInv, TakeWindows \/ TakeDefault \/ ReplaceDefault PROVE KeysInv'
<1>1. At("target") /\ "target" \in InstallSteps
  BY DEF TakeWindows, TakeDefault, ReplaceDefault, InBiosMode, InstallSteps
<1>2. sh.script = "install" /\ sh.todo = << >> /\ Named(sh) /\ InPlace(files) /\ ShimNamed(sh)
  BY <1>1, AtInstall DEF KeysInv, ShimNamed
<1>3. {"script", "pc", "dir", "todo", "a", "upgrade", "x64", "ia32", "shim", "double"} \subseteq DOMAIN sh
  BY <1>1, AtInstall
<1>4. failures' = failures /\ failures \in Nat
  BY DEF TakeWindows, TakeDefault, ReplaceDefault, KeysInv
<1>. DEFINE t == SetVarsForBoot(sh)
            m == SetVarsForMsBoot(sh)
<1>5. /\ DOMAIN t = DOMAIN sh /\ t.script = "install" /\ t.todo = << >> /\ ShimNamed(t)
      /\ DOMAIN m = DOMAIN sh /\ m.script = "install" /\ m.todo = << >> /\ ShimNamed(m)
  BY <1>2, <1>3, Renamed, RenamedKeys
<1>6. CASE TakeWindows
  <2>1. sh' = [m EXCEPT !.pc = "cpu", !.todo = Hijack] /\ files' = files
    BY <1>6 DEF TakeWindows
  <2>. HIDE DEF m
  <2>2. sh'.pc = "cpu" /\ sh'.todo = Hijack /\ (sh'.a.shim => sh'.x64 = "grubx64.efi")
    BY <1>3, <1>5, <2>1 DEF ShimNamed
  <2>. QED BY <1>4, <2>1, <2>2, HijackSpares, SameFilesSameKeys, KeysAlone DEF CopySteps
<1>7. CASE TakeDefault \/ ReplaceDefault
  <2>1. \/ sh' = Idle /\ files' = files
        \/ sh' = [t EXCEPT !.pc = "cpu"] /\ (files' = files \/ files' = MovedDir(files, BOOT, BACKUP, NESTED))
    BY <1>7 DEF TakeDefault, ReplaceDefault
  <2>. HIDE DEF t
  <2>2. CASE sh' = Idle /\ files' = files
    BY <1>4, <2>2, KeysAtEnd
  <2>3. CASE sh' = [t EXCEPT !.pc = "cpu"] /\ (files' = files \/ files' = MovedDir(files, BOOT, BACKUP, NESTED))
    <3>1. sh'.pc = "cpu" /\ sh'.todo = << >> /\ (sh'.a.shim => sh'.x64 = "grubx64.efi")
      BY <1>3, <1>5, <2>3 DEF ShimNamed
    <3>2. SameKeyFiles
      BY <1>2, <2>3, DirMovedKeys, SameFilesSameKeys DEF SameKeyFiles
    <3>. QED BY <1>4, <3>1, <3>2, CommandsOf, KeysAlone DEF CopySteps
  <2>. QED BY <2>1, <2>2, <2>3
<1>. QED BY <1>6, <1>7

-----------------------------------------------------------------------------
\* The checks, and the keys.

LEMMA GoFields ==
  ASSUME ConfInv, NEW p, NEW l, Go(p, l)
  PROVE  /\ sh'.pc = p /\ sh'.todo = l /\ sh'.script = sh.script /\ sh'.dir = sh.dir
         /\ sh.script = "install" => sh'.a = sh.a /\ sh'.x64 = sh.x64
         /\ files' = files /\ mach' = mach /\ failures' = failures
BY DEF Go, ConfInv, Fields

LEMMA BackUpKeySpares ==
  ASSUME NEW n \in KeyNames
  PROVE  /\ IsList(BackUpKey(n))
         /\ \A c \in Commands(BackUpKey(n)) : c.op = "cp" /\ Spares(c, KeyPlaces)
<1>. DEFINE c == Cp(files[<<KEYS, n>>], KEYS, BackupName(n), FALSE)
<1>1. BackupName(n) \notin KeyNames
  BY DEF BackupName, KeyNames
<1>2. c.op = "cp" /\ Spares(c, KeyPlaces)
  BY <1>1, PlacesApart DEF Cp, Spares
<1>3. BackUpKey(n) = If(IsFile(KEYS, n), <<c>>)
  BY DEF BackUpKey
<1>. HIDE DEF c
<1>. QED BY <1>2, <1>3, CommandsOf, CommandsIf

\* The three files of a set are made at the end, the last one because it is not there.
LEMMA GenerateBegins ==
  ASSUME ConfInv, KeysInv
  PROVE  Generating(files, GenerateKeys) \/ (GenerateKeys = << >> /\ Whole(files))
<1>1. CASE HaveKeys
  BY <1>1 DEF HaveKeys, IsFile, GenerateKeys, KeysInv
<1>2. CASE ~HaveKeys
  <2>. DEFINE new == Content("key", 0, "any", 1 + Max({0} \cup Keys))
              backups == BackUpKey("key") \o BackUpKey("crt") \o BackUpKey("cer")
              k == Openssl(new, "key")
              r == Openssl(new, "crt")
              d == Openssl(new, "cer")
              l == <<k, r, d>>
              s == backups \o l
  <2>1. GenerateKeys = s
    BY <1>2, Zenon DEF GenerateKeys
  <2>2. <<KEYS, "cer">> \notin DOMAIN files
    BY <1>2 DEF HaveKeys, IsFile, KeysInv, Whole
  <2>. HIDE DEF new
  <2>3. d.content = new
    BY DEF Openssl
  <2>4. /\ IsList(backups)
        /\ \A c \in Commands(backups) : c.op = "cp" /\ Spares(c, KeyPlaces)
    <3>1. "key" \in KeyNames /\ "crt" \in KeyNames /\ "cer" \in KeyNames
      BY DEF KeyNames
    <3>2. /\ IsList(BackUpKey("key") \o BackUpKey("crt"))
          /\ Commands(BackUpKey("key") \o BackUpKey("crt")) =
               Commands(BackUpKey("key")) \cup Commands(BackUpKey("crt"))
      BY <3>1, BackUpKeySpares, CommandsBoth
    <3>3. IsList(backups) /\ Commands(backups) =
               Commands(BackUpKey("key") \o BackUpKey("crt")) \cup Commands(BackUpKey("cer"))
      BY <3>1, <3>2, BackUpKeySpares, CommandsBoth
    <3>. QED BY <3>1, <3>2, <3>3, BackUpKeySpares
  <2>. HIDE DEF backups, k, r, d
  <2>5. IsList(l)
    <3>1. l \in Seq({k, r, d})
      OBVIOUS
    <3>. QED BY <3>1 DEF IsList
  <2>6. Len(l) = 3 /\ l[1] = k /\ l[2] = r /\ l[3] = d
    OBVIOUS
  <2>. HIDE DEF l
  <2>7. /\ Len(s) = Len(backups) + 3 /\ Len(backups) \in Nat
        /\ \A i \in 1 .. Len(s) : s[i] = IF i <= Len(backups) THEN backups[i] ELSE l[i - Len(backups)]
    <3>1. /\ Len(s) = Len(backups) + Len(l) /\ Len(backups) \in Nat
          /\ \A i \in 1 .. Len(s) : s[i] = IF i <= Len(backups) THEN backups[i] ELSE l[i - Len(backups)]
      BY <2>4, <2>5, Joined
    <3>. QED BY <2>6, <3>1
  <2>. HIDE DEF s
  <2>. DEFINE n == Len(s)
  <2>8. n - 2 \in 1 .. n /\ n - 1 \in 1 .. n /\ n \in 1 .. n /\ n - 3 = Len(backups)
    BY <2>7
  <2>9. s[n - 2] = k /\ s[n - 1] = r /\ s[n] = d
    <3>1. (n - 2) - Len(backups) = 1 /\ (n - 1) - Len(backups) = 2 /\ n - Len(backups) = 3
      BY <2>7
    <3>2. ~(n - 2 <= Len(backups)) /\ ~(n - 1 <= Len(backups)) /\ ~(n <= Len(backups))
      BY <2>7
    <3>3. /\ s[n - 2] = l[(n - 2) - Len(backups)] /\ s[n - 1] = l[(n - 1) - Len(backups)]
          /\ s[n] = l[n - Len(backups)]
      BY <2>7, <2>8, <3>2
    <3>. QED BY <2>6, <3>1, <3>3
  <2>10. ASSUME NEW i \in 1 .. n - 3 PROVE s[i].op = "cp" /\ Spares(s[i], KeyPlaces)
    <3>1. i \in 1 .. Len(backups) /\ i \in 1 .. n /\ s[i] = backups[i]
      BY <2>7, <2>8
    <3>. QED BY <2>4, <3>1 DEF Commands
  <2>11. n > 0 /\ n > 1 /\ n > 2
    BY <2>7
  <2>12. Generating(files, s)
    BY <2>2, <2>3, <2>9, <2>10, <2>11 DEF Generating, k, r, d
  <2>. QED BY <2>1, <2>12
<1>. QED BY <1>1, <1>2

LEMMA ChecksKeys ==
  ASSUME ConfInv, KeysInv, CheckCpu \/ ReSignBinaries \/ SignBinaries \/ CheckSecureBoot
  PROVE  KeysInv'
<1>1. CASE Exit
  BY <1>1, ExitKeys
<1>2. PICK p \in {"cpu", "sign", "signed", "secure"} : At(p)
  BY DEF CheckCpu, ReSignBinaries, SignBinaries, CheckSecureBoot
<1>3. sh.script = "install"
  BY <1>2, AtInstall DEF InstallSteps
<1>4. ASSUME NEW q \in {"sign", "secure", "copy"}, Go(q, << >>),
             q # "sign" /\ sh.a.localkeys => Whole(files)
      PROVE  KeysInv'
  <2>1. /\ sh'.pc = q /\ sh'.todo = << >> /\ sh'.script = "install" /\ sh'.a = sh.a /\ sh'.x64 = sh.x64
        /\ files' = files /\ failures' = failures
    BY <1>3, <1>4, GoFields
  <2>2. Commands(sh'.todo) = {} /\ q \notin {"signed"} \cup CopySteps
    BY <2>1, CommandsOf DEF CopySteps
  <2>3. (Signed' => Whole(files')) /\ ~Copied'
    BY <1>4, <2>1, <2>2 DEF Signed, Copied
  <2>4. /\ failures' \in Nat
        /\ <<KEYS, "cer">> \in DOMAIN files' => Whole(files')
        /\ sh'.script = "install" /\ sh'.a.shim => sh'.x64 = "grubx64.efi"
    BY <1>3, <2>1 DEF KeysInv
  <2>. QED BY <2>1, <2>2, <2>3, <2>4 DEF KeysInv
<1>5. CASE CheckCpu
  BY <1>1, <1>4, <1>5 DEF CheckCpu
<1>6. CASE ReSignBinaries
  <2>1. CASE Go("secure", << >>) /\ ~sh.a.localkeys
    BY <1>4, <2>1
  <2>2. CASE Go("signed", GenerateKeys) /\ sh.a.localkeys
    <3>. DEFINE l == GenerateKeys
    <3>1. Generating(files, l) \/ (l = << >> /\ Whole(files))
      BY GenerateBegins
    <3>2. Go("signed", l) /\ sh.a.localkeys
      BY <2>2
    <3>. HIDE DEF l
    <3>3. /\ sh'.pc = "signed" /\ sh'.todo = l /\ sh'.a = sh.a /\ sh'.x64 = sh.x64
          /\ sh'.script = "install" /\ files' = files /\ failures' = failures
      BY <1>3, <3>2, GoFields
    <3>4. ~Signed'
      BY <3>3 DEF Signed, CopySteps
    <3>5. /\ failures' \in Nat
          /\ <<KEYS, "cer">> \in DOMAIN files' => Whole(files')
          /\ sh'.script = "install" /\ sh'.a.shim => sh'.x64 = "grubx64.efi"
      BY <1>3, <3>3 DEF KeysInv
    <3>6. sh'.a.localkeys /\ (Generating(files', sh'.todo) \/ (sh'.todo = << >> /\ Whole(files')))
      BY <3>1, <3>2, <3>3
    <3>. QED BY <3>3, <3>4, <3>5, <3>6 DEF KeysInv, Copied
  <2>. QED BY <1>1, <1>6, <2>1, <2>2 DEF ReSignBinaries
<1>7. CASE SignBinaries
  <2>1. sh.pc = "signed" /\ sh.todo = << >>
    BY <1>7 DEF SignBinaries, At
  <2>2. Whole(files)
    <3>1. Len(sh.todo) = 0
      BY <2>1
    <3>2. ~Generating(files, sh.todo)
      BY <3>1 DEF Generating
    <3>. QED BY <2>1, <3>2 DEF KeysInv
  <2>. QED BY <1>1, <1>4, <1>7, <2>2 DEF SignBinaries
<1>8. CASE CheckSecureBoot
  <2>1. sh.pc = "secure"
    BY <1>8 DEF CheckSecureBoot, At
  <2>2. sh.a.localkeys => Whole(files)
    BY <1>3, <2>1 DEF KeysInv, Signed
  <2>. QED BY <1>1, <1>4, <1>8, <2>2 DEF CheckSecureBoot
<1>. QED BY <1>5, <1>6, <1>7, <1>8

-----------------------------------------------------------------------------
\* What is copied.

X64Names == {"refind_x64.efi", "bootx64.efi", "grubx64.efi", "bootmgfw.efi"}

\* A command that leaves the keys alone, and writes the program and the
\* certificate only as they belong to them.
Good(c) ==
  /\ Spares(c, KeyPlaces)
  /\ sh.a.localkeys => \A n \in {sh.x64, "local.cer"} :
                         Delivers(c, <<sh.dir, n>>, KeyOf(files)) \/ Spares(c, {<<sh.dir, n>>})

GoodList(s) == IsList(s) /\ \A c \in Commands(s) : Good(c)

LEMMA GoodBoth ==
  ASSUME NEW a, NEW b, GoodList(a), GoodList(b)
  PROVE  GoodList(a \o b) /\ Commands(a \o b) = Commands(a) \cup Commands(b)
BY CommandsBoth DEF GoodList

LEMMA GoodIf == ASSUME NEW g, NEW a, g => GoodList(a) PROVE GoodList(If(g, a))
BY CommandsIf DEF GoodList

LEMMA GoodNothing == GoodList(<< >>)
BY CommandsOf DEF GoodList

LEMMA GoodOne == ASSUME NEW c, Good(c) PROVE GoodList(<<c>>)
BY CommandsOf DEF GoodList

LEMMA GoodTwo == ASSUME NEW c, Good(c), NEW d, Good(d) PROVE GoodList(<<c, d>>)
BY CommandsOf DEF GoodList

\* Copies, and moves within the directory, of something else.
LEMMA GoodCp ==
  ASSUME NEW n, n \notin KeyNames, n # "local.cer", sh.a.localkeys => n # sh.x64, NEW x, NEW checked
  PROVE  Good(Cp(x, sh.dir, n, checked))
<1>1. Cp(x, sh.dir, n, checked).op = "cp" /\ Cp(x, sh.dir, n, checked).to = <<sh.dir, n>>
  BY DEF Cp
<1>2. \A m : m # n => <<sh.dir, m>> # <<sh.dir, n>>
  OBVIOUS
<1>. QED BY <1>1, <1>2, PlacesApart DEF Good, Spares

LEMMA GoodMv ==
  ASSUME NEW n, n \notin KeyNames, n # "local.cer", n # sh.x64,
         NEW m, m \notin KeyNames, m # "local.cer", m # sh.x64
  PROVE  Good(Rm(sh.dir, n)) /\ Good(Mv("mv", <<sh.dir, n>>, <<sh.dir, m>>))
<1>1. /\ Rm(sh.dir, n).op = "rm" /\ Rm(sh.dir, n).from = <<sh.dir, n>>
      /\ Mv("mv", <<sh.dir, n>>, <<sh.dir, m>>).op = "mv"
      /\ Mv("mv", <<sh.dir, n>>, <<sh.dir, m>>).from = <<sh.dir, n>>
      /\ Mv("mv", <<sh.dir, n>>, <<sh.dir, m>>).to = <<sh.dir, m>>
  BY DEF Rm, Mv
<1>2. \A k : (k # n => <<sh.dir, k>> # <<sh.dir, n>>) /\ (k # m => <<sh.dir, k>> # <<sh.dir, m>>)
  OBVIOUS
<1>3. Good(Rm(sh.dir, n))
  BY <1>1, <1>2, PlacesApart DEF Good, Spares
<1>4. Good(Mv("mv", <<sh.dir, n>>, <<sh.dir, m>>))
  BY <1>1, <1>2, PlacesApart DEF Good, Spares
<1>. QED BY <1>3, <1>4

\* A copy of what belongs to the key.
LEMMA GoodFit ==
  ASSUME NEW n, n \notin KeyNames, NEW x, x.key = KeyOf(files), NEW checked
  PROVE  LET c == Cp(x, sh.dir, n, checked) IN Good(c) /\ Delivers(c, <<sh.dir, n>>, KeyOf(files))
<1>. DEFINE c == Cp(x, sh.dir, n, checked)
<1>1. c.op = "cp" /\ c.to = <<sh.dir, n>> /\ c.content = x
  BY DEF Cp
<1>. HIDE DEF c
<1>2. Delivers(c, <<sh.dir, n>>, KeyOf(files))
  BY <1>1 DEF Delivers
<1>3. \A m : m # n => Spares(c, {<<sh.dir, m>>})
  BY <1>1 DEF Spares
<1>4. Spares(c, KeyPlaces)
  BY <1>1, PlacesApart DEF Spares
<1>5. Good(c)
  BY <1>2, <1>3, <1>4 DEF Good
<1>. QED BY <1>2, <1>5 DEF c

\* What is known when the copies are made.
Copying ==
  /\ Named(sh) /\ sh.script = "install"
  /\ sh.a.shim => sh.x64 = "grubx64.efi"
  /\ sh.a.localkeys => Whole(files)

LEMMA GoodShim ==
  ASSUME Copying, NEW to \in {"shim.efi", "bootx64.efi", "bootmgfw.efi"}
  PROVE  GoodList(CopyShimFiles(to))
<1>. DEFINE o == Cp(files[<<sh.dir, to>>], sh.dir, Kept(to), FALSE)
            c == Cp(Content("shim", 0, "x64", 0), sh.dir, to, TRUE)
            d == Cp(Content("MokManager", 0, "x64", 0), sh.dir, "MokManager.efi", TRUE)
            l == If(IsFile(sh.dir, to), <<o>>) \o <<c, d>>
<1>1. CopyShimFiles(to) = If(sh.a.shim, l)
  BY DEF CopyShimFiles
<1>2. ASSUME sh.a.shim PROVE GoodList(l)
  <2>1. sh.x64 = "grubx64.efi"
    BY <1>2 DEF Copying
  <2>2. Kept(to) \in {"shim.efi~", "bootx64.efi~", "bootmgfw.efi~"}
    BY DEF Kept
  <2>3. Good(o)
    BY <2>1, <2>2, GoodCp DEF KeyNames
  <2>4. Good(c)
    BY <2>1, GoodCp DEF KeyNames
  <2>5. Good(d)
    BY <2>1, GoodCp DEF KeyNames
  <2>. HIDE DEF o, c, d
  <2>6. GoodList(If(IsFile(sh.dir, to), <<o>>))
    BY <2>3, GoodOne, GoodIf
  <2>7. GoodList(<<c, d>>)
    BY <2>4, <2>5, GoodTwo
  <2>. QED BY <2>6, <2>7, GoodBoth
<1>. HIDE DEF l
<1>. QED BY <1>1, <1>2, GoodIf

LEMMA GoodDrivers == ASSUME Copying, NEW arch PROVE GoodList(CopyDrivers(arch))
<1>. DEFINE c == Cp(Content("drivers", sh.a.ver, arch, 0), sh.dir, DriversDir(arch), FALSE)
<1>1. DriversDir(arch) \in {"drivers_x64", "drivers_ia32"}
  BY DEF DriversDir
<1>2. Good(c)
  BY <1>1, GoodCp DEF KeyNames, Copying, Named
<1>3. CopyDrivers(arch) =
        If(sh.a.drivers = "all" \/ (sh.a.drivers = "boot" /\ mach.driver), <<c>>)
  BY DEF CopyDrivers
<1>. HIDE DEF c
<1>. QED BY <1>2, <1>3, GoodOne, GoodIf

\* The certificate is of the set, and it is copied.
LEMMA GoodKeys ==
  ASSUME Copying
  PROVE  /\ GoodList(CopyKeys) /\ GoodList(CopyAllKeys)
         /\ sh.a.localkeys => \E c \in Commands(CopyAllKeys) :
                                Delivers(c, <<sh.dir, "local.cer">>, KeyOf(files))
<1>. DEFINE c == Cp(files[<<KEYS, "cer">>], sh.dir, "local.cer", FALSE)
            d == Cp(Content("key", 0, "any", 0), sh.dir, "refind.cer", FALSE)
            l == If(IsFile(KEYS, "cer"), <<c>>)
<1>1. CopyKeys = If(sh.a.localkeys /\ IsFile(KEYS, "cer"), <<c>>) /\ CopyAllKeys = <<d>> \o l
  BY DEF CopyKeys, CopyAllKeys
<1>2. Good(d)
  BY GoodCp DEF KeyNames, Copying, Named
<1>3. sh.a.localkeys => Good(c) /\ Delivers(c, <<sh.dir, "local.cer">>, KeyOf(files)) /\ IsFile(KEYS, "cer")
  <2>1. SUFFICES ASSUME sh.a.localkeys
                 PROVE Good(c) /\ Delivers(c, <<sh.dir, "local.cer">>, KeyOf(files)) /\ IsFile(KEYS, "cer")
    OBVIOUS
  <2>2. files[<<KEYS, "cer">>].key = KeyOf(files) /\ IsFile(KEYS, "cer")
    BY <2>1 DEF Copying, Whole, KeyOf, IsFile
  <2>. QED BY <2>2, GoodFit DEF KeyNames
<1>4. Good(c)
  <2>1. CASE ~sh.a.localkeys
    <3>1. c.op = "cp" /\ c.to = <<sh.dir, "local.cer">>
      BY DEF Cp
    <3>2. <<sh.dir, "local.cer">> \notin KeyPlaces
      BY PlacesApart DEF KeyNames
    <3>. HIDE DEF c
    <3>. QED BY <2>1, <3>1, <3>2 DEF Good, Spares
  <2>. QED BY <1>3, <2>1
<1>. HIDE DEF c, d
<1>5. GoodList(<<c>>) /\ GoodList(<<d>>)
  BY <1>2, <1>4, GoodOne
<1>6. GoodList(l) /\ GoodList(CopyKeys)
  BY <1>1, <1>5, GoodIf
<1>7. sh.a.localkeys => c \in Commands(l)
  BY <1>3, CommandsOf DEF If
<1>. HIDE DEF l
<1>8. GoodList(<<d>> \o l) /\ Commands(<<d>> \o l) = Commands(<<d>>) \cup Commands(l)
  BY <1>5, <1>6, GoodBoth
<1>. QED BY <1>1, <1>3, <1>6, <1>7, <1>8

LEMMA GoodIcons == ASSUME Copying PROVE GoodList(CopyIcons)
<1>. DEFINE c == Rm(sh.dir, "icons-backup")
            d == Mv("mv", <<sh.dir, "icons">>, <<sh.dir, "icons-backup">>)
            e == Cp(Icons, sh.dir, "icons", TRUE)
<1>1. sh.x64 \notin {"icons", "icons-backup"}
  BY DEF Copying, Named
<1>2. Good(c) /\ Good(d)
  BY <1>1, GoodMv DEF KeyNames
<1>3. Good(e)
  BY <1>1, GoodCp DEF KeyNames
<1>4. CopyIcons = If(IsFile(sh.dir, "icons"), <<c, d>>) \o <<e>>
  BY DEF CopyIcons
<1>. HIDE DEF c, d, e
<1>5. GoodList(If(IsFile(sh.dir, "icons"), <<c, d>>)) /\ GoodList(<<e>>)
  BY <1>2, <1>3, GoodOne, GoodTwo, GoodIf
<1>. QED BY <1>4, <1>5, GoodBoth

\* The program goes where the list says, signed with the key.
LEMMA GoodPrograms ==
  ASSUME Copying
  PROVE  /\ GoodList(ToDefault) /\ GoodList(To64) /\ GoodList(To32)
         /\ sh.a.localkeys => \A l \in {ToDefault, To64} :
              \E c \in Commands(l) : Delivers(c, <<sh.dir, sh.x64>>, KeyOf(files))
<1>. DEFINE c == Cp(Program("x64"), sh.dir, sh.x64, TRUE)
            d == Cp(Program("ia32"), sh.dir, sh.ia32, FALSE)
            e == Cp(Program("ia32"), sh.dir, sh.ia32, TRUE)
            drivers == IF sh.a.drivers = "all" THEN CopyDrivers("x64") \o CopyDrivers("ia32")
                       ELSE If(sh.upgrade, CopyDrivers(mach.cpu))
            p == <<d, c>>
            q == p \o CopyShimFiles("bootx64.efi")
            r == q \o drivers
            t == <<c>>
            u == t \o CopyDrivers("x64")
            v == u \o CopyKeys
            w == <<e>>
<1>1. /\ sh.x64 \notin KeyNames \cup {"local.cer", "bootia32.efi", "refind_ia32.efi"}
      /\ sh.ia32 \in {"bootia32.efi", "refind_ia32.efi"}
      /\ sh.shim \in {"shim.efi", "bootx64.efi", "bootmgfw.efi"}
  BY DEF Copying, Named, KeyNames
<1>2. Good(c) /\ (sh.a.localkeys => Delivers(c, <<sh.dir, sh.x64>>, KeyOf(files)))
  <2>1. CASE sh.a.localkeys
    <3>1. Program("x64").key = KeyOf(files)
      BY <2>1 DEF Program, Key, KeyOf, Content
    <3>. QED BY <1>1, <3>1, GoodFit
  <2>2. CASE ~sh.a.localkeys
    BY <1>1, <2>2, GoodCp
  <2>. QED BY <2>1, <2>2
<1>3. Good(d) /\ Good(e)
  <2>1. sh.ia32 \notin KeyNames \cup {"local.cer", sh.x64}
    BY <1>1 DEF KeyNames
  <2>. QED BY <2>1, GoodCp
<1>4. /\ ToDefault = r \o CopyKeys
      /\ To64 = v \o CopyShimFiles(sh.shim)
      /\ To32 = w \o CopyDrivers("ia32")
  BY DEF ToDefault, To64, To32
<1>. HIDE DEF c, d, e
<1>5. GoodList(drivers)
  <2>1. GoodList(CopyDrivers("x64") \o CopyDrivers("ia32"))
    BY GoodDrivers, GoodBoth
  <2>2. GoodList(If(sh.upgrade, CopyDrivers(mach.cpu)))
    BY GoodDrivers, GoodIf
  <2>. QED BY <2>1, <2>2
<1>. HIDE DEF drivers
<1>6. GoodList(p) /\ c \in Commands(p)
  BY <1>2, <1>3, GoodTwo, CommandsOf
<1>. HIDE DEF p
<1>7. GoodList(q) /\ c \in Commands(q)
  BY <1>1, <1>6, GoodShim, GoodBoth
<1>. HIDE DEF q
<1>8. GoodList(r) /\ c \in Commands(r)
  BY <1>5, <1>7, GoodBoth
<1>. HIDE DEF r
<1>9. GoodList(ToDefault) /\ c \in Commands(ToDefault)
  BY <1>4, <1>8, GoodKeys, GoodBoth
<1>10. GoodList(t) /\ c \in Commands(t)
  BY <1>2, GoodOne, CommandsOf
<1>. HIDE DEF t
<1>11. GoodList(u) /\ c \in Commands(u)
  BY <1>10, GoodDrivers, GoodBoth
<1>. HIDE DEF u
<1>12. GoodList(v) /\ c \in Commands(v)
  BY <1>11, GoodKeys, GoodBoth
<1>. HIDE DEF v
<1>13. GoodList(To64) /\ c \in Commands(To64)
  BY <1>1, <1>4, <1>12, GoodShim, GoodBoth
<1>14. GoodList(w)
  BY <1>3, GoodOne
<1>. HIDE DEF w
<1>15. GoodList(To32)
  BY <1>4, <1>14, GoodDrivers, GoodBoth
<1>. QED BY <1>2, <1>9, <1>13, <1>15

LEMMA CopyRefindFilesKeys == ASSUME ConfInv, KeysInv, CopyRefindFiles PROVE KeysInv'
<1>. DEFINE programs == IF sh.dir = BOOT THEN ToDefault
                        ELSE IF mach.cpu = "x64" \/ sh.dir = MSBOOT THEN To64 ELSE To32
            q == programs \o CopyIcons
            r == q \o CopyAllKeys
            l == r \o CopyConf
<1>1. At("copy") /\ "copy" \in InstallSteps /\ Go("entry", l)
  BY DEF CopyRefindFiles, InstallSteps
<1>2. Copying
  BY <1>1, AtInstall DEF Copying, KeysInv, Signed, At
<1>3. /\ GoodList(programs)
      /\ sh.a.localkeys /\ mach.cpu = "x64" =>
           \E c \in Commands(programs) : Delivers(c, <<sh.dir, sh.x64>>, KeyOf(files))
  BY <1>2, GoodPrograms
<1>. HIDE DEF programs
<1>4. GoodList(q) /\ Commands(programs) \subseteq Commands(q)
  BY <1>2, <1>3, GoodIcons, GoodBoth
<1>. HIDE DEF q
<1>5. GoodList(r) /\ Commands(q) \cup Commands(CopyAllKeys) = Commands(r)
  BY <1>2, <1>4, GoodKeys, GoodBoth
<1>. HIDE DEF r
<1>6. GoodList(CopyConf)
  <2>1. sh.x64 \notin {"refind.conf", "refind.conf-sample"}
    BY <1>2 DEF Copying, Named
  <2>2. \A n \in {"refind.conf", "refind.conf-sample"} : Good(Cp(Sample, sh.dir, n, TRUE))
    BY <2>1, GoodCp DEF KeyNames
  <2>. QED BY <2>2, GoodOne DEF CopyConf
<1>7. GoodList(l) /\ Commands(r) \subseteq Commands(l)
  BY <1>5, <1>6, GoodBoth
<1>. HIDE DEF l
<1>8. /\ sh'.pc = "entry" /\ sh'.todo = l /\ sh'.script = "install" /\ sh'.a = sh.a /\ sh'.x64 = sh.x64
      /\ sh'.dir = sh.dir /\ files' = files /\ mach' = mach /\ failures' = failures
  BY <1>1, <1>2, GoFields DEF Copying
<1>9. /\ failures' \in Nat
      /\ <<KEYS, "cer">> \in DOMAIN files' => Whole(files')
      /\ sh'.script = "install" /\ sh'.a.shim => sh'.x64 = "grubx64.efi"
      /\ Signed' => Whole(files')
  BY <1>2, <1>8 DEF KeysInv, Copying, Signed
<1>10. sh'.pc # "signed" /\ \A c \in Commands(sh'.todo) : Spares(c, KeyPlaces)
  BY <1>7, <1>8 DEF GoodList, Good
<1>11. ASSUME Copied', NEW n \in {sh'.x64, "local.cer"}
       PROVE  Carried(files', Commands(sh'.todo), <<sh'.dir, n>>, KeyOf(files'))
  <2>1. sh.a.localkeys /\ mach.cpu = "x64" /\ n \in {sh.x64, "local.cer"}
    BY <1>8, <1>11 DEF Copied, Signed
  <2>2. \A c \in Commands(l) : Delivers(c, <<sh.dir, n>>, KeyOf(files)) \/ Spares(c, {<<sh.dir, n>>})
    BY <1>7, <2>1 DEF GoodList, Good
  <2>3. \E c \in Commands(l) : Delivers(c, <<sh.dir, n>>, KeyOf(files))
    <3>1. CASE n = sh.x64
      BY <1>3, <1>4, <1>5, <1>7, <2>1, <3>1
    <3>2. CASE n = "local.cer"
      BY <1>2, <1>5, <1>7, <2>1, <3>2, GoodKeys
    <3>. QED BY <2>1, <3>1, <3>2
  <2>. QED BY <1>8, <2>2, <2>3 DEF Carried
<1>. QED BY <1>9, <1>10, <1>11 DEF KeysInv

\* What comes after touches neither.
LEMMA KeysAfter ==
  ASSUME ConfInv, KeysInv, sh.script = "install", sh.pc \in CopySteps, sh.todo = << >>,
         sh'.script = "install", sh'.pc \in CopySteps, sh'.a = sh.a, sh'.x64 = sh.x64, sh'.dir = sh.dir,
         files' = files, mach' = mach, failures' = failures \/ failures' = failures + 1,
         \A c \in Commands(sh'.todo) :
           Spares(c, KeyPlaces) /\ \A n \in X64Names \cup {"local.cer"} : Spares(c, {<<sh.dir, n>>})
  PROVE  KeysInv'
<1>1. /\ failures' \in Nat /\ (failures' = 0 => failures = 0)
      /\ <<KEYS, "cer">> \in DOMAIN files' => Whole(files')
      /\ sh'.script = "install" /\ sh'.a.shim => sh'.x64 = "grubx64.efi"
  BY DEF KeysInv
<1>2. (Signed' => Signed) /\ (Copied' => Copied) /\ sh'.pc # "signed"
  BY DEF Signed, Copied, CopySteps
<1>3. Signed' => Whole(files')
  BY <1>2 DEF KeysInv
<1>4. sh.x64 \in X64Names
  BY DEF ConfInv, Named, X64Names
<1>5. ASSUME Copied', failures' = 0, NEW n \in {sh'.x64, "local.cer"}
      PROVE  Carried(files', Commands(sh'.todo), <<sh'.dir, n>>, KeyOf(files'))
  <2>1. Carried(files, Commands(sh.todo), <<sh.dir, n>>, KeyOf(files))
    BY <1>1, <1>2, <1>5 DEF KeysInv
  <2>2. <<sh.dir, n>> \in DOMAIN files /\ files[<<sh.dir, n>>].key = KeyOf(files)
    BY <2>1, CommandsOf DEF Carried
  <2>3. \A c \in Commands(sh'.todo) : Spares(c, {<<sh.dir, n>>})
    BY <1>4, <1>5
  <2>. QED BY <2>2, <2>3 DEF Carried
<1>. QED BY <1>1, <1>2, <1>3, <1>5 DEF KeysInv

-----------------------------------------------------------------------------
\* Boot entries and options, and the other scripts.

LEMMA EntryKeys ==
  ASSUME ConfInv, KeysInv, NEW path, NEW next \in {"options", "done"},
         sh.script # "none", sh.pc \in CopySteps, sh.todo = << >>,
         AddBootEntry(path, next) \/ CreateEntry(path, next)
  PROVE  KeysInv'
<1>1. files' = files /\ mach' = mach /\ (failures' = failures \/ failures' = failures + 1)
  BY DEF AddBootEntry, CreateEntry
<1>2. PICK p \in {"create", next} : \E q : \/ sh' = [sh EXCEPT !.pc = p, !.problems = q]
                                            \/ sh' = [sh EXCEPT !.pc = p]
  BY Zenon DEF AddBootEntry, CreateEntry
<1>3. /\ sh'.pc \in CopySteps /\ sh'.todo = << >> /\ sh'.script = sh.script /\ sh'.dir = sh.dir
      /\ sh.script = "install" => sh'.a = sh.a /\ sh'.x64 = sh.x64
  BY <1>2 DEF ConfInv, Fields, CopySteps
<1>4. Commands(sh'.todo) = {} /\ sh'.pc # "signed" /\ failures' \in Nat
  BY <1>1, <1>3, CommandsOf DEF CopySteps, KeysInv
<1>5. CASE sh.script = "install"
  BY <1>1, <1>3, <1>4, <1>5, KeysAfter
<1>6. CASE sh.script # "install"
  BY <1>1, <1>3, <1>4, <1>6, SameFilesSameKeys, KeysAlone
<1>. QED BY <1>5, <1>6

LEMMA EntriesKeys ==
  ASSUME ConfInv, KeysInv, InstallEntry \/ AddNvramEntry \/ NoEntry \/ Bless PROVE KeysInv'
<1>1. CASE InstallEntry
  BY <1>1, EntryKeys DEF InstallEntry, At, CopySteps
<1>2. CASE AddNvramEntry
  BY <1>2, EntryKeys DEF AddNvramEntry, At, CopySteps
<1>3. CASE NoEntry
  <2>1. sh.script = "install" /\ At("entry") /\ Go("done", << >>)
    BY <1>3 DEF NoEntry
  <2>. QED BY <2>1, GoFields, CommandsOf, KeysAfter DEF At, CopySteps
<1>4. CASE Bless
  <2>1. /\ files' = files /\ mach' = mach /\ (failures' = failures \/ failures' = failures + 1)
        /\ sh.todo = << >> /\ sh.pc = "entry" /\ sh.script = "install"
        /\ \/ sh' = [sh EXCEPT !.pc = "done"]
           \/ sh' = [sh EXCEPT !.pc = "done", !.problems = TRUE]
    BY <1>4 DEF Bless, At
  <2>2. /\ sh'.pc = "done" /\ sh'.todo = << >> /\ sh'.script = "install" /\ sh'.dir = sh.dir
        /\ sh'.a = sh.a /\ sh'.x64 = sh.x64
    BY <2>1 DEF ConfInv, Fields
  <2>. QED BY <2>1, <2>2, CommandsOf, KeysAfter DEF CopySteps
<1>. QED BY <1>1, <1>2, <1>3, <1>4

\* The lines of refind_linux.conf.
LEMMA OptionsSpare ==
  LET l == [i \in 1 .. 2 |-> Cp(Content("options", i, "any", 0), LINUX, "refind_linux.conf", FALSE)]
  IN  /\ IsList(l)
      /\ \A c \in Commands(l) :
           /\ Spares(c, KeyPlaces)
           /\ \A n \in X64Names \cup {"local.cer"} : \A d : Spares(c, {<<d, n>>})
<1>. DEFINE Line(i) == Cp(Content("options", i, "any", 0), LINUX, "refind_linux.conf", FALSE)
            l == [i \in 1 .. 2 |-> Line(i)]
<1>1. \A i : Line(i).op = "cp" /\ Line(i).to = <<LINUX, "refind_linux.conf">>
  BY DEF Cp
<1>2. IsList(l)
  BY OptionsQuiet DEF QuietList, IsList
<1>. HIDE DEF Line
<1>3. \A i \in 1 .. Len(l) : l[i] = Line(i)
  BY LenProperties
<1>. HIDE DEF l
<1>4. ASSUME NEW c \in Commands(l) PROVE c.op = "cp" /\ c.to = <<LINUX, "refind_linux.conf">>
  BY <1>1, <1>3 DEF Commands
<1>5. "refind_linux.conf" \notin KeyNames \cup X64Names \cup {"local.cer"}
  BY DEF KeyNames, X64Names
<1>6. ASSUME NEW c \in Commands(l), NEW n \in X64Names \cup {"local.cer"}, NEW d
      PROVE  Spares(c, {<<d, n>>})
  <2>1. <<d, n>> # <<LINUX, "refind_linux.conf">>
    BY <1>5
  <2>. QED BY <1>4, <2>1 DEF Spares
<1>7. ASSUME NEW c \in Commands(l) PROVE Spares(c, KeyPlaces)
  BY <1>4, <1>5, PlacesApart DEF Spares
<1>. QED BY <1>2, <1>6, <1>7 DEF l, Line

LEMMA OptionsKeys == ASSUME ConfInv, KeysInv, GenerateRefindLinuxConf PROVE KeysInv'
<1>. DEFINE m == [i \in 1 .. 2 |-> Cp(Content("options", i, "any", 0), LINUX, "refind_linux.conf", FALSE)]
            g == ~IsFile(LINUX, "refind_linux.conf")
            l == If(g, m)
<1>1. /\ IsList(m)
      /\ \A c \in Commands(m) :
           /\ Spares(c, KeyPlaces)
           /\ \A n \in X64Names \cup {"local.cer"} : \A d : Spares(c, {<<d, n>>})
  BY OptionsSpare
<1>2. Go("done", l) /\ sh.pc = "options" /\ sh.todo = << >>
  BY DEF GenerateRefindLinuxConf, At
<1>. HIDE DEF m, g
<1>3. \A c \in Commands(l) :
        Spares(c, KeyPlaces) /\ \A n \in X64Names \cup {"local.cer"} : Spares(c, {<<sh.dir, n>>})
  BY <1>1, CommandsIf
<1>. HIDE DEF l
<1>4. /\ sh'.pc = "done" /\ sh'.todo = l /\ sh'.script = sh.script /\ sh'.dir = sh.dir
      /\ sh.script = "install" => sh'.a = sh.a /\ sh'.x64 = sh.x64
      /\ files' = files /\ mach' = mach /\ failures' = failures
  BY <1>2, GoFields
<1>5. CASE sh.script = "install"
  BY <1>2, <1>3, <1>4, <1>5, KeysAfter DEF CopySteps
<1>6. CASE sh.script # "install"
  BY <1>3, <1>4, <1>6, SameFilesSameKeys, KeysAlone DEF KeysInv
<1>. QED BY <1>5, <1>6

LEMMA MoveKeys == ASSUME ConfInv, KeysInv, NEW src, NEW dst, Move(src, dst) PROVE KeysInv'
<1>1. /\ sh'.script = "mvrefind" /\ sh'.pc = "backup" /\ sh'.todo = << >>
      /\ files' = files /\ failures' = failures
  BY DEF Move
<1>. QED BY <1>1, CommandsOf, SameFilesSameKeys, KeysAlone DEF KeysInv

LEMMA BackUpTargetKeys == ASSUME ConfInv, KeysInv, BackUpTarget PROVE KeysInv'
<1>1. sh.script = "mvrefind" /\ sh.todo = << >> /\ InPlace(files) /\ Fields
  BY DEF BackUpTarget, At, ConfInv, MoveSteps
<1>2. CASE Exit
  BY <1>2, ExitKeys
<1>3. CASE Go("move", << >>)
  <2>1. sh'.script = "mvrefind" /\ sh'.pc = "move" /\ sh'.todo = << >> /\ files' = files /\ failures' = failures
    BY <1>1, <1>3, GoFields
  <2>. QED BY <2>1, CommandsOf, SameFilesSameKeys, KeysAlone DEF KeysInv
<1>4. CASE /\ files' = MovedDir(files, BOOT, BACKUP, NESTED)
           /\ sh' = [sh EXCEPT !.pc = "move"] /\ failures' = failures
  <2>1. sh'.script = "mvrefind" /\ sh'.pc = "move" /\ sh'.todo = << >>
    BY <1>1, <1>4 DEF Fields
  <2>2. SameKeyFiles
    BY <1>1, <1>4, DirMovedKeys DEF SameKeyFiles
  <2>. QED BY <1>4, <2>1, <2>2, CommandsOf, KeysAlone DEF KeysInv
<1>. QED BY <1>2, <1>3, <1>4 DEF BackUpTarget

\* Ten commands that touch none of these places.
LEMMA TenSpare ==
  ASSUME NEW c1, NEW c2, NEW c3, NEW c4, NEW c5, NEW c6, NEW c7, NEW c8, NEW c9, NEW c10,
         \A c \in {c1, c2, c3, c4, c5, c6, c7, c8, c9, c10} : Spares(c, KeyPlaces)
  PROVE  \A c \in Commands(<<c1, c2, c3, c4, c5, c6, c7, c8, c9, c10>>) : Spares(c, KeyPlaces)
<1>. DEFINE T == {c1, c2, c3, c4, c5, c6, c7, c8, c9, c10}
            l == <<c1, c2, c3, c4, c5, c6, c7, c8, c9, c10>>
<1>1. l \in Seq(T)
  OBVIOUS
<1>. HIDE DEF T, l
<1>2. \A i \in 1 .. Len(l) : l[i] \in T
  BY <1>1, ElementOfSeq
<1>3. \A c \in Commands(l) : c \in T
  BY <1>2 DEF Commands
<1>. QED BY <1>3 DEF T, l

LEMMA MoveFilesKeys == ASSUME ConfInv, KeysInv, MoveFiles PROVE KeysInv'
<1>. DEFINE l == <<MoveDir("icons"), MoveDir("icons-backup"), MoveDir("drivers_x64"),
                   MoveDir("drivers_ia32"), MoveDir("refind.cer"), MoveDir("local.cer"),
                   MoveFile(Name64(sh.src), Name64(sh.dir)), MoveFile(Name32(sh.src), Name32(sh.dir)),
                   MoveFile("refind.conf", "refind.conf"),
                   MoveFile("refind.conf-sample", "refind.conf-sample")>>
<1>1. Go("entry", l) /\ sh.script = "mvrefind"
  BY DEF MoveFiles, At, ConfInv, MoveSteps
<1>2. ASSUME NEW n, n \notin KeyNames, NEW m, m \notin KeyNames
      PROVE  Spares(MoveDir(n), KeyPlaces) /\ Spares(MoveFile(n, m), KeyPlaces)
  <2>1. /\ MoveDir(n).op = "mv-n" /\ MoveDir(n).from = <<sh.src, n>> /\ MoveDir(n).to = <<sh.dir, n>>
        /\ MoveFile(n, m).op = "mv" /\ MoveFile(n, m).from = <<sh.src, n>>
        /\ MoveFile(n, m).to = <<sh.dir, m>>
    BY DEF MoveDir, MoveFile, Mv
  <2>. QED BY <1>2, <2>1, PlacesApart DEF Spares
<1>3. /\ \A d : Name64(d) \notin KeyNames /\ Name32(d) \notin KeyNames
      /\ \A n \in {"icons", "icons-backup", "drivers_x64", "drivers_ia32", "refind.cer", "local.cer",
                   "refind.conf", "refind.conf-sample"} : n \notin KeyNames
  <2>1. \A d : Name64(d) \in {"bootx64.efi", "bootmgfw.efi", "refind_x64.efi"}
    BY Zenon DEF Name64
  <2>2. \A d : Name32(d) \in {"bootia32.efi", "refind_ia32.efi"}
    BY DEF Name32
  <2>. QED BY <2>1, <2>2 DEF KeyNames
<1>4. /\ Spares(MoveDir("icons"), KeyPlaces) /\ Spares(MoveDir("icons-backup"), KeyPlaces)
      /\ Spares(MoveDir("drivers_x64"), KeyPlaces) /\ Spares(MoveDir("drivers_ia32"), KeyPlaces)
      /\ Spares(MoveDir("refind.cer"), KeyPlaces) /\ Spares(MoveDir("local.cer"), KeyPlaces)
      /\ Spares(MoveFile(Name64(sh.src), Name64(sh.dir)), KeyPlaces)
      /\ Spares(MoveFile(Name32(sh.src), Name32(sh.dir)), KeyPlaces)
      /\ Spares(MoveFile("refind.conf", "refind.conf"), KeyPlaces)
      /\ Spares(MoveFile("refind.conf-sample", "refind.conf-sample"), KeyPlaces)
  BY <1>2, <1>3
<1>5. \A c \in Commands(l) : Spares(c, KeyPlaces)
  BY <1>4, TenSpare
<1>. HIDE DEF l
<1>6. sh'.script = "mvrefind" /\ sh'.pc = "entry" /\ sh'.todo = l /\ files' = files /\ failures' = failures
  BY <1>1, GoFields
<1>. QED BY <1>5, <1>6, SameFilesSameKeys, KeysAlone DEF KeysInv

LEMMA MkRlConfKeys == ASSUME ConfInv, KeysInv, NEW force, MkRlConf(force) PROVE KeysInv'
<1>. DEFINE l == [i \in 1 .. 2 |-> Cp(Content("options", i, "any", 0), LINUX, "refind_linux.conf", FALSE)]
<1>1. \A c \in Commands(l) : Spares(c, KeyPlaces)
  BY OptionsSpare
<1>2. sh' = [Idle EXCEPT !.pc = "rlconf", !.todo = l] /\ files' = files /\ failures' = failures
  BY DEF MkRlConf
<1>. HIDE DEF l
<1>3. sh'.script = "none" /\ sh'.pc = "rlconf" /\ sh'.todo = l
  BY <1>2 DEF Idle
<1>. QED BY <1>1, <1>2, <1>3, SameFilesSameKeys, KeysAlone DEF KeysInv

\* Between the scripts.
LEMMA BesideKeys ==
  ASSUME ConfInv, KeysInv, NEW d, UserEdits(d) \/ WindowsRepairs PROVE KeysInv'
<1>1. /\ sh.pc = "idle" /\ sh.script = "none" /\ sh.todo = << >> /\ sh' = sh /\ failures' = failures
  BY DEF UserEdits, WindowsRepairs, ConfInv
<1>2. \A e : <<e, "refind.conf">> \notin KeyPlaces /\ <<e, "bootmgfw.efi">> \notin KeyPlaces
  <2>1. "refind.conf" \notin KeyNames /\ "bootmgfw.efi" \notin KeyNames
    BY DEF KeyNames
  <2>. QED BY <2>1, PlacesApart
<1>3. SameKeyFiles
  <2>1. CASE UserEdits(d)
    <3>. DEFINE edited == Content("mine", 1 + Max({0} \cup { m.ver : m \in Mine }), "any", 0)
    <3>1. files' = With(files, <<d, "refind.conf">>, edited)
      BY <2>1 DEF UserEdits
    <3>. HIDE DEF edited
    <3>2. <<d, "refind.conf">> \notin KeyPlaces
      BY <1>2
    <3>. QED BY <3>1, <3>2 DEF SameKeyFiles, With
  <2>2. CASE WindowsRepairs
    <3>. DEFINE restored == Content("windows", 0, mach.cpu, 0)
    <3>1. files' = With(files, <<MSBOOT, "bootmgfw.efi">>, restored)
      BY <2>2 DEF WindowsRepairs
    <3>. HIDE DEF restored
    <3>2. <<MSBOOT, "bootmgfw.efi">> \notin KeyPlaces
      BY <1>2
    <3>. QED BY <3>1, <3>2 DEF SameKeyFiles, With
  <2>. QED BY <2>1, <2>2
<1>. QED BY <1>1, <1>3, CommandsOf, KeysAlone DEF KeysInv

-----------------------------------------------------------------------------

LEMMA KeysInit == Init => KeysInv
<1>. SUFFICES ASSUME Init PROVE KeysInv
  OBVIOUS
<1>1. sh = Idle /\ failures = 0 /\ (<<KEYS, "cer">> \in DOMAIN files => Whole(files))
  BY KeysAssumption DEF Init
<1>2. sh.todo = << >> /\ sh.script = "none" /\ sh.pc = "idle"
  BY <1>1 DEF Idle
<1>. QED BY <1>1, <1>2, CommandsOf DEF KeysInv, Signed, Copied

LEMMA KeysNext == ASSUME ConfInv, KeysInv, [Next]_vars PROVE KeysInv'
<1>1. CASE InstallNext
  <2>1. CASE \E a \in Packages : Install(a)
    BY <2>1, InstallKeys
  <2>2. CASE Command \/ (\E torn \in BOOLEAN : CommandFails(torn))
    BY <2>2, CommandKeys
  <2>3. CASE Kill \/ Finish
    BY <2>3, ExitKeys DEF Finish
  <2>4. CASE FindTarget \/ TakeWindows \/ TakeDefault \/ ReplaceDefault
    BY <2>4, FindTargetKeys, TakesKeys
  <2>5. CASE CheckCpu \/ ReSignBinaries \/ SignBinaries \/ CheckSecureBoot
    BY <2>5, ChecksKeys
  <2>6. CASE CopyRefindFiles
    BY <2>6, CopyRefindFilesKeys
  <2>7. CASE Bless \/ NoEntry \/ InstallEntry
    BY <2>7, EntriesKeys
  <2>8. CASE GenerateRefindLinuxConf
    BY <2>8, OptionsKeys
  <2>. QED BY <1>1, <2>1, <2>2, <2>3, <2>4, <2>5, <2>6, <2>7, <2>8 DEF InstallNext
<1>2. CASE \E src, dst \in {REFIND, BOOT, MSBOOT, Elsewhere} : Move(src, dst)
  BY <1>2, MoveKeys
<1>3. CASE \E force \in BOOLEAN : MkRlConf(force)
  BY <1>3, MkRlConfKeys
<1>4. CASE (\E d \in Esp \cup {Elsewhere} : UserEdits(d)) \/ WindowsRepairs
  BY <1>4, BesideKeys
<1>5. CASE MkRlConfEnds
  BY <1>5, ExitKeys DEF MkRlConfEnds
<1>6. CASE BackUpTarget
  BY <1>6, BackUpTargetKeys
<1>7. CASE MoveFiles
  BY <1>7, MoveFilesKeys
<1>8. CASE AddNvramEntry
  BY <1>8, EntriesKeys
<1>9. CASE UNCHANGED vars
  BY <1>9 DEF vars, KeysInv, Signed, Copied
<1>. QED BY <1>1, <1>2, <1>3, <1>4, <1>5, <1>6, <1>7, <1>8, <1>9 DEF Next

(* Wherever earlier runs were killed, also while they made the keys: as    *)
(* long as no command has failed, an installation that signs with keys of  *)
(* one's own leaves beside rEFInd the certificate of the key that rEFInd   *)
(* is signed with.                                                         *)
THEOREM SetupKeysFit == Spec => []KeysFit
<1>1. Init => ConfInv /\ KeysInv
  BY ConfInit, KeysInit
<1>2. ConfInv /\ KeysInv /\ [Next]_vars => ConfInv' /\ KeysInv'
  BY ConfNext, KeysNext DEF Keeps
<1>3. ConfInv /\ KeysInv => KeysFit
  <2>1. SUFFICES ASSUME KeysInv, Installed, failures = 0, sh.script = "install", sh.a.localkeys,
                        mach.cpu = "x64"
                 PROVE  /\ IsFile(sh.dir, "local.cer")
                        /\ files[<<sh.dir, "local.cer">>].key = files[<<sh.dir, sh.x64>>].key
    BY DEF KeysFit
  <2>2. sh.pc = "done" /\ sh.todo = << >> /\ Copied
    BY <2>1 DEF Installed, Copied, Signed, CopySteps
  <2>3. \A n \in {sh.x64, "local.cer"} : Carried(files, {}, <<sh.dir, n>>, KeyOf(files))
    BY <2>1, <2>2, CommandsOf DEF KeysInv
  <2>4. \A n \in {sh.x64, "local.cer"} :
          <<sh.dir, n>> \in DOMAIN files /\ files[<<sh.dir, n>>].key = KeyOf(files)
    BY <2>3 DEF Carried
  <2>. QED BY <2>4 DEF IsFile
<1>. QED BY <1>1, <1>2, <1>3, PTL DEF Spec

-----------------------------------------------------------------------------
(* Proofs: what keeps the loaders of other systems. They lie under no name *)
(* that is rEFInd's alone, and in EFI/refind only where a move has put one *)
(* under such a name; a command writes over other names only in the        *)
(* directory of the installation. There, without --usedefault and without  *)
(* an upgrade, the loader of Windows is away before the first copy, and a  *)
(* default loader is, or there was no room for it.                         *)

RefindNames == {"refind_x64.efi", "refind_ia32.efi"}
OwnNames ==
  { "icons", "icons-backup", "drivers_x64", "drivers_ia32", "refind.cer", "local.cer",
    "refind.conf", "refind.conf-sample", "refind_linux.conf", "MokManager.efi", "shim.efi",
    "shim.efi~", "key", "crt", "cer", "key.backup", "crt.backup", "cer.backup" }
KeptNames == {"bootx64.efi~", "bootmgfw.efi~"}

\* Where other loaders may lie.
MayLie(p) == p[2] \notin OwnNames /\ (p[1] = REFIND => p[2] \in RefindNames)
Placed(f) == \A p \in DOMAIN f : Foreign(f[p]) => MayLie(p)

\* A command that puts none elsewhere, and loses none but as above.
Writes(c) == c.op \in {"cp", "openssl"}
Tame(c) ==
  /\ c.op \in {"cp", "openssl", "rm", "mv", "mv-n"}
  /\ Writes(c) => /\ Foreign(c.content) => MayLie(c.to) /\ c.to[2] \in KeptNames
                  /\ c.to[2] \in OwnNames \/ (sh.script = "install" /\ c.to[1] = sh.dir)
  /\ c.op = "rm" => c.from[2] \in OwnNames
  /\ c.op \in {"mv", "mv-n"} => c.from[2] \in OwnNames \/ MayLie(c.to)
  /\ c.op = "mv" => \/ c.to[2] \in OwnNames
                    \/ sh.script = "mvrefind" /\ (Standard(sh.dir) \/ c.to[2] \in RefindNames)
  /\ sh.script = "install" /\ ~Writes(c) => c.from[1] \notin {MS, NESTED}

\* An installation that is no upgrade, in the place of the default loader ...
Fresh == sh.script = "install" /\ ~sh.a.usedefault /\ ~sh.upgrade

DefaultFree(f) ==
  /\ \A p \in DOMAIN f : p[1] = BOOT /\ p[2] \in ProgramNames => ~Foreign(f[p])
  /\ sh.pc \in InstallSteps =>
       /\ \A n \in ProgramNames : <<BOOT, n>> \notin DOMAIN f
       /\ \A c \in Commands(sh.todo) : Writes(c) /\ c.to[1] = KEYS
  /\ \A c \in Commands(sh.todo) :
       /\ Writes(c) => c.to[2] \in OwnNames \cup ProgramNames
       /\ c.op \in {"mv", "mv-n"} => c.to[2] \in OwnNames

\* ... and in that of the loader of Windows.
WindowsAway ==
  \/ IsFile(MS, "bootmgfw.efi")
  \/ sh.todo = Hijack /\ IsFile(MSBOOT, "bootmgfw.efi")

OthInv ==
  /\ Placed(files)
  /\ \A c \in Commands(sh.todo) : Tame(c)
  /\ sh.script = "install" => sh.dir \in {REFIND, BOOT, MSBOOT}
  /\ sh.pc = "target" => sh.dir = REFIND
  /\ Fresh /\ sh.dir = BOOT => IsDir(NESTED) \/ DefaultFree(files)
  /\ Fresh /\ sh.dir = MSBOOT => WindowsAway

-----------------------------------------------------------------------------
\* What a command does to them.

\* What is there after a command was there before, or is what it writes; what
\* was there is there still, or it is removed or written over.
LEMMA ExecutedFiles ==
  ASSUME NEW f, NEW c, c.op \in {"cp", "openssl", "rm", "mv", "mv-n"}, NEW e,
         e = Executed(f, c) \/ e = f \/ (c.op = "cp" /\ e = With(f, c.to, Torn))
  PROVE  /\ \A p \in DOMAIN e : \/ p \in DOMAIN f /\ e[p] = f[p]
                                \/ p = c.to /\ Writes(c) /\ e[p] \in {c.content, Torn}
                                \/ p = c.to /\ ~Writes(c) /\ c.op # "rm" /\ c.from \in DOMAIN f
                                   /\ e[p] = f[c.from]
         /\ \A p \in DOMAIN f : \/ p \in DOMAIN e /\ e[p] = f[p]
                                \/ p = c.to /\ p \in DOMAIN e /\ (Writes(c) \/ c.op = "mv")
                                \/ p = c.from /\ c.op = "rm"
                                \/ p = c.from /\ c.op \in {"mv", "mv-n"} /\ c.to \in DOMAIN e
                                   /\ e[c.to] = f[p]
<1>1. CASE e = f
  BY <1>1
<1>2. CASE c.op \in {"cp", "openssl"} /\ e # f
  <2>1. PICK x \in {c.content, Torn} : e = With(f, c.to, x)
    BY <1>2 DEF Executed
  <2>2. /\ DOMAIN e = {c.to} \cup DOMAIN f /\ e[c.to] = x
        /\ \A p \in DOMAIN f : p # c.to => e[p] = f[p]
    BY <2>1 DEF With
  <2>. QED BY <1>2, <2>2 DEF Writes
<1>3. CASE c.op = "rm" /\ e # f
  <2>1. e = Without(f, {c.from})
    BY <1>3 DEF Executed
  <2>2. DOMAIN e = DOMAIN f \ {c.from} /\ \A p \in DOMAIN e : e[p] = f[p]
    BY <2>1 DEF Without
  <2>. QED BY <1>3, <2>2
<1>4. CASE c.op \in {"mv", "mv-n"} /\ e # f
  <2>1. c.from \in DOMAIN f /\ e = Moved(f, c.from, c.to) /\ (c.op = "mv-n" => c.to \notin DOMAIN f)
    BY <1>4 DEF Executed
  <2>2. /\ DOMAIN e = {c.to} \cup (DOMAIN f \ {c.from}) /\ e[c.to] = f[c.from]
        /\ \A p \in DOMAIN f \ {c.from} : p # c.to => e[p] = f[p]
    BY <2>1 DEF Moved, With, Without
  <2>. QED BY <1>4, <2>1, <2>2 DEF Writes
<1>. QED BY <1>1, <1>2, <1>3, <1>4

LEMMA TornIsNotForeign == ~Foreign(Torn)
BY DEF Foreign, Torn, Content

\* Other loaders stay where they may lie.
LEMMA TamePlaced ==
  ASSUME NEW c, Tame(c), Placed(files),
         files' = Executed(files, c) \/ files' = files \/ (c.op = "cp" /\ files' = With(files, c.to, Torn))
  PROVE  Placed(files')
<1>1. SUFFICES ASSUME NEW p \in DOMAIN files', Foreign(files'[p]) PROVE MayLie(p)
  BY DEF Placed
<1>2. \/ p \in DOMAIN files /\ files'[p] = files[p]
      \/ p = c.to /\ Writes(c) /\ files'[p] \in {c.content, Torn}
      \/ p = c.to /\ ~Writes(c) /\ c.op # "rm" /\ c.from \in DOMAIN files /\ files'[p] = files[c.from]
  <2>1. c.op \in {"cp", "openssl", "rm", "mv", "mv-n"}
    BY DEF Tame
  <2>. QED BY <1>1, <2>1, ExecutedFiles
<1>3. CASE p \in DOMAIN files /\ files'[p] = files[p]
  BY <1>1, <1>3 DEF Placed
<1>4. CASE p = c.to /\ Writes(c) /\ files'[p] \in {c.content, Torn}
  BY <1>1, <1>4, TornIsNotForeign DEF Tame
<1>5. CASE p = c.to /\ ~Writes(c) /\ c.op # "rm" /\ c.from \in DOMAIN files /\ files'[p] = files[c.from]
  <2>1. c.from[2] \notin OwnNames
    BY <1>1, <1>5 DEF Placed, MayLie
  <2>2. c.op \in {"mv", "mv-n"}
    BY <1>5 DEF Tame, Writes
  <2>. QED BY <1>5, <2>1, <2>2 DEF Tame
<1>. QED BY <1>2, <1>3, <1>4, <1>5

\* One that is lost.
LEMMA TameLoses ==
  ASSUME NEW c, Tame(c), Placed(files),
         files' = Executed(files, c) \/ files' = files \/ (c.op = "cp" /\ files' = With(files, c.to, Torn)),
         NEW k \in Others \ Others'
  PROVE  \E p \in DOMAIN files :
           /\ files[p].what = k /\ Foreign(files[p]) /\ p = c.to /\ MayLie(p)
           /\ \/ Writes(c) /\ sh.script = "install" /\ p[1] = sh.dir
              \/ sh.script = "mvrefind" /\ (Standard(sh.dir) \/ p[2] \in RefindNames)
<1>1. PICK p \in DOMAIN files : files[p].what = k /\ Foreign(files[p])
  BY DEF Others
<1>2. \A q \in DOMAIN files' : files'[q] # files[p]
  BY <1>1 DEF Others
<1>3. \/ p = c.to /\ (Writes(c) \/ c.op = "mv")
      \/ p = c.from /\ c.op = "rm"
  BY <1>2, ExecutedFiles DEF Tame
<1>4. MayLie(p) /\ p[2] \notin OwnNames
  BY <1>1 DEF Placed, MayLie
<1>5. p = c.to /\ (Writes(c) \/ c.op = "mv")
  BY <1>3, <1>4 DEF Tame
<1>. QED BY <1>1, <1>4, <1>5 DEF Tame
-----------------------------------------------------------------------------
\* What every step does.

Guards == OthInv' /\ (sh.pc = "idle" \/ \A k \in Others \ Others' : GivenUp(k))

LEMMA CommandGuards ==
  ASSUME ConfInv, OthInv, Command \/ (\E torn : CommandFails(torn)) PROVE Guards
<1>. DEFINE c == Head(sh.todo)
<1>1. sh.todo # << >> /\ IsList(sh.todo)
  BY DEF Command, CommandFails, ConfInv
<1>2. \/ files' = Executed(files, c)
      \/ c.op = "cp" /\ (files' = files \/ files' = With(files, c.to, Torn))
  BY DEF Command, CommandFails
<1>3. /\ sh'.todo = Tail(sh.todo) /\ sh'.pc = sh.pc /\ sh'.script = sh.script /\ sh'.dir = sh.dir
      /\ sh.script = "install" => sh'.a = sh.a /\ sh'.upgrade = sh.upgrade
  <2>1. CASE Command
    BY <2>1 DEF Command, ConfInv, Fields
  <2>2. CASE \E torn : CommandFails(torn)
    <3>. DEFINE q == sh.problems \/ Head(sh.todo).checked
    <3>1. sh' = [sh EXCEPT !.todo = Tail(@), !.problems = q]
      BY <2>2 DEF CommandFails
    <3>. HIDE DEF q
    <3>. QED BY <3>1 DEF ConfInv, Fields
  <2>. QED BY <2>1, <2>2
<1>4. Commands(sh.todo) = {c} \cup Commands(sh'.todo)
  BY <1>1, <1>3, CommandsRest
<1>5. Tame(c) /\ Placed(files)
  BY <1>4 DEF OthInv
<1>6. sh.todo = Hijack =>
        /\ c = Mv("mv-n", <<MSBOOT, "bootmgfw.efi">>, <<MS, "bootmgfw.efi">>)
  BY DEF Hijack
<1>. HIDE DEF c
<1>7. c.op \in {"cp", "openssl", "rm", "mv", "mv-n"}
  BY <1>5 DEF Tame
<1>8. \A p \in DOMAIN files' :
        \/ p \in DOMAIN files /\ files'[p] = files[p]
        \/ p = c.to /\ Writes(c) /\ files'[p] \in {c.content, Torn}
        \/ p = c.to /\ ~Writes(c) /\ c.op # "rm" /\ c.from \in DOMAIN files /\ files'[p] = files[c.from]
  BY <1>2, <1>7, ExecutedFiles
<1>9. \A p \in DOMAIN files :
        \/ p \in DOMAIN files' /\ files'[p] = files[p]
        \/ p = c.to /\ p \in DOMAIN files' /\ (Writes(c) \/ c.op = "mv")
        \/ p = c.from /\ c.op = "rm"
        \/ p = c.from /\ c.op \in {"mv", "mv-n"} /\ c.to \in DOMAIN files' /\ files'[c.to] = files[p]
  <2>. SUFFICES ASSUME NEW p \in DOMAIN files
                PROVE  \/ p \in DOMAIN files' /\ files'[p] = files[p]
                       \/ p = c.to /\ p \in DOMAIN files' /\ (Writes(c) \/ c.op = "mv")
                       \/ p = c.from /\ c.op = "rm"
                       \/ p = c.from /\ c.op \in {"mv", "mv-n"} /\ c.to \in DOMAIN files' /\ files'[c.to] = files[p]
    OBVIOUS
  <2>. QED BY <1>2, <1>7, ExecutedFiles
<1>10. Placed(files')
  BY <1>2, <1>5, TamePlaced
<1>11. \A d \in Commands(sh'.todo) : Tame(d)'
  BY <1>3, <1>4 DEF OthInv, Tame
<1>12. ASSUME sh.script = "install", NEW p \in DOMAIN files, p[1] \in {MS, NESTED}
       PROVE  p \in DOMAIN files'
  <2>1. ~Writes(c) => p # c.from
    BY <1>5, <1>12 DEF Tame
  <2>. QED BY <1>9, <2>1 DEF Writes
<1>13. ASSUME Fresh, sh.dir = BOOT, ~IsDir(NESTED) PROVE DefaultFree(files)
  BY <1>13 DEF OthInv
<1>14. ASSUME Fresh', sh'.dir = BOOT PROVE (IsDir(NESTED) \/ DefaultFree(files))'
  <2>1. Fresh /\ sh.script = "install" /\ sh.dir = BOOT
    BY <1>3, <1>14 DEF Fresh
  <2>2. CASE IsDir(NESTED)
    <3>1. PICK p \in DOMAIN files : p[1] = NESTED
      BY <2>2 DEF IsDir
    <3>2. p \in DOMAIN files'
      BY <1>12, <2>1, <3>1
    <3>. QED BY <3>1, <3>2 DEF IsDir
  <2>3. CASE DefaultFree(files)
    <3>1. c \in Commands(sh.todo)
      BY <1>4
    <3>2. ASSUME NEW p \in DOMAIN files', p[1] = BOOT, p[2] \in ProgramNames PROVE ~Foreign(files'[p])
      <4>1. CASE p \in DOMAIN files /\ files'[p] = files[p]
        BY <2>3, <3>2, <4>1 DEF DefaultFree
      <4>2. CASE p = c.to /\ Writes(c) /\ files'[p] \in {c.content, Torn}
        <5>1. p[2] \notin KeptNames
          BY <3>2 DEF ProgramNames, KeptNames
        <5>. QED BY <1>5, <4>2, <5>1, TornIsNotForeign DEF Tame
      <4>3. CASE p = c.to /\ ~Writes(c) /\ c.op # "rm" /\ c.from \in DOMAIN files
                 /\ files'[p] = files[c.from]
        <5>1. c.op \in {"mv", "mv-n"}
          BY <1>7, <4>3 DEF Writes
        <5>2. c.from[2] \in OwnNames
          BY <1>5, <2>3, <3>1, <5>1 DEF Tame, DefaultFree, MayLie
        <5>. QED BY <1>5, <4>3, <5>2 DEF Placed, MayLie
      <4>. QED BY <1>8, <4>1, <4>2, <4>3
    <3>3. ASSUME sh'.pc \in InstallSteps, NEW n \in ProgramNames PROVE <<BOOT, n>> \notin DOMAIN files'
      <4>1. Writes(c) /\ c.to[1] = KEYS /\ <<BOOT, n>> \notin DOMAIN files
        BY <1>3, <2>3, <3>1, <3>3 DEF DefaultFree
      <4>2. <<BOOT, n>>[1] # KEYS
        BY DEF BOOT, KEYS
      <4>. QED BY <1>8, <4>1, <4>2
    <3>4. /\ sh'.pc \in InstallSteps => \A d \in Commands(sh'.todo) : Writes(d) /\ d.to[1] = KEYS
          /\ \A d \in Commands(sh'.todo) :
               /\ Writes(d) => d.to[2] \in OwnNames \cup ProgramNames
               /\ d.op \in {"mv", "mv-n"} => d.to[2] \in OwnNames
      BY <1>3, <1>4, <2>3 DEF DefaultFree
    <3>. QED BY <3>2, <3>3, <3>4 DEF DefaultFree
  <2>. QED BY <1>13, <2>1, <2>2, <2>3
<1>15. ASSUME Fresh', sh'.dir = MSBOOT PROVE WindowsAway'
  <2>1. Fresh /\ sh.script = "install" /\ sh.dir = MSBOOT /\ WindowsAway
    BY <1>3, <1>15 DEF Fresh, OthInv
  <2>2. CASE IsFile(MS, "bootmgfw.efi")
    <3>1. <<MS, "bootmgfw.efi">> \in DOMAIN files'
      BY <1>12, <2>1, <2>2 DEF IsFile
    <3>. QED BY <3>1 DEF WindowsAway, IsFile
  <2>3. CASE sh.todo = Hijack /\ IsFile(MSBOOT, "bootmgfw.efi") /\ ~IsFile(MS, "bootmgfw.efi")
    <3>1. /\ c.op = "mv-n" /\ c.from = <<MSBOOT, "bootmgfw.efi">> /\ c.to = <<MS, "bootmgfw.efi">>
      BY <1>6, <2>3 DEF Mv
    <3>2. files' = Moved(files, c.from, c.to)
      BY <1>2, <2>3, <3>1 DEF Executed, IsFile
    <3>3. c.to \in DOMAIN files'
      BY <3>2 DEF Moved, With
    <3>. QED BY <3>1, <3>3 DEF WindowsAway, IsFile
  <2>. QED BY <2>1, <2>2, <2>3 DEF WindowsAway
<1>16. OthInv'
  BY <1>3, <1>10, <1>11, <1>14, <1>15, Zenon DEF OthInv
<1>17. ASSUME NEW k \in Others \ Others' PROVE GivenUp(k)
  <2>1. PICK p \in DOMAIN files :
           /\ files[p].what = k /\ Foreign(files[p]) /\ p = c.to /\ MayLie(p)
           /\ \/ Writes(c) /\ sh.script = "install" /\ p[1] = sh.dir
              \/ sh.script = "mvrefind" /\ (Standard(sh.dir) \/ p[2] \in RefindNames)
    BY <1>2, <1>5, <1>17, TameLoses
  <2>2. CASE sh.script = "mvrefind" \/ sh.dir = REFIND
    BY <2>1, <2>2 DEF GivenUp, RefindNames, MayLie
  <2>3. CASE sh.script = "install" /\ sh.dir # REFIND /\ ~Fresh
    <3>1. Standard(sh.dir)
      BY <2>3 DEF OthInv, Standard
    <3>. QED BY <2>3, <3>1 DEF GivenUp, Fresh
  <2>4. CASE Fresh /\ sh.dir = BOOT
    <3>1. CASE IsDir(NESTED)
      BY <2>4, <3>1 DEF GivenUp, Fresh
    <3>2. CASE ~IsDir(NESTED)
      <4>1. DefaultFree(files) /\ Writes(c) /\ p[1] = BOOT
        BY <1>13, <2>1, <2>4, <3>2 DEF Fresh
      <4>2. p[2] \in OwnNames \cup ProgramNames
        BY <1>4, <2>1, <4>1 DEF DefaultFree
      <4>. QED BY <2>1, <4>1, <4>2 DEF DefaultFree, MayLie
    <3>. QED BY <3>1, <3>2
  <2>5. CASE Fresh /\ sh.dir = MSBOOT
    <3>. DEFINE w == <<MS, "bootmgfw.efi">>
    <3>1. Writes(c) /\ c.to[1] = MSBOOT
      BY <2>1, <2>5 DEF Fresh
    <3>2. sh.todo # Hijack
      BY <1>6, <3>1 DEF Mv, Writes
    <3>3. w \in DOMAIN files
      BY <2>5, <3>2 DEF OthInv, WindowsAway, IsFile
    <3>4. w # c.to
      BY <3>1 DEF MSBOOT, MS
    <3>5. w \in DOMAIN files' /\ files'[w] = files[w]
      BY <1>9, <3>1, <3>3, <3>4 DEF Writes
    <3>6. files[w].what # k
      BY <1>17, <2>1, <3>5 DEF Others, Foreign
    <3>. QED BY <2>5, <3>3, <3>6 DEF GivenUp, Fresh, IsFile
  <2>. QED BY <2>1, <2>2, <2>3, <2>4, <2>5 DEF OthInv
<1>. QED BY <1>16, <1>17 DEF Guards

-----------------------------------------------------------------------------
\* The other actions of the scripts.

LEMMA KeptGuards ==
  ASSUME OthInv', Others \subseteq Others' PROVE Guards
BY DEF Guards

LEMMA SameFilesSameOthers == ASSUME files' = files PROVE Others' = Others
BY DEF Others

LEMMA GuardsAtEnd == ASSUME OthInv, files' = files, sh' = Idle PROVE Guards
<1>1. sh'.script = "none" /\ sh'.todo = << >> /\ sh'.pc = "idle"
  BY DEF Idle
<1>2. OthInv'
  BY <1>1, CommandsOf DEF OthInv, Fresh
<1>. QED BY <1>2, SameFilesSameOthers, KeptGuards

LEMMA ExitGuards == ASSUME OthInv, Exit \/ Kill PROVE Guards
BY GuardsAtEnd DEF Exit, Kill

\* Another step of the same script, between its commands.
LEMMA GoesOn ==
  ASSUME OthInv, files' = files, sh.todo = << >>,
         sh'.script = sh.script, sh'.dir = sh.dir, sh'.pc # "target",
         sh.script = "install" => sh'.a = sh.a /\ sh'.upgrade = sh.upgrade,
         \A c \in Commands(sh'.todo) : Tame(c),
         Fresh /\ sh.dir = BOOT /\ DefaultFree(files) =>
           /\ sh'.pc \in InstallSteps =>
                sh.pc \in InstallSteps /\ \A c \in Commands(sh'.todo) : Writes(c) /\ c.to[1] = KEYS
           /\ \A c \in Commands(sh'.todo) :
                /\ Writes(c) => c.to[2] \in OwnNames \cup ProgramNames
                /\ c.op \in {"mv", "mv-n"} => c.to[2] \in OwnNames
  PROVE  Guards
<1>1. Placed(files') /\ \A c \in Commands(sh'.todo) : Tame(c)'
  BY DEF OthInv, Tame
<1>2. Fresh' => Fresh
  BY DEF Fresh
<1>3. ASSUME Fresh', sh'.dir = BOOT PROVE (IsDir(NESTED) \/ DefaultFree(files))'
  <2>1. Fresh /\ sh.dir = BOOT
    BY <1>2, <1>3
  <2>2. IsDir(NESTED) \/ DefaultFree(files)
    BY <2>1 DEF OthInv
  <2>3. CASE DefaultFree(files)
    BY <2>1, <2>3 DEF DefaultFree
  <2>. QED BY <2>2, <2>3 DEF IsDir
<1>4. ASSUME Fresh', sh'.dir = MSBOOT PROVE WindowsAway'
  <2>1. WindowsAway
    BY <1>2, <1>4 DEF OthInv
  <2>2. sh.todo # Hijack
    BY DEF Hijack
  <2>. QED BY <2>1, <2>2 DEF WindowsAway, IsFile
<1>5. sh'.script = "install" => sh'.dir \in {REFIND, BOOT, MSBOOT}
  BY DEF OthInv
<1>6. OthInv'
  BY <1>1, <1>3, <1>4, <1>5, Zenon DEF OthInv
<1>. QED BY <1>6, SameFilesSameOthers, KeptGuards

\* Nothing left to do for now.
LEMMA GoesQuietly ==
  ASSUME ConfInv, OthInv, NEW p, p # "target", Go(p, << >>), sh.todo = << >>,
         p \in InstallSteps => sh.pc \in InstallSteps
  PROVE  Guards
<1>1. /\ sh'.pc = p /\ sh'.todo = << >> /\ sh'.script = sh.script /\ sh'.dir = sh.dir /\ files' = files
      /\ sh.script = "install" => sh'.a = sh.a /\ sh'.upgrade = sh.upgrade
  BY DEF Go, ConfInv, Fields
<1>. QED BY <1>1, CommandsOf, GoesOn

LEMMA InstallGuards == ASSUME OthInv, NEW a, Install(a) PROVE Guards
<1>1. /\ sh'.script = "install" /\ sh'.todo = << >> /\ files' = files
      /\ sh'.dir = (IF a.usedefault THEN BOOT ELSE REFIND) /\ sh'.a = a
      /\ sh'.pc = (IF a.usedefault \/ mach.os = "Darwin" THEN "cpu" ELSE "target")
  BY DEF Install
<1>2. Fresh' => sh'.dir = REFIND
  BY <1>1 DEF Fresh
<1>3. sh'.pc = "target" => sh'.dir = REFIND
  BY <1>1
<1>4. REFIND # BOOT /\ REFIND # MSBOOT
  BY DEF REFIND, BOOT, MSBOOT
<1>5. OthInv'
  BY <1>1, <1>2, <1>3, <1>4, CommandsOf DEF OthInv
<1>. QED BY <1>1, <1>5, SameFilesSameOthers, KeptGuards

LEMMA FindTargetGuards == ASSUME ConfInv, OthInv, FindTarget PROVE Guards
<1>1. At("target") /\ "target" \in InstallSteps /\ sh.dir = REFIND
  BY DEF FindTarget, InstallSteps, At, OthInv
<1>2. /\ sh.script = "install" /\ sh.todo = << >>
      /\ {"script", "pc", "dir", "todo", "a", "upgrade", "x64", "ia32", "shim", "double"} \subseteq DOMAIN sh
  BY <1>1, AtInstall
<1>. DEFINE found == \E d \in {BOOT, MSBOOT, REFIND} : HasConf(d)
            b == IF HasConf(BOOT) THEN SetVarsForBoot(sh) ELSE sh
            m == IF HasConf(MSBOOT) THEN SetVarsForMsBoot(b) ELSE b
            r == IF HasConf(REFIND) THEN [m EXCEPT !.dir = REFIND] ELSE m
            u == [r EXCEPT !.upgrade = found]
            Fine(t) == /\ DOMAIN t = DOMAIN sh /\ t.script = "install" /\ t.todo = << >> /\ t.a = sh.a
                       /\ t.dir \in {REFIND, BOOT, MSBOOT} /\ (~found => t.dir = REFIND)
<1>3. Fine(sh)
  BY <1>1, <1>2
<1>4. u = Upgraded(sh)
  BY DEF Upgraded
<1>5. HasConf(BOOT) \/ HasConf(MSBOOT) \/ HasConf(REFIND) => found
  OBVIOUS
<1>. HIDE DEF found
<1>6. Fine(b)
  BY <1>2, <1>3, <1>5 DEF SetVarsForBoot
<1>. HIDE DEF b
<1>7. Fine(m)
  BY <1>2, <1>5, <1>6 DEF SetVarsForMsBoot
<1>. HIDE DEF m
<1>8. Fine(r)
  BY <1>2, <1>7
<1>. HIDE DEF r
<1>9. Fine(u) /\ u.upgrade = found
  BY <1>2, <1>8
<1>. HIDE DEF u
<1>10. sh' = [u EXCEPT !.pc = "cpu", !.double = Double] /\ files' = files
  BY <1>4 DEF FindTarget
<1>11. Fine(sh') /\ sh'.upgrade = found /\ sh'.pc = "cpu"
  BY <1>2, <1>9, <1>10
<1>12. Fresh' => sh'.dir = REFIND
  BY <1>11 DEF Fresh
<1>13. REFIND # BOOT /\ REFIND # MSBOOT
  BY DEF REFIND, BOOT, MSBOOT
<1>14. OthInv'
  BY <1>10, <1>11, <1>12, <1>13, CommandsOf DEF OthInv
<1>. QED BY <1>10, <1>14, SameFilesSameOthers, KeptGuards

\* Every file of a moved directory is somewhere, and the others where they were.
LEMMA DirMovedFiles ==
  ASSUME NEW f, InPlace(f), NEW e, e = MovedDir(f, BOOT, BACKUP, NESTED)
  PROVE  /\ \A q \in DOMAIN e : \E p \in DOMAIN f :
              e[q] = f[p] /\ q[2] = p[2] /\ (q = p \/ q[1] \in {BACKUP, NESTED})
         /\ \A p \in DOMAIN f : \E q \in DOMAIN e : e[q] = f[p]
         /\ \A p \in DOMAIN f : p[1] # BOOT => p \in DOMAIN e /\ e[p] = f[p]
         /\ (\A q \in DOMAIN e : q[1] # BOOT) \/ (\E q \in DOMAIN e : q[1] = NESTED)
<1>. DEFINE Holds(d) == \E q \in DOMAIN f : q[1] = d
            target == IF Holds(BACKUP) THEN NESTED ELSE BACKUP
            Dest(q) == IF q[1] = BOOT THEN <<target, q[2]>> ELSE q
<1>1. e = IF Holds(target) \/ ~Holds(BOOT) THEN f
          ELSE [q \in { Dest(r) : r \in DOMAIN f } |-> f[CHOOSE r \in DOMAIN f : Dest(r) = q]]
  BY Zenon DEF MovedDir
<1>2. target \in {BACKUP, NESTED} /\ target # BOOT
  BY DEF BACKUP, NESTED, BOOT
<1>3. Holds(target) => \E q \in DOMAIN f : q[1] = NESTED
  <2>1. Holds(BACKUP) => target = NESTED
    OBVIOUS
  <2>2. ~Holds(BACKUP) => target = BACKUP
    OBVIOUS
  <2>. HIDE DEF target
  <2>. QED BY <2>1, <2>2
<1>. HIDE DEF target
<1>4. CASE Holds(target) \/ ~Holds(BOOT)
  BY <1>1, <1>3, <1>4
<1>5. CASE ~Holds(target) /\ Holds(BOOT)
  <2>1. e = [q \in { Dest(r) : r \in DOMAIN f } |-> f[CHOOSE r \in DOMAIN f : Dest(r) = q]]
    BY <1>1, <1>5
  <2>2. ASSUME NEW q \in DOMAIN f, NEW p \in DOMAIN f, Dest(q) = Dest(p) PROVE q = p
    <3>1. q = <<q[1], q[2]>> /\ p = <<p[1], p[2]>> /\ q[1] # target /\ p[1] # target
      BY <1>5 DEF InPlace, Pair
    <3>2. CASE q[1] = BOOT /\ p[1] = BOOT
      BY <2>2, <3>1, <3>2
    <3>3. CASE q[1] # BOOT /\ p[1] # BOOT
      BY <2>2, <3>3
    <3>4. CASE q[1] = BOOT /\ p[1] # BOOT
      BY <2>2, <3>1, <3>4
    <3>5. CASE q[1] # BOOT /\ p[1] = BOOT
      BY <2>2, <3>1, <3>5
    <3>. QED BY <3>2, <3>3, <3>4, <3>5
  <2>3. ASSUME NEW p \in DOMAIN f
        PROVE  /\ Dest(p)[2] = p[2] /\ (Dest(p) = p \/ Dest(p)[1] \in {BACKUP, NESTED})
               /\ Dest(p)[1] # BOOT /\ (p[1] # BOOT => Dest(p) = p)
    BY <1>2
  <2>. HIDE DEF Dest
  <2>4. ASSUME NEW p \in DOMAIN f PROVE Dest(p) \in DOMAIN e /\ e[Dest(p)] = f[p]
    <3>1. Dest(p) \in DOMAIN e
      BY <2>1
    <3>2. e[Dest(p)] = f[CHOOSE r \in DOMAIN f : Dest(r) = Dest(p)]
      BY <2>1, <3>1
    <3>3. PICK q \in DOMAIN f : q = CHOOSE r \in DOMAIN f : Dest(r) = Dest(p)
      OBVIOUS
    <3>4. Dest(q) = Dest(p)
      BY <3>3
    <3>. QED BY <2>2, <3>1, <3>2, <3>3, <3>4
  <2>5. \A q \in DOMAIN e : \E p \in DOMAIN f : q = Dest(p)
    BY <2>1
  <2>. HIDE <2>1
  <2>6. \A q \in DOMAIN e : \E p \in DOMAIN f :
          e[q] = f[p] /\ q[2] = p[2] /\ (q = p \/ q[1] \in {BACKUP, NESTED}) /\ q[1] # BOOT
    BY <2>3, <2>4, <2>5
  <2>7. \A p \in DOMAIN f : p[1] # BOOT => p \in DOMAIN e /\ e[p] = f[p]
    BY <2>3, <2>4
  <2>. QED BY <2>4, <2>6, <2>7
<1>. QED BY <1>4, <1>5

LEMMA DirMovedOthers ==
  ASSUME InPlace(files), Placed(files), files' = MovedDir(files, BOOT, BACKUP, NESTED)
  PROVE  /\ Placed(files') /\ Others \subseteq Others'
         /\ (\A q \in DOMAIN files' : q[1] # BOOT) \/ IsDir(NESTED)'
<1>1. /\ \A q \in DOMAIN files' : \E p \in DOMAIN files :
           files'[q] = files[p] /\ q[2] = p[2] /\ (q = p \/ q[1] \in {BACKUP, NESTED})
      /\ \A p \in DOMAIN files : \E q \in DOMAIN files' : files'[q] = files[p]
      /\ (\A q \in DOMAIN files' : q[1] # BOOT) \/ (\E q \in DOMAIN files' : q[1] = NESTED)
  BY DirMovedFiles
<1>2. REFIND \notin {BACKUP, NESTED}
  BY DEF REFIND, BACKUP, NESTED
<1>3. Placed(files')
  BY <1>1, <1>2 DEF Placed, MayLie
<1>4. Others \subseteq Others'
  BY <1>1 DEF Others
<1>. QED BY <1>1, <1>3, <1>4 DEF IsDir

LEMMA TakesGuards ==
  ASSUME ConfInv, OthInv, TakeWindows \/ TakeDefault \/ ReplaceDefault PROVE Guards
<1>1. At("target") /\ "target" \in InstallSteps
  BY DEF TakeWindows, TakeDefault, ReplaceDefault, InBiosMode, InstallSteps
<1>2. /\ sh.script = "install" /\ sh.todo = << >> /\ InPlace(files) /\ Placed(files)
      /\ {"script", "pc", "dir", "todo", "a", "upgrade", "x64", "ia32", "shim", "double"} \subseteq DOMAIN sh
  BY <1>1, AtInstall DEF OthInv
<1>. DEFINE t == SetVarsForBoot(sh)
            m == SetVarsForMsBoot(sh)
<1>3. /\ DOMAIN t = DOMAIN sh /\ t.script = "install" /\ t.todo = << >> /\ t.dir = BOOT
      /\ DOMAIN m = DOMAIN sh /\ m.script = "install" /\ m.todo = << >> /\ m.dir = MSBOOT
  BY <1>2 DEF SetVarsForBoot, SetVarsForMsBoot
<1>4. REFIND # BOOT /\ REFIND # MSBOOT /\ MSBOOT # BOOT
  BY DEF REFIND, BOOT, MSBOOT
<1>5. CASE TakeWindows
  <2>1. sh' = [m EXCEPT !.pc = "cpu", !.todo = Hijack] /\ files' = files /\ IsFile(MSBOOT, "bootmgfw.efi")
    BY <1>5 DEF TakeWindows
  <2>. HIDE DEF m
  <2>2. /\ sh'.pc = "cpu" /\ sh'.todo = Hijack /\ sh'.script = "install" /\ sh'.dir = MSBOOT
    BY <1>2, <1>3, <2>1
  <2>3. \A c \in Commands(Hijack) : Tame(c)'
    <3>. DEFINE h == Mv("mv-n", <<MSBOOT, "bootmgfw.efi">>, <<MS, "bootmgfw.efi">>)
    <3>1. /\ h.op = "mv-n" /\ h.from[1] \notin {MS, NESTED}
          /\ h.to = <<MS, "bootmgfw.efi">> /\ h.to[1] # REFIND
      BY DEF Mv, MSBOOT, MS, NESTED, REFIND
    <3>2. h.to[2] \notin OwnNames
      <4>1. h.to[2] = "bootmgfw.efi"
        BY DEF Mv
      <4>. QED BY <4>1 DEF OwnNames
    <3>. HIDE DEF h
    <3>3. Tame(h)'
      BY <3>1, <3>2 DEF Tame, MayLie, Writes
    <3>4. Commands(Hijack) = {h}
      BY CommandsOf DEF Hijack, h
    <3>. QED BY <3>3, <3>4
  <2>4. WindowsAway'
    BY <2>1, <2>2 DEF WindowsAway, IsFile
  <2>5. OthInv'
    BY <1>2, <1>4, <2>1, <2>2, <2>3, <2>4 DEF OthInv
  <2>. QED BY <2>1, <2>5, SameFilesSameOthers, KeptGuards
<1>6. CASE TakeDefault \/ ReplaceDefault
  <2>1. \/ sh' = Idle /\ files' = files
        \/ /\ sh' = [t EXCEPT !.pc = "cpu"]
           /\ (files' = files /\ ~HasPrograms(BOOT)) \/ files' = MovedDir(files, BOOT, BACKUP, NESTED)
    BY <1>6 DEF TakeDefault, ReplaceDefault
  <2>. HIDE DEF t
  <2>2. CASE sh' = Idle /\ files' = files
    BY <2>2, GuardsAtEnd
  <2>3. CASE /\ sh' = [t EXCEPT !.pc = "cpu"]
             /\ (files' = files /\ ~HasPrograms(BOOT)) \/ files' = MovedDir(files, BOOT, BACKUP, NESTED)
    <3>1. sh'.pc = "cpu" /\ sh'.todo = << >> /\ sh'.script = "install" /\ sh'.dir = BOOT
      BY <1>2, <1>3, <2>3
    <3>2. /\ Placed(files') /\ Others \subseteq Others'
          /\ (\A n \in ProgramNames : <<BOOT, n>> \notin DOMAIN files') \/ IsDir(NESTED)'
      <4>1. CASE files' = files /\ ~HasPrograms(BOOT)
        BY <1>2, <4>1, SameFilesSameOthers DEF HasPrograms, IsFile
      <4>2. CASE files' = MovedDir(files, BOOT, BACKUP, NESTED)
        <5>1. /\ Placed(files') /\ Others \subseteq Others'
              /\ (\A q \in DOMAIN files' : q[1] # BOOT) \/ IsDir(NESTED)'
          BY <1>2, <4>2, DirMovedOthers
        <5>2. \A n : <<BOOT, n>>[1] = BOOT
          OBVIOUS
        <5>. QED BY <5>1, <5>2
      <4>. QED BY <2>3, <4>1, <4>2
    <3>3. ASSUME \A n \in ProgramNames : <<BOOT, n>> \notin DOMAIN files' PROVE DefaultFree(files)'
      <4>1. \A p \in DOMAIN files' : p = <<p[1], p[2]>>
        <5>1. InPlace(files')
          BY <1>2, <2>3, DirMoved, Apart
        <5>. QED BY <5>1 DEF InPlace, Pair
      <4>2. \A p \in DOMAIN files' : ~(p[1] = BOOT /\ p[2] \in ProgramNames)
        BY <3>3, <4>1
      <4>. QED BY <3>1, <3>3, <4>2, CommandsOf DEF DefaultFree
    <3>4. OthInv'
      BY <1>4, <3>1, <3>2, <3>3, CommandsOf DEF OthInv
    <3>. QED BY <3>2, <3>4, KeptGuards
  <2>. QED BY <2>1, <2>2, <2>3
<1>. QED BY <1>5, <1>6

-----------------------------------------------------------------------------
\* The checks and the keys.

LEMMA KeyCommandsTame ==
  ASSUME InPlace(files), Placed(files)
  PROVE  \A c \in Commands(GenerateKeys) :
           Writes(c) /\ c.to[1] = KEYS /\ c.to[2] \in OwnNames /\ ~Foreign(c.content)
<1>. DEFINE new == Content("key", 0, "any", 1 + Max({0} \cup Keys))
            Fine(c) == Writes(c) /\ c.to[1] = KEYS /\ c.to[2] \in OwnNames /\ ~Foreign(c.content)
<1>1. ASSUME NEW n \in {"key", "crt", "cer"}
      PROVE  IsList(BackUpKey(n)) /\ \A c \in Commands(BackUpKey(n)) : Fine(c)
  <2>. DEFINE c == Cp(files[<<KEYS, n>>], KEYS, BackupName(n), FALSE)
  <2>1. n \in OwnNames /\ BackupName(n) \in OwnNames
    BY DEF OwnNames, BackupName
  <2>2. c.op = "cp" /\ c.to = <<KEYS, BackupName(n)>> /\ c.content = files[<<KEYS, n>>]
    BY DEF Cp
  <2>3. IsFile(KEYS, n) => ~Foreign(c.content)
    BY <2>1, <2>2 DEF IsFile, Placed, MayLie
  <2>. HIDE DEF c
  <2>4. BackUpKey(n) = If(IsFile(KEYS, n), <<c>>)
    BY DEF BackUpKey, c
  <2>5. IsFile(KEYS, n) => Fine(c)
    BY <2>1, <2>2, <2>3 DEF Writes
  <2>. HIDE DEF Fine
  <2>. QED BY <2>4, <2>5, CommandsOf, CommandsIf
<1>2. ~Foreign(new)
  BY DEF Foreign, Content
<1>. HIDE DEF new
<1>3. ASSUME NEW n \in {"key", "crt", "cer"} PROVE Fine(Openssl(new, n))
  <2>1. n \in OwnNames
    BY DEF OwnNames
  <2>. QED BY <1>2, <2>1 DEF Openssl, Writes
<1>. HIDE DEF Fine
<1>. DEFINE a == BackUpKey("key")
            b == BackUpKey("crt")
            d == BackUpKey("cer")
            k == <<Openssl(new, "key"), Openssl(new, "crt"), Openssl(new, "cer")>>
<1>4. GenerateKeys = IF HaveKeys THEN << >> ELSE a \o b \o d \o k
  BY Zenon DEF GenerateKeys, new
<1>5. /\ IsList(a) /\ (\A c \in Commands(a) : Fine(c)) /\ IsList(b) /\ (\A c \in Commands(b) : Fine(c))
      /\ IsList(d) /\ (\A c \in Commands(d) : Fine(c))
  BY <1>1
<1>6. IsList(k) /\ \A c \in Commands(k) : Fine(c)
  <2>. DEFINE x == Openssl(new, "key")
              y == Openssl(new, "crt")
              z == Openssl(new, "cer")
  <2>1. Fine(x) /\ Fine(y) /\ Fine(z)
    BY <1>3
  <2>. HIDE DEF x, y, z
  <2>. DEFINE l == <<x, y, z>>
  <2>2. l \in Seq({x, y, z}) /\ Len(l) = 3 /\ l[1] = x /\ l[2] = y /\ l[3] = z
    OBVIOUS
  <2>. HIDE DEF l
  <2>3. IsList(l) /\ \A c \in Commands(l) : Fine(c)
    BY <2>1, <2>2 DEF IsList, Commands
  <2>. QED BY <2>3 DEF l, x, y, z
<1>. HIDE DEF a, b, d, k
<1>7. IsList(a \o b) /\ \A c \in Commands(a \o b) : Fine(c)
  BY <1>5, CommandsBoth
<1>8. IsList(a \o b \o d) /\ \A c \in Commands(a \o b \o d) : Fine(c)
  BY <1>5, <1>7, CommandsBoth
<1>9. \A c \in Commands(a \o b \o d \o k) : Fine(c)
  BY <1>6, <1>8, CommandsBoth
<1>10. \A c \in Commands(GenerateKeys) : Fine(c)
  BY <1>4, <1>9, CommandsOf
<1>. QED BY <1>10 DEF Fine

LEMMA ChecksGuards ==
  ASSUME ConfInv, OthInv, CheckCpu \/ ReSignBinaries \/ SignBinaries \/ CheckSecureBoot PROVE Guards
<1>1. PICK p \in {"cpu", "sign", "signed", "secure"} : At(p)
  BY DEF CheckCpu, ReSignBinaries, SignBinaries, CheckSecureBoot
<1>2. sh.pc \in InstallSteps /\ sh.script = "install" /\ sh.todo = << >> /\ InPlace(files) /\ Placed(files)
  BY <1>1, AtInstall DEF At, InstallSteps, OthInv
<1>3. \/ Exit
      \/ \E q \in {"sign", "secure", "copy"} : Go(q, << >>)
      \/ Go("signed", GenerateKeys)
  BY DEF CheckCpu, ReSignBinaries, SignBinaries, CheckSecureBoot
<1>4. CASE Exit
  BY <1>4, ExitGuards
<1>5. CASE \E q \in {"sign", "secure", "copy"} : Go(q, << >>)
  BY <1>2, <1>5, GoesQuietly
<1>6. CASE Go("signed", GenerateKeys)
  <2>1. /\ sh'.pc = "signed" /\ sh'.todo = GenerateKeys /\ sh'.script = sh.script /\ sh'.dir = sh.dir
        /\ sh'.a = sh.a /\ sh'.upgrade = sh.upgrade /\ files' = files
    BY <1>2, <1>6 DEF Go, ConfInv, Fields
  <2>2. \A c \in Commands(sh'.todo) :
          Writes(c) /\ c.to[1] = KEYS /\ c.to[2] \in OwnNames /\ ~Foreign(c.content)
    BY <1>2, <2>1, KeyCommandsTame
  <2>3. \A c \in Commands(sh'.todo) : Tame(c)
    BY <2>2 DEF Tame, Writes
  <2>4. \A c \in Commands(sh'.todo) : c.op \notin {"mv", "mv-n"}
    BY <2>2 DEF Writes
  <2>. QED BY <1>2, <2>1, <2>2, <2>3, <2>4, GoesOn
<1>. QED BY <1>3, <1>4, <1>5, <1>6

-----------------------------------------------------------------------------
\* The copies: of what is rEFInd's, under a name of its own or that of a program;
\* of a loader to the name it is kept under; and the icons.

Shims == {"shim.efi", "bootx64.efi", "bootmgfw.efi"}
CopyCommand(c) ==
  \/ /\ c.op = "cp" /\ c.to[1] = sh.dir /\ c.to[2] \in OwnNames \cup ProgramNames
     /\ ~Foreign(c.content)
  \/ \E n \in Shims : /\ c.op = "cp" /\ c.to = <<sh.dir, Kept(n)>>
                        /\ <<sh.dir, n>> \in DOMAIN files /\ c.content = files[<<sh.dir, n>>]
  \/ c.op = "rm" /\ c.from = <<sh.dir, "icons-backup">>
  \/ c.op = "mv" /\ c.from = <<sh.dir, "icons">> /\ c.to = <<sh.dir, "icons-backup">>

CopyList(s) == IsList(s) /\ \A c \in Commands(s) : CopyCommand(c)

LEMMA CopyBoth == ASSUME NEW a, NEW b, CopyList(a), CopyList(b) PROVE CopyList(a \o b)
BY CommandsBoth DEF CopyList

LEMMA CopyIf == ASSUME NEW g, NEW a, g => CopyList(a) PROVE CopyList(If(g, a))
BY CommandsIf DEF CopyList

LEMMA CopyOne == ASSUME NEW c, CopyCommand(c) PROVE CopyList(<<c>>)
BY CommandsOf DEF CopyList

LEMMA CopyTwo == ASSUME NEW c, CopyCommand(c), NEW d, CopyCommand(d) PROVE CopyList(<<c, d>>)
BY CommandsOf DEF CopyList

LEMMA CopyCp ==
  ASSUME NEW n \in OwnNames \cup ProgramNames, NEW x, ~Foreign(x), NEW checked
  PROVE  CopyCommand(Cp(x, sh.dir, n, checked))
BY DEF CopyCommand, Cp

LEMMA CopyContent ==
  ASSUME NEW what \in {"rEFInd", "icons", "sample", "shim", "MokManager", "drivers", "key"},
         NEW ver, NEW arch, NEW key
  PROVE  ~Foreign(Content(what, ver, arch, key))
BY DEF Foreign, Content

LEMMA CopyShim == ASSUME NEW n \in Shims PROVE CopyList(CopyShimFiles(n))
<1>. DEFINE o == Cp(files[<<sh.dir, n>>], sh.dir, Kept(n), FALSE)
            c == Cp(Content("shim", 0, "x64", 0), sh.dir, n, TRUE)
            d == Cp(Content("MokManager", 0, "x64", 0), sh.dir, "MokManager.efi", TRUE)
            l == If(IsFile(sh.dir, n), <<o>>) \o <<c, d>>
<1>1. CopyShimFiles(n) = If(sh.a.shim, l)
  BY DEF CopyShimFiles
<1>2. n \in ProgramNames /\ "MokManager.efi" \in ProgramNames
  BY DEF Shims, ProgramNames
<1>3. CopyCommand(c) /\ CopyCommand(d)
  BY <1>2, CopyCp, CopyContent
<1>4. IsFile(sh.dir, n) => CopyCommand(o)
  BY DEF CopyCommand, Cp, IsFile
<1>. HIDE DEF o, c, d
<1>5. CopyList(l)
  BY <1>3, <1>4, CopyOne, CopyTwo, CopyIf, CopyBoth
<1>. HIDE DEF l
<1>. QED BY <1>1, <1>5, CopyIf

LEMMA CopyDriversList == ASSUME NEW arch PROVE CopyList(CopyDrivers(arch))
<1>. DEFINE c == Cp(Content("drivers", sh.a.ver, arch, 0), sh.dir, DriversDir(arch), FALSE)
<1>1. DriversDir(arch) \in OwnNames
  BY DEF DriversDir, OwnNames
<1>2. CopyCommand(c)
  BY <1>1, CopyCp, CopyContent
<1>3. CopyDrivers(arch) = If(sh.a.drivers = "all" \/ (sh.a.drivers = "boot" /\ mach.driver), <<c>>)
  BY DEF CopyDrivers
<1>. HIDE DEF c
<1>. QED BY <1>2, <1>3, CopyOne, CopyIf

LEMMA CopyKeysList == ASSUME Placed(files) PROVE CopyList(CopyKeys) /\ CopyList(CopyAllKeys)
<1>. DEFINE c == Cp(files[<<KEYS, "cer">>], sh.dir, "local.cer", FALSE)
            d == Cp(Content("key", 0, "any", 0), sh.dir, "refind.cer", FALSE)
            l == If(IsFile(KEYS, "cer"), <<c>>)
<1>1. CopyKeys = If(sh.a.localkeys /\ IsFile(KEYS, "cer"), <<c>>) /\ CopyAllKeys = <<d>> \o l
  BY DEF CopyKeys, CopyAllKeys
<1>2. "local.cer" \in OwnNames /\ "refind.cer" \in OwnNames /\ "cer" \in OwnNames
  BY DEF OwnNames
<1>3. CopyCommand(d)
  BY <1>2, CopyCp, CopyContent
<1>4. IsFile(KEYS, "cer") => CopyCommand(c)
  <2>1. <<KEYS, "cer">>[2] = "cer"
    OBVIOUS
  <2>2. IsFile(KEYS, "cer") => ~Foreign(files[<<KEYS, "cer">>])
    BY <1>2, <2>1 DEF IsFile, Placed, MayLie
  <2>. QED BY <1>2, <2>2, CopyCp
<1>. HIDE DEF c, d
<1>5. CopyList(l) /\ CopyList(<<d>>) /\ CopyList(If(sh.a.localkeys /\ IsFile(KEYS, "cer"), <<c>>))
  BY <1>3, <1>4, CopyOne, CopyIf
<1>. HIDE DEF l
<1>. QED BY <1>1, <1>5, CopyBoth

LEMMA CopyRest == CopyList(CopyIcons) /\ CopyList(CopyConf)
<1>. DEFINE c == Rm(sh.dir, "icons-backup")
            d == Mv("mv", <<sh.dir, "icons">>, <<sh.dir, "icons-backup">>)
            e == Cp(Icons, sh.dir, "icons", TRUE)
<1>1. CopyCommand(c) /\ CopyCommand(d)
  BY DEF CopyCommand, Rm, Mv
<1>2. \A n \in {"icons", "refind.conf", "refind.conf-sample"} : n \in OwnNames
  BY DEF OwnNames
<1>3. CopyCommand(e) /\ \A n \in {"refind.conf", "refind.conf-sample"} : CopyCommand(Cp(Sample, sh.dir, n, TRUE))
  BY <1>2, CopyCp, CopyContent DEF Icons, Sample
<1>4. CopyIcons = If(IsFile(sh.dir, "icons"), <<c, d>>) \o <<e>>
  BY DEF CopyIcons
<1>. HIDE DEF c, d, e
<1>5. CopyList(If(IsFile(sh.dir, "icons"), <<c, d>>)) /\ CopyList(<<e>>)
  BY <1>1, <1>3, CopyOne, CopyTwo, CopyIf
<1>6. CopyList(CopyConf)
  BY <1>3, CopyOne DEF CopyConf
<1>. QED BY <1>4, <1>5, <1>6, CopyBoth

LEMMA CopyPrograms ==
  ASSUME sh.script = "install", Named(sh), Placed(files)
  PROVE  CopyList(ToDefault) /\ CopyList(To64) /\ CopyList(To32)
<1>. DEFINE c == Cp(Program("x64"), sh.dir, sh.x64, TRUE)
            d == Cp(Program("ia32"), sh.dir, sh.ia32, FALSE)
            e == Cp(Program("ia32"), sh.dir, sh.ia32, TRUE)
            drivers == IF sh.a.drivers = "all" THEN CopyDrivers("x64") \o CopyDrivers("ia32")
                       ELSE If(sh.upgrade, CopyDrivers(mach.cpu))
            p == <<d, c>>
            q == p \o CopyShimFiles("bootx64.efi")
            r == q \o drivers
            t == <<c>>
            u == t \o CopyDrivers("x64")
            v == u \o CopyKeys
            w == <<e>>
<1>1. sh.x64 \in ProgramNames /\ sh.ia32 \in ProgramNames /\ sh.shim \in Shims /\ "bootx64.efi" \in Shims
  BY DEF Named, ProgramNames, Shims
<1>2. CopyCommand(c) /\ CopyCommand(d) /\ CopyCommand(e)
  BY <1>1, CopyCp, CopyContent DEF Program
<1>3. /\ ToDefault = r \o CopyKeys
      /\ To64 = v \o CopyShimFiles(sh.shim)
      /\ To32 = w \o CopyDrivers("ia32")
  BY DEF ToDefault, To64, To32
<1>. HIDE DEF c, d, e
<1>4. CopyList(drivers)
  BY CopyDriversList, CopyBoth, CopyIf
<1>5. CopyList(p) /\ CopyList(t) /\ CopyList(w)
  BY <1>2, CopyOne, CopyTwo
<1>. HIDE DEF drivers, p, t, w
<1>6. CopyList(q) /\ CopyList(u)
  BY <1>1, <1>5, CopyShim, CopyDriversList, CopyBoth
<1>. HIDE DEF q, u
<1>7. CopyList(r) /\ CopyList(v)
  BY <1>4, <1>6, CopyKeysList, CopyBoth
<1>. HIDE DEF r, v
<1>. QED BY <1>1, <1>3, <1>5, <1>7, CopyShim, CopyDriversList, CopyKeysList, CopyBoth

LEMMA CopyTame ==
  ASSUME sh.script = "install", Placed(files), NEW c, CopyCommand(c), sh.dir \in {REFIND, BOOT, MSBOOT}
  PROVE  Tame(c)
<1>1. sh.dir \notin {MS, NESTED}
  BY DEF REFIND, BOOT, MSBOOT, MS, NESTED
<1>2. CASE c.op = "cp" /\ c.to[1] = sh.dir /\ c.to[2] \in OwnNames \cup ProgramNames /\ ~Foreign(c.content)
  BY <1>2 DEF Tame, Writes
<1>3. CASE \E n \in Shims : /\ c.op = "cp" /\ c.to = <<sh.dir, Kept(n)>>
                            /\ <<sh.dir, n>> \in DOMAIN files /\ c.content = files[<<sh.dir, n>>]
  <2>1. PICK n \in Shims : /\ c.op = "cp" /\ c.to = <<sh.dir, Kept(n)>>
                           /\ <<sh.dir, n>> \in DOMAIN files /\ c.content = files[<<sh.dir, n>>]
    BY <1>3
  <2>2. ASSUME Foreign(c.content) PROVE MayLie(c.to) /\ c.to[2] \in KeptNames
    <3>1. n \notin OwnNames /\ (sh.dir = REFIND => n \in RefindNames)
      <4>1. MayLie(<<sh.dir, n>>)
        BY <2>1, <2>2 DEF Placed
      <4>. QED BY <4>1 DEF MayLie
    <3>2. n # "shim.efi" /\ n \notin RefindNames
      BY <3>1 DEF OwnNames, Shims, RefindNames
    <3>3. Kept(n) \in KeptNames
      BY <3>2 DEF Shims, Kept, KeptNames
    <3>4. KeptNames \cap OwnNames = {}
      BY DEF KeptNames, OwnNames
    <3>. QED BY <2>1, <3>1, <3>2, <3>3, <3>4 DEF MayLie
  <2>. QED BY <2>1, <2>2 DEF Tame, Writes
<1>4. CASE c.op = "rm" /\ c.from = <<sh.dir, "icons-backup">>
  <2>1. "icons-backup" \in OwnNames
    BY DEF OwnNames
  <2>. QED BY <1>1, <1>4, <2>1 DEF Tame, Writes
<1>5. CASE c.op = "mv" /\ c.from = <<sh.dir, "icons">> /\ c.to = <<sh.dir, "icons-backup">>
  <2>1. "icons" \in OwnNames /\ "icons-backup" \in OwnNames
    BY DEF OwnNames
  <2>. QED BY <1>1, <1>5, <2>1 DEF Tame, Writes
<1>. QED BY <1>2, <1>3, <1>4, <1>5 DEF CopyCommand

LEMMA CopyRefindFilesGuards == ASSUME ConfInv, OthInv, CopyRefindFiles PROVE Guards
<1>. DEFINE programs == IF sh.dir = BOOT THEN ToDefault
                        ELSE IF mach.cpu = "x64" \/ sh.dir = MSBOOT THEN To64 ELSE To32
            q == programs \o CopyIcons
            r == q \o CopyAllKeys
            l == r \o CopyConf
<1>1. At("copy") /\ "copy" \in InstallSteps /\ Go("entry", l)
  BY DEF CopyRefindFiles, InstallSteps
<1>2. /\ sh.script = "install" /\ sh.todo = << >> /\ Named(sh) /\ Placed(files)
      /\ sh.dir \in {REFIND, BOOT, MSBOOT} /\ sh.pc \in InstallSteps
  BY <1>1, AtInstall DEF OthInv, At
<1>3. CopyList(programs)
  BY <1>2, CopyPrograms
<1>. HIDE DEF programs
<1>4. CopyList(q)
  BY <1>3, CopyRest, CopyBoth
<1>. HIDE DEF q
<1>5. CopyList(r)
  BY <1>2, <1>4, CopyKeysList, CopyBoth
<1>. HIDE DEF r
<1>6. CopyList(l)
  BY <1>5, CopyRest, CopyBoth
<1>. HIDE DEF l
<1>7. /\ sh'.pc = "entry" /\ sh'.todo = l /\ sh'.script = sh.script /\ sh'.dir = sh.dir
      /\ sh'.a = sh.a /\ sh'.upgrade = sh.upgrade /\ files' = files
  BY <1>1, <1>2 DEF Go, ConfInv, Fields
<1>8. \A c \in Commands(sh'.todo) : Tame(c)
  BY <1>2, <1>6, <1>7, CopyTame DEF CopyList
<1>9. sh'.pc \notin InstallSteps /\ sh'.pc # "target"
  BY <1>7 DEF InstallSteps
<1>10. ASSUME sh.dir = BOOT, DefaultFree(files), NEW c \in Commands(sh'.todo)
       PROVE  /\ Writes(c) => c.to[2] \in OwnNames \cup ProgramNames
              /\ c.op \in {"mv", "mv-n"} => c.to[2] \in OwnNames
  <2>1. CopyCommand(c)
    BY <1>6, <1>7, <1>10 DEF CopyList
  <2>2. \A n \in Shims : <<sh.dir, n>> \notin DOMAIN files
    <3>1. Shims \subseteq ProgramNames
      BY DEF Shims, ProgramNames
    <3>. QED BY <1>2, <1>10, <3>1 DEF DefaultFree
  <2>3. "icons-backup" \in OwnNames
    BY DEF OwnNames
  <2>4. Writes(c) => c.to[2] \in OwnNames \cup ProgramNames
    BY <2>1, <2>2 DEF CopyCommand, Writes
  <2>5. c.op = "mv" => c.to = <<sh.dir, "icons-backup">>
    BY <2>1 DEF CopyCommand
  <2>6. c.op # "mv-n"
    BY <2>1 DEF CopyCommand
  <2>. QED BY <2>3, <2>4, <2>5, <2>6
<1>. QED BY <1>2, <1>7, <1>8, <1>9, <1>10, GoesOn

-----------------------------------------------------------------------------
\* Boot entries and options, and the other scripts.

LEMMA EntryGuards ==
  ASSUME ConfInv, OthInv, NEW path, NEW next \in {"options", "done"},
         sh.pc \in CopySteps, sh.todo = << >>,
         AddBootEntry(path, next) \/ CreateEntry(path, next)
  PROVE  Guards
<1>1. files' = files
  BY DEF AddBootEntry, CreateEntry
<1>2. PICK p \in {"create", next} : \E q : \/ sh' = [sh EXCEPT !.pc = p, !.problems = q]
                                            \/ sh' = [sh EXCEPT !.pc = p]
  BY Zenon DEF AddBootEntry, CreateEntry
<1>3. /\ sh'.pc = p /\ sh'.todo = << >> /\ sh'.script = sh.script /\ sh'.dir = sh.dir
      /\ sh.script = "install" => sh'.a = sh.a /\ sh'.upgrade = sh.upgrade
  BY <1>2 DEF ConfInv, Fields
<1>4. p \notin InstallSteps /\ p # "target"
  BY DEF InstallSteps
<1>. QED BY <1>1, <1>3, <1>4, CommandsOf, GoesOn

LEMMA EntriesGuards ==
  ASSUME ConfInv, OthInv, InstallEntry \/ AddNvramEntry \/ NoEntry \/ Bless PROVE Guards
<1>1. CASE InstallEntry
  BY <1>1, EntryGuards DEF InstallEntry, At, CopySteps
<1>2. CASE AddNvramEntry
  BY <1>2, EntryGuards DEF AddNvramEntry, At, CopySteps
<1>3. CASE NoEntry
  BY <1>3, GoesQuietly DEF NoEntry, At, InstallSteps
<1>4. CASE Bless
  <2>1. /\ files' = files /\ sh.todo = << >>
        /\ \/ sh' = [sh EXCEPT !.pc = "done"]
           \/ sh' = [sh EXCEPT !.pc = "done", !.problems = TRUE]
    BY <1>4 DEF Bless, At
  <2>2. /\ sh'.pc = "done" /\ sh'.todo = << >> /\ sh'.script = sh.script /\ sh'.dir = sh.dir
        /\ sh.script = "install" => sh'.a = sh.a /\ sh'.upgrade = sh.upgrade
    BY <2>1 DEF ConfInv, Fields
  <2>3. "done" \notin InstallSteps
    BY DEF InstallSteps
  <2>. QED BY <2>1, <2>2, <2>3, CommandsOf, GoesOn
<1>. QED BY <1>1, <1>2, <1>3, <1>4

\* The lines of refind_linux.conf.
LEMMA OptionsTame ==
  LET l == [i \in 1 .. 2 |-> Cp(Content("options", i, "any", 0), LINUX, "refind_linux.conf", FALSE)]
  IN  \A c \in Commands(l) :
        /\ c.op = "cp" /\ c.to = <<LINUX, "refind_linux.conf">> /\ "refind_linux.conf" \in OwnNames
        /\ ~Foreign(c.content)
<1>. DEFINE Line(i) == Cp(Content("options", i, "any", 0), LINUX, "refind_linux.conf", FALSE)
            l == [i \in 1 .. 2 |-> Line(i)]
<1>1. \A i : /\ Line(i).op = "cp" /\ Line(i).to = <<LINUX, "refind_linux.conf">>
             /\ ~Foreign(Line(i).content)
  BY DEF Cp, Foreign, Content
<1>2. "refind_linux.conf" \in OwnNames
  BY DEF OwnNames
<1>. HIDE DEF Line
<1>3. \A i \in 1 .. Len(l) : l[i] = Line(i)
  BY LenProperties
<1>. HIDE DEF l
<1>4. \A c \in Commands(l) :
        c.op = "cp" /\ c.to = <<LINUX, "refind_linux.conf">> /\ ~Foreign(c.content)
  BY <1>1, <1>3 DEF Commands
<1>. QED BY <1>2, <1>4 DEF l, Line

LEMMA OptionsGuards == ASSUME ConfInv, OthInv, GenerateRefindLinuxConf PROVE Guards
<1>. DEFINE m == [i \in 1 .. 2 |-> Cp(Content("options", i, "any", 0), LINUX, "refind_linux.conf", FALSE)]
            g == ~IsFile(LINUX, "refind_linux.conf")
            l == If(g, m)
<1>1. /\ IsList(m)
      /\ \A c \in Commands(m) :
           /\ c.op = "cp" /\ c.to = <<LINUX, "refind_linux.conf">> /\ "refind_linux.conf" \in OwnNames
           /\ ~Foreign(c.content)
  BY OptionsSpare, OptionsTame
<1>2. Go("done", l) /\ sh.todo = << >>
  BY DEF GenerateRefindLinuxConf, At
<1>. HIDE DEF m, g
<1>3. \A c \in Commands(l) :
        /\ c.op = "cp" /\ c.to = <<LINUX, "refind_linux.conf">> /\ "refind_linux.conf" \in OwnNames
        /\ ~Foreign(c.content)
  BY <1>1, CommandsIf
<1>. HIDE DEF l
<1>4. /\ sh'.pc = "done" /\ sh'.todo = l /\ sh'.script = sh.script /\ sh'.dir = sh.dir /\ files' = files
      /\ sh.script = "install" => sh'.a = sh.a /\ sh'.upgrade = sh.upgrade
  BY <1>2 DEF Go, ConfInv, Fields
<1>5. \A c \in Commands(sh'.todo) :
        Tame(c) /\ c.to[2] \in OwnNames /\ c.op \notin {"mv", "mv-n"}
  BY <1>3, <1>4 DEF Tame, Writes
<1>6. "done" \notin InstallSteps
  BY DEF InstallSteps
<1>. QED BY <1>2, <1>4, <1>5, <1>6, GoesOn

LEMMA MoveGuards == ASSUME ConfInv, OthInv, NEW src, NEW dst, Move(src, dst) PROVE Guards
<1>1. /\ sh'.script = "mvrefind" /\ sh'.pc = "backup" /\ sh'.todo = << >> /\ files' = files
  BY DEF Move
<1>2. OthInv'
  BY <1>1, CommandsOf DEF OthInv, Fresh
<1>. QED BY <1>1, <1>2, SameFilesSameOthers, KeptGuards

LEMMA BackUpTargetGuards == ASSUME ConfInv, OthInv, BackUpTarget PROVE Guards
<1>1. /\ sh.script = "mvrefind" /\ sh.todo = << >> /\ InPlace(files) /\ Fields /\ Placed(files)
      /\ "move" \notin InstallSteps
  BY DEF BackUpTarget, At, ConfInv, MoveSteps, InstallSteps, OthInv
<1>2. CASE Exit
  BY <1>2, ExitGuards
<1>3. CASE Go("move", << >>)
  BY <1>1, <1>3, GoesQuietly
<1>4. CASE /\ files' = MovedDir(files, BOOT, BACKUP, NESTED)
           /\ sh' = [sh EXCEPT !.pc = "move"]
  <2>1. sh'.script = "mvrefind" /\ sh'.pc = "move" /\ sh'.todo = << >>
    BY <1>1, <1>4 DEF Fields
  <2>2. Placed(files') /\ Others \subseteq Others'
    BY <1>1, <1>4, DirMovedOthers
  <2>3. OthInv'
    BY <2>1, <2>2, CommandsOf DEF OthInv, Fresh
  <2>. QED BY <2>2, <2>3, KeptGuards
<1>. QED BY <1>2, <1>3, <1>4 DEF BackUpTarget

LEMMA TenIn ==
  ASSUME NEW c1, NEW c2, NEW c3, NEW c4, NEW c5, NEW c6, NEW c7, NEW c8, NEW c9, NEW c10
  PROVE  <<c1, c2, c3, c4, c5, c6, c7, c8, c9, c10>>
           \in Seq({c1, c2, c3, c4, c5, c6, c7, c8, c9, c10})
OBVIOUS

\* Where a move puts the programs.
LEMMA MovedNames ==
  /\ \A d : MayLie(<<d, Name64(d)>>) /\ MayLie(<<d, Name32(d)>>)
  /\ \A d : ~Standard(d) => Name64(d) \in RefindNames /\ Name32(d) \in RefindNames
<1>1. ASSUME NEW d
      PROVE  /\ Name64(d) \in {"bootx64.efi", "bootmgfw.efi", "refind_x64.efi"}
             /\ Name32(d) \in {"bootia32.efi", "refind_ia32.efi"}
             /\ ~Standard(d) => Name64(d) \in RefindNames /\ Name32(d) \in RefindNames
  BY Zenon DEF Name64, Name32, Standard, RefindNames
<1>2. ~Standard(REFIND)
  BY DEF Standard, REFIND, BOOT, MSBOOT
<1>3. \A n \in {"bootx64.efi", "bootmgfw.efi", "refind_x64.efi", "bootia32.efi", "refind_ia32.efi"} :
        n \notin OwnNames
  BY DEF OwnNames
<1>4. ASSUME NEW d PROVE MayLie(<<d, Name64(d)>>) /\ MayLie(<<d, Name32(d)>>)
  BY <1>1, <1>2, <1>3 DEF MayLie
<1>. QED BY <1>1, <1>4

LEMMA MoveFilesGuards == ASSUME ConfInv, OthInv, MoveFiles PROVE Guards
<1>. DEFINE l == <<MoveDir("icons"), MoveDir("icons-backup"), MoveDir("drivers_x64"),
                   MoveDir("drivers_ia32"), MoveDir("refind.cer"), MoveDir("local.cer"),
                   MoveFile(Name64(sh.src), Name64(sh.dir)), MoveFile(Name32(sh.src), Name32(sh.dir)),
                   MoveFile("refind.conf", "refind.conf"),
                   MoveFile("refind.conf-sample", "refind.conf-sample")>>
<1>1. Go("entry", l) /\ sh.script = "mvrefind" /\ sh.todo = << >>
  BY DEF MoveFiles, At, ConfInv, MoveSteps
<1>2. \A n, m : /\ MoveDir(n).op = "mv-n" /\ MoveDir(n).from = <<sh.src, n>> /\ MoveDir(n).to = <<sh.dir, n>>
                /\ MoveFile(n, m).op = "mv" /\ MoveFile(n, m).from = <<sh.src, n>>
                /\ MoveFile(n, m).to = <<sh.dir, m>>
  BY DEF MoveDir, MoveFile, Mv
<1>3. ASSUME NEW n \in OwnNames PROVE Tame(MoveDir(n)) /\ Tame(MoveFile(n, n))
  BY <1>1, <1>2, <1>3 DEF Tame, Writes
<1>4. ASSUME NEW n, NEW m, MayLie(<<sh.dir, m>>), ~Standard(sh.dir) => m \in RefindNames
      PROVE  Tame(MoveFile(n, m))
  <2>. DEFINE c == MoveFile(n, m)
  <2>1. c.op = "mv" /\ c.to = <<sh.dir, m>>
    BY <1>2
  <2>. HIDE DEF c
  <2>2. MayLie(c.to) /\ (~Standard(sh.dir) => c.to[2] \in RefindNames)
    BY <1>4, <2>1
  <2>3. ~Writes(c)
    BY <2>1 DEF Writes
  <2>4. Tame(c)
    BY <1>1, <2>1, <2>2, <2>3 DEF Tame
  <2>. QED BY <2>4 DEF c
<1>5. \A n \in {"icons", "icons-backup", "drivers_x64", "drivers_ia32", "refind.cer", "local.cer",
                 "refind.conf", "refind.conf-sample"} : n \in OwnNames
  BY DEF OwnNames
<1>6. /\ Tame(MoveDir("icons")) /\ Tame(MoveDir("icons-backup")) /\ Tame(MoveDir("drivers_x64"))
      /\ Tame(MoveDir("drivers_ia32")) /\ Tame(MoveDir("refind.cer")) /\ Tame(MoveDir("local.cer"))
      /\ Tame(MoveFile(Name64(sh.src), Name64(sh.dir)))
      /\ Tame(MoveFile(Name32(sh.src), Name32(sh.dir)))
      /\ Tame(MoveFile("refind.conf", "refind.conf"))
      /\ Tame(MoveFile("refind.conf-sample", "refind.conf-sample"))
  BY <1>3, <1>4, <1>5, MovedNames
<1>7. \A c \in Commands(l) : Tame(c)
  <2>1. l \in Seq({MoveDir("icons"), MoveDir("icons-backup"), MoveDir("drivers_x64"),
                   MoveDir("drivers_ia32"), MoveDir("refind.cer"), MoveDir("local.cer"),
                   MoveFile(Name64(sh.src), Name64(sh.dir)), MoveFile(Name32(sh.src), Name32(sh.dir)),
                   MoveFile("refind.conf", "refind.conf"),
                   MoveFile("refind.conf-sample", "refind.conf-sample")})
    BY TenIn
  <2>. HIDE DEF l
  <2>2. \A i \in 1 .. Len(l) : Tame(l[i])
    BY <1>6, <2>1, ElementOfSeq
  <2>. QED BY <2>2 DEF Commands
<1>. HIDE DEF l
<1>8. sh'.script = "mvrefind" /\ sh'.pc = "entry" /\ sh'.dir = sh.dir /\ sh'.todo = l /\ files' = files
  BY <1>1, GoFields
<1>9. sh.script # "install" /\ ~Fresh /\ sh'.pc # "target"
  BY <1>1, <1>8 DEF Fresh
<1>. QED BY <1>1, <1>7, <1>8, <1>9, GoesOn

LEMMA MkRlConfGuards == ASSUME ConfInv, OthInv, NEW force, MkRlConf(force) PROVE Guards
<1>. DEFINE l == [i \in 1 .. 2 |-> Cp(Content("options", i, "any", 0), LINUX, "refind_linux.conf", FALSE)]
<1>1. \A c \in Commands(l) :
        /\ c.op = "cp" /\ c.to = <<LINUX, "refind_linux.conf">> /\ "refind_linux.conf" \in OwnNames
        /\ ~Foreign(c.content)
  BY OptionsTame
<1>2. sh' = [Idle EXCEPT !.pc = "rlconf", !.todo = l] /\ files' = files
  BY DEF MkRlConf
<1>. HIDE DEF l
<1>3. sh'.script = "none" /\ sh'.pc = "rlconf" /\ sh'.todo = l
  BY <1>2 DEF Idle
<1>4. \A c \in Commands(sh'.todo) : Tame(c)'
  BY <1>1, <1>3 DEF Tame, Writes
<1>5. OthInv'
  BY <1>2, <1>3, <1>4 DEF OthInv, Fresh
<1>. QED BY <1>2, <1>5, SameFilesSameOthers, KeptGuards

\* Between the scripts.
LEMMA BesideGuards == ASSUME ConfInv, OthInv, NEW d, UserEdits(d) \/ WindowsRepairs PROVE Guards
<1>1. sh.pc = "idle" /\ sh.script = "none" /\ sh.todo = << >> /\ sh' = sh
  BY DEF UserEdits, WindowsRepairs, ConfInv
<1>2. PICK q, x : /\ files' = With(files, q, x)
                  /\ Foreign(x) => q = <<MSBOOT, "bootmgfw.efi">>
  <2>1. CASE UserEdits(d)
    <3>. DEFINE edited == Content("mine", 1 + Max({0} \cup { m.ver : m \in Mine }), "any", 0)
    <3>1. files' = With(files, <<d, "refind.conf">>, edited) /\ ~Foreign(edited)
      BY <2>1 DEF UserEdits, Foreign, Content
    <3>. HIDE DEF edited
    <3>. QED BY <3>1
  <2>2. CASE WindowsRepairs
    BY <2>2 DEF WindowsRepairs
  <2>. QED BY <2>1, <2>2
<1>3. MayLie(<<MSBOOT, "bootmgfw.efi">>)
  <2>1. "bootmgfw.efi" \notin OwnNames /\ MSBOOT # REFIND
    BY DEF OwnNames, MSBOOT, REFIND
  <2>. QED BY <2>1 DEF MayLie
<1>4. /\ DOMAIN files' = {q} \cup DOMAIN files /\ files'[q] = x
      /\ \A p \in DOMAIN files : p # q => files'[p] = files[p]
  BY <1>2 DEF With
<1>5. Placed(files')
  BY <1>2, <1>3, <1>4 DEF OthInv, Placed
<1>6. OthInv'
  BY <1>1, <1>5, CommandsOf DEF OthInv, Fresh
<1>. QED BY <1>1, <1>6 DEF Guards

LEMMA OthInit == Init => OthInv
<1>. SUFFICES ASSUME Init PROVE OthInv
  OBVIOUS
<1>1. PICK s \in Starts : files = s.files
  BY DEF Init
<1>2. sh.script = "none" /\ sh.pc = "idle" /\ sh.todo = << >>
  BY DEF Init, Idle
<1>3. \A n \in {"bootx64.efi", "bootia32.efi", "grubx64.efi", "bootmgfw.efi"} : n \notin OwnNames
  BY DEF OwnNames
<1>4. REFIND \notin {BOOT, MSBOOT, MS}
  BY DEF REFIND, BOOT, MSBOOT, MS
<1>5. Placed(files)
  BY <1>1, <1>3, <1>4, OthersAssumption DEF Placed, MayLie
<1>6. Commands(sh.todo) = {}
  BY <1>2 DEF Commands
<1>. QED BY <1>2, <1>5, <1>6 DEF OthInv, Fresh

LEMMA OthNext == ASSUME ConfInv, OthInv, [Next]_vars PROVE Guards
<1>1. CASE InstallNext
  <2>1. CASE \E a \in Packages : Install(a)
    BY <2>1, InstallGuards
  <2>2. CASE Command \/ \E torn \in BOOLEAN : CommandFails(torn)
    BY <2>2, CommandGuards
  <2>3. CASE Kill \/ Finish
    BY <2>3, ExitGuards DEF Finish
  <2>4. CASE FindTarget \/ TakeWindows \/ TakeDefault \/ ReplaceDefault
    BY <2>4, FindTargetGuards, TakesGuards
  <2>5. CASE CheckCpu \/ ReSignBinaries \/ SignBinaries \/ CheckSecureBoot
    BY <2>5, ChecksGuards
  <2>6. CASE CopyRefindFiles
    BY <2>6, CopyRefindFilesGuards
  <2>7. CASE Bless \/ NoEntry \/ InstallEntry
    BY <2>7, EntriesGuards
  <2>8. CASE GenerateRefindLinuxConf
    BY <2>8, OptionsGuards
  <2>. QED BY <1>1, <2>1, <2>2, <2>3, <2>4, <2>5, <2>6, <2>7, <2>8 DEF InstallNext
<1>2. CASE \E src, dst \in {REFIND, BOOT, MSBOOT, Elsewhere} : Move(src, dst)
  BY <1>2, MoveGuards
<1>3. CASE BackUpTarget \/ MoveFiles
  BY <1>3, BackUpTargetGuards, MoveFilesGuards
<1>4. CASE AddNvramEntry
  BY <1>4, EntriesGuards
<1>5. CASE \E force \in BOOLEAN : MkRlConf(force)
  BY <1>5, MkRlConfGuards
<1>6. CASE MkRlConfEnds
  BY <1>6, ExitGuards DEF MkRlConfEnds
<1>7. CASE (\E d \in Esp \cup {Elsewhere} : UserEdits(d)) \/ WindowsRepairs
  <2>1. CASE \E d \in Esp \cup {Elsewhere} : UserEdits(d)
    BY <2>1, BesideGuards
  <2>2. CASE WindowsRepairs
    BY <2>2, BesideGuards
  <2>. QED BY <1>7, <2>1, <2>2
<1>8. CASE UNCHANGED vars
  <2>1. sh' = sh /\ files' = files
    BY <1>8 DEF vars
  <2>2. OthInv'
    BY <2>1 DEF OthInv, Fresh, Tame, WindowsAway, DefaultFree, IsDir, IsFile
  <2>. QED BY <2>1, <2>2, SameFilesSameOthers, KeptGuards
<1>. QED BY <1>1, <1>2, <1>3, <1>4, <1>5, <1>6, <1>7, <1>8 DEF Next

(* The scripts keep a loader of another system, or give the last of its    *)
(* kind up only where they say so: on all machines, with all packages, for *)
(* any number of runs and failures.                                        *)
THEOREM SetupOthersKept == Spec => OthersKept
<1>1. Init => ConfInv /\ OthInv
  BY ConfInit, OthInit
<1>2. ConfInv /\ OthInv /\ [Next]_vars => (ConfInv /\ OthInv)'
  BY ConfNext, OthNext DEF Keeps, Guards
<1>3. ConfInv /\ OthInv /\ [Next]_vars =>
        [sh.pc = "idle" \/ \A k \in Others \ Others' : GivenUp(k)]_vars
  BY OthNext DEF Guards
<1>. QED BY <1>1, <1>2, <1>3, PTL DEF Spec, OthersKept

-----------------------------------------------------------------------------
(* Proofs: what makes rEFInd boot. From the list of copies, or of moves,   *)
(* on, every place that matters has its content or a command to come gives *)
(* it, and none after that one takes it away; a copy that fails is         *)
(* reported. The boot entry of the place comes first once it was made.     *)

\* A command that gives a place this content: a copy, the move of a file from
\* elsewhere, or one that is not done because the place has it.
Gives(c, f, p, x) ==
  /\ c.to = p
  /\ \/ c.op = "cp" /\ c.checked /\ c.content = x
     \/ c.op \in {"mv", "mv-n"} /\ c.from \in DOMAIN f /\ f[c.from] = x /\ c.from # p
        /\ (c.op = "mv-n" => p \notin DOMAIN f)
     \/ c.op = "mv-n" /\ p \in DOMAIN f /\ f[p] = x

Leaves(c, p) == Spares(c, {p})

\* What the commands make of a place: this content.
Ends(f, s, p, x) ==
  \/ p \in DOMAIN f /\ f[p] = x /\ \A j \in 1 .. Len(s) : Leaves(s[j], p)
  \/ \E i \in 1 .. Len(s) :
       /\ Gives(s[i], f, p, x)
       /\ \A j \in 1 .. i - 1 : s[i].op # "cp" => Leaves(s[j], p) /\ Leaves(s[j], s[i].from)
       /\ \A j \in i + 1 .. Len(s) : Leaves(s[j], p)

\* The names of the programs that a command line asks for.
Fits(s) ==
  ~s.double =>
    /\ s.dir = REFIND =>
         /\ s.x64 = (IF s.a.shim THEN "grubx64.efi" ELSE "refind_x64.efi")
         /\ s.ia32 = "refind_ia32.efi" /\ s.shim = "shim.efi"
    /\ s.dir = BOOT => s.x64 = (IF s.a.shim THEN "grubx64.efi" ELSE "bootx64.efi")
    /\ s.dir = MSBOOT => /\ s.x64 = (IF s.a.shim THEN "grubx64.efi" ELSE "bootmgfw.efi")
                         /\ s.a.shim => s.shim = "bootmgfw.efi"

Place ==
  IF sh.script = "mvrefind" THEN MovedEntry
  ELSE <<sh.dir, IF mach.cpu = "ia32" THEN sh.ia32 ELSE sh.x64>>
ShimPlace == <<sh.dir, IF sh.dir = BOOT THEN "bootx64.efi" ELSE sh.shim>>

Arrives ==
  /\ \E x : /\ Ends(files, sh.todo, Place, x)
            /\ x.what = "rEFInd" /\ x.arch = mach.cpu /\ (sh.script = "install" => x.ver = sh.a.ver)
  /\ sh.script = "install" /\ sh.a.shim /\ mach.cpu = "x64" =>
       \E x : Ends(files, sh.todo, ShimPlace, x) /\ x.what = "shim" /\ x.arch = "x64"
  /\ \A n \in {"icons", "refind.conf"} : \E x : Ends(files, sh.todo, <<sh.dir, n>>, x)

First(path) == 1 \in DOMAIN nvram /\ nvram[1] = path

BootInv ==
  /\ IsList(nvram) /\ mach \in Machines
  /\ sh.script = "install" => Fits(sh) /\ (sh.pc = "target" => ~sh.double)
  /\ sh.pc = "options" => sh.script = "install"
  /\ sh.script = "install" /\ sh.pc \notin {"target", "cpu"} => mach.cpu \in {"x64", "ia32"}
  /\ sh.script = "mvrefind" => sh.src # sh.dir
  /\ sh.script = "mvrefind" /\ sh.pc \in MoveSteps /\ sh.rEFInd => HasRefind(sh.src) /\ HasConf(sh.src)
  /\ sh.script # "none" /\ sh.pc \in CopySteps /\ ~Doubtful => sh.problems \/ Arrives
  /\ sh.script = "install" /\ sh.dir = REFIND /\ sh.pc \in {"options", "done"} =>
       sh.problems \/ First(<<sh.dir, Refind>>)
  /\ sh.script = "mvrefind" /\ sh.pc = "done" => sh.problems \/ First(MovedEntry)

-----------------------------------------------------------------------------
\* What a command does to what is to come.

LEMMA GivesNow ==
  ASSUME NEW f, NEW c, NEW p, NEW x, Gives(c, f, p, x)
  PROVE  p \in DOMAIN Executed(f, c) /\ Executed(f, c)[p] = x
<1>1. CASE c.op = "cp" /\ c.content = x
  <2>1. Executed(f, c) = With(f, p, x)
    BY <1>1 DEF Executed, Gives
  <2>. QED BY <2>1 DEF With
<1>2. CASE c.op \in {"mv", "mv-n"} /\ c.from \in DOMAIN f /\ f[c.from] = x /\ (c.op = "mv-n" => p \notin DOMAIN f)
  <2>1. Executed(f, c) = Moved(f, c.from, p)
    BY <1>2 DEF Executed, Gives
  <2>2. Executed(f, c) = With(Without(f, {c.from}), p, x)
    BY <1>2, <2>1 DEF Moved
  <2>. QED BY <2>2 DEF With
<1>3. CASE c.op = "mv-n" /\ p \in DOMAIN f /\ f[p] = x
  <2>1. Executed(f, c) = f
    BY <1>3 DEF Executed, Gives
  <2>. QED BY <1>3, <2>1
<1>. QED BY <1>1, <1>2, <1>3 DEF Gives

\* A step that leaves alone what this command spares.
Same(f, e, q) == (q \in DOMAIN e <=> q \in DOMAIN f) /\ (q \in DOMAIN f => e[q] = f[q])
Heeds(c, f, e) == \A q : Leaves(c, q) => Same(f, e, q)

LEMMA GivesStill ==
  ASSUME NEW f, NEW e, NEW c, NEW p, NEW x, Gives(c, f, p, x),
         c.op # "cp" => Same(f, e, p) /\ Same(f, e, c.from)
  PROVE  Gives(c, e, p, x)
BY DEF Gives, Same

\* The first command of a list is done, or it fails and spares what a copy does.
LEMMA EndsOn ==
  ASSUME NEW f, NEW s, IsList(s), s # << >>, NEW p, NEW x, Ends(f, s, p, x), NEW e,
         Heeds(Head(s), f, e), Gives(Head(s), f, p, x) => (p \in DOMAIN e /\ e[p] = x)
  PROVE  Ends(e, Tail(s), p, x)
<1>. DEFINE t == Tail(s)
            c == Head(s)
<1>1. /\ c = s[1] /\ Len(s) \in Nat /\ Len(s) > 0 /\ Len(t) = Len(s) - 1
      /\ \A i \in 1 .. Len(s) - 1 : t[i] = s[i + 1]
  BY CommandsRest
<1>0. Heeds(c, f, e)
  OBVIOUS
<1>. HIDE DEF t, c
<1>2. CASE p \in DOMAIN f /\ f[p] = x /\ \A j \in 1 .. Len(s) : Leaves(s[j], p)
  <2>1. Leaves(c, p)
    BY <1>1, <1>2
  <2>2. Same(f, e, p)
    BY <1>0, <2>1 DEF Heeds
  <2>4. p \in DOMAIN e /\ e[p] = x
    BY <1>2, <2>2 DEF Same
  <2>3. \A j \in 1 .. Len(t) : Leaves(t[j], p)
    BY <1>1, <1>2
  <2>. QED BY <2>3, <2>4 DEF Ends, t
<1>3. CASE \E i \in 1 .. Len(s) :
             /\ Gives(s[i], f, p, x)
             /\ \A j \in 1 .. i - 1 : s[i].op # "cp" => Leaves(s[j], p) /\ Leaves(s[j], s[i].from)
             /\ \A j \in i + 1 .. Len(s) : Leaves(s[j], p)
  <2>1. PICK i \in 1 .. Len(s) :
             /\ Gives(s[i], f, p, x)
             /\ \A j \in 1 .. i - 1 : s[i].op # "cp" => Leaves(s[j], p) /\ Leaves(s[j], s[i].from)
             /\ \A j \in i + 1 .. Len(s) : Leaves(s[j], p)
    BY <1>3
  <2>2. CASE i = 1
    <3>1. p \in DOMAIN e /\ e[p] = x
      BY <1>1, <2>1, <2>2 DEF c
    <3>2. \A j \in 1 .. Len(t) : Leaves(t[j], p)
      BY <1>1, <2>1, <2>2
    <3>. QED BY <3>1, <3>2 DEF Ends, t
  <2>3. CASE i # 1
    <3>. DEFINE k == i - 1
    <3>1. k \in 1 .. Len(t) /\ t[k] = s[i] /\ i = k + 1
      BY <1>1, <2>3
    <3>2. s[i].op # "cp" => Leaves(c, p) /\ Leaves(c, s[i].from)
      BY <1>1, <2>1, <2>3
    <3>6. s[i].op # "cp" => Same(f, e, p) /\ Same(f, e, s[i].from)
      BY <1>0, <3>2 DEF Heeds
    <3>3. Gives(t[k], e, p, x)
      BY <2>1, <3>1, <3>6, GivesStill
    <3>4. \A j \in 1 .. k - 1 : t[k].op # "cp" => Leaves(t[j], p) /\ Leaves(t[j], t[k].from)
      BY <1>1, <2>1, <3>1, SMTT(40)
    <3>5. \A j \in k + 1 .. Len(t) : Leaves(t[j], p)
      BY <1>1, <2>1, <3>1
    <3>. HIDE DEF k
    <3>. QED BY <3>1, <3>3, <3>4, <3>5 DEF Ends, t
  <2>. QED BY <2>2, <2>3
<1>. QED BY <1>2, <1>3 DEF Ends

LEMMA EndsExecuted ==
  ASSUME NEW f, NEW s, IsList(s), s # << >>, NEW p, NEW x, Ends(f, s, p, x)
  PROVE  Ends(Executed(f, Head(s)), Tail(s), p, x)
<1>. DEFINE e == Executed(f, Head(s))
<1>1. Heeds(Head(s), f, e)
  BY SparedStays DEF Heeds, Same, Leaves
<1>2. Gives(Head(s), f, p, x) => p \in DOMAIN e /\ e[p] = x
  BY GivesNow
<1>. HIDE DEF e
<1>3. Ends(e, Tail(s), p, x)
  BY <1>1, <1>2, EndsOn
<1>. QED BY <1>3 DEF e

LEMMA EndsFailed ==
  ASSUME NEW f, NEW s, IsList(s), s # << >>, NEW p, NEW x, Ends(f, s, p, x),
         Head(s).op = "cp", ~Head(s).checked, NEW e, e = f \/ e = With(f, Head(s).to, Torn)
  PROVE  Ends(e, Tail(s), p, x)
<1>. DEFINE c == Head(s)
<1>1. ASSUME NEW q, Leaves(c, q) PROVE Same(f, e, q)
  <2>1. q # c.to
    BY <1>1 DEF Leaves, Spares
  <2>. QED BY <2>1 DEF Same, With
<1>2. Heeds(c, f, e)
  BY <1>1 DEF Heeds
<1>3. ~Gives(c, f, p, x)
  BY DEF Gives
<1>. QED BY <1>2, <1>3, EndsOn

-----------------------------------------------------------------------------
\* Lists that bring a content with a copy that is checked, or leave a place alone.

Off(s, p) == IsList(s) /\ \A c \in Commands(s) : Leaves(c, p)

Brings(c, p, x) == c.op = "cp" /\ c.checked /\ c.to = p /\ c.content = x

Brought(s, p, x) ==
  IsList(s) /\ \E i \in 1 .. Len(s) : Brings(s[i], p, x) /\ \A j \in i + 1 .. Len(s) : Leaves(s[j], p)

LEMMA OffBoth == ASSUME NEW p, NEW a, NEW b, Off(a, p), Off(b, p) PROVE Off(a \o b, p)
BY CommandsBoth DEF Off

LEMMA OffIf == ASSUME NEW p, NEW g, NEW a, g => Off(a, p) PROVE Off(If(g, a), p)
BY CommandsIf DEF Off

LEMMA OffOne == ASSUME NEW p, NEW c, Leaves(c, p) PROVE Off(<<c>>, p)
BY CommandsOf DEF Off

LEMMA OffTwo == ASSUME NEW p, NEW c, Leaves(c, p), NEW d, Leaves(d, p) PROVE Off(<<c, d>>, p)
BY CommandsOf DEF Off

LEMMA OffAt == ASSUME NEW s, NEW p, Off(s, p), NEW i \in 1 .. Len(s) PROVE Leaves(s[i], p)
BY DEF Off, Commands

LEMMA BroughtOne == ASSUME NEW p, NEW x, NEW c, Brings(c, p, x) PROVE Brought(<<c>>, p, x)
<1>. DEFINE l == <<c>>
<1>1. IsList(l) /\ Len(l) = 1 /\ l[1] = c
  BY CommandsOf
<1>. HIDE DEF l
<1>2. Brought(l, p, x)
  BY <1>1 DEF Brought
<1>. QED BY <1>2 DEF l

LEMMA BroughtAfter ==
  ASSUME NEW p, NEW x, NEW a, IsList(a), NEW b, Brought(b, p, x) PROVE Brought(a \o b, p, x)
<1>. DEFINE s == a \o b
<1>1. PICK i \in 1 .. Len(b) : Brings(b[i], p, x) /\ \A j \in i + 1 .. Len(b) : Leaves(b[j], p)
  BY DEF Brought
<1>2. /\ IsList(s) /\ Len(s) = Len(a) + Len(b) /\ Len(a) \in Nat /\ Len(b) \in Nat
      /\ \A j \in 1 .. Len(s) : s[j] = IF j <= Len(a) THEN a[j] ELSE b[j - Len(a)]
  BY Joined DEF Brought
<1>. HIDE DEF s
<1>. DEFINE k == i + Len(a)
<1>3. k \in 1 .. Len(s) /\ ~(k <= Len(a)) /\ k - Len(a) = i
  BY <1>2
<1>4. s[k] = b[i]
  BY <1>2, <1>3
<1>5. ASSUME NEW j \in k + 1 .. Len(s) PROVE Leaves(s[j], p)
  <2>1. j \in 1 .. Len(s) /\ ~(j <= Len(a)) /\ j - Len(a) \in i + 1 .. Len(b)
    BY <1>2
  <2>2. s[j] = b[j - Len(a)]
    BY <1>2, <2>1
  <2>. QED BY <1>1, <2>1, <2>2
<1>. HIDE DEF k
<1>6. Brought(s, p, x)
  BY <1>1, <1>2, <1>3, <1>4, <1>5 DEF Brought
<1>. QED BY <1>6 DEF s

LEMMA BroughtBefore ==
  ASSUME NEW p, NEW x, NEW a, Brought(a, p, x), NEW b, Off(b, p) PROVE Brought(a \o b, p, x)
<1>. DEFINE s == a \o b
<1>1. PICK i \in 1 .. Len(a) : Brings(a[i], p, x) /\ \A j \in i + 1 .. Len(a) : Leaves(a[j], p)
  BY DEF Brought
<1>2. /\ IsList(s) /\ Len(s) = Len(a) + Len(b) /\ Len(a) \in Nat /\ Len(b) \in Nat
      /\ \A j \in 1 .. Len(s) : s[j] = IF j <= Len(a) THEN a[j] ELSE b[j - Len(a)]
  BY Joined DEF Brought, Off
<1>. HIDE DEF s
<1>3. i \in 1 .. Len(s) /\ s[i] = a[i]
  BY <1>2
<1>4. ASSUME NEW j \in i + 1 .. Len(s) PROVE Leaves(s[j], p)
  <2>1. CASE j <= Len(a)
    BY <1>1, <1>2, <2>1
  <2>2. CASE ~(j <= Len(a))
    <3>1. j - Len(a) \in 1 .. Len(b) /\ s[j] = b[j - Len(a)]
      BY <1>2, <2>2
    <3>. QED BY <3>1, OffAt
  <2>. QED BY <2>1, <2>2
<1>5. Brought(s, p, x)
  BY <1>1, <1>2, <1>3, <1>4 DEF Brought
<1>. QED BY <1>5 DEF s

LEMMA BroughtFirst ==
  ASSUME NEW p, NEW x, NEW c, Brings(c, p, x), NEW d, Leaves(d, p) PROVE Brought(<<c, d>>, p, x)
<1>. DEFINE l == <<c, d>>
<1>1. IsList(l) /\ Len(l) = 2 /\ l[1] = c /\ l[2] = d
  BY CommandsOf
<1>. HIDE DEF l
<1>2. Brought(l, p, x)
  BY <1>1 DEF Brought
<1>. QED BY <1>2 DEF l

LEMMA BroughtSecond ==
  ASSUME NEW p, NEW x, NEW c, NEW d, Brings(d, p, x) PROVE Brought(<<c, d>>, p, x)
<1>. DEFINE l == <<c, d>>
<1>1. IsList(l) /\ Len(l) = 2 /\ l[1] = c /\ l[2] = d
  BY CommandsOf
<1>. HIDE DEF l
<1>2. Brought(l, p, x)
  BY <1>1 DEF Brought
<1>. QED BY <1>2 DEF l

LEMMA BroughtEnds == ASSUME NEW f, NEW s, NEW p, NEW x, Brought(s, p, x) PROVE Ends(f, s, p, x)
<1>1. PICK i \in 1 .. Len(s) : Brings(s[i], p, x) /\ \A j \in i + 1 .. Len(s) : Leaves(s[j], p)
  BY DEF Brought
<1>2. Gives(s[i], f, p, x) /\ s[i].op = "cp"
  BY <1>1 DEF Brings, Gives
<1>. QED BY <1>1, <1>2 DEF Ends

LEMMA OffEnds ==
  ASSUME NEW f, NEW s, NEW p, NEW x, p \in DOMAIN f, f[p] = x, Off(s, p) PROVE Ends(f, s, p, x)
BY OffAt DEF Ends

LEMMA NothingEnds == ASSUME NEW f, NEW p, NEW x PROVE Ends(f, << >>, p, x) <=> p \in DOMAIN f /\ f[p] = x
<1>. DEFINE l == << >>
<1>1. Len(l) = 0
  OBVIOUS
<1>. HIDE DEF l
<1>2. Ends(f, l, p, x) <=> p \in DOMAIN f /\ f[p] = x
  BY <1>1 DEF Ends
<1>. QED BY <1>2 DEF l

-----------------------------------------------------------------------------
\* What CopyRefindFiles() brings, and what its parts leave alone.

LEMMA CpIs ==
  ASSUME NEW n, NEW x
  PROVE  /\ Brings(Cp(x, sh.dir, n, TRUE), <<sh.dir, n>>, x)
         /\ \A m, checked : m # n => Leaves(Cp(x, sh.dir, n, checked), <<sh.dir, m>>)
BY DEF Cp, Brings, Leaves, Spares

LEMMA ShimOff ==
  ASSUME NEW to, NEW n, sh.a.shim => n \notin {to, Kept(to), "MokManager.efi"}
  PROVE  Off(CopyShimFiles(to), <<sh.dir, n>>)
<1>. DEFINE o == Cp(files[<<sh.dir, to>>], sh.dir, Kept(to), FALSE)
            c == Cp(Content("shim", 0, "x64", 0), sh.dir, to, TRUE)
            d == Cp(Content("MokManager", 0, "x64", 0), sh.dir, "MokManager.efi", TRUE)
            l == If(IsFile(sh.dir, to), <<o>>) \o <<c, d>>
            p == <<sh.dir, n>>
<1>1. CopyShimFiles(to) = If(sh.a.shim, l)
  BY DEF CopyShimFiles
<1>2. ASSUME sh.a.shim PROVE Off(l, p)
  <2>1. Leaves(o, p) /\ Leaves(c, p) /\ Leaves(d, p)
    BY <1>2, CpIs
  <2>. HIDE DEF o, c, d, p
  <2>. QED BY <2>1, OffOne, OffTwo, OffIf, OffBoth
<1>. HIDE DEF l
<1>. QED BY <1>1, <1>2, OffIf

LEMMA ShimBrought ==
  ASSUME sh.a.shim, NEW to, to # "MokManager.efi"
  PROVE  Brought(CopyShimFiles(to), <<sh.dir, to>>, Content("shim", 0, "x64", 0))
<1>. DEFINE o == Cp(files[<<sh.dir, to>>], sh.dir, Kept(to), FALSE)
            x == Content("shim", 0, "x64", 0)
            c == Cp(x, sh.dir, to, TRUE)
            d == Cp(Content("MokManager", 0, "x64", 0), sh.dir, "MokManager.efi", TRUE)
            p == <<sh.dir, to>>
<1>1. CopyShimFiles(to) = If(IsFile(sh.dir, to), <<o>>) \o <<c, d>>
  BY DEF CopyShimFiles, If
<1>2. Brings(c, p, x) /\ Leaves(d, p)
  BY CpIs
<1>. HIDE DEF o, c, d, p, x
<1>3. Brought(<<c, d>>, p, x) /\ IsList(If(IsFile(sh.dir, to), <<o>>))
  BY <1>2, BroughtFirst, CommandsOf, CommandsIf
<1>4. Brought(CopyShimFiles(to), p, x)
  BY <1>1, <1>3, BroughtAfter
<1>. QED BY <1>4 DEF p, x

LEMMA DriversOff ==
  ASSUME NEW n, n \notin {"drivers_x64", "drivers_ia32"}, NEW arch
  PROVE  Off(CopyDrivers(arch), <<sh.dir, n>>)
<1>. DEFINE c == Cp(Content("drivers", sh.a.ver, arch, 0), sh.dir, DriversDir(arch), FALSE)
<1>1. Leaves(c, <<sh.dir, n>>)
  BY CpIs DEF DriversDir
<1>2. CopyDrivers(arch) = If(sh.a.drivers = "all" \/ (sh.a.drivers = "boot" /\ mach.driver), <<c>>)
  BY DEF CopyDrivers
<1>. HIDE DEF c
<1>. QED BY <1>1, <1>2, OffOne, OffIf

LEMMA KeysOff ==
  ASSUME NEW n, n \notin {"local.cer", "refind.cer"}
  PROVE  Off(CopyKeys, <<sh.dir, n>>) /\ Off(CopyAllKeys, <<sh.dir, n>>)
<1>. DEFINE c == Cp(files[<<KEYS, "cer">>], sh.dir, "local.cer", FALSE)
            d == Cp(Content("key", 0, "any", 0), sh.dir, "refind.cer", FALSE)
<1>1. CopyKeys = If(sh.a.localkeys /\ IsFile(KEYS, "cer"), <<c>>)
      /\ CopyAllKeys = <<d>> \o If(IsFile(KEYS, "cer"), <<c>>)
  BY DEF CopyKeys, CopyAllKeys
<1>2. Leaves(c, <<sh.dir, n>>) /\ Leaves(d, <<sh.dir, n>>)
  BY CpIs
<1>. HIDE DEF c, d
<1>. QED BY <1>1, <1>2, OffOne, OffIf, OffBoth

LEMMA IconsBrought ==
  /\ Brought(CopyIcons, <<sh.dir, "icons">>, Icons)
  /\ \A n : n \notin {"icons", "icons-backup"} => Off(CopyIcons, <<sh.dir, n>>)
<1>. DEFINE c == Rm(sh.dir, "icons-backup")
            d == Mv("mv", <<sh.dir, "icons">>, <<sh.dir, "icons-backup">>)
            e == Cp(Icons, sh.dir, "icons", TRUE)
<1>1. CopyIcons = If(IsFile(sh.dir, "icons"), <<c, d>>) \o <<e>>
  BY DEF CopyIcons
<1>2. ASSUME NEW n, n \notin {"icons", "icons-backup"}
      PROVE Leaves(c, <<sh.dir, n>>) /\ Leaves(d, <<sh.dir, n>>) /\ Leaves(e, <<sh.dir, n>>)
  <2>1. Leaves(c, <<sh.dir, n>>)
    BY <1>2 DEF Rm, Leaves, Spares
  <2>2. Leaves(d, <<sh.dir, n>>)
    BY <1>2 DEF Mv, Leaves, Spares
  <2>. QED BY <1>2, <2>1, <2>2, CpIs
<1>3. Brings(e, <<sh.dir, "icons">>, Icons)
  BY CpIs
<1>. HIDE DEF c, d, e
<1>4. Brought(CopyIcons, <<sh.dir, "icons">>, Icons)
  BY <1>1, <1>3, BroughtOne, BroughtAfter, CommandsOf, CommandsIf
<1>. QED BY <1>1, <1>2, <1>4, OffOne, OffTwo, OffIf, OffBoth

LEMMA ConfBrought ==
  /\ HasConf(sh.dir) => Off(CopyConf, <<sh.dir, "refind.conf">>)
  /\ ~HasConf(sh.dir) => Brought(CopyConf, <<sh.dir, "refind.conf">>, Sample)
  /\ \A n : n \notin {"refind.conf", "refind.conf-sample"} => Off(CopyConf, <<sh.dir, n>>)
<1>1. CopyConf = <<Cp(Sample, sh.dir, IF HasConf(sh.dir) THEN "refind.conf-sample" ELSE "refind.conf", TRUE)>>
  BY DEF CopyConf
<1>. QED BY <1>1, CpIs, OffOne, BroughtOne

\* What is known when the copies are made.
CopyKnown ==
  /\ sh.script = "install" /\ Named(sh) /\ Fits(sh) /\ ~sh.double
  /\ sh.dir \in {REFIND, BOOT, MSBOOT}
  /\ mach.cpu \in {"x64", "ia32"} /\ (mach.cpu = "ia32" => sh.dir = REFIND)

LEMMA ShimNamesApart ==
  /\ \A n \in {"icons", "refind.conf", "grubx64.efi"} :
       \A to \in {"shim.efi", "bootx64.efi", "bootmgfw.efi"} : n \notin {to, Kept(to), "MokManager.efi"}
  /\ "MokManager.efi" \notin {"shim.efi", "bootx64.efi", "bootmgfw.efi"}
BY DEF Kept

LEMMA DirsApart == REFIND # BOOT /\ REFIND # MSBOOT /\ BOOT # MSBOOT
BY DEF REFIND, BOOT, MSBOOT

LEMMA DefaultBrought ==
  ASSUME CopyKnown, sh.dir = BOOT
  PROVE  /\ Brought(ToDefault, <<sh.dir, sh.x64>>, Program("x64"))
         /\ sh.a.shim => Brought(ToDefault, ShimPlace, Content("shim", 0, "x64", 0))
         /\ \A n \in {"icons", "refind.conf"} : Off(ToDefault, <<sh.dir, n>>)
<1>. DEFINE c == Cp(Program("x64"), sh.dir, sh.x64, TRUE)
            d == Cp(Program("ia32"), sh.dir, sh.ia32, FALSE)
            drivers == IF sh.a.drivers = "all" THEN CopyDrivers("x64") \o CopyDrivers("ia32")
                       ELSE If(sh.upgrade, CopyDrivers(mach.cpu))
            shim == CopyShimFiles("bootx64.efi")
            p == <<d, c>>
            q == p \o shim
            r == q \o drivers
            l == r \o CopyKeys
            place(n) == <<sh.dir, n>>
<1>1. ToDefault = l
  BY DEF ToDefault
<1>2. /\ sh.x64 = (IF sh.a.shim THEN "grubx64.efi" ELSE "bootx64.efi")
      /\ sh.ia32 \in {"refind_ia32.efi", "bootia32.efi"}
  BY DirsApart DEF CopyKnown, Fits, Named
<1>3. /\ Brings(c, place(sh.x64), Program("x64"))
      /\ \A n \in {"icons", "refind.conf"} : Leaves(c, place(n)) /\ Leaves(d, place(n))
  BY <1>2, CpIs
<1>4. /\ \A n : n \notin {"drivers_x64", "drivers_ia32"} => Off(drivers, place(n))
      /\ \A n : n \notin {"local.cer", "refind.cer"} => Off(CopyKeys, place(n))
  BY DriversOff, KeysOff, OffBoth, OffIf
<1>5. /\ Off(shim, place(sh.x64))
      /\ \A n \in {"icons", "refind.conf"} : Off(shim, place(n))
      /\ sh.a.shim => Brought(shim, place("bootx64.efi"), Content("shim", 0, "x64", 0))
  <2>1. sh.a.shim => sh.x64 \notin {"bootx64.efi", Kept("bootx64.efi"), "MokManager.efi"}
    BY <1>2, ShimNamesApart
  <2>. QED BY <2>1, ShimNamesApart, ShimOff, ShimBrought
<1>6. ShimPlace = place("bootx64.efi")
  BY DEF ShimPlace
<1>. HIDE DEF c, d, drivers, shim, place
<1>7. Brought(p, place(sh.x64), Program("x64")) /\ IsList(p)
      /\ \A n \in {"icons", "refind.conf"} : Off(p, place(n))
  BY <1>3, BroughtSecond, CommandsOf, OffTwo
<1>. HIDE DEF p
<1>8. Brought(q, place(sh.x64), Program("x64"))
      /\ (sh.a.shim => Brought(q, place("bootx64.efi"), Content("shim", 0, "x64", 0)))
      /\ \A n \in {"icons", "refind.conf"} : Off(q, place(n))
  BY <1>5, <1>7, BroughtBefore, BroughtAfter, OffBoth
<1>. HIDE DEF q
<1>9. \A n \in {sh.x64, "bootx64.efi", "icons", "refind.conf"} : Off(drivers, place(n)) /\ Off(CopyKeys, place(n))
  BY <1>2, <1>4
<1>10. Brought(r, place(sh.x64), Program("x64"))
      /\ (sh.a.shim => Brought(r, place("bootx64.efi"), Content("shim", 0, "x64", 0)))
      /\ \A n \in {"icons", "refind.conf"} : Off(r, place(n))
  BY <1>8, <1>9, BroughtBefore, OffBoth
<1>. HIDE DEF r
<1>11. Brought(l, place(sh.x64), Program("x64"))
      /\ (sh.a.shim => Brought(l, place("bootx64.efi"), Content("shim", 0, "x64", 0)))
      /\ \A n \in {"icons", "refind.conf"} : Off(l, place(n))
  BY <1>9, <1>10, BroughtBefore, OffBoth
<1>. QED BY <1>1, <1>6, <1>11 DEF place

LEMMA To64Brought ==
  ASSUME CopyKnown, sh.dir # BOOT
  PROVE  /\ Brought(To64, <<sh.dir, sh.x64>>, Program("x64"))
         /\ sh.a.shim => Brought(To64, ShimPlace, Content("shim", 0, "x64", 0))
         /\ \A n \in {"icons", "refind.conf"} : Off(To64, <<sh.dir, n>>)
<1>. DEFINE c == Cp(Program("x64"), sh.dir, sh.x64, TRUE)
            shim == CopyShimFiles(sh.shim)
            p == <<c>>
            q == p \o CopyDrivers("x64")
            r == q \o CopyKeys
            l == r \o shim
            place(n) == <<sh.dir, n>>
<1>1. To64 = l
  BY DEF To64
<1>2. /\ sh.x64 \in {"grubx64.efi", "refind_x64.efi", "bootmgfw.efi"}
      /\ sh.a.shim => sh.x64 = "grubx64.efi" /\ sh.shim \in {"shim.efi", "bootmgfw.efi"}
      /\ sh.shim \in {"shim.efi", "bootx64.efi", "bootmgfw.efi"}
  BY DEF CopyKnown, Fits, Named
<1>3. /\ Brings(c, place(sh.x64), Program("x64"))
      /\ \A n \in {"icons", "refind.conf"} : Leaves(c, place(n))
  BY <1>2, CpIs
<1>4. \A n \in {sh.x64, "icons", "refind.conf"} : Off(CopyDrivers("x64"), place(n)) /\ Off(CopyKeys, place(n))
  BY <1>2, DriversOff, KeysOff
<1>5. /\ Off(shim, place(sh.x64))
      /\ \A n \in {"icons", "refind.conf"} : Off(shim, place(n))
      /\ sh.a.shim => Brought(shim, place(sh.shim), Content("shim", 0, "x64", 0))
  <2>1. sh.a.shim => sh.x64 \notin {sh.shim, Kept(sh.shim), "MokManager.efi"}
    BY <1>2, ShimNamesApart
  <2>. QED BY <1>2, <2>1, ShimNamesApart, ShimOff, ShimBrought
<1>6. ShimPlace = place(sh.shim)
  BY DEF ShimPlace
<1>. HIDE DEF c, shim, place
<1>7. Brought(p, place(sh.x64), Program("x64"))
      /\ \A n \in {"icons", "refind.conf"} : Off(p, place(n))
  BY <1>3, BroughtOne, OffOne
<1>. HIDE DEF p
<1>8. Brought(q, place(sh.x64), Program("x64"))
      /\ \A n \in {"icons", "refind.conf"} : Off(q, place(n))
  BY <1>4, <1>7, BroughtBefore, OffBoth
<1>. HIDE DEF q
<1>9. Brought(r, place(sh.x64), Program("x64"))
      /\ \A n \in {"icons", "refind.conf"} : Off(r, place(n))
  BY <1>4, <1>8, BroughtBefore, OffBoth
<1>. HIDE DEF r
<1>10. IsList(r)
  BY <1>9 DEF Brought
<1>11. Brought(l, place(sh.x64), Program("x64"))
      /\ (sh.a.shim => Brought(l, place(sh.shim), Content("shim", 0, "x64", 0)))
      /\ \A n \in {"icons", "refind.conf"} : Off(l, place(n))
  BY <1>5, <1>9, <1>10, BroughtBefore, BroughtAfter, OffBoth
<1>. QED BY <1>1, <1>6, <1>11 DEF place

LEMMA To32Brought ==
  ASSUME CopyKnown
  PROVE  /\ Brought(To32, <<sh.dir, sh.ia32>>, Program("ia32"))
         /\ \A n \in {"icons", "refind.conf"} : Off(To32, <<sh.dir, n>>)
<1>. DEFINE c == Cp(Program("ia32"), sh.dir, sh.ia32, TRUE)
            p == <<c>>
<1>1. To32 = p \o CopyDrivers("ia32")
  BY DEF To32
<1>2. sh.ia32 \in {"refind_ia32.efi", "bootia32.efi"}
  BY DEF CopyKnown, Named
<1>3. /\ Brings(c, <<sh.dir, sh.ia32>>, Program("ia32"))
      /\ \A n \in {"icons", "refind.conf"} : Leaves(c, <<sh.dir, n>>)
  BY <1>2, CpIs
<1>4. \A n \in {sh.ia32, "icons", "refind.conf"} : Off(CopyDrivers("ia32"), <<sh.dir, n>>)
  BY <1>2, DriversOff
<1>. HIDE DEF c
<1>5. Brought(p, <<sh.dir, sh.ia32>>, Program("ia32"))
      /\ \A n \in {"icons", "refind.conf"} : Off(p, <<sh.dir, n>>)
  BY <1>3, BroughtOne, OffOne
<1>. HIDE DEF p
<1>. QED BY <1>1, <1>4, <1>5, BroughtBefore, OffBoth

\* The whole list, and what it brings.
LEMMA CopiesArrive ==
  ASSUME CopyKnown, NEW l,
         l = (IF sh.dir = BOOT THEN ToDefault
              ELSE IF mach.cpu = "x64" \/ sh.dir = MSBOOT THEN To64 ELSE To32)
             \o CopyIcons \o CopyAllKeys \o CopyConf
  PROVE  /\ \E x : Ends(files, l, Place, x) /\ x.what = "rEFInd" /\ x.arch = mach.cpu /\ x.ver = sh.a.ver
         /\ sh.a.shim /\ mach.cpu = "x64" =>
              \E x : Ends(files, l, ShimPlace, x) /\ x.what = "shim" /\ x.arch = "x64"
         /\ \A n \in {"icons", "refind.conf"} : \E x : Ends(files, l, <<sh.dir, n>>, x)
<1>. DEFINE programs == IF sh.dir = BOOT THEN ToDefault
                        ELSE IF mach.cpu = "x64" \/ sh.dir = MSBOOT THEN To64 ELSE To32
            q == programs \o CopyIcons
            r == q \o CopyAllKeys
            t == r \o CopyConf
            place(n) == <<sh.dir, n>>
            shimmed == sh.a.shim /\ mach.cpu = "x64"
            x == Program(mach.cpu)
            y == Content("shim", 0, "x64", 0)
            program == IF mach.cpu = "ia32" THEN sh.ia32 ELSE sh.x64
            shim == IF sh.dir = BOOT THEN "bootx64.efi" ELSE sh.shim
<1>1. l = t
  OBVIOUS
<1>2. /\ Place = place(program) /\ ShimPlace = place(shim)
      /\ program \in {"refind_x64.efi", "bootx64.efi", "grubx64.efi", "bootmgfw.efi",
                      "refind_ia32.efi", "bootia32.efi"}
      /\ shim \in {"shim.efi", "bootx64.efi", "bootmgfw.efi"}
  BY DEF Place, ShimPlace, CopyKnown, Named
<1>3. /\ Brought(programs, place(program), x)
      /\ shimmed => Brought(programs, place(shim), y)
      /\ \A n \in {"icons", "refind.conf"} : Off(programs, place(n))
  <2>1. CASE mach.cpu = "x64"
    <3>2. CASE sh.dir = BOOT
      BY <1>2, <2>1, <3>2, DefaultBrought
    <3>3. CASE sh.dir # BOOT
      BY <1>2, <2>1, <3>3, To64Brought
    <3>. QED BY <3>2, <3>3
  <2>2. CASE mach.cpu = "ia32"
    <3>1. programs = To32 /\ program = sh.ia32 /\ ~shimmed
      BY <2>2, DirsApart DEF CopyKnown
    <3>. HIDE DEF programs, program, shimmed
    <3>. QED BY <2>2, <3>1, To32Brought
  <2>. QED BY <2>1, <2>2 DEF CopyKnown
<1>4. x.what = "rEFInd" /\ x.arch = mach.cpu /\ x.ver = sh.a.ver /\ y.what = "shim" /\ y.arch = "x64"
  BY DEF Program, Content
<1>. HIDE DEF programs, place, shimmed, x, y, program, shim
<1>5. \A n \in {program, shim} :
        Off(CopyIcons, place(n)) /\ Off(CopyAllKeys, place(n)) /\ Off(CopyConf, place(n))
  BY <1>2, IconsBrought, KeysOff, ConfBrought DEF place
<1>6. Off(CopyIcons, place("refind.conf"))
      /\ (\A n \in {"icons", "refind.conf"} : Off(CopyAllKeys, place(n))) /\ Off(CopyConf, place("icons"))
  BY IconsBrought, KeysOff, ConfBrought DEF place
<1>7. Brought(CopyIcons, place("icons"), Icons) /\ IsList(programs)
  BY <1>3, IconsBrought DEF place, Brought
<1>8. /\ Brought(q, place(program), x) /\ (shimmed => Brought(q, place(shim), y))
      /\ Brought(q, place("icons"), Icons) /\ Off(q, place("refind.conf"))
  BY <1>3, <1>5, <1>6, <1>7, BroughtBefore, BroughtAfter, OffBoth
<1>. HIDE DEF q
<1>9. /\ Brought(r, place(program), x) /\ (shimmed => Brought(r, place(shim), y))
      /\ Brought(r, place("icons"), Icons) /\ Off(r, place("refind.conf"))
  BY <1>5, <1>6, <1>8, BroughtBefore, OffBoth
<1>. HIDE DEF r
<1>10. /\ Brought(t, place(program), x) /\ (shimmed => Brought(t, place(shim), y))
       /\ Brought(t, place("icons"), Icons)
  BY <1>5, <1>6, <1>9, BroughtBefore
<1>11. \E z : Ends(files, t, place("refind.conf"), z)
  <2>1. CASE HasConf(sh.dir)
    <3>1. Off(t, place("refind.conf"))
      BY <1>9, <2>1, ConfBrought, OffBoth DEF place
    <3>2. place("refind.conf") \in DOMAIN files
      BY <2>1 DEF HasConf, IsFile, place
    <3>. HIDE DEF t
    <3>. QED BY <3>1, <3>2, OffEnds
  <2>2. CASE ~HasConf(sh.dir)
    <3>1. IsList(r)
      BY <1>9 DEF Brought
    <3>2. Brought(t, place("refind.conf"), Sample)
      BY <2>2, <3>1, ConfBrought, BroughtAfter DEF place
    <3>. HIDE DEF t
    <3>. QED BY <3>2, BroughtEnds
  <2>. QED BY <2>1, <2>2
<1>. HIDE DEF t
<1>12. /\ Ends(files, t, place(program), x) /\ (shimmed => Ends(files, t, place(shim), y))
       /\ Ends(files, t, place("icons"), Icons)
  BY <1>10, BroughtEnds
<1>13. \A n \in {"icons", "refind.conf"} : \E z : Ends(files, t, place(n), z)
  BY <1>11, <1>12
<1>. QED BY <1>1, <1>2, <1>4, <1>12, <1>13 DEF place, shimmed

-----------------------------------------------------------------------------
\* A step of the same script changes no name.

SameRun ==
  /\ sh'.script = sh.script /\ sh'.dir = sh.dir /\ mach' = mach
  /\ sh.script = "install" => /\ sh'.a = sh.a /\ sh'.double = sh.double
                              /\ sh'.x64 = sh.x64 /\ sh'.ia32 = sh.ia32 /\ sh'.shim = sh.shim
  /\ sh.script = "mvrefind" => sh'.src = sh.src /\ sh'.rEFInd = sh.rEFInd

LEMMA RunsOn ==
  ASSUME ConfInv, mach' = mach, \A x \in DOMAIN sh \ {"pc", "todo", "problems"} : sh'[x] = sh[x]
  PROVE  SameRun
BY DEF ConfInv, Fields, SameRun

LEMMA SameNames ==
  ASSUME SameRun
  PROVE  /\ MovedEntry' = MovedEntry
         /\ sh.script \in {"install", "mvrefind"} => Place' = Place /\ (Doubtful' <=> Doubtful)
         /\ sh.script = "install" =>
              ShimPlace' = ShimPlace /\ Refind' = Refind /\ Fits(sh') = Fits(sh)
<1>1. MovedEntry' = MovedEntry
  BY DEF SameRun, MovedEntry, Name64, Name32
<1>2. ASSUME sh.script = "install"
      PROVE  /\ Place' = Place /\ (Doubtful' <=> Doubtful)
             /\ ShimPlace' = ShimPlace /\ Refind' = Refind
  BY <1>2 DEF SameRun, Place, ShimPlace, Refind, Doubtful
<1>3. ASSUME sh.script = "install" PROVE Fits(sh') = Fits(sh)
  BY <1>3 DEF SameRun, Fits
<1>4. ASSUME sh.script = "mvrefind" PROVE Place' = Place /\ (Doubtful' <=> Doubtful)
  BY <1>1, <1>4 DEF SameRun, Place, Doubtful
<1>. QED BY <1>1, <1>2, <1>3, <1>4

LEMMA ArrivesOn ==
  ASSUME SameRun, sh.script \in {"install", "mvrefind"}, Arrives,
         \A p, x : Ends(files, sh.todo, p, x) => Ends(files', sh'.todo, p, x)
  PROVE  Arrives'
<1>1. Place' = Place /\ (sh.script = "install" => ShimPlace' = ShimPlace)
  BY SameNames
<1>2. sh'.script = sh.script /\ sh'.dir = sh.dir /\ mach' = mach /\ (sh.script = "install" => sh'.a = sh.a)
  BY DEF SameRun
<1>3. \E x : /\ Ends(files', sh'.todo, Place', x)
             /\ x.what = "rEFInd" /\ x.arch = mach'.cpu /\ (sh'.script = "install" => x.ver = sh'.a.ver)
  BY <1>1, <1>2 DEF Arrives
<1>4. sh'.script = "install" /\ sh'.a.shim /\ mach'.cpu = "x64" =>
        \E x : Ends(files', sh'.todo, ShimPlace', x) /\ x.what = "shim" /\ x.arch = "x64"
  BY <1>1, <1>2 DEF Arrives
<1>5. \A n \in {"icons", "refind.conf"} : \E x : Ends(files', sh'.todo, <<sh'.dir, n>>, x)
  BY <1>2 DEF Arrives
<1>. QED BY <1>3, <1>4, <1>5 DEF Arrives

\* The parts of the invariant that only depend on the run.
LEMMA BootOn ==
  ASSUME ConfInv, BootInv, SameRun, IsList(nvram'),
         sh'.pc # "target" \/ sh.pc = "target",
         sh'.pc = "options" => sh.script = "install",
         sh.script = "install" /\ sh'.pc \notin {"target", "cpu"} => mach.cpu \in {"x64", "ia32"},
         sh.script = "mvrefind" /\ sh'.pc \in MoveSteps =>
           sh.pc \in MoveSteps /\ (sh.rEFInd /\ HasRefind(sh.src) /\ HasConf(sh.src)
                                   => HasRefind(sh.src)' /\ HasConf(sh.src)'),
         sh.script # "none" /\ sh'.pc \in CopySteps /\ ~Doubtful => sh'.problems \/ Arrives',
         sh.script = "install" /\ sh.dir = REFIND /\ sh'.pc \in {"options", "done"} =>
           sh'.problems \/ First(<<sh.dir, Refind>>)',
         sh.script = "mvrefind" /\ sh'.pc = "done" => sh'.problems \/ First(MovedEntry)'
  PROVE  BootInv'
<1>1. sh'.script = sh.script /\ sh'.dir = sh.dir /\ mach' = mach /\ sh.script \in {"none", "install", "mvrefind"}
  BY DEF SameRun, ConfInv, Fields
<1>2. sh.script = "install" => Fits(sh') /\ sh'.double = sh.double /\ Fits(sh)
  BY SameNames DEF BootInv, SameRun
<1>3. sh'.script # "none" /\ sh'.pc \in CopySteps /\ ~Doubtful' => sh'.problems \/ Arrives'
  BY <1>1, SameNames
<1>4. sh'.script = "install" => Fits(sh)' /\ (sh'.pc = "target" => ~sh'.double)
  BY <1>1, <1>2 DEF BootInv
<1>5. sh'.script = "mvrefind" /\ sh'.pc \in MoveSteps /\ sh'.rEFInd => HasRefind(sh.src)' /\ HasConf(sh.src)'
  BY <1>1 DEF BootInv, SameRun
<1>6. sh'.script = "mvrefind" => sh'.src # sh'.dir
  BY <1>1 DEF BootInv, SameRun
<1>7. IsList(nvram)' /\ mach' \in Machines
  BY <1>1 DEF BootInv
<1>8. (sh'.pc = "options" => sh'.script = "install")
      /\ (sh'.script = "install" /\ sh'.pc \notin {"target", "cpu"} => mach'.cpu \in {"x64", "ia32"})
  BY <1>1
<1>. QED BY <1>1, <1>3, <1>4, <1>5, <1>6, <1>7, <1>8 DEF BootInv

\* A script that begins or ends.
LEMMA BootAtEnd == ASSUME BootInv, sh' = Idle, IsList(nvram'), mach' = mach PROVE BootInv'
<1>1. sh'.script = "none" /\ sh'.pc = "idle"
  BY DEF Idle
<1>2. mach' \in Machines
  BY DEF BootInv
<1>. QED BY <1>1, <1>2 DEF BootInv

LEMMA ExitBoots == ASSUME BootInv, Exit \/ Kill PROVE BootInv'
<1>1. sh' = Idle /\ nvram' = nvram /\ mach' = mach
  BY DEF Exit, Kill
<1>2. IsList(nvram')
  BY <1>1 DEF BootInv
<1>. QED BY <1>1, <1>2, BootAtEnd

LEMMA CommandBoots ==
  ASSUME ConfInv, BootInv, Command \/ (\E torn : CommandFails(torn)) PROVE BootInv'
<1>. DEFINE c == Head(sh.todo)
            q == sh.problems \/ c.checked
<1>1. sh.todo # << >> /\ IsList(sh.todo) /\ mach' = mach /\ nvram' = nvram
  BY DEF Command, CommandFails, ConfInv
<1>2. \/ files' = Executed(files, c) /\ sh' = [sh EXCEPT !.todo = Tail(@)]
      \/ /\ c.op = "cp" /\ (files' = files \/ files' = With(files, c.to, Torn))
         /\ sh' = [sh EXCEPT !.todo = Tail(@), !.problems = q]
  BY Zenon DEF Command, CommandFails
<1>. HIDE DEF q
<1>3. /\ \A x \in DOMAIN sh \ {"todo", "problems"} : sh'[x] = sh[x]
      /\ sh'.pc = sh.pc /\ sh'.todo = Tail(sh.todo) /\ sh'.problems \in {sh.problems, q}
      /\ files' # Executed(files, c) => sh'.problems = q
  BY <1>2 DEF ConfInv, Fields
<1>4. SameRun
  BY <1>1, <1>3, RunsOn
<1>5. sh.pc \notin MoveSteps
  BY <1>1 DEF ConfInv
<1>6. ASSUME sh.script # "none", sh.pc \in CopySteps, ~Doubtful, ~sh'.problems PROVE Arrives'
  <2>1. ~sh.problems /\ (files' # Executed(files, c) => ~c.checked)
    BY <1>3, <1>6 DEF q
  <2>2. Arrives /\ sh.script \in {"install", "mvrefind"}
    BY <1>6, <2>1 DEF BootInv, ConfInv, Fields
  <2>3. ASSUME NEW p, NEW x, Ends(files, sh.todo, p, x) PROVE Ends(files', sh'.todo, p, x)
    <3>1. CASE files' = Executed(files, c)
      BY <1>1, <1>3, <2>3, <3>1, EndsExecuted
    <3>2. CASE files' # Executed(files, c)
      <4>1. c.op = "cp" /\ (files' = files \/ files' = With(files, c.to, Torn)) /\ ~c.checked
        BY <1>2, <2>1, <3>2
      <4>. QED BY <1>1, <1>3, <2>3, <4>1, EndsFailed
    <3>. QED BY <3>1, <3>2
  <2>. QED BY <1>4, <2>2, <2>3, ArrivesOn
<1>7. sh.problems => sh'.problems
  BY <1>3 DEF q
<1>8. /\ sh.script = "install" => (First(<<sh.dir, Refind>>) => First(<<sh.dir, Refind>>)')
      /\ First(MovedEntry) => First(MovedEntry)'
  BY <1>1, <1>4, SameNames DEF First, SameRun
<1>9. IsList(nvram')
  BY <1>1 DEF BootInv
<1>. QED BY <1>3, <1>4, <1>5, <1>6, <1>7, <1>8, <1>9, BootOn DEF BootInv

-----------------------------------------------------------------------------
\* The boot entries.

LEMMA EntriesList == ASSUME IsList(nvram), NEW path PROVE IsList(EntriesWithout(path))
<1>1. CASE ~IsEntry(path)
  BY <1>1 DEF EntriesWithout
<1>2. CASE IsEntry(path)
  <2>1. PICK S : nvram \in Seq(S)
    BY DEF IsList
  <2>. DEFINE i == CHOOSE j \in DOMAIN nvram : nvram[j] = path
              a == SubSeq(nvram, 1, i - 1)
              b == SubSeq(nvram, i + 1, Len(nvram))
  <2>2. EntriesWithout(path) = a \o b
    BY <1>2 DEF EntriesWithout
  <2>3. i \in DOMAIN nvram
    BY <1>2 DEF IsEntry
  <2>4. DOMAIN nvram = 1 .. Len(nvram) /\ Len(nvram) \in Nat
    BY <2>1
  <2>. HIDE DEF i
  <2>5. /\ i \in 1 .. Len(nvram) /\ i - 1 \in Int /\ i + 1 \in Int
        /\ \A j \in 1 .. i - 1 : nvram[j] \in S
        /\ \A j \in i + 1 .. Len(nvram) : nvram[j] \in S
    BY <2>1, <2>3, <2>4
  <2>6. a \in Seq(S) /\ b \in Seq(S)
    BY <2>4, <2>5, SubSeqProperties
  <2>. HIDE DEF a, b
  <2>. QED BY <2>2, <2>6, Joined DEF IsList
<1>. QED BY <1>1, <1>2

LEMMA EntryIsFirst ==
  ASSUME NEW s, IsList(s), NEW path
  PROVE  IsList(<<path>> \o s) /\ 1 \in DOMAIN (<<path>> \o s) /\ (<<path>> \o s)[1] = path
<1>. DEFINE a == <<path>>
            t == a \o s
<1>1. IsList(a) /\ Len(a) = 1 /\ a[1] = path
  BY CommandsOf
<1>. HIDE DEF a
<1>2. IsList(t) /\ Len(t) = Len(a) + Len(s) /\ Len(s) \in Nat
      /\ \A i \in 1 .. Len(t) : t[i] = IF i <= Len(a) THEN a[i] ELSE s[i - Len(a)]
  BY <1>1, Joined
<1>. HIDE DEF t
<1>3. 1 \in 1 .. Len(t) /\ t[1] = path
  BY <1>1, <1>2
<1>4. DOMAIN t = 1 .. Len(t)
  BY <1>2 DEF IsList
<1>. QED BY <1>2, <1>3, <1>4 DEF t, a

\* Once an entry was asked for, it comes first, or a problem was reported.
LEMMA EntryMade ==
  ASSUME ConfInv, IsList(nvram), NEW path, NEW next \in {"options", "done"},
         AddBootEntry(path, next) \/ CreateEntry(path, next)
  PROVE  /\ IsList(nvram') /\ mach' = mach /\ files' = files
         /\ sh'.pc \in {"create", next} /\ (sh.problems => sh'.problems)
         /\ sh'.pc = next => sh'.problems \/ (1 \in DOMAIN nvram' /\ nvram'[1] = path)
         /\ \A x \in DOMAIN sh \ {"pc", "problems"} : sh'[x] = sh[x]
<1>0. "pc" \in DOMAIN sh /\ "problems" \in DOMAIN sh
  BY DEF ConfInv, Fields
<1>1. CASE AddBootEntry(path, next)
  <2>. DEFINE seen == mach.efi /\ IsEntry(path)
              first == seen /\ nvram[1] = path
              p == IF mach.efibootmgr /\ ~first THEN "create" ELSE next
              q == sh.problems \/ ~mach.efibootmgr
  <2>1. /\ sh' = [sh EXCEPT !.pc = p, !.problems = q] /\ files' = files /\ mach' = mach
        /\ nvram' = IF mach.efibootmgr /\ seen /\ ~first THEN EntriesWithout(path) ELSE nvram
    BY <1>1 DEF AddBootEntry
  <2>2. first => 1 \in DOMAIN nvram
    <3>1. PICK S : nvram \in Seq(S)
      BY DEF IsList
    <3>2. DOMAIN nvram = 1 .. Len(nvram) /\ Len(nvram) \in Nat
      BY <3>1
    <3>. QED BY <3>2 DEF IsEntry
  <2>3. (p = next => ~mach.efibootmgr \/ first) /\ p \in {"create", next}
    OBVIOUS
  <2>4. (q => sh.problems \/ ~mach.efibootmgr) /\ (sh.problems => q) /\ (~mach.efibootmgr => q)
    OBVIOUS
  <2>. HIDE DEF p, q
  <2>5. sh'.pc = p /\ sh'.problems = q /\ \A x \in DOMAIN sh \ {"pc", "problems"} : sh'[x] = sh[x]
    BY <1>0, <2>1
  <2>6. IsList(nvram') /\ (first => nvram' = nvram)
    BY <2>1, EntriesList
  <2>. HIDE DEF first
  <2>. QED BY <2>1, <2>2, <2>3, <2>4, <2>5, <2>6 DEF first
<1>2. CASE CreateEntry(path, next)
  <2>1. CASE nvram' = <<path>> \o nvram /\ sh' = [sh EXCEPT !.pc = next] /\ files' = files /\ mach' = mach
    <3>1. IsList(nvram') /\ 1 \in DOMAIN nvram' /\ nvram'[1] = path
      BY <2>1, EntryIsFirst
    <3>2. sh'.pc = next /\ sh'.problems = sh.problems
          /\ \A x \in DOMAIN sh \ {"pc", "problems"} : sh'[x] = sh[x]
      BY <1>0, <2>1
    <3>. QED BY <2>1, <3>1, <3>2
  <2>2. CASE nvram' = nvram /\ sh' = [sh EXCEPT !.pc = next, !.problems = TRUE]
             /\ files' = files /\ mach' = mach
    <3>1. sh'.pc = next /\ sh'.problems = TRUE
          /\ \A x \in DOMAIN sh \ {"pc", "problems"} : sh'[x] = sh[x]
      BY <1>0, <2>2
    <3>. QED BY <2>2, <3>1
  <2>. QED BY <1>2, <2>1, <2>2 DEF CreateEntry
<1>. QED BY <1>1, <1>2

-----------------------------------------------------------------------------
\* The actions of the scripts.

\* A step after the copies: nothing more comes but refind_linux.conf.
LEMMA ArrivedStays ==
  ASSUME ConfInv, BootInv, SameRun, sh.pc \in CopySteps, sh.todo = << >>, sh.script # "none", ~Doubtful,
         ~sh.problems, files' = files, IsList(sh'.todo),
         \A c \in Commands(sh'.todo) : c.op = "cp" /\ c.to[2] = "refind_linux.conf"
  PROVE  Arrives'
<1>1. Arrives /\ sh.script \in {"install", "mvrefind"}
  BY DEF BootInv, ConfInv, Fields
<1>2. \A p : p[2] # "refind_linux.conf" => Off(sh'.todo, p)
  BY DEF Off, Leaves, Spares
<1>3. ASSUME NEW p, NEW x, p[2] # "refind_linux.conf", Ends(files, sh.todo, p, x)
      PROVE  Ends(files', sh'.todo, p, x)
  <2>1. p \in DOMAIN files /\ files[p] = x
    BY <1>3, NothingEnds
  <2>2. Off(sh'.todo, p)
    BY <1>2, <1>3
  <2>. QED BY <2>1, <2>2, OffEnds
<1>4. /\ Place[2] # "refind_linux.conf"
      /\ sh.script = "install" => ShimPlace[2] # "refind_linux.conf"
      /\ \A d : \A n \in {"icons", "refind.conf"} : <<d, n>>[2] # "refind_linux.conf"
  <2>1. \A d : Name64(d) # "refind_linux.conf" /\ Name32(d) # "refind_linux.conf"
    BY MovedNames, Zenon DEF MayLie, OwnNames
  <2>2. sh.script = "install" =>
          sh.x64 # "refind_linux.conf" /\ sh.ia32 # "refind_linux.conf" /\ sh.shim # "refind_linux.conf"
    BY DEF ConfInv, Named
  <2>3. sh.script = "mvrefind" => Place[2] # "refind_linux.conf"
    BY <2>1 DEF Place, MovedEntry
  <2>4. sh.script = "install" => Place[2] # "refind_linux.conf" /\ ShimPlace[2] # "refind_linux.conf"
    BY <2>2 DEF Place, ShimPlace
  <2>. QED BY <1>1, <2>3, <2>4
<1>5. Place' = Place /\ (sh.script = "install" => ShimPlace' = ShimPlace)
  BY <1>1, SameNames
<1>6. sh'.script = sh.script /\ sh'.dir = sh.dir /\ mach' = mach /\ (sh.script = "install" => sh'.a = sh.a)
  BY DEF SameRun
<1>7. \E x : /\ Ends(files', sh'.todo, Place', x)
             /\ x.what = "rEFInd" /\ x.arch = mach'.cpu /\ (sh'.script = "install" => x.ver = sh'.a.ver)
  BY <1>1, <1>3, <1>4, <1>5, <1>6 DEF Arrives
<1>8. sh'.script = "install" /\ sh'.a.shim /\ mach'.cpu = "x64" =>
        \E x : Ends(files', sh'.todo, ShimPlace', x) /\ x.what = "shim" /\ x.arch = "x64"
  BY <1>1, <1>3, <1>4, <1>5, <1>6 DEF Arrives
<1>9. \A n \in {"icons", "refind.conf"} : \E x : Ends(files', sh'.todo, <<sh'.dir, n>>, x)
  BY <1>1, <1>3, <1>4, <1>6 DEF Arrives
<1>. QED BY <1>7, <1>8, <1>9 DEF Arrives

LEMMA EntryBoots ==
  ASSUME ConfInv, BootInv, NEW path, NEW next \in {"options", "done"},
         sh.pc \in CopySteps, sh.todo = << >>, AddBootEntry(path, next) \/ CreateEntry(path, next),
         \/ sh.script = "install" /\ next = "options" /\ path = <<sh.dir, Refind>>
         \/ sh.script = "mvrefind" /\ next = "done" /\ path = MovedEntry
  PROVE  BootInv'
<1>1. /\ IsList(nvram') /\ mach' = mach /\ files' = files
      /\ sh'.pc \in {"create", next} /\ (sh.problems => sh'.problems)
      /\ sh'.pc = next => sh'.problems \/ (1 \in DOMAIN nvram' /\ nvram'[1] = path)
      /\ \A x \in DOMAIN sh \ {"pc", "problems"} : sh'[x] = sh[x]
  BY EntryMade DEF BootInv
<1>2. SameRun /\ sh'.todo = << >>
  BY <1>1, RunsOn DEF ConfInv, Fields
<1>3. sh.script # "none" /\ sh'.pc \in CopySteps /\ ~Doubtful => sh'.problems \/ Arrives'
  BY <1>1, <1>2, ArrivedStays, CommandsOf
<1>4. sh'.pc \notin {"target", "cpu", "idle"} \cup MoveSteps /\ sh.pc \notin {"target", "cpu"}
  BY <1>1 DEF MoveSteps, CopySteps
<1>5. sh.script = "install" /\ sh.dir = REFIND /\ sh'.pc \in {"options", "done"} =>
        sh'.problems \/ First(<<sh.dir, Refind>>)'
  BY <1>1, <1>2, SameNames DEF First, SameRun
<1>6. sh.script = "mvrefind" /\ sh'.pc = "done" => sh'.problems \/ First(MovedEntry)'
  BY <1>1, <1>2, SameNames DEF First
<1>7. sh'.pc = "options" => sh.script = "install"
  BY <1>1
<1>. QED BY <1>1, <1>2, <1>3, <1>4, <1>5, <1>6, <1>7, BootOn DEF BootInv

\* A step to the end of install.sh, with these commands to come.
LEMMA DoneBoots ==
  ASSUME ConfInv, BootInv, sh.script = "install", sh.pc \in CopySteps, sh.todo = << >>,
         sh'.pc = "done", IsList(sh'.todo), sh.problems => sh'.problems, files' = files, mach' = mach,
         IsList(nvram'), \A x \in DOMAIN sh \ {"pc", "todo", "problems"} : sh'[x] = sh[x],
         \A c \in Commands(sh'.todo) : c.op = "cp" /\ c.to[2] = "refind_linux.conf",
         sh.dir = REFIND => sh'.problems \/ (1 \in DOMAIN nvram' /\ nvram'[1] = <<sh.dir, Refind>>)
  PROVE  BootInv'
<1>1. SameRun
  BY RunsOn
<1>2. ~Doubtful => sh'.problems \/ Arrives'
  BY <1>1, ArrivedStays
<1>3. sh.dir = REFIND => sh'.problems \/ First(<<sh.dir, Refind>>)'
  BY <1>1, SameNames DEF First, SameRun
<1>4. sh'.pc \notin MoveSteps /\ sh.pc \notin {"target", "cpu"}
  BY DEF MoveSteps, CopySteps
<1>. QED BY <1>1, <1>2, <1>3, <1>4, BootOn DEF BootInv

LEMMA EntriesBoot ==
  ASSUME ConfInv, BootInv, InstallEntry \/ AddNvramEntry \/ NoEntry \/ Bless PROVE BootInv'
<1>1. CASE InstallEntry
  <2>. DEFINE path == <<sh.dir, Refind>>
  <2>1. /\ sh.script = "install" /\ sh.pc \in {"entry", "create"} /\ sh.todo = << >>
        /\ AddBootEntry(path, "options") \/ CreateEntry(path, "options")
    BY <1>1 DEF InstallEntry, At
  <2>2. sh.pc \in CopySteps
    BY <2>1 DEF CopySteps
  <2>. HIDE DEF path
  <2>. QED BY <2>1, <2>2, EntryBoots DEF path
<1>2. CASE AddNvramEntry
  BY <1>2, EntryBoots DEF AddNvramEntry, At, CopySteps
<1>3. CASE NoEntry
  <2>1. /\ sh.script = "install" /\ sh.pc = "entry" /\ sh.todo = << >> /\ sh.dir # REFIND
        /\ sh' = [sh EXCEPT !.pc = "done", !.todo = << >>] /\ files' = files /\ mach' = mach /\ nvram' = nvram
    BY <1>3, DirsApart DEF NoEntry, Go, At
  <2>2. /\ sh'.pc = "done" /\ sh'.todo = << >> /\ sh'.problems = sh.problems
        /\ \A x \in DOMAIN sh \ {"pc", "todo"} : sh'[x] = sh[x]
    BY <2>1 DEF ConfInv, Fields
  <2>3. IsList(nvram')
    BY <2>1 DEF BootInv
  <2>. QED BY <2>1, <2>2, <2>3, CommandsOf, DoneBoots DEF CopySteps
<1>4. CASE Bless
  <2>. DEFINE rest == EntriesWithout(<<sh.dir, Refind>>)
  <2>1. /\ sh.script = "install" /\ sh.pc = "entry" /\ sh.todo = << >>
        /\ files' = files /\ mach' = mach
        /\ \/ /\ sh' = [sh EXCEPT !.pc = "done"]
              /\ nvram' = <<<<sh.dir, Refind>>>> \o rest
           \/ /\ sh' = [sh EXCEPT !.pc = "done", !.problems = TRUE]
              /\ nvram' = nvram
    BY <1>4 DEF Bless, At
  <2>2. /\ sh'.pc = "done" /\ sh'.todo = << >> /\ (sh.problems => sh'.problems)
        /\ nvram' = <<<<sh.dir, Refind>>>> \o rest \/ (sh'.problems = TRUE /\ nvram' = nvram)
        /\ \A x \in DOMAIN sh \ {"pc", "todo", "problems"} : sh'[x] = sh[x]
    BY <2>1 DEF ConfInv, Fields
  <2>3. IsList(rest)
    BY EntriesList DEF BootInv
  <2>. HIDE DEF rest
  <2>4. /\ IsList(nvram')
        /\ sh'.problems \/ (1 \in DOMAIN nvram' /\ nvram'[1] = <<sh.dir, Refind>>)
    <3>1. CASE nvram' = <<<<sh.dir, Refind>>>> \o rest
      BY <2>3, <3>1, EntryIsFirst
    <3>2. CASE sh'.problems = TRUE /\ nvram' = nvram
      BY <3>2 DEF BootInv
    <3>. QED BY <2>1, <2>2, <3>1, <3>2
  <2>. QED BY <2>1, <2>2, <2>4, CommandsOf, DoneBoots DEF CopySteps
<1>. QED BY <1>1, <1>2, <1>3, <1>4

LEMMA OptionsBoot == ASSUME ConfInv, BootInv, GenerateRefindLinuxConf PROVE BootInv'
<1>. DEFINE m == [i \in 1 .. 2 |-> Cp(Content("options", i, "any", 0), LINUX, "refind_linux.conf", FALSE)]
            g == ~IsFile(LINUX, "refind_linux.conf")
            l == If(g, m)
<1>0. IsList(m) /\ \A c \in Commands(m) : c.op = "cp" /\ c.to = <<LINUX, "refind_linux.conf">>
  BY OptionsSpare, OptionsTame
<1>1. IsList(m) /\ \A c \in Commands(m) : c.op = "cp" /\ c.to[2] = "refind_linux.conf"
  <2>. HIDE DEF m
  <2>. QED BY <1>0
<1>2. Go("done", l) /\ sh.pc = "options" /\ sh.todo = << >>
  BY DEF GenerateRefindLinuxConf, At
<1>. HIDE DEF m, g
<1>3. IsList(l) /\ \A c \in Commands(l) : c.op = "cp" /\ c.to[2] = "refind_linux.conf"
  BY <1>1, CommandsIf
<1>. HIDE DEF l
<1>4. /\ sh'.pc = "done" /\ sh'.todo = l /\ sh'.problems = sh.problems
      /\ files' = files /\ mach' = mach /\ nvram' = nvram
      /\ \A x \in DOMAIN sh \ {"pc", "todo"} : sh'[x] = sh[x]
  BY <1>2 DEF Go, ConfInv, Fields
<1>5. /\ sh.script = "install" /\ IsList(nvram')
      /\ sh.dir = REFIND => sh.problems \/ (1 \in DOMAIN nvram' /\ nvram'[1] = <<sh.dir, Refind>>)
  BY <1>2, <1>4 DEF BootInv, First
<1>. QED BY <1>2, <1>3, <1>4, <1>5, DoneBoots DEF CopySteps

LEMMA InstallBoots == ASSUME BootInv, NEW a, Install(a) PROVE BootInv'
<1>1. /\ sh'.script = "install" /\ sh'.pc \in {"cpu", "target"} /\ sh'.a = a /\ sh'.double = FALSE
      /\ sh'.dir = (IF a.usedefault THEN BOOT ELSE REFIND) /\ sh'.shim = "shim.efi"
      /\ sh'.x64 = (IF a.shim THEN "grubx64.efi"
                    ELSE IF a.usedefault THEN "bootx64.efi" ELSE "refind_x64.efi")
      /\ sh'.ia32 = (IF a.usedefault THEN "bootia32.efi" ELSE "refind_ia32.efi")
      /\ mach' = mach /\ nvram' = nvram
  BY DEF Install
<1>2. Fits(sh')
  <2>1. CASE a.usedefault
    <3>1. sh'.dir = BOOT /\ sh'.x64 = (IF a.shim THEN "grubx64.efi" ELSE "bootx64.efi")
      BY <1>1, <2>1
    <3>. QED BY <1>1, <3>1, DirsApart DEF Fits
  <2>2. CASE ~a.usedefault
    <3>1. /\ sh'.dir = REFIND /\ sh'.x64 = (IF a.shim THEN "grubx64.efi" ELSE "refind_x64.efi")
          /\ sh'.ia32 = "refind_ia32.efi"
      BY <1>1, <2>2
    <3>. QED BY <1>1, <3>1, DirsApart DEF Fits
  <2>. QED BY <2>1, <2>2
<1>3. IsList(nvram') /\ mach' \in Machines /\ Fits(sh)'
  BY <1>1, <1>2 DEF BootInv
<1>. QED BY <1>1, <1>3 DEF BootInv, CopySteps

\* A script that has found where to install to.
LEMMA FoundBoots ==
  ASSUME BootInv, sh'.script = "install", sh'.pc = "cpu", Fits(sh'), nvram' = nvram, mach' = mach
  PROVE  BootInv'
<1>1. IsList(nvram') /\ mach' \in Machines /\ Fits(sh)'
  BY DEF BootInv
<1>. QED BY <1>1 DEF BootInv, CopySteps

\* The names in a place, for the command line that sh has.
LEMMA RenamedFit ==
  ASSUME NEW s, {"dir", "a", "x64", "ia32", "shim"} \subseteq DOMAIN s
  PROVE  /\ LET t == SetVarsForBoot(s)
            IN  /\ DOMAIN t = DOMAIN s /\ t.dir = BOOT /\ t.a = s.a
                /\ t.x64 = (IF s.a.shim THEN "grubx64.efi" ELSE "bootx64.efi")
         /\ LET t == SetVarsForMsBoot(s)
            IN  /\ DOMAIN t = DOMAIN s /\ t.dir = MSBOOT /\ t.a = s.a
                /\ t.x64 = (IF s.a.shim THEN "grubx64.efi" ELSE "bootmgfw.efi")
                /\ s.a.shim => t.shim = "bootmgfw.efi"
<1>1. LET t == SetVarsForBoot(s)
      IN  /\ DOMAIN t = DOMAIN s /\ t.dir = BOOT /\ t.a = s.a
          /\ t.x64 = (IF s.a.shim THEN "grubx64.efi" ELSE "bootx64.efi")
  BY DEF SetVarsForBoot
<1>2. LET t == SetVarsForMsBoot(s)
      IN  /\ DOMAIN t = DOMAIN s /\ t.dir = MSBOOT /\ t.a = s.a
          /\ t.x64 = (IF s.a.shim THEN "grubx64.efi" ELSE "bootmgfw.efi")
          /\ s.a.shim => t.shim = "bootmgfw.efi"
  BY DEF SetVarsForMsBoot
<1>. QED BY <1>1, <1>2

LEMMA FindTargetBoots == ASSUME ConfInv, OthInv, BootInv, FindTarget PROVE BootInv'
<1>1. At("target") /\ "target" \in InstallSteps
  BY DEF FindTarget, InstallSteps
<1>2. /\ sh.script = "install" /\ sh.dir = REFIND /\ Fits(sh) /\ ~sh.double
      /\ {"script", "pc", "dir", "todo", "a", "upgrade", "x64", "ia32", "shim", "double"} \subseteq DOMAIN sh
  BY <1>1, AtInstall DEF BootInv, OthInv, At
<1>. DEFINE b == IF HasConf(BOOT) THEN SetVarsForBoot(sh) ELSE sh
            m == IF HasConf(MSBOOT) THEN SetVarsForMsBoot(b) ELSE b
            r == IF HasConf(REFIND) THEN [m EXCEPT !.dir = REFIND] ELSE m
            u == [r EXCEPT !.upgrade = \E d \in {BOOT, MSBOOT, REFIND} : HasConf(d)]
<1>3. u = Upgraded(sh)
  BY DEF Upgraded
<1>4. /\ DOMAIN b = DOMAIN sh /\ b.a = sh.a /\ b.script = "install"
      /\ HasConf(BOOT) => b.dir = BOOT /\ b.x64 = (IF sh.a.shim THEN "grubx64.efi" ELSE "bootx64.efi")
      /\ ~HasConf(BOOT) => b = sh
  BY <1>2, RenamedFit DEF SetVarsForBoot
<1>. HIDE DEF b
<1>5. /\ DOMAIN m = DOMAIN sh /\ m.a = sh.a /\ m.script = "install"
      /\ HasConf(MSBOOT) => /\ m.dir = MSBOOT /\ m.x64 = (IF sh.a.shim THEN "grubx64.efi" ELSE "bootmgfw.efi")
                            /\ sh.a.shim => m.shim = "bootmgfw.efi"
      /\ ~HasConf(MSBOOT) => m = b
  BY <1>2, <1>4, RenamedFit DEF SetVarsForMsBoot
<1>. HIDE DEF m
<1>6. /\ DOMAIN r = DOMAIN sh /\ r.script = "install"
      /\ \A x \in DOMAIN sh \ {"dir"} : r[x] = m[x]
      /\ r.dir = IF HasConf(REFIND) THEN REFIND ELSE m.dir
  BY <1>2, <1>5
<1>. HIDE DEF r
<1>7. DOMAIN u = DOMAIN sh /\ \A x \in DOMAIN sh \ {"upgrade"} : u[x] = r[x]
  BY <1>2, <1>6
<1>. HIDE DEF u
<1>8. sh' = [u EXCEPT !.pc = "cpu", !.double = Double] /\ nvram' = nvram /\ mach' = mach
  BY <1>3 DEF FindTarget
<1>9. /\ sh'.pc = "cpu" /\ sh'.double = Double /\ sh'.script = "install"
      /\ \A x \in DOMAIN sh \ {"upgrade", "pc", "double"} : sh'[x] = r[x]
  BY <1>2, <1>6, <1>7, <1>8
<1>10. /\ sh'.a = sh.a /\ sh'.dir = (IF HasConf(REFIND) THEN REFIND ELSE m.dir)
       /\ sh'.x64 = m.x64 /\ sh'.ia32 = m.ia32 /\ sh'.shim = m.shim
  BY <1>2, <1>5, <1>6, <1>9
<1>11. ASSUME ~Double PROVE Fits(sh')
  <2>1. CASE ~HasConf(BOOT) /\ ~HasConf(MSBOOT)
    <3>1. m = sh
      BY <1>4, <1>5, <2>1
    <3>. QED BY <1>2, <1>10, <3>1, DirsApart DEF Fits
  <2>2. CASE HasConf(MSBOOT)
    <3>1. ~HasConf(REFIND)
      BY <1>11, <2>2 DEF Double
    <3>. QED BY <1>5, <1>10, <2>2, <3>1, DirsApart DEF Fits
  <2>3. CASE ~HasConf(MSBOOT) /\ HasConf(BOOT)
    <3>1. ~HasConf(REFIND)
      BY <1>11, <2>3 DEF Double
    <3>. QED BY <1>4, <1>5, <1>10, <2>3, <3>1, DirsApart DEF Fits
  <2>. QED BY <2>1, <2>2, <2>3
<1>12. Fits(sh')
  <2>1. CASE Double
    BY <1>9, <2>1 DEF Fits
  <2>. QED BY <1>11, <2>1
<1>. QED BY <1>8, <1>9, <1>12, FoundBoots

LEMMA TakesBoot ==
  ASSUME ConfInv, BootInv, TakeWindows \/ TakeDefault \/ ReplaceDefault PROVE BootInv'
<1>1. At("target") /\ "target" \in InstallSteps
  BY DEF TakeWindows, TakeDefault, ReplaceDefault, InBiosMode, InstallSteps
<1>2. /\ sh.script = "install"
      /\ {"script", "pc", "dir", "todo", "a", "upgrade", "x64", "ia32", "shim", "double"} \subseteq DOMAIN sh
  BY <1>1, AtInstall
<1>3. nvram' = nvram /\ mach' = mach
  BY DEF TakeWindows, TakeDefault, ReplaceDefault
<1>. DEFINE t == SetVarsForBoot(sh)
            m == SetVarsForMsBoot(sh)
<1>4. /\ DOMAIN t = DOMAIN sh /\ t.dir = BOOT /\ t.a = sh.a /\ t.script = "install"
      /\ t.x64 = (IF sh.a.shim THEN "grubx64.efi" ELSE "bootx64.efi")
  BY <1>2, RenamedFit DEF SetVarsForBoot
<1>5. /\ DOMAIN m = DOMAIN sh /\ m.dir = MSBOOT /\ m.a = sh.a /\ m.script = "install"
      /\ m.x64 = (IF sh.a.shim THEN "grubx64.efi" ELSE "bootmgfw.efi")
      /\ sh.a.shim => m.shim = "bootmgfw.efi"
  BY <1>2, RenamedFit DEF SetVarsForMsBoot
<1>6. CASE sh' = Idle
  BY <1>3, <1>6, BootAtEnd DEF BootInv
<1>7. CASE sh' = [t EXCEPT !.pc = "cpu"]
  <2>. HIDE DEF t
  <2>1. /\ sh'.pc = "cpu" /\ sh'.script = "install" /\ sh'.dir = BOOT
        /\ sh'.a = sh.a /\ sh'.x64 = (IF sh.a.shim THEN "grubx64.efi" ELSE "bootx64.efi")
    BY <1>2, <1>4, <1>7
  <2>2. Fits(sh')
    BY <2>1, DirsApart DEF Fits
  <2>. QED BY <1>3, <2>1, <2>2, FoundBoots
<1>8. CASE sh' = [m EXCEPT !.pc = "cpu", !.todo = Hijack]
  <2>. HIDE DEF m
  <2>1. /\ sh'.pc = "cpu" /\ sh'.script = "install" /\ sh'.dir = MSBOOT
        /\ sh'.a = sh.a /\ sh'.x64 = (IF sh.a.shim THEN "grubx64.efi" ELSE "bootmgfw.efi")
        /\ sh.a.shim => sh'.shim = "bootmgfw.efi"
    BY <1>2, <1>5, <1>8
  <2>2. Fits(sh')
    BY <2>1, DirsApart DEF Fits
  <2>. QED BY <1>3, <2>1, <2>2, FoundBoots
<1>9. sh' = Idle \/ sh' = [t EXCEPT !.pc = "cpu"] \/ sh' = [m EXCEPT !.pc = "cpu", !.todo = Hijack]
  BY DEF TakeWindows, TakeDefault, ReplaceDefault
<1>. QED BY <1>6, <1>7, <1>8, <1>9

\* A step of install.sh before the copies.
LEMMA GoesBoot ==
  ASSUME ConfInv, BootInv, sh.script = "install", NEW p \in {"sign", "signed", "secure", "copy"}, NEW l,
         Go(p, l), mach.cpu \in {"x64", "ia32"}
  PROVE  BootInv'
<1>1. /\ sh'.pc = p /\ mach' = mach /\ nvram' = nvram
      /\ \A x \in DOMAIN sh \ {"pc", "todo", "problems"} : sh'[x] = sh[x]
  BY DEF Go, ConfInv, Fields
<1>2. SameRun
  BY <1>1, RunsOn
<1>3. p \notin {"target", "options"} \cup CopySteps \cup MoveSteps
  BY DEF CopySteps, MoveSteps
<1>4. IsList(nvram')
  BY <1>1 DEF BootInv
<1>. QED BY <1>1, <1>2, <1>3, <1>4, BootOn DEF CopySteps

LEMMA ChecksBoot ==
  ASSUME ConfInv, BootInv, CheckCpu \/ ReSignBinaries \/ SignBinaries \/ CheckSecureBoot
  PROVE  BootInv'
<1>1. CASE Exit
  BY <1>1, ExitBoots
<1>2. PICK p \in {"cpu", "sign", "signed", "secure"} : At(p)
  BY DEF CheckCpu, ReSignBinaries, SignBinaries, CheckSecureBoot
<1>3. sh.script = "install" /\ sh.pc = p
  BY <1>2, AtInstall DEF InstallSteps, At
<1>4. CASE CheckCpu /\ ~Exit
  <2>1. Go("sign", << >>) /\ (mach.os = "Darwin" \/ mach.cpu \in {"x64", "ia32"})
    BY <1>4 DEF CheckCpu
  <2>2. mach.cpu \in {"x64", "ia32"}
    BY <2>1, MacAssumption DEF BootInv
  <2>. QED BY <1>3, <2>1, <2>2, GoesBoot
<1>5. CASE ReSignBinaries \/ SignBinaries \/ CheckSecureBoot
  <2>1. mach.cpu \in {"x64", "ia32"}
    <3>1. sh.pc \in {"sign", "signed", "secure"}
      BY <1>5 DEF ReSignBinaries, SignBinaries, CheckSecureBoot, At
    <3>. QED BY <1>3, <3>1 DEF BootInv
  <2>2. Exit \/ \E q \in {"sign", "signed", "secure", "copy"} : \E l : Go(q, l)
    BY <1>5, Zenon DEF ReSignBinaries, SignBinaries, CheckSecureBoot
  <2>. QED BY <1>1, <1>3, <2>1, <2>2, GoesBoot
<1>. QED BY <1>1, <1>4, <1>5

LEMMA CopyRefindFilesBoots == ASSUME ConfInv, OthInv, BootInv, CopyRefindFiles PROVE BootInv'
<1>. DEFINE l == (IF sh.dir = BOOT THEN ToDefault
                  ELSE IF mach.cpu = "x64" \/ sh.dir = MSBOOT THEN To64 ELSE To32)
                 \o CopyIcons \o CopyAllKeys \o CopyConf
<1>1. At("copy") /\ "copy" \in InstallSteps /\ Go("entry", l)
  BY DEF CopyRefindFiles, InstallSteps
<1>2. sh.script = "install" /\ sh.pc = "copy" /\ Named(sh) /\ sh.dir \in {REFIND, BOOT, MSBOOT}
  BY <1>1, AtInstall DEF OthInv, At
<1>3. Fits(sh) /\ mach.cpu \in {"x64", "ia32"}
  BY <1>2 DEF BootInv
<1>4. ASSUME ~Doubtful
      PROVE  /\ \E x : Ends(files, l, Place, x) /\ x.what = "rEFInd" /\ x.arch = mach.cpu /\ x.ver = sh.a.ver
             /\ sh.a.shim /\ mach.cpu = "x64" =>
                  \E x : Ends(files, l, ShimPlace, x) /\ x.what = "shim" /\ x.arch = "x64"
             /\ \A n \in {"icons", "refind.conf"} : \E x : Ends(files, l, <<sh.dir, n>>, x)
  <2>1. CopyKnown
    BY <1>2, <1>3, <1>4 DEF CopyKnown, Doubtful
  <2>. QED BY <2>1, CopiesArrive
<1>. HIDE DEF l
<1>5. /\ sh'.pc = "entry" /\ sh'.todo = l /\ files' = files /\ mach' = mach /\ nvram' = nvram
      /\ \A x \in DOMAIN sh \ {"pc", "todo", "problems"} : sh'[x] = sh[x]
  BY <1>1 DEF Go, ConfInv, Fields
<1>6. SameRun
  BY <1>5, RunsOn
<1>7. ASSUME ~Doubtful PROVE Arrives'
  <2>1. /\ Place' = Place /\ ShimPlace' = ShimPlace /\ sh'.script = "install"
        /\ sh'.dir = sh.dir /\ sh'.a = sh.a /\ mach' = mach
    BY <1>2, <1>6, SameNames DEF SameRun
  <2>2. \E x : /\ Ends(files', sh'.todo, Place', x)
               /\ x.what = "rEFInd" /\ x.arch = mach'.cpu /\ (sh'.script = "install" => x.ver = sh'.a.ver)
    BY <1>4, <1>5, <1>7, <2>1
  <2>3. sh'.a.shim /\ mach'.cpu = "x64" =>
          \E x : Ends(files', sh'.todo, ShimPlace', x) /\ x.what = "shim" /\ x.arch = "x64"
    BY <1>4, <1>5, <1>7, <2>1
  <2>4. \A n \in {"icons", "refind.conf"} : \E x : Ends(files', sh'.todo, <<sh'.dir, n>>, x)
    BY <1>4, <1>5, <1>7, <2>1
  <2>. QED BY <2>2, <2>3, <2>4 DEF Arrives
<1>8. IsList(nvram') /\ "entry" \notin MoveSteps
  BY <1>5 DEF BootInv, MoveSteps
<1>. QED BY <1>2, <1>3, <1>5, <1>6, <1>7, <1>8, BootOn

\* mvrefind.sh.
LEMMA MoveBoots == ASSUME ConfInv, BootInv, NEW src, NEW dst, Move(src, dst) PROVE BootInv'
<1>1. /\ sh'.script = "mvrefind" /\ sh'.pc = "backup" /\ sh'.src = src /\ sh'.dir = dst /\ src # dst
      /\ sh'.rEFInd = HasRefind(src) /\ HasConf(src)
      /\ files' = files /\ mach' = mach /\ nvram' = nvram
  BY DEF Move, IsInstallation
<1>2. (HasRefind(src)' <=> HasRefind(src)) /\ (HasConf(src)' <=> HasConf(src))
  BY <1>1 DEF HasRefind, HasConf, IsFile
<1>3. IsList(nvram') /\ mach' \in Machines
  BY <1>1 DEF BootInv
<1>4. sh'.rEFInd => HasRefind(sh.src)' /\ HasConf(sh.src)'
  BY <1>1, <1>2
<1>. QED BY <1>1, <1>3, <1>4 DEF BootInv, CopySteps

\* A step of mvrefind.sh before the moves.
LEMMA MovesOnBoot ==
  ASSUME ConfInv, BootInv, sh.pc = "backup", sh' = [sh EXCEPT !.pc = "move", !.todo = << >>],
         mach' = mach, nvram' = nvram,
         sh.rEFInd /\ HasRefind(sh.src) /\ HasConf(sh.src) => HasRefind(sh.src)' /\ HasConf(sh.src)'
  PROVE  BootInv'
<1>1. sh.script = "mvrefind"
  BY DEF ConfInv, MoveSteps
<1>2. sh'.pc = "move" /\ \A x \in DOMAIN sh \ {"pc", "todo", "problems"} : sh'[x] = sh[x]
  BY DEF ConfInv, Fields
<1>3. SameRun
  BY <1>2, RunsOn
<1>4. IsList(nvram')
  BY DEF BootInv
<1>. QED BY <1>1, <1>2, <1>3, <1>4, BootOn DEF CopySteps, MoveSteps

LEMMA BackUpTargetBoots == ASSUME ConfInv, BootInv, BackUpTarget PROVE BootInv'
<1>1. sh.pc = "backup" /\ sh.todo = << >> /\ sh.script = "mvrefind" /\ InPlace(files)
  BY DEF BackUpTarget, At, ConfInv, MoveSteps
<1>2. CASE Exit
  BY <1>2, ExitBoots
<1>3. CASE Go("move", << >>)
  <2>1. /\ sh' = [sh EXCEPT !.pc = "move", !.todo = << >>] /\ files' = files /\ mach' = mach /\ nvram' = nvram
    BY <1>3 DEF Go
  <2>2. sh'.src = sh.src
    BY <1>1, <2>1 DEF ConfInv, Fields
  <2>3. HasRefind(sh.src) /\ HasConf(sh.src) => HasRefind(sh.src)' /\ HasConf(sh.src)'
    BY <2>1, <2>2 DEF HasRefind, HasConf, IsFile
  <2>. QED BY <1>1, <2>1, <2>3, MovesOnBoot
<1>4. CASE /\ files' = MovedDir(files, BOOT, BACKUP, NESTED) /\ sh' = [sh EXCEPT !.pc = "move"]
           /\ mach' = mach /\ nvram' = nvram /\ sh.dir = BOOT
  <2>1. sh' = [sh EXCEPT !.pc = "move", !.todo = << >>]
    BY <1>1, <1>4 DEF ConfInv, Fields
  <2>2. sh'.src = sh.src /\ sh.src # BOOT
    BY <1>1, <1>4 DEF ConfInv, Fields, BootInv
  <2>3. \A p \in DOMAIN files : p[1] # BOOT => p \in DOMAIN files' /\ files'[p] = files[p]
    BY <1>1, <1>4, DirMovedFiles
  <2>4. \A n : <<sh.src, n>> \in DOMAIN files =>
                 <<sh.src, n>> \in DOMAIN files' /\ files'[<<sh.src, n>>] = files[<<sh.src, n>>]
    BY <2>2, <2>3
  <2>5. HasConf(sh.src) => HasConf(sh.src)'
    BY <2>2, <2>4 DEF HasConf, IsFile
  <2>6. HasRefind(sh.src) => HasRefind(sh.src)'
    BY <1>4, <2>2, <2>4 DEF HasRefind, IsFile
  <2>. QED BY <1>1, <1>4, <2>1, <2>5, <2>6, MovesOnBoot
<1>. QED BY <1>1, <1>2, <1>3, <1>4 DEF BackUpTarget

LEMMA TenAt ==
  ASSUME NEW c1, NEW c2, NEW c3, NEW c4, NEW c5, NEW c6, NEW c7, NEW c8, NEW c9, NEW c10,
         NEW l, l = <<c1, c2, c3, c4, c5, c6, c7, c8, c9, c10>>
  PROVE  /\ IsList(l) /\ Len(l) = 10
         /\ l[1] = c1 /\ l[2] = c2 /\ l[3] = c3 /\ l[4] = c4 /\ l[5] = c5 /\ l[6] = c6 /\ l[7] = c7
         /\ l[8] = c8 /\ l[9] = c9 /\ l[10] = c10
<1>. DEFINE T == {c1, c2, c3, c4, c5, c6, c7, c8, c9, c10}
<1>1. l \in Seq(T)
  BY TenIn
<1>2. IsList(l)
  BY <1>1 DEF IsList
<1>3. /\ Len(l) = 10
      /\ l[1] = c1 /\ l[2] = c2 /\ l[3] = c3 /\ l[4] = c4 /\ l[5] = c5 /\ l[6] = c6 /\ l[7] = c7
      /\ l[8] = c8 /\ l[9] = c9 /\ l[10] = c10
  OBVIOUS
<1>. QED BY <1>2, <1>3

\* A move brings its file if no other touches it or its place.
Away(c, n, m) == Leaves(c, <<sh.src, n>>) /\ Leaves(c, <<sh.dir, m>>)

LEMMA MoveEnds ==
  ASSUME NEW f, NEW l, IsList(l), NEW i \in 1 .. Len(l), NEW n, NEW m, NEW x,
         l[i].from = <<sh.src, n>>, Gives(l[i], f, <<sh.dir, m>>, x),
         \A j \in 1 .. Len(l) : j # i => Away(l[j], n, m)
  PROVE  Ends(f, l, <<sh.dir, m>>, x)
<1>1. Len(l) \in Nat
  BY Joined
<1>2. \A j \in 1 .. i - 1 : Leaves(l[j], <<sh.dir, m>>) /\ Leaves(l[j], l[i].from)
  BY <1>1 DEF Away
<1>3. \A j \in i + 1 .. Len(l) : Leaves(l[j], <<sh.dir, m>>)
  BY <1>1 DEF Away
<1>. QED BY <1>2, <1>3 DEF Ends

LEMMA MoveIs ==
  ASSUME sh.src # sh.dir
  PROVE  /\ \A a, b, n, m : a # n /\ b # m => Away(MoveFile(a, b), n, m)
         /\ \A a, n, m : a # n /\ a # m => Away(MoveDir(a), n, m)
         /\ \A f, a, b : <<sh.src, a>> \in DOMAIN f =>
              Gives(MoveFile(a, b), f, <<sh.dir, b>>, f[<<sh.src, a>>])
         /\ \A f, a : <<sh.src, a>> \in DOMAIN f => \E x : Gives(MoveDir(a), f, <<sh.dir, a>>, x)
         /\ \A a, b : MoveFile(a, b).from = <<sh.src, a>> /\ MoveDir(a).from = <<sh.src, a>>
<1>1. \A a, b : /\ MoveDir(a).op = "mv-n" /\ MoveDir(a).from = <<sh.src, a>> /\ MoveDir(a).to = <<sh.dir, a>>
                /\ MoveFile(a, b).op = "mv" /\ MoveFile(a, b).from = <<sh.src, a>>
                /\ MoveFile(a, b).to = <<sh.dir, b>>
  BY DEF MoveDir, MoveFile, Mv
<1>2. \A a, b : <<sh.src, a>> # <<sh.dir, b>>
  OBVIOUS
<1>3. \A a, b, n, m : a # n /\ b # m => Away(MoveFile(a, b), n, m)
  BY <1>1, <1>2 DEF Away, Leaves, Spares
<1>4. \A a, n, m : a # n /\ a # m => Away(MoveDir(a), n, m)
  BY <1>1, <1>2 DEF Away, Leaves, Spares
<1>5. \A f, a, b : <<sh.src, a>> \in DOMAIN f =>
        Gives(MoveFile(a, b), f, <<sh.dir, b>>, f[<<sh.src, a>>])
  BY <1>1, <1>2 DEF Gives
<1>6. ASSUME NEW f, NEW a, <<sh.src, a>> \in DOMAIN f PROVE \E x : Gives(MoveDir(a), f, <<sh.dir, a>>, x)
  <2>1. CASE <<sh.dir, a>> \in DOMAIN f
    <3>1. Gives(MoveDir(a), f, <<sh.dir, a>>, f[<<sh.dir, a>>])
      BY <1>1, <2>1 DEF Gives
    <3>. QED BY <3>1
  <2>2. CASE <<sh.dir, a>> \notin DOMAIN f
    <3>1. Gives(MoveDir(a), f, <<sh.dir, a>>, f[<<sh.src, a>>])
      BY <1>1, <1>2, <1>6, <2>2 DEF Gives
    <3>. QED BY <3>1
  <2>. QED BY <2>1, <2>2
<1>. QED BY <1>1, <1>3, <1>4, <1>5, <1>6

LEMMA MoveFilesBoots == ASSUME ConfInv, BootInv, MoveFiles PROVE BootInv'
<1>. DEFINE l == <<MoveDir("icons"), MoveDir("icons-backup"), MoveDir("drivers_x64"),
                   MoveDir("drivers_ia32"), MoveDir("refind.cer"), MoveDir("local.cer"),
                   MoveFile(Name64(sh.src), Name64(sh.dir)), MoveFile(Name32(sh.src), Name32(sh.dir)),
                   MoveFile("refind.conf", "refind.conf"),
                   MoveFile("refind.conf-sample", "refind.conf-sample")>>
            n64(d) == Name64(d)
            n32(d) == Name32(d)
<1>1. Go("entry", l) /\ sh.script = "mvrefind" /\ sh.pc = "move" /\ sh.pc \in MoveSteps
  BY DEF MoveFiles, At, ConfInv, MoveSteps
<1>2. sh.src # sh.dir /\ (~Doubtful => sh.rEFInd /\ HasRefind(sh.src) /\ HasConf(sh.src))
  BY <1>1 DEF BootInv, Doubtful
<1>3. /\ IsList(l) /\ Len(l) = 10
      /\ l[1] = MoveDir("icons") /\ l[2] = MoveDir("icons-backup") /\ l[3] = MoveDir("drivers_x64")
      /\ l[4] = MoveDir("drivers_ia32") /\ l[5] = MoveDir("refind.cer") /\ l[6] = MoveDir("local.cer")
      /\ l[7] = MoveFile(Name64(sh.src), Name64(sh.dir)) /\ l[8] = MoveFile(Name32(sh.src), Name32(sh.dir))
      /\ l[9] = MoveFile("refind.conf", "refind.conf")
      /\ l[10] = MoveFile("refind.conf-sample", "refind.conf-sample")
  BY TenAt
<1>. HIDE DEF l
<1>4. ASSUME NEW d
      PROVE  /\ Name64(d) \in {"bootx64.efi", "bootmgfw.efi", "refind_x64.efi"}
             /\ Name32(d) \in {"bootia32.efi", "refind_ia32.efi"}
  <2>1. Name64(d) \in {"bootx64.efi", "bootmgfw.efi", "refind_x64.efi"}
    BY Zenon DEF Name64
  <2>2. Name32(d) \in {"bootia32.efi", "refind_ia32.efi"}
    BY DEF Name32
  <2>. QED BY <2>1, <2>2
<1>5. ASSUME NEW d
      PROVE  /\ Name64(d) # Name32(d)
             /\ \A n \in {"icons", "icons-backup", "drivers_x64", "drivers_ia32", "refind.cer", "local.cer",
                          "refind.conf", "refind.conf-sample"} : Name64(d) # n /\ Name32(d) # n
  BY <1>4
<1>6. /\ \A j \in 1 .. 10 : j # 1 => Away(l[j], "icons", "icons")
      /\ \A j \in 1 .. 10 : j # 7 => Away(l[j], Name64(sh.src), Name64(sh.dir))
      /\ \A j \in 1 .. 10 : j # 8 => Away(l[j], Name32(sh.src), Name32(sh.dir))
      /\ \A j \in 1 .. 10 : j # 9 => Away(l[j], "refind.conf", "refind.conf")
  <2>1. \A j \in 1 .. 10 : j # 1 => Away(l[j], "icons", "icons")
    BY <1>2, <1>3, <1>5, MoveIs
  <2>2. \A j \in 1 .. 10 : j # 7 => Away(l[j], Name64(sh.src), Name64(sh.dir))
    BY <1>2, <1>3, <1>5, MoveIs
  <2>3. \A j \in 1 .. 10 : j # 8 => Away(l[j], Name32(sh.src), Name32(sh.dir))
    BY <1>2, <1>3, <1>5, MoveIs
  <2>4. \A j \in 1 .. 10 : j # 9 => Away(l[j], "refind.conf", "refind.conf")
    BY <1>2, <1>3, <1>5, MoveIs
  <2>. QED BY <2>1, <2>2, <2>3, <2>4
<1>7. ASSUME <<sh.src, "icons">> \in DOMAIN files PROVE \E x : Ends(files, l, <<sh.dir, "icons">>, x)
  <2>1. PICK x : Gives(MoveDir("icons"), files, <<sh.dir, "icons">>, x)
    BY <1>2, <1>7, MoveIs
  <2>2. MoveDir("icons").from = <<sh.src, "icons">>
    BY <1>2, MoveIs
  <2>4. l[1] = MoveDir("icons") /\ 1 \in 1 .. Len(l)
    BY <1>3
  <2>5. Gives(l[1], files, <<sh.dir, "icons">>, x) /\ l[1].from = <<sh.src, "icons">>
    BY <2>1, <2>2, <2>4
  <2>3. Ends(files, l, <<sh.dir, "icons">>, x)
    BY <1>3, <1>6, <2>4, <2>5, MoveEnds
  <2>. QED BY <2>3
<1>8. ASSUME NEW i \in 7 .. 9, NEW n, NEW m, l[i] = MoveFile(n, m), <<sh.src, n>> \in DOMAIN files,
             \A j \in 1 .. 10 : j # i => Away(l[j], n, m)
      PROVE  Ends(files, l, <<sh.dir, m>>, files[<<sh.src, n>>])
  <2>1. /\ Gives(l[i], files, <<sh.dir, m>>, files[<<sh.src, n>>]) /\ l[i].from = <<sh.src, n>>
        /\ i \in 1 .. Len(l)
    BY <1>2, <1>3, <1>8, MoveIs
  <2>. QED BY <1>3, <1>8, <2>1, MoveEnds
<1>9. /\ sh'.pc = "entry" /\ sh'.todo = l /\ files' = files /\ mach' = mach /\ nvram' = nvram
      /\ \A x \in DOMAIN sh \ {"pc", "todo", "problems"} : sh'[x] = sh[x]
  BY <1>1 DEF Go, ConfInv, Fields
<1>10. SameRun
  BY <1>9, RunsOn
<1>11. ASSUME ~Doubtful PROVE Arrives'
  <2>. DEFINE p == <<sh.src, IF mach.cpu = "x64" THEN Name64(sh.src) ELSE Name32(sh.src)>>
  <2>1. /\ p \in DOMAIN files /\ files[p].what = "rEFInd" /\ files[p].arch = mach.cpu
        /\ <<sh.src, "icons">> \in DOMAIN files /\ <<sh.src, "refind.conf">> \in DOMAIN files
    BY <1>2, <1>11 DEF HasRefind, HasConf, IsFile
  <2>2. Ends(files, l, MovedEntry, files[p])
    <3>1. CASE mach.cpu = "x64"
      <4>1. MovedEntry = <<sh.dir, Name64(sh.dir)>> /\ p = <<sh.src, Name64(sh.src)>>
        BY <3>1 DEF MovedEntry
      <4>. HIDE DEF p
      <4>. QED BY <1>3, <1>6, <1>8, <2>1, <4>1
    <3>2. CASE mach.cpu # "x64"
      <4>1. MovedEntry = <<sh.dir, Name32(sh.dir)>> /\ p = <<sh.src, Name32(sh.src)>>
        BY <3>2 DEF MovedEntry
      <4>. HIDE DEF p
      <4>. QED BY <1>3, <1>6, <1>8, <2>1, <4>1
    <3>. QED BY <3>1, <3>2
  <2>3. Ends(files, l, <<sh.dir, "refind.conf">>, files[<<sh.src, "refind.conf">>])
    BY <1>3, <1>6, <1>8, <2>1
  <2>4. \A n \in {"icons", "refind.conf"} : \E x : Ends(files, l, <<sh.dir, n>>, x)
    BY <1>7, <2>1, <2>3
  <2>5. Place' = MovedEntry /\ sh'.script = "mvrefind" /\ sh'.dir = sh.dir
    <3>1. Place = MovedEntry
      BY <1>1 DEF Place
    <3>. QED BY <1>1, <1>10, <3>1, SameNames DEF SameRun
  <2>. HIDE DEF p
  <2>6. \E x : /\ Ends(files', sh'.todo, Place', x)
               /\ x.what = "rEFInd" /\ x.arch = mach'.cpu /\ (sh'.script = "install" => x.ver = sh'.a.ver)
    BY <1>9, <2>1, <2>2, <2>5
  <2>7. \A n \in {"icons", "refind.conf"} : \E x : Ends(files', sh'.todo, <<sh'.dir, n>>, x)
    BY <1>9, <2>4, <2>5
  <2>. QED BY <2>5, <2>6, <2>7 DEF Arrives
<1>12. IsList(nvram')
  BY <1>9 DEF BootInv
<1>. QED BY <1>1, <1>9, <1>10, <1>11, <1>12, BootOn DEF MoveSteps

-----------------------------------------------------------------------------
\* Beside the scripts.

LEMMA MkRlConfBoots == ASSUME BootInv, NEW force, MkRlConf(force) PROVE BootInv'
<1>1. sh'.script = "none" /\ sh'.pc = "rlconf" /\ nvram' = nvram /\ mach' = mach
  BY DEF MkRlConf, Idle
<1>2. IsList(nvram') /\ mach' \in Machines
  BY <1>1 DEF BootInv
<1>. QED BY <1>1, <1>2 DEF BootInv

LEMMA BesideBoots == ASSUME ConfInv, BootInv, NEW d, UserEdits(d) \/ WindowsRepairs PROVE BootInv'
<1>1. sh.pc = "idle" /\ sh.script = "none" /\ sh' = sh /\ mach' = mach
  BY DEF UserEdits, WindowsRepairs, ConfInv
<1>2. IsList(nvram')
  <2>1. CASE UserEdits(d)
    BY <2>1 DEF UserEdits, BootInv
  <2>2. CASE WindowsRepairs
    <3>. DEFINE path == <<MSBOOT, "bootmgfw.efi">>
                rest == EntriesWithout(path)
    <3>1. nvram' = <<path>> \o rest
      BY <2>2 DEF WindowsRepairs
    <3>2. IsList(rest)
      BY EntriesList DEF BootInv
    <3>. HIDE DEF rest, path
    <3>. QED BY <3>1, <3>2, EntryIsFirst
  <2>. QED BY <2>1, <2>2
<1>3. mach' \in Machines
  BY <1>1 DEF BootInv
<1>. QED BY <1>1, <1>2, <1>3 DEF BootInv

LEMMA BootInit == Init => BootInv
<1>. SUFFICES ASSUME Init PROVE BootInv
  OBVIOUS
<1>1. IsList(nvram) /\ mach \in Machines
  BY NvramAssumption DEF Init, IsList
<1>2. sh.script = "none" /\ sh.pc = "idle"
  BY DEF Init, Idle
<1>. QED BY <1>1, <1>2 DEF BootInv

LEMMA BootNext == ASSUME ConfInv, OthInv, BootInv, [Next]_vars PROVE BootInv'
<1>1. CASE InstallNext
  <2>1. CASE \E a \in Packages : Install(a)
    BY <2>1, InstallBoots
  <2>2. CASE Command \/ \E torn \in BOOLEAN : CommandFails(torn)
    BY <2>2, CommandBoots
  <2>3. CASE Kill \/ Finish
    BY <2>3, ExitBoots DEF Finish
  <2>4. CASE FindTarget \/ TakeWindows \/ TakeDefault \/ ReplaceDefault
    BY <2>4, FindTargetBoots, TakesBoot
  <2>5. CASE CheckCpu \/ ReSignBinaries \/ SignBinaries \/ CheckSecureBoot
    BY <2>5, ChecksBoot
  <2>6. CASE CopyRefindFiles
    BY <2>6, CopyRefindFilesBoots
  <2>7. CASE Bless \/ NoEntry \/ InstallEntry
    BY <2>7, EntriesBoot
  <2>8. CASE GenerateRefindLinuxConf
    BY <2>8, OptionsBoot
  <2>. QED BY <1>1, <2>1, <2>2, <2>3, <2>4, <2>5, <2>6, <2>7, <2>8 DEF InstallNext
<1>2. CASE \E src, dst \in {REFIND, BOOT, MSBOOT, Elsewhere} : Move(src, dst)
  BY <1>2, MoveBoots
<1>3. CASE BackUpTarget \/ MoveFiles
  BY <1>3, BackUpTargetBoots, MoveFilesBoots
<1>4. CASE AddNvramEntry
  BY <1>4, EntriesBoot
<1>5. CASE \E force \in BOOLEAN : MkRlConf(force)
  BY <1>5, MkRlConfBoots
<1>6. CASE MkRlConfEnds
  BY <1>6, ExitBoots DEF MkRlConfEnds
<1>7. CASE (\E d \in Esp \cup {Elsewhere} : UserEdits(d)) \/ WindowsRepairs
  <2>1. CASE \E d \in Esp \cup {Elsewhere} : UserEdits(d)
    BY <2>1, BesideBoots
  <2>2. CASE WindowsRepairs
    BY <2>2, BesideBoots
  <2>. QED BY <1>7, <2>1, <2>2
<1>8. CASE UNCHANGED vars
  BY <1>8 DEF vars, BootInv, Fits, HasRefind, HasConf, IsFile, Name64, Name32, Doubtful, Arrives, Place,
              ShimPlace, MovedEntry, First, Refind
<1>. QED BY <1>1, <1>2, <1>3, <1>4, <1>5, <1>6, <1>7, <1>8 DEF Next

-----------------------------------------------------------------------------
\* What the firmware starts then.

\* The first entry is started if it can be.
LEMMA FirstBooted ==
  ASSUME IsList(nvram), NEW path, First(path), Loads(path)
  PROVE  Booted = Loaded(path)
<1>. DEFINE c == Candidates
            loading == { i \in DOMAIN c : Loads(c[i]) }
<1>1. PICK S : nvram \in Seq(S)
  BY DEF IsList
<1>2. /\ DOMAIN c = 1 .. Len(nvram) + 1 /\ Len(nvram) \in Nat
      /\ \A i \in 1 .. Len(nvram) : c[i] = nvram[i]
  <2>1. nvram \in Seq(S \cup {Fallback}) /\ Fallback \in S \cup {Fallback}
    BY <1>1
  <2>2. /\ c \in Seq(S \cup {Fallback}) /\ Len(c) = Len(nvram) + 1 /\ Len(nvram) \in Nat
        /\ \A i \in 1 .. Len(nvram) : c[i] = nvram[i]
    BY <2>1, AppendProperties DEF Candidates
  <2>. HIDE DEF c
  <2>. QED BY <2>2
<1>3. 1 \in 1 .. Len(nvram) /\ nvram[1] = path
  BY <1>1 DEF First
<1>. HIDE DEF c
<1>4. 1 \in loading /\ \A i \in loading : i \in Nat /\ 1 <= i
  BY <1>2, <1>3
<1>. HIDE DEF loading
<1>5. Min(loading) = 1
  BY <1>4 DEF Min
<1>6. Booted = Loaded(c[Min(loading)])
  BY <1>4 DEF Booted, loading, c
<1>7. c[1] = path
  BY <1>2, <1>3
<1>. QED BY <1>5, <1>6, <1>7

\* The default loader is, if no entry can be.
LEMMA FallbackBooted ==
  ASSUME IsList(nvram), \A i \in DOMAIN nvram : ~Loads(nvram[i]), Loads(Fallback)
  PROVE  Booted = Loaded(Fallback)
<1>. DEFINE c == Candidates
            loading == { i \in DOMAIN c : Loads(c[i]) }
            n == Len(nvram) + 1
<1>1. PICK S : nvram \in Seq(S)
  BY DEF IsList
<1>2. /\ DOMAIN c = 1 .. n /\ Len(nvram) \in Nat /\ DOMAIN nvram = 1 .. Len(nvram)
      /\ c[n] = Fallback /\ \A i \in 1 .. Len(nvram) : c[i] = nvram[i]
  <2>1. nvram \in Seq(S \cup {Fallback}) /\ Fallback \in S \cup {Fallback}
    BY <1>1
  <2>2. /\ c \in Seq(S \cup {Fallback}) /\ Len(c) = Len(nvram) + 1 /\ Len(nvram) \in Nat
        /\ c[n] = Fallback /\ \A i \in 1 .. Len(nvram) : c[i] = nvram[i]
    BY <2>1, AppendProperties DEF Candidates
  <2>3. DOMAIN nvram = 1 .. Len(nvram)
    BY <1>1
  <2>. HIDE DEF c
  <2>. QED BY <2>2, <2>3
<1>. HIDE DEF c
<1>3. \A i \in 1 .. Len(nvram) : ~Loads(c[i])
  BY <1>2
<1>4. loading = {n}
  BY <1>2, <1>3
<1>5. Min(loading) = n
  <2>. HIDE DEF loading
  <2>. QED BY <1>2, <1>4 DEF Min
<1>. HIDE DEF loading
<1>6. Booted = Loaded(c[Min(loading)])
  BY <1>4 DEF Booted, loading, c
<1>. QED BY <1>2, <1>5, <1>6

LEMMA BootHolds == ASSUME ConfInv, OthInv, BootInv PROVE RefindBoots
<1>. SUFFICES ASSUME Installed, sh.script # "none", ~Doubtful
              PROVE  /\ Loads(Target)
                     /\ Loaded(Target) \in DOMAIN files /\ files[Loaded(Target)].what = "rEFInd"
                     /\ sh.script = "install" => files[Loaded(Target)].ver = sh.a.ver
                     /\ HasConf(sh.dir) /\ IsFile(sh.dir, "icons")
                     /\ Told => Booted = Loaded(Target)
  BY DEF RefindBoots
<1>1. /\ sh.pc = "done" /\ sh.todo = << >> /\ ~sh.problems /\ sh.script \in {"install", "mvrefind"}
      /\ IsList(nvram)
  BY DEF Installed, ConfInv, Fields, BootInv
<1>2. Arrives /\ sh.pc \notin {"target", "cpu"}
  BY <1>1 DEF BootInv, CopySteps
<1>3. \A p, x : Ends(files, sh.todo, p, x) <=> p \in DOMAIN files /\ files[p] = x
  BY <1>1, NothingEnds
<1>4. /\ Place \in DOMAIN files /\ files[Place].what = "rEFInd" /\ files[Place].arch = mach.cpu
      /\ sh.script = "install" => files[Place].ver = sh.a.ver
  BY <1>2, <1>3 DEF Arrives
<1>5. HasConf(sh.dir) /\ IsFile(sh.dir, "icons")
  BY <1>2, <1>3 DEF Arrives, HasConf, IsFile
<1>6. Loads(Place) /\ Loaded(Place) = Place
  BY <1>4 DEF Loads, Loaded
<1>7. CASE sh.script = "mvrefind"
  <2>1. Target = Place /\ Place = MovedEntry /\ First(MovedEntry)
    BY <1>1, <1>7 DEF Target, Place, BootInv
  <2>2. Booted = Loaded(Target)
    BY <1>1, <1>6, <2>1, FirstBooted
  <2>. QED BY <1>4, <1>5, <1>6, <1>7, <2>1, <2>2
<1>8. CASE sh.script = "install"
  <2>1. /\ Fits(sh) /\ ~sh.double /\ mach.cpu \in {"x64", "ia32"} /\ sh.dir \in {REFIND, BOOT, MSBOOT}
        /\ mach.cpu = "ia32" => sh.dir = REFIND
    BY <1>2, <1>8 DEF BootInv, OthInv, Doubtful
  <2>. DEFINE shimmed == sh.a.shim /\ mach.cpu = "x64"
  <2>2. /\ Target = (IF shimmed THEN ShimPlace ELSE Place)
        /\ Place = <<sh.dir, IF mach.cpu = "ia32" THEN sh.ia32 ELSE sh.x64>>
    BY <1>8, <2>1 DEF Target, ShimPlace, Place
  <2>3. Loads(Target) /\ Loaded(Target) = Place
    <3>1. CASE shimmed
      <4>1. ShimPlace \in DOMAIN files /\ files[ShimPlace].what = "shim" /\ files[ShimPlace].arch = "x64"
        BY <1>2, <1>3, <1>8, <3>1 DEF Arrives
      <4>2. sh.x64 = "grubx64.efi" /\ ShimPlace[1] = sh.dir
        BY <2>1, <3>1 DEF Fits, ShimPlace
      <4>3. Place = <<ShimPlace[1], "grubx64.efi">>
        BY <2>1, <2>2, <3>1, <4>2
      <4>4. Target = ShimPlace /\ IsFile(ShimPlace[1], "grubx64.efi")
        BY <1>4, <2>2, <3>1, <4>3 DEF IsFile
      <4>5. Loads(ShimPlace) /\ Loaded(ShimPlace) = Place
        BY <3>1, <4>1, <4>3, <4>4 DEF Loads, Loaded
      <4>. QED BY <4>4, <4>5
    <3>2. CASE ~shimmed
      BY <1>6, <2>2, <3>2
    <3>. QED BY <3>1, <3>2
  <2>4. ASSUME sh.dir = REFIND PROVE Booted = Loaded(Target)
    <3>1. First(<<sh.dir, Refind>>)
      BY <1>1, <1>8, <2>4 DEF BootInv
    <3>2. Target = <<sh.dir, Refind>>
      <4>1. /\ sh.x64 = (IF sh.a.shim THEN "grubx64.efi" ELSE "refind_x64.efi")
            /\ sh.ia32 = "refind_ia32.efi"
        BY <2>1, <2>4 DEF Fits
      <4>2. sh.dir # BOOT
        BY <2>4, DirsApart
      <4>. QED BY <1>8, <2>1, <4>1, <4>2 DEF Target, Refind
    <3>. QED BY <1>1, <2>3, <3>1, <3>2, FirstBooted
  <2>5. ASSUME sh.dir = BOOT, \A i \in DOMAIN nvram : ~Loads(nvram[i]) PROVE Booted = Loaded(Target)
    <3>1. mach.cpu = "x64"
      BY <2>1, <2>5, DirsApart
    <3>2. Target = Fallback
      <4>1. sh.x64 = (IF sh.a.shim THEN "grubx64.efi" ELSE "bootx64.efi")
        BY <2>1, <2>5 DEF Fits
      <4>. QED BY <1>8, <2>5, <3>1, <4>1 DEF Target, Fallback
    <3>. QED BY <1>1, <2>3, <2>5, <3>2, FallbackBooted
  <2>6. Told => Booted = Loaded(Target)
    BY <1>8, <2>4, <2>5 DEF Told
  <2>. QED BY <1>4, <1>5, <2>3, <2>6
<1>. QED BY <1>1, <1>7, <1>8

(* When a script ends without a problem, rEFInd is there in full, and the  *)
(* firmware starts it if it was told of it: on all machines, with all      *)
(* packages, for any number of runs, failures and kills.                   *)
THEOREM SetupRefindBoots == Spec => []RefindBoots
<1>1. Init => ConfInv /\ OthInv /\ BootInv
  BY ConfInit, OthInit, BootInit
<1>2. ConfInv /\ OthInv /\ BootInv /\ [Next]_vars => (ConfInv /\ OthInv /\ BootInv)'
  BY ConfNext, OthNext, BootNext DEF Keeps, Guards
<1>3. ConfInv /\ OthInv /\ BootInv => RefindBoots
  BY BootHolds
<1>. QED BY <1>1, <1>2, <1>3, PTL DEF Spec

=============================================================================
