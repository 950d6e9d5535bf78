------------------------------ MODULE FswFile ------------------------------
(***************************************************************************)
(* One volume behind the EFI file protocol (filesystems/fsw_efi.c) and one *)
(* file handle on it, through the core and the driver of its file system.  *)
(* In every operation one of the sets of blocks in v.badsets cannot be     *)
(* read. v.truth is what the volume holds, by the definition of its        *)
(* format: of each object its type, size, dates, and its bytes, target or  *)
(* entries; v.name, v.blocks and v.free are those of the volume.           *)
(***************************************************************************)
EXTENDS FswBase, FiniteSets, FiniteSetsExt

CONSTANTS
  Volumes,       \* a sequence of volumes, one of which is in the machine
  Amounts,       \* buffer sizes of reads
  Positions,     \* arguments of SetPosition
  Paths,         \* paths that callers open: sequences of names
  AllOnes,       \* position 0xFFFFFFFFFFFFFFFF
  Rooms,         \* characters that callers' buffers hold, the final zero included
  Texts,         \* sequences of characters that strings are made of
  None,
  PosBits, PATH_MAX,                                  \* see the drivers' modules
  NDIR, HEADER, POINTER, SECTOR, GDESC, GDESC4, MIN_BLOCK, MAX_BLOCK,
  DIRREC, FirstVoldesc, BEHIND, GARBAGE

E2  == INSTANCE Ext2
E4  == INSTANCE Ext4
HFS == INSTANCE Hfs
ISO == INSTANCE Iso9660
RFS == INSTANCE Reiserfs

VARIABLES
  disk,      \* which of Volumes is in the machine
  kept,      \* what the driver keeps of it in memory from the mount on
  mounted,
  file,      \* the open file handle: its type and its storage handle
  got,       \* what the last call returned
  listed,    \* the entries returned since the directory was opened or rewound
  lost       \* how many entries have been passed over without being returned

vars == <<disk, kept, mounted, file, got, listed, lost>>

v == kept @@ Volumes[disk]

Closed == [type |-> "NONE"]

-----------------------------------------------------------------------------
\* The dispatch table of the volume's driver.

VolumeMount(u) ==
  CASE u.fs = "ext2" -> E2!VolumeMount(u)
    [] u.fs = "ext4" -> E4!VolumeMount(u)
    [] u.fs = "hfs" -> HFS!VolumeMount(u)
    [] u.fs = "iso9660" -> ISO!VolumeMount(u)
    [] u.fs = "reiserfs" -> RFS!VolumeMount(u)

DnodeFill(u, id) ==
  CASE u.fs = "ext2" -> E2!DnodeFill(u, id)
    [] u.fs = "ext4" -> E4!DnodeFill(u, id)
    [] u.fs = "hfs" -> HFS!DnodeFill(u, id)
    [] u.fs = "iso9660" -> ISO!DnodeFill(u, id)
    [] u.fs = "reiserfs" -> RFS!DnodeFill(u, id)

GetExtent(u, dno, log_bno) ==
  CASE u.fs = "ext2" -> E2!GetExtent(u, dno, log_bno)
    [] u.fs = "ext4" -> E4!GetExtent(u, dno, log_bno)
    [] u.fs = "hfs" -> HFS!GetExtent(u, dno, log_bno)
    [] u.fs = "iso9660" -> ISO!GetExtent(u, dno, log_bno)
    [] u.fs = "reiserfs" -> RFS!GetExtent(u, dno, log_bno)

DirLookup(u, dno, name) ==
  CASE u.fs = "ext2" -> E2!DirLookup(u, dno, name)
    [] u.fs = "ext4" -> E4!DirLookup(u, dno, name)
    [] u.fs = "hfs" -> HFS!DirLookup(u, dno, name)
    [] u.fs = "iso9660" -> ISO!DirLookup(u, dno, name)
    [] u.fs = "reiserfs" -> RFS!DirLookup(u, dno, name)

DirRead(u, shand) ==
  CASE u.fs = "ext2" -> E2!DirRead(u, shand)
    [] u.fs = "ext4" -> E4!DirRead(u, shand)
    [] u.fs = "hfs" -> HFS!DirRead(u, shand)
    [] u.fs = "iso9660" -> ISO!DirRead(u, shand)
    [] u.fs = "reiserfs" -> RFS!DirRead(u, shand)

Readlink(u, dno) ==
  CASE u.fs = "ext2" -> E2!Readlink(u, dno)
    [] u.fs = "ext4" -> E4!Readlink(u, dno)
    [] u.fs = "hfs" -> HFS!Readlink(u, dno)
    [] u.fs = "iso9660" -> ISO!Readlink(u, dno)
    [] u.fs = "reiserfs" -> RFS!Readlink(u, dno)

VolumeStat(u) ==
  CASE u.fs = "ext2" -> E2!VolumeStat(u)
    [] u.fs = "ext4" -> E4!VolumeStat(u)
    [] u.fs = "hfs" -> HFS!VolumeStat(u)
    [] u.fs = "iso9660" -> ISO!VolumeStat(u)
    [] u.fs = "reiserfs" -> RFS!VolumeStat(u)

DriverStat(u, dno) ==
  CASE u.fs = "ext2" -> E2!DnodeStat(u, dno)
    [] u.fs = "ext4" -> E4!DnodeStat(u, dno)
    [] u.fs = "hfs" -> HFS!DnodeStat(u, dno)
    [] u.fs = "iso9660" -> ISO!DnodeStat(u, dno)
    [] u.fs = "reiserfs" -> RFS!DnodeStat(u, dno)

S == INSTANCE FswShandle

-----------------------------------------------------------------------------
\* The core: dnodes with their names and parents, and paths.

Named(dno, name, parent) == dno @@ [name |-> strdup_coerce("UTF16", name).string, parent |-> parent]

(* A child as the driver knows it becomes a dnode of the core; what the    *)
(* driver keeps of it is read at once.                                     *)
DnodeCreate(u, parent, found) ==
  OnSuccess(DnodeFill(u, found.child), LAMBDA r : Ok([dno |-> Named(r.dno, found.name, parent)]))

(* The root is read once and then stays.                                   *)
Root(u) ==
  IF "root_dno" \in DOMAIN u THEN Ok([dno |-> u.root_dno])
  ELSE OnSuccess(DnodeFill(u, u.root),
                 LAMBDA r : Ok([dno |-> r.dno @@ [name |-> EmptyString, parent |-> None]]))

RECURSIVE Resolve(_, _), LookupPath(_, _, _, _, _)

(* fsw_dnode_lookup_path(), one component; Resolve does nothing to a dnode *)
(* that is not a link.                                                     *)
Child(u, dno, name, root_if_empty) ==
  LET In(dir) ==
        IF dir.type # "DIR" THEN Error("UNSUPPORTED")
        ELSE IF streq_cstr(name, <<46>>) THEN Ok([dno |-> dir])
        ELSE IF streq_cstr(name, <<46, 46>>)
        THEN IF dir.parent = None THEN Error("NOT_FOUND") ELSE Ok([dno |-> dir.parent])
        ELSE OnSuccess(DirLookup(u, dir, name), LAMBDA found : DnodeCreate(u, dir, found))
  IN  IF name.len = 0 THEN IF root_if_empty THEN Root(u) ELSE Ok([dno |-> dno])
      ELSE OnSuccess(Resolve(u, dno), LAMBDA r : In(r.dno))

LookupPath(u, dno, path, separator, root_if_empty) ==
  LET split == strsplit(path, separator)
  IN  IF path.len = 0 THEN Ok([dno |-> dno])
      ELSE OnSuccess(Child(u, dno, split.element, root_if_empty),
                     LAMBDA r : LookupPath(u, r.dno, split.buffer, separator, FALSE))

Resolve(u, dno) ==
  LET Follow(link) ==
        OnSuccess(LookupPath(u, dno.parent, link.target, 47, TRUE),      \* '/'
                  LAMBDA r : Resolve(u, r.dno))
  IN  IF dno.type # "SYMLINK" THEN Ok([dno |-> dno])
      ELSE IF dno.parent = None THEN Error("NOT_FOUND")
      ELSE OnSuccess(Readlink(u, dno), Follow)

(* A driver that says nothing of the space used gets a number of blocks.   *)
DnodeStat(u, dno) ==
  [DriverStat(u, dno) EXCEPT !.used = IF @ # 0 THEN @ ELSE (dno.size + u.bs - 1) \div u.bs]

-----------------------------------------------------------------------------
\* What the host driver tells its callers.

(* IO_ERROR stands for the status of the last access to the disk.          *)
map_status(status) ==
  CASE status = "OUT_OF_MEMORY" -> "VOLUME_CORRUPTED"
    [] status = "IO_ERROR" -> "DEVICE_ERROR"
    [] OTHER -> status

isleap(y) == (y % 4) = 0 /\ ((y % 100) # 0 \/ (y % 400) = 0)

LEAPS_THRU_END_OF(y) == y \div 4 - y \div 100 + y \div 400

YearLength(y) == IF isleap(y) THEN 366 ELSE 365

MonthLengths(y) == <<31, IF isleap(y) THEN 29 ELSE 28, 31, 30, 31, 30, 31, 31, 30, 31, 30, 31>>

\* Mutant: the first guess of the year stands, without the leap days.
GuessYear(y, days) == [year |-> y + days \div 365, days |-> days % 365]

(* The year is guessed from the days as if none were leap years, and       *)
(* corrected by the next guess; "/" cuts towards zero.                     *)
RECURSIVE FindYear(_, _)
FindYear(y, days) ==
  LET newy == IF days < 0 THEN y - ((-days) \div 365) - 1 ELSE y + days \div 365
      left == days - (newy - y) * 365 - (LEAPS_THRU_END_OF(newy - 1) - LEAPS_THRU_END_OF(y - 1))
  IN  IF days >= 0 /\ days < YearLength(y) THEN [year |-> y, days |-> days] ELSE FindYear(newy, left)

RECURSIVE FindMonth(_, _, _)
FindMonth(lengths, month, days) ==
  IF days < lengths[month] THEN [month |-> month, day |-> days + 1]
  ELSE FindMonth(lengths, month + 1, days - lengths[month])

EfiTime(year, month, day, seconds) ==
  [ year |-> year, month |-> month, day |-> day,
    hour |-> seconds \div 3600, minute |-> (seconds \div 60) % 60, second |-> seconds % 60 ]

NoTime == EfiTime(0, 0, 0, 0)

(* A time is a day since 1970 and a second of the day.                     *)
decode_time(time) ==
  LET In(year, m) == EfiTime(year, m.month, m.day, time[2])
      OfYear(y) == In(y.year, FindMonth(MonthLengths(y.year), 1, y.days))
  IN  OfYear(FindYear(1970, time[1]))

strsize(s) == IF s.type = "EMPTY" THEN 1 ELSE s.len + 1

strcpy(s) == IF s.type = "UTF16" THEN s.data ELSE <<>>

(* fsw_efi_dnode_fill_FileInfo(), for a dnode that has been read. A driver *)
(* that stores no times or attributes leaves them zero.                    *)
FileInfo(u, dno, room) ==
  LET Info(s) ==
        LET Time(which) == IF which \in DOMAIN s THEN decode_time(s[which]) ELSE NoTime
        IN  [ name |-> strcpy(dno.name), size |-> dno.size, dir |-> dno.type = "DIR",
              readonly |-> "writable" \in DOMAIN s /\ ~s.writable, physical |-> s.used,
              create |-> Time("ctime"), modify |-> Time("mtime"), access |-> Time("atime") ]
  IN  IF room < strsize(dno.name) THEN Error("BUFFER_TOO_SMALL")
      ELSE Ok([info |-> Info(DnodeStat(u, dno))])

FileSystemInfo(u, room) ==
  IF room < strsize(u.label) THEN Error("BUFFER_TOO_SMALL")
  ELSE Ok([info |-> VolumeStat(u) @@ [readonly |-> TRUE, block |-> u.bs, label |-> strcpy(u.label)]])

VolumeLabelInfo(u, room) ==
  IF room < strsize(u.label) THEN Error("BUFFER_TOO_SMALL") ELSE Ok([info |-> strcpy(u.label)])

-----------------------------------------------------------------------------

Init ==
  /\ disk \in DOMAIN Volumes
  /\ kept = <<>>
  /\ mounted = FALSE
  /\ file = Closed
  /\ got = [op |-> "none"]
  /\ listed = <<>>
  /\ lost = 0

Failing(bad) == [v EXCEPT !.bad = bad]

(* fsw_mount(): a failed mount leaves nothing behind and may be retried.   *)
Mount ==
  /\ ~mounted
  /\ \E bad \in v.badsets : \E r \in {VolumeMount(Failing(bad))} :
       /\ got' = [op |-> "mount", status |-> r.status, clean |-> bad = {}]
       /\ mounted' = ~Failed(r)
       /\ kept' = IF Failed(r) THEN kept ELSE r
  /\ UNCHANGED <<disk, file, listed, lost>>

(* fsw_efi_dnode_to_FileHandle()                                           *)
Handle(r) ==
  IF Failed(r) THEN Error(map_status(r.status))
  ELSE IF r.dno.type \notin {"FILE", "DIR"} THEN Error("UNSUPPORTED")
  ELSE Ok([file |-> [type |-> r.dno.type, shand |-> ShandleOpen(r.dno)]])

Opens(call, h) ==
  /\ got' = call @@ [status |-> h.status]
  /\ file' = IF Failed(h) THEN file ELSE h.file
  /\ listed' = IF Failed(h) THEN listed ELSE <<>>
  /\ lost' = IF Failed(h) THEN lost ELSE 0
  /\ UNCHANGED <<disk, mounted>>

OpenVolume ==
  /\ mounted /\ file = Closed
  /\ \E bad \in v.badsets : \E r \in {Root(Failing(bad))} :
       /\ Opens([op |-> "open volume", clean |-> bad = {}], Handle(r))
       /\ kept' = IF Failed(r) THEN kept ELSE [root_dno |-> r.dno] @@ kept

(* The objects from the root down to a dnode.                              *)
RECURSIVE Place(_)
Place(dno) == IF dno.parent = None THEN <<dno.id>> ELSE Append(Place(dno.parent), dno.id)

JoinPath(names) ==
  FlattenSeq([i \in DOMAIN names |-> IF i < Len(names) THEN Append(names[i], 92) ELSE names[i]])

(* fsw_efi_dir_open(): the names of a path are separated by '\'. The new   *)
(* handle takes the place of the directory's.                              *)
Open ==
  /\ file.type = "DIR"
  /\ \E bad \in v.badsets, path \in Paths :
       LET u == Failing(bad)
           dir == file.shand.dnode
           found == OnSuccess(LookupPath(u, dir, Utf16(JoinPath(path)), 92, TRUE),
                              LAMBDA r : Resolve(u, r.dno))
       IN  Opens([op |-> "open", clean |-> bad = {}, path |-> path, place |-> Place(dir)],
                 Handle(found))
  /\ UNCHANGED kept

Quietly == UNCHANGED <<disk, kept, mounted, listed, lost>>

(* A file cannot be deleted, but its handle is closed.                     *)
Close ==
  /\ file # Closed
  /\ \E status \in {"SUCCESS", "WARN_DELETE_FAILURE"} : got' = [op |-> "close", status |-> status]
  /\ file' = Closed
  /\ listed' = <<>> /\ lost' = 0
  /\ UNCHANGED <<disk, kept, mounted>>

(* Writing, setting information and flushing, and opening for writing; and *)
(* opening relative to a file, or other positions in a directory than its  *)
(* beginning.                                                              *)
Refused ==
  /\ file # Closed
  /\ \E status \in {"WRITE_PROTECTED", "UNSUPPORTED"} : got' = [op |-> "refused", status |-> status]
  /\ UNCHANGED file
  /\ Quietly

FileRead ==
  /\ file.type = "FILE"
  /\ \E bad \in v.badsets, n \in Amounts : \E r \in {S!Read(Failing(bad), file.shand, n)} :
       /\ got' = [op |-> "read", status |-> map_status(r.status), clean |-> bad = {}] @@
                 (IF Failed(r) THEN <<>> ELSE [data |-> r.data])
       /\ file' = [file EXCEPT !.shand = r.shand]
  /\ Quietly

FileGetPosition ==
  /\ file.type = "FILE"
  /\ got' = [op |-> "position", status |-> "SUCCESS", pos |-> file.shand.pos]
  /\ UNCHANGED file
  /\ Quietly

FileSetPosition ==
  /\ file.type = "FILE"
  /\ \E p \in Positions :
       file' = [file EXCEPT !.shand.pos = IF p = AllOnes THEN file.shand.dnode.size ELSE p]
  /\ got' = [op |-> "set position"]
  /\ Quietly

(* What reading one entry comes to. The core puts the position back when   *)
(* the driver's dir_read fails. An entry that was read is passed over even *)
(* if the caller does not get it.                                          *)
ReadEntry(u, f, room) ==
  LET NoEntry(status) == [status |-> status, file |-> f, infos |-> <<>>, lost |-> 0]
      Passed(shand, status) ==
        [status |-> map_status(status), file |-> [f EXCEPT !.shand = shand], infos |-> <<>>, lost |-> 1]
      Told(shand, dno, i) ==
        IF Failed(i) THEN [needs |-> strsize(dno.name)] @@ Passed(shand, i.status)
        ELSE [status |-> "SUCCESS", file |-> [f EXCEPT !.shand = shand], infos |-> <<i.info>>, lost |-> 0]
      Filled(shand, d) ==
        IF Failed(d) THEN [needs |-> 0] @@ Passed(shand, d.status)
        ELSE Told(shand, d.dno, FileInfo(u, d.dno, room))
      Entry(r) ==
        IF r.status = "NOT_FOUND" THEN NoEntry("END")
        ELSE IF Failed(r) THEN NoEntry(map_status(r.status))
        ELSE Filled(r.shand, DnodeCreate(u, f.shand.dnode, r))
  IN  Entry(DirRead(u, f.shand))

Reads(r, clean) ==
  /\ got' = [op |-> "dir read", clean |-> clean, status |-> r.status]
  /\ file' = r.file
  /\ listed' = listed \o r.infos
  /\ lost' = lost + r.lost
  /\ UNCHANGED <<disk, kept, mounted>>

DirReadEntry ==
  /\ file.type = "DIR"
  /\ \E bad \in v.badsets, room \in Rooms : Reads(ReadEntry(Failing(bad), file, room), bad = {})

(* DirNextEntry() of refind: five readings at most, with a buffer that     *)
(* grows to what the last asked for. Each reads another entry.             *)
Then(r1, r2) == [r2 EXCEPT !.infos = r1.infos \o @, !.lost = r1.lost + @]

RECURSIVE ReadGrowing(_, _, _, _)
ReadGrowing(u, f, room, readings) ==
  LET More(r) == IF r.needs <= room THEN 2 * room ELSE r.needs
      After(r) == IF r.status # "BUFFER_TOO_SMALL" \/ readings = 5 THEN r
                  ELSE Then(r, ReadGrowing(u, r.file, More(r), readings + 1))
  IN  After(ReadEntry(u, f, room))

(* Entries of the other kind are read on the way.                          *)
RECURSIVE NextEntry(_, _, _, _)
NextEntry(u, f, room, filter) ==
  LET After(r) == IF r.status # "SUCCESS" \/ r.infos[1].dir = (filter = "dirs") THEN r
                  ELSE Then(r, NextEntry(u, r.file, room, filter))
  IN  After(ReadGrowing(u, f, room, 1))

DirNextEntry ==
  /\ file.type = "DIR"
  /\ \E bad \in v.badsets, room \in Rooms, filter \in {"dirs", "files"} :
       Reads(NextEntry(Failing(bad), file, room, filter), bad = {})

DirRewind ==
  /\ file.type = "DIR"
  /\ file' = [file EXCEPT !.shand.pos = 0]
  /\ got' = [op |-> "set position"]
  /\ listed' = <<>> /\ lost' = 0
  /\ UNCHANGED <<disk, kept, mounted>>

(* Any other type of information is unsupported.                           *)
GetInfo ==
  /\ file # Closed
  /\ \E type \in {"file", "file system", "label", "other"}, room \in Rooms :
       got' = [op |-> "info", type |-> type] @@
              CASE type = "file" -> FileInfo(v, file.shand.dnode, room)
                [] type = "file system" -> FileSystemInfo(v, room)
                [] type = "label" -> VolumeLabelInfo(v, room)
                [] OTHER -> Error("UNSUPPORTED")
  /\ UNCHANGED file
  /\ Quietly

Next ==
  \/ Mount \/ OpenVolume \/ Open \/ Close \/ Refused \/ GetInfo
  \/ FileRead \/ FileGetPosition \/ FileSetPosition
  \/ DirReadEntry \/ DirNextEntry \/ DirRewind

Spec == Init /\ [][Next]_vars

-----------------------------------------------------------------------------
\* What the calls promise.

Truth(id) == Volumes[disk].truth[id]

(* A file is a sequence of bytes: whatever the sizes of the reads, the     *)
(* moves of the position, the extents the handle remembers and the blocks  *)
(* that cannot be read, a read that succeeds returns the bytes that the    *)
(* format of the volume puts there, and one that fails moves nothing.      *)
FilesOf(u) == {u.truth[id].data : id \in {i \in DOMAIN u.truth : u.truth[i].type = "FILE"}}

AllFiles == UNION {FilesOf(Volumes[i]) : i \in DOMAIN Volumes}

Bytes == INSTANCE ByteFile WITH
  Contents <- AllFiles,
  data <- IF file.type = "FILE" THEN Truth(file.shand.dnode.id).data ELSE None,
  pos  <- IF file.type = "FILE" THEN file.shand.pos ELSE 0,
  out  <- IF got.op = "read" /\ got.status = "SUCCESS" THEN got.data ELSE None

ReadsContent == Bytes!Spec

(* The day of a date, counted year by year and month by month.             *)
DayOf(date) ==
  LET lengths == MonthLengths(date.year)
      before[m \in 1 .. 12] == IF m = 1 THEN 0 ELSE before[m - 1] + lengths[m - 1]
  IN  365 * (date.year - 1970) + Cardinality({y \in 1970 .. date.year - 1 : isleap(y)})
      + before[date.month] + date.day - 1

SameTime(date, time) ==
  /\ date.month \in 1 .. 12 /\ date.day \in 1 .. MonthLengths(date.year)[date.month]
  /\ DayOf(date) = time[1]
  /\ date.hour * 3600 + date.minute * 60 + date.second = time[2]

(* What is told of an object is so: its size, kind, dates and protection;  *)
(* ISO 9660 tells no dates.                                                *)
Describes(info, object) ==
  /\ info.size = object.size
  /\ info.dir = (object.type = "DIR")
  /\ v.fs # "iso9660" =>
       /\ info.readonly = ~object.writable
       /\ SameTime(info.create, object.ctime)
       /\ SameTime(info.modify, object.mtime)

(* A listing that has come to its end has returned every entry of the      *)
(* directory once, under its name and with what is so of it, but for those *)
(* that were passed over because the caller's buffer was too small or      *)
(* their inode could not be read; failed reads in between neither skip nor *)
(* repeat an entry.                                                        *)
ListingComplete ==
  got.op = "dir read" /\ got.status = "END" =>
    LET entries == Truth(file.shand.dnode.id).entries
    IN  /\ \A i, j \in DOMAIN listed : listed[i].name = listed[j].name => i = j
        /\ \A i \in DOMAIN listed : \E e \in entries :
             listed[i].name = e[1] /\ Describes(listed[i], Truth(e[2]))
        /\ Len(listed) + lost = Cardinality(entries)

SameName(n1, n2) ==
  LET Lower(name) == [i \in DOMAIN name |-> IF name[i] \in 65 .. 90 THEN name[i] + 32 ELSE name[i]]
  IN  IF v.binary THEN n1 = n2 ELSE Lower(n1) = Lower(n2)

(* Where a path leads from a place: through every entry that has the name, *)
(* by the rule of the volume, and through links.                           *)
RECURSIVE Walk(_, _)
Walk(place, path) ==
  LET names == IF Truth(Last(place)).type # "DIR" THEN {}
               ELSE {e[2] : e \in {e \in Truth(Last(place)).entries : SameName(e[1], Head(path))}}
      From(id) == IF Truth(id).type = "SYMLINK" THEN Walk(place, Truth(id).target)
                  ELSE {Append(place, id)}
      next == CASE Head(path) = <<>> -> {place}
                [] Head(path) = <<46>> -> IF Truth(Last(place)).type = "DIR" THEN {place} ELSE {}
                [] Head(path) = <<46, 46>> -> IF Len(place) > 1 /\ Truth(Last(place)).type = "DIR"
                                              THEN {Front(place)} ELSE {}
                [] OTHER -> UNION {From(id) : id \in names}
  IN  IF path = <<>> THEN {place} ELSE UNION {Walk(p, Tail(path)) : p \in next}

Leads(place, path) ==
  IF Len(path) > 1 /\ Head(path) = <<>> THEN Walk(<<place[1]>>, path) ELSE Walk(place, path)

(* A path that is opened leads there by the names of the volume's entries, *)
(* through "." and "..", links and the root; and when every block can be   *)
(* read a path fails to open only if it leads to no file or directory.     *)
OpensWhatIsNamed ==
  got.op = "open" =>
    LET places == Leads(got.place, got.path)
        openable == {p \in places : Truth(Last(p)).type \in {"FILE", "DIR"}}
    IN  /\ got.status = "SUCCESS" => Place(file.shand.dnode) \in openable
        /\ got.status = "NOT_FOUND" \/ (got.clean /\ got.status # "SUCCESS") => openable = {}

(* What GetInfo tells of the open file and of the volume is so. Excepted   *)
(* are the name of an HFS+ volume, which the driver does not read, and the *)
(* size of an ISO 9660 volume.                                             *)
InfoTrue ==
  got.op = "info" /\ got.status = "SUCCESS" =>
    LET dno == file.shand.dnode
    IN  CASE got.type = "file" ->
               IF dno.parent = None THEN got.info.dir
               ELSE /\ Describes(got.info, Truth(dno.id))
                    /\ \E e \in Truth(dno.parent.id).entries :
                         e[2] = dno.id /\ SameName(e[1], got.info.name)
          [] got.type = "file system" ->
               /\ v.fs # "hfs" => got.info.label = v.name
               /\ v.fs # "iso9660" => got.info.total = v.blocks * v.bs /\ got.info.free = v.free * v.bs
          [] got.type = "label" -> v.fs # "hfs" => got.info = v.name

-----------------------------------------------------------------------------
\* Strings.

Types == {"ISO88591", "UTF8", "UTF16", "UTF16_SWAPPED"}

(* The string of a text in an encoding, if that has all its characters.    *)
Holds(type, text) ==
  \A i \in DOMAIN text : text[i] < (CASE type = "ISO88591" -> 256 [] type = "UTF8" -> 1114112 [] OTHER -> 65536)

Encoded(type, text) ==
  String(type, Len(text), CASE type = "UTF8" -> ToUtf8(text)
                            [] type = "UTF16_SWAPPED" -> [i \in DOMAIN text |-> Swap(text[i])]
                            [] OTHER -> text)

(* Converting a string keeps its text; strings compare as their texts do,  *)
(* whatever the encodings, ISO 8859-1 with UTF-16 without case; and the    *)
(* parts of a path that is split contain all of it but the separator.      *)
StringsSound ==
  got.op = "none" =>
    /\ \A text \in Texts, from \in Types, to \in Types \ {"UTF16_SWAPPED"} :
         Holds(from, text) /\ Holds(to, text) =>
           LET copy == strdup_coerce(to, Encoded(from, text)).string
           IN  copy.type = to /\ copy.len = Len(text) /\ Chars(copy) = text
    /\ \A t1, t2 \in Texts, a, b \in Types :
         Holds(a, t1) /\ Holds(b, t2) =>
           LET folds == {a, b} = {"ISO88591", "UTF16"}
               same == t1 = t2 \/ (folds /\ HFS!Lowered(t1) = HFS!Lowered(t2))
           IN  streq(Encoded(a, t1), Encoded(b, t2)) <=> same
    /\ \A text \in Texts, type \in {"ISO88591", "UTF16"} :
         Holds(type, text) =>
           LET split == strsplit(Encoded(type, text), 92)
           IN  /\ 92 \notin {split.element.data[i] : i \in DOMAIN split.element.data}
               /\ text \in { split.element.data \o split.buffer.data,
                            split.element.data \o <<92>> \o split.buffer.data }

-----------------------------------------------------------------------------
\* The volumes are well formed. u.layout tells which blocks hold what.

AllOf(u, kind, type) ==
  \A b \in u.layout[kind] : \A i \in DOMAIN u.block[b] : u.block[b][i] \in type

WellFormed(u) ==
  CASE u.fs = "ext2" ->
         /\ u.sb \in E2!SuperBlock
         /\ AllOf(u, "groups", E2!GroupDesc) /\ AllOf(u, "inodes", E2!Inode)
         /\ AllOf(u, "directories", E2!D!DirEntry) /\ AllOf(u, "pointers", Nat)
    [] u.fs = "ext4" ->
         /\ u.sb \in E4!SuperBlock
         /\ AllOf(u, "groups", E4!GroupDesc)
         /\ \A b \in u.layout.inodes : \A i \in DOMAIN u.block[b] :
              u.block[b][i] \in IF "EXTENTS" \in u.block[b][i].flags THEN E4!ExtentInode ELSE E4!Inode
         /\ AllOf(u, "directories", E4!DirEntry) /\ AllOf(u, "pointers", Nat)
         /\ \A b \in u.layout.extents : u.block[b] \in E4!ExtentHeader
    [] u.fs = "hfs" ->
         /\ u.sb \in HFS!VolumeHeader
         /\ \A b \in u.layout.headers : u.block[b] \in HFS!HeaderRec
         /\ \A b \in u.layout.catalog : u.block[b] \in HFS!CatalogNode
         /\ \A b \in u.layout.extents : u.block[b] \in HFS!ExtentsNode
    [] u.fs = "iso9660" ->
         /\ \A b \in u.layout.descriptors :
              u.block[b] \in IF u.block[b].type = 1 THEN ISO!PrimaryDescriptor ELSE ISO!VolumeDescriptor
         /\ AllOf(u, "directories", ISO!DirRecord)
    [] u.fs = "reiserfs" ->
         /\ \A i \in DOMAIN u.super : u.super[i] \in RFS!SuperBlock
         /\ \A b \in u.layout.internal : u.block[b] \in RFS!InternalNode
         /\ \A b \in u.layout.leaves : u.block[b] \in RFS!Leaf

ASSUME VolumesSound == \A i \in DOMAIN Volumes : WellFormed(Volumes[i])
=============================================================================
