------------------------------- MODULE Iso9660 -----------------------------
(***************************************************************************)
(* The ISO 9660 driver (filesystems/fsw_iso9660.c). v.block gives a volume *)
(* descriptor, or the records of a directory at their offsets. A dnode     *)
(* carries its record.                                                     *)
(***************************************************************************)
EXTENDS FswBase, FiniteSets, FiniteSetsExt

CONSTANTS PosBits, PATH_MAX,
  DIRREC,         \* size of a record up to the identifier: 33
  FirstVoldesc    \* ISO9660_SUPERBLOCK_BLOCKNO: 16

-----------------------------------------------------------------------------
\* What is on the disk.

VolumeDescriptor == [standard : {"CD001", "CD", "none"}, type : 0 .. 255, version : 0 .. 255]

(* Rock Ridge: the mark SP, the texts of the NM fields, and the block of   *)
(* the continuation area, if these fields are there.                       *)
SuspFields == [sp : BOOLEAN, nm : Seq(Seq(0 .. 255)), ce : Nat]

DirRecord ==
  [length : 0 .. 255, extent : Nat, size : Nat, dir : BOOLEAN, identifier : Seq(0 .. 255), susp : SuspFields]

PrimaryDescriptor ==
  [standard : {"CD001"}, type : {1}, version : {1}, volume_identifier : Seq(0 .. 255), root : DirRecord]

-----------------------------------------------------------------------------

(* The name without the spaces that fill it up.                            *)
VolumeName(primary) ==
  LET name == primary.volume_identifier
  IN  Iso(SubSeq(name, 1, Max({0} \cup {i \in DOMAIN name : name[i] # 32})))

(* The volume descriptors are read up to the last one, type 255, or to one *)
(* that is not of the standard; the last primary one counts.               *)
RECURSIVE ReadVoldescs(_, _, _)
ReadVoldescs(v, bno, primary) ==
  LET d == v.block[bno]
      last == IF d.standard = "CD001" /\ d.type = 1 /\ d.version = 1 THEN <<d>> ELSE primary
  IN  IF bno \in v.bad THEN Error("IO_ERROR")
      ELSE IF d.type = 255 \/ d.standard \notin {"CD001", "CD"} THEN Ok([primary |-> last])
      ELSE ReadVoldescs(v, bno + 1, last)

(* The first record of the root directory tells whether Rock Ridge is in   *)
(* use. The code uses its block without asking whether it could be read;   *)
(* the buffer then is the one of the last descriptor, released before.     *)
VolumeMount(v) ==
  LET Primary(d) ==
        Ok([ root |-> d.root, label |-> strdup_coerce("UTF16", VolumeName(d)).string,
             fRockRidge |-> d.root.extent \notin v.bad /\ v.block[d.root.extent][0].susp.sp ])
      Read(r) == IF r.primary = <<>> THEN Error("UNSUPPORTED") ELSE Primary(r.primary[1])
  IN  OnSuccess(ReadVoldescs(v, FirstVoldesc, <<>>), Read)

DnodeFill(v, rec) ==
  Ok([dno |-> Dnode(rec.extent, IF rec.dir THEN "DIR" ELSE "FILE", rec.size) @@ [raw |-> rec]])

VolumeStat(v) == [total |-> 0, free |-> 0]

(* Neither times nor attributes.                                           *)
DnodeStat(v, dno) == [used |-> ((dno.size + v.bs - 1) \div v.bs) * v.bs]

(* One extent for the whole file.                                          *)
GetExtent(v, dno, log_bno) ==
  Ok([extent |-> PhysBlocks(0, (dno.size + v.bs - 1) \div v.bs, dno.raw.extent)])

-----------------------------------------------------------------------------
\* Directories.

S == INSTANCE FswShandle

(* The identifier without version number (";") and empty extension (".").  *)
CutName(identifier) ==
  LET marks == {i \in 2 .. Len(identifier) : identifier[i] = 59}
      n == IF marks = {} THEN Len(identifier) ELSE Max(marks) - 1
  IN  SubSeq(identifier, 1, IF n > 0 /\ identifier[n] = 46 THEN n - 1 ELSE n)

(* rr_find_nm(): the text of the first NM field. The field may be in the   *)
(* continuation area of the record; if this cannot be read there is none.  *)
HasNm(v, rec) == v.fRockRidge /\ rec.susp.nm # <<>> /\ rec.susp.ce \notin v.bad

RecordName(v, rec) == Iso(IF HasNm(v, rec) THEN rec.susp.nm[1] ELSE CutName(rec.identifier))

RecordAt(v, byte) == IF byte[2] \in DOMAIN v.block[byte[1]] THEN v.block[byte[1]][byte[2]]
                     ELSE [length |-> 0]

(* A record is [length |-> 0] at the end of those in a block.              *)
ReadDirrec(v, shand) ==
  LET NoMore(sh) == Ok([shand |-> sh, rec |-> [length |-> 0]])
      Record(rec, sh) ==
        LET Rest(r) == IF Len(r.data) < rec.length - DIRREC THEN Error("VOLUME_CORRUPTED")
                       ELSE Ok([shand |-> r.shand, rec |-> rec])
        IN  IF rec.length = 0 THEN NoMore(sh)
            ELSE IF rec.length < DIRREC + Len(rec.identifier) THEN Error("VOLUME_CORRUPTED")
            ELSE OnSuccess(S!Read(v, sh, rec.length - DIRREC), Rest)
      WithHead(r) == IF Len(r.data) < DIRREC THEN NoMore(r.shand)
                     ELSE Record(RecordAt(v, r.data[1]), r.shand)
  IN  OnSuccess(S!Read(v, shand, DIRREC), WithHead)

IsDot(rec) == rec.identifier \in {<<0>>, <<1>>}

(* At the end of the records in a block the next block is tried: the one   *)
(* after that of the position, which the header just read has moved.       *)
RECURSIVE DirRead(_, _)
DirRead(v, shand) ==
  LET Found(r) ==
        IF r.rec.length = 0
        THEN DirRead(v, [r.shand EXCEPT !.pos = @ - (@ % v.bs) + v.bs])
        ELSE IF IsDot(r.rec) THEN DirRead(v, r.shand)
        ELSE Ok([shand |-> r.shand, child |-> r.rec, name |-> RecordName(v, r.rec)])
  IN  IF shand.pos >= shand.dnode.size THEN Error("NOT_FOUND")
      ELSE OnSuccess(ReadDirrec(v, shand), Found)

(* Here the first block without further records ends the search.           *)
RECURSIVE Scan(_, _, _)
Scan(v, shand, name) ==
  LET Found(r) ==
        IF r.rec.length = 0 THEN Error("NOT_FOUND")
        ELSE IF ~IsDot(r.rec) /\ streq(name, RecordName(v, r.rec))
        THEN Ok([child |-> r.rec, name |-> RecordName(v, r.rec)])
        ELSE Scan(v, r.shand, name)
  IN  OnSuccess(ReadDirrec(v, shand), Found)

DirLookup(v, dno, name) == Scan(v, ShandleOpen(dno), name)

Readlink(v, dno) == S!ReadlinkData(v, dno)
=============================================================================
