------------------------------ MODULE ExtDir -------------------------------
(***************************************************************************)
(* Directories and links of the ext2 and ext4 drivers, whose code for them *)
(* is the same (filesystems/fsw_ext2.c, filesystems/fsw_ext4.c). GetExtent *)
(* is the map of the driver. The block of a directory gives its entries as *)
(* a function of their offsets.                                            *)
(***************************************************************************)
EXTENDS FswBase

CONSTANTS
  GetExtent(_, _, _),
  PosBits,     \* width of fsw_u32
  PATH_MAX,    \* FSW_PATH_MAX
  HEADER,      \* size of a directory entry without its name: 8
  SECTOR       \* unit of i_blocks: 512

S == INSTANCE FswShandle

DirEntry == [inode : Nat, rec_len : Nat, name : Seq(0 .. 255)]

Dot    == <<46>>        \* "."
DotDot == <<46, 46>>

EntryAt(v, byte) == IF byte = ZERO THEN [inode |-> 0, rec_len |-> 0] ELSE v.block[byte[1]][byte[2]]

EndOfDirectory(shand) == Ok([shand |-> shand, inode |-> 0])

RECURSIVE ReadDentry(_, _)

ReadDentry(v, shand) ==
  LET Entry(e, sh) ==
        LET Named(r) ==
              IF Len(r.data) < Len(e.name) THEN Error("VOLUME_CORRUPTED")
              ELSE Ok([ shand |-> [r.shand EXCEPT !.pos = @ + e.rec_len - (HEADER + Len(e.name))],
                        inode |-> e.inode, name |-> Iso(e.name) ])
        IN  IF e.rec_len = 0 THEN EndOfDirectory(sh)
            ELSE IF e.rec_len < HEADER THEN Error("VOLUME_CORRUPTED")
            ELSE IF e.inode = 0 THEN ReadDentry(v, [sh EXCEPT !.pos = @ + e.rec_len - HEADER])
            ELSE IF e.rec_len < HEADER + Len(e.name) THEN Error("VOLUME_CORRUPTED")
            ELSE OnSuccess(S!Read(v, sh, Len(e.name)), Named)
      WithHead(r) == IF Len(r.data) < HEADER THEN EndOfDirectory(r.shand)
                  ELSE Entry(EntryAt(v, r.data[1]), r.shand)
  IN  OnSuccess(S!Read(v, shand, HEADER), WithHead)

\* Mutant: the entries "." and ".." are returned.
DirReadWithDots(v, shand) ==
  LET Found(r) == IF r.inode = 0 THEN Error("NOT_FOUND")
                  ELSE Ok([shand |-> r.shand, child |-> r.inode, name |-> r.name])
  IN  OnSuccess(ReadDentry(v, shand), Found)

RECURSIVE DirRead(_, _)
DirRead(v, shand) ==
  LET Found(r) == IF r.inode = 0 THEN Error("NOT_FOUND")
                  ELSE IF r.name.data \in {Dot, DotDot} THEN DirRead(v, r.shand)
                  ELSE Ok([shand |-> r.shand, child |-> r.inode, name |-> r.name])
  IN  OnSuccess(ReadDentry(v, shand), Found)

RECURSIVE Scan(_, _, _)
Scan(v, shand, name) ==
  LET Found(r) == IF r.inode = 0 THEN Error("NOT_FOUND")
                  ELSE IF streq(name, r.name) THEN Ok([child |-> r.inode, name |-> r.name])
                  ELSE Scan(v, r.shand, name)
  IN  OnSuccess(ReadDentry(v, shand), Found)

DirLookup(v, dno, name) == Scan(v, ShandleOpen(dno), name)

(* A link without data blocks has its target inside the inode.             *)
Readlink(v, dno) ==
  LET ea_blocks == IF dno.raw.file_acl THEN v.bs \div SECTOR ELSE 0
      r == S!ReadlinkData(v, dno)
  IN  IF dno.size > PATH_MAX THEN Error("VOLUME_CORRUPTED")
      ELSE IF dno.raw.blocks = ea_blocks THEN Ok([target |-> strdup_coerce("UTF16", Iso(dno.raw.block)).string])
      ELSE r
=============================================================================
