-------------------------------- MODULE Ext2 -------------------------------
(***************************************************************************)
(* The ext2 and ext3 driver (filesystems/fsw_ext2.c). v.sb is the          *)
(* superblock; v.block gives the content of the blocks of metadata as a    *)
(* function of the place of an item in the block: block numbers of inode   *)
(* tables in the group descriptors, inodes, and block pointers. A dnode is *)
(* known by its inode number.                                              *)
(***************************************************************************)
EXTENDS FswBase, FiniteSets, FiniteSetsExt

CONSTANTS
  PosBits,     \* width of fsw_u32
  PATH_MAX,    \* FSW_PATH_MAX
  NDIR,        \* EXT2_NDIR_BLOCKS: 12
  HEADER,      \* size of a directory entry without its name: 8
  POINTER,     \* size of a block pointer: 4
  GDESC,       \* size of a group descriptor: 32
  SECTOR       \* unit of i_blocks: 512

-----------------------------------------------------------------------------
\* What is on the disk.

SuperBlock ==
  [ at : Nat, magic : BOOLEAN, rev : {"GOOD_OLD", "DYNAMIC"}, incompat : SUBSET STRING,
    inodes_count : Nat, inodes_per_group : Nat, inode_size : Nat, first_data_block : Nat,
    blocks_count : Nat, free_blocks_count : Nat, volume_name : Seq(0 .. 255) ]

GroupDesc == Nat        \* bg_inode_table

(* Times are a day since 1970 and a second of the day.                     *)
InodeWith(Blocks) ==
  [ mode : {"FILE", "DIR", "SYMLINK", "SPECIAL"}, writable : BOOLEAN, size : Nat,
    ctime : Nat \X Nat, mtime : Nat \X Nat, atime : Nat \X Nat, flags : SUBSET STRING,
    blocks : Nat, block : Blocks, file_acl : BOOLEAN ]

(* A short link has its text in the place of the block pointers.           *)
Inode == InodeWith([0 .. NDIR + 2 -> Nat] \cup Seq(0 .. 255))

-----------------------------------------------------------------------------

RootIno == 2

Unsupported(sb) ==
  \/ ~sb.magic
  \/ sb.rev \notin {"GOOD_OLD", "DYNAMIC"}
  \/ sb.rev = "DYNAMIC" /\ ~(sb.incompat \subseteq {"FILETYPE", "RECOVER"})

(* The name ends at the first zero byte, or is full.                       *)
VolumeName(sb) ==
  LET end == SelectInSeq(sb.volume_name \o <<0>>, LAMBDA c : c = 0)
  IN  Iso(SubSeq(sb.volume_name, 1, end - 1))

GroupCount(sb) == (sb.inodes_count - 2) \div sb.inodes_per_group + 1

GdescBlock(v, group) == v.sb.first_data_block + 1 + group \div (v.bs \div GDESC)

VolumeMount(v) ==
  LET groups == 0 .. GroupCount(v.sb) - 1
  IN  IF v.sb.at \in v.bad THEN Error("IO_ERROR")
      ELSE IF Unsupported(v.sb) THEN Error("UNSUPPORTED")
      ELSE IF \E g \in groups : GdescBlock(v, g) \in v.bad THEN Error("IO_ERROR")
      ELSE Ok([ root |-> RootIno, label |-> strdup_coerce("UTF16", VolumeName(v.sb)).string,
                inotab |-> [g \in groups |-> v.block[GdescBlock(v, g)][g % (v.bs \div GDESC)]] ])

DnodeFill(v, ino) ==
  LET in_group  == (ino - 1) % v.sb.inodes_per_group
      per_block == v.bs \div v.sb.inode_size
      bno == v.inotab[(ino - 1) \div v.sb.inodes_per_group] + in_group \div per_block
      raw == v.block[bno][in_group % per_block]
  IN  IF bno \in v.bad THEN Error("IO_ERROR")
      ELSE Ok([dno |-> Dnode(ino, raw.mode, raw.size) @@ [raw |-> raw]])

VolumeStat(v) == [total |-> v.sb.blocks_count * v.bs, free |-> v.sb.free_blocks_count * v.bs]

Stat(used, raw) ==
  [ used |-> used % 2^PosBits, ctime |-> raw.ctime, atime |-> raw.atime, mtime |-> raw.mtime,
    writable |-> raw.writable ]

DnodeStat(v, dno) == Stat(dno.raw.blocks * SECTOR, dno.raw)

-----------------------------------------------------------------------------
\* From the blocks of a file to those of the disk.

BlockPath(v, log_bno) ==
  LET ind == v.bs \div POINTER
      dind == ind * ind
      b1 == log_bno - NDIR
      b2 == b1 - ind
      b3 == b2 - dind
  IN  IF log_bno < NDIR THEN <<log_bno>>
      ELSE IF b1 < ind THEN <<NDIR, b1>>
      ELSE IF b2 < dind THEN <<NDIR + 1, b2 \div ind, b2 % ind>>
      ELSE <<NDIR + 2, b3 \div dind, (b3 \div ind) % ind, b3 % ind>>

(* Each block of pointers on the path is read in turn, from i_block on.    *)
RECURSIVE Follow(_, _, _, _)
Follow(v, buffer, bcnt, path) ==
  LET bno == buffer[Head(path)]
  IN  IF bno = 0 \/ Len(path) = 1
      THEN Ok([bno |-> bno, buffer |-> buffer, bcnt |-> bcnt, at |-> Head(path)])
      ELSE IF bno \in v.bad THEN Error("IO_ERROR")
      ELSE Follow(v, v.block[bno], v.bs \div POINTER, Tail(path))

\* Mutant: the run goes on over a gap between the blocks.
ContiguousAcrossGaps(v, dno, f, log_bno) == f.bcnt - f.at

(* How many pointers from at on name consecutive blocks.                   *)
Contiguous(v, dno, f, log_bno) ==
  LET file_bcnt == (dno.size + v.bs - 1) % v.bs   \* "&" with the block size less one
      Joins(k) == /\ f.at + k < f.bcnt
                  /\ log_bno + k < file_bcnt
                  /\ f.buffer[f.at + k] = f.buffer[f.at + k - 1] + 1
  IN  Max({n \in 1 .. f.bcnt : \A k \in 1 .. n - 1 : Joins(k)})

GetExtent(v, dno, log_bno) ==
  LET f == Follow(v, dno.raw.block, NDIR, BlockPath(v, log_bno))
  IN  IF Failed(f) THEN f
      ELSE IF f.bno = 0 THEN Ok([extent |-> SparseBlock(log_bno)])
      ELSE Ok([extent |-> PhysBlocks(log_bno, Contiguous(v, dno, f, log_bno), f.bno)])

-----------------------------------------------------------------------------

D == INSTANCE ExtDir

DirLookup(v, dno, name) == D!DirLookup(v, dno, name)
DirRead(v, shand)       == D!DirRead(v, shand)
Readlink(v, dno)        == D!Readlink(v, dno)
=============================================================================
