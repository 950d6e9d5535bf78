-------------------------------- MODULE Ext4 -------------------------------
(***************************************************************************)
(* The ext4 driver (filesystems/fsw_ext4.c). The representation is that of *)
(* module Ext2; an inode or a block may also hold a node of an extent tree *)
(* [magic, depth, entries], with <<first block, length, disk block>> in    *)
(* leaves and <<first block, child>> above them.                           *)
(***************************************************************************)
EXTENDS FswBase, FiniteSets, FiniteSetsExt

CONSTANTS PosBits, PATH_MAX, NDIR, HEADER, POINTER, SECTOR,
  GDESC4,                     \* EXT4_MIN_DESC_SIZE: 32
  MIN_BLOCK, MAX_BLOCK        \* EXT4_MIN_BLOCK_SIZE, EXT4_MAX_BLOCK_SIZE

E2 == INSTANCE Ext2 WITH GDESC <- GDESC4

-----------------------------------------------------------------------------
\* What is on the disk, as far as it is not that of ext2.

SuperBlock ==
  [ at : Nat, magic : BOOLEAN, rev : {"GOOD_OLD", "DYNAMIC"}, incompat : SUBSET STRING,
    ro_compat : SUBSET STRING, first_meta_bg : Nat, inodes_per_group : Nat, inode_size : Nat,
    first_data_block : Nat, blocks_per_group : Nat, blocks_count : Nat,
    free_blocks_count : Nat, volume_name : Seq(0 .. 255) ]

GroupDesc == Nat        \* bg_inode_table_lo

ExtentHeader == [magic : BOOLEAN, depth : Nat, entries : Seq(Nat \X Nat \cup Nat \X Nat \X Nat)]

Inode == E2!Inode

ExtentInode == E2!InodeWith(ExtentHeader)

-----------------------------------------------------------------------------

Supported == {"FILETYPE", "RECOVER", "EXTENTS", "FLEX_BG", "META_BG"}

Unsupported(v) ==
  \/ ~v.sb.magic
  \/ v.sb.rev \notin {"GOOD_OLD", "DYNAMIC"}
  \/ v.sb.rev = "DYNAMIC" /\ ~(v.sb.incompat \subseteq Supported)
  \/ v.bs \notin MIN_BLOCK .. MAX_BLOCK

(* Copies of the superblock are in groups 0 and 1 and the powers of 3, 5   *)
(* and 7.                                                                  *)
RECURSIVE TestRoot(_, _, _)
TestRoot(a, num, b) == IF a > num THEN TestRoot(a, num * b, b) ELSE num = a

GroupSparse(group) ==
  \/ group <= 1
  \/ (group % 2) = 1 /\ \E b \in {3, 5, 7} : TestRoot(group, b, b)

GroupFirstBlock(sb, group) == group * sb.blocks_per_group + sb.first_data_block

GroupCount(sb) ==
  (sb.blocks_count - sb.first_data_block + sb.blocks_per_group - 1) \div sb.blocks_per_group

(* With META_BG a descriptor is in the first group of its meta group, past *)
(* the superblock if there is one; all others follow the superblock.       *)
GdescBlock(v, group) ==
  LET per_block == v.bs \div GDESC4
      metabg == (group \div per_block) * per_block
      super == "SPARSE_SUPER" \notin v.sb.ro_compat \/ GroupSparse(metabg)
  IN  IF "META_BG" \in v.sb.incompat /\ group >= v.sb.first_meta_bg
      THEN GroupFirstBlock(v.sb, metabg) + (IF super THEN 1 ELSE 0)
      ELSE v.sb.first_data_block + 1 + group \div per_block

VolumeMount(v) ==
  LET groups == 0 .. GroupCount(v.sb) - 1
  IN  IF v.sb.at \in v.bad THEN Error("IO_ERROR")
      ELSE IF Unsupported(v) THEN Error("UNSUPPORTED")
      ELSE IF \E g \in groups : GdescBlock(v, g) \in v.bad THEN Error("IO_ERROR")
      ELSE Ok([ root |-> E2!RootIno, label |-> strdup_coerce("UTF16", E2!VolumeName(v.sb)).string,
                inotab |-> [g \in groups |-> v.block[GdescBlock(v, g)][g % (v.bs \div GDESC4)]] ])

VolumeStat(v) == [total |-> v.sb.blocks_count * v.bs, free |-> v.sb.free_blocks_count * v.bs]

DnodeFill(v, ino) == E2!DnodeFill(v, ino)

(* i_blocks counts sectors of 512 bytes; here they are taken for blocks.   *)
DnodeStat(v, dno) == E2!Stat(dno.raw.blocks * v.bs, dno.raw)

GetByBlkaddr(v, dno, log_bno) == E2!GetExtent(v, dno, log_bno)

(* In a leaf the extent with the block is taken. In an index the walk goes *)
(* down the first entry that does not begin after the block, which need    *)
(* not be the one that covers it. If no entry matches, the code looks for  *)
(* another header behind the node, where there is none.                    *)
RECURSIVE GetByExtent(_, _, _)
GetByExtent(v, node, bno) ==
  LET In(e) == bno \in e[1] .. e[1] + e[2] - 1
      Matches(e) == IF node.depth = 0 THEN In(e) ELSE bno >= e[1]
      hits == {i \in DOMAIN node.entries : Matches(node.entries[i])}
      e == node.entries[Min(hits)]
  IN  IF ~node.magic \/ hits = {} THEN Error("VOLUME_CORRUPTED")
      ELSE IF node.depth = 0
      THEN Ok([extent |-> PhysBlocks(bno, e[2] - (bno - e[1]), e[3] + (bno - e[1]))])
      ELSE IF e[2] \in v.bad THEN Error("IO_ERROR")
      ELSE GetByExtent(v, v.block[e[2]], bno)

GetExtent(v, dno, log_bno) ==
  IF "EXTENTS" \in dno.raw.flags THEN GetByExtent(v, dno.raw.block, log_bno)
  ELSE GetByBlkaddr(v, dno, log_bno)

D == INSTANCE ExtDir

DirEntry == D!DirEntry

DirLookup(v, dno, name) == D!DirLookup(v, dno, name)
DirRead(v, shand)       == D!DirRead(v, shand)
ReadDentry(v, shand)    == D!ReadDentry(v, shand)
Readlink(v, dno)        == D!Readlink(v, dno)
=============================================================================
