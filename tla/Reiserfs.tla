------------------------------ MODULE Reiserfs -----------------------------
(***************************************************************************)
(* The ReiserFS driver (filesystems/fsw_reiserfs.c). All metadata is in a  *)
(* tree of blocks: v.block[b] is [level, keys, children] above the leaves, *)
(* and [level, items] in a leaf (level 1). A key is <<directory, object,   *)
(* offset>>. An item is the stat data of an object, pointers to its        *)
(* blocks, the bytes of its tail, or entries of a directory.               *)
(***************************************************************************)
EXTENDS FswBase, FiniteSets, FiniteSetsExt

CONSTANTS PosBits, PATH_MAX

-----------------------------------------------------------------------------
\* What is on the disk.

SuperBlock ==
  [ at : Nat, magic : {"REISERFS", "REISER2FS", "JR", "none"}, version : Nat,
    block_count : Nat, free_blocks : Nat, root_block : Nat \cup {-1}, tree_height : Nat,
    label : Seq(0 .. 255) ]

KeyType == Nat \X Nat \X Nat

StatDataV1 ==
  [ version : {"v1"}, mode : {"FILE", "DIR", "SYMLINK", "SPECIAL"}, writable : BOOLEAN,
    size : Nat, ctime : Nat \X Nat, mtime : Nat \X Nat, atime : Nat \X Nat, blocks : Nat ]

StatDataV2 ==
  [ version : {"v2"}, mode : {"FILE", "DIR", "SYMLINK", "SPECIAL"}, writable : BOOLEAN,
    size : Nat, ctime : Nat \X Nat, mtime : Nat \X Nat, atime : Nat \X Nat, blocks : Nat ]

DeHead == [offset : Nat, object : Nat \X Nat, name : Seq(0 .. 255)]

ItemHead ==
       [key : KeyType, kind : {"STAT"}, stat : StatDataV1 \cup StatDataV2]
  \cup [key : KeyType, kind : {"INDIRECT"}, pointers : Seq(Nat)]
  \cup [key : KeyType, kind : {"DIRECT"}, bytes : Seq(Nat \X Nat)]
  \cup [key : KeyType, kind : {"DIRENTRY"}, entries : Seq(DeHead)]

Leaf == [level : {1}, items : Seq(ItemHead)]

InternalNode == [level : Nat \ {0, 1}, keys : Seq(KeyType), children : Seq(Nat)]

-----------------------------------------------------------------------------

FirstItem == 1           \* FIRST_ITEM_OFFSET, and the offset of "."
DotOffsets == {1, 2}
(* ".reiserfs_priv"                                                        *)
PrivName == <<46, 114, 101, 105, 115, 101, 114, 102, 115, 95, 112, 114, 105, 118>>

(* The label ends at the first zero byte, or is full.                      *)
VolumeName(sb) ==
  LET end == SelectInSeq(sb.label \o <<0>>, LAMBDA c : c = 0)
  IN  Iso(SubSeq(sb.label, 1, end - 1))

(* The superblock is at one of two places; the first with a known magic    *)
(* counts. The magic of a relocated journal needs a known version too.     *)
Known(sb) ==
  \/ sb.magic \in {"REISERFS", "REISER2FS"}
  \/ sb.magic = "JR" /\ sb.version \in {1, 2}

Superblocks(v) == {i \in DOMAIN v.super : Known(v.super[i])}

VolumeMount(v) ==
  LET first == CHOOSE i \in Superblocks(v) : \A j \in Superblocks(v) : i <= j
      read  == IF Superblocks(v) = {} THEN DOMAIN v.super ELSE 1 .. first
      sb    == v.super[first]
  IN  IF \E i \in read : v.super[i].at \in v.bad THEN Error("IO_ERROR")
      ELSE IF Superblocks(v) = {} THEN Error("UNSUPPORTED")
      ELSE IF sb.root_block = -1 THEN Error("VOLUME_CORRUPTED")
      ELSE Ok([root |-> <<1, 2>>, sb |-> sb, label |-> strdup_coerce("UTF16", VolumeName(sb)).string])

VolumeStat(v) == [total |-> v.sb.block_count * v.bs, free |-> v.sb.free_blocks * v.bs]

-----------------------------------------------------------------------------
\* The tree. A path gives, of each level, the block and the place in it.

\* Mutant: the last comparison is strict.
Smaller(k, key) ==
  \/ k[1] < key[1]
  \/ k[1] = key[1] /\ k[2] < key[2]
  \/ k[1] = key[1] /\ k[2] = key[2] /\ k[3] < key[3]

NotGreater(k, key) ==
  \/ k[1] < key[1]
  \/ k[1] = key[1] /\ k[2] < key[2]
  \/ k[1] = key[1] /\ k[2] = key[2] /\ k[3] <= key[3]

Block(v, bno, level) ==
  IF bno \in v.bad THEN Error("IO_ERROR")
  ELSE IF v.block[bno].level # level THEN Error("VOLUME_CORRUPTED")
  ELSE Ok([node |-> v.block[bno]])

SameObject(item, key) == item.key[1] = key[1] /\ item.key[2] = key[2]

(* The last item of the leaf whose key is not greater, if it belongs to    *)
(* the same object.                                                        *)
LeafItem(node, bno, key, path) ==
  LET i == Cardinality({j \in DOMAIN node.items : NotGreater(node.items[j].key, key)})
  IN  IF i = 0 THEN Error("NOT_FOUND")
      ELSE IF ~SameObject(node.items[i], key) THEN Error("NOT_FOUND")
      ELSE Ok([item |-> node.items[i], path |-> (1 :> [bno |-> bno, index |-> i]) @@ path])

RECURSIVE Walk(_, _, _, _, _)
Walk(v, bno, level, key, path) ==
  LET Child(node, i) ==
        Walk(v, node.children[i], level - 1, key, (level :> [bno |-> bno, index |-> i]) @@ path)
      In(node) ==
        IF level = 1 THEN LeafItem(node, bno, key, path)
        ELSE Child(node, 1 + Cardinality({j \in DOMAIN node.keys : NotGreater(node.keys[j], key)}))
  IN  OnSuccess(Block(v, bno, level), LAMBDA b : In(b.node))

ItemSearch(v, key) == Walk(v, v.sb.root_block, v.sb.tree_height - 1, key, <<>>)

(* The next item: up to the first block that has a further place, then     *)
(* down along the first places.                                            *)
RECURSIVE Down(_, _, _, _)
Down(v, bno, level, path) ==
  LET i == path[level].index
      here == [path EXCEPT ![level].bno = bno]
      In(b) == IF level = 1 THEN Ok([item |-> b.node.items[i], path |-> here])
               ELSE Down(v, b.node.children[i], level - 1, here)
  IN  OnSuccess(Block(v, bno, level), In)

RECURSIVE Up(_, _, _)
Up(v, path, level) ==
  LET i == path[level].index + 1
      Places(node) == IF level = 1 THEN Len(node.items) ELSE Len(node.children)
      In(b) == IF i > Places(b.node) THEN Up(v, [path EXCEPT ![level].index = 1], level + 1)
               ELSE Down(v, path[level].bno, level, [path EXCEPT ![level].index = i])
  IN  IF level >= v.sb.tree_height THEN Error("NOT_FOUND")
      ELSE OnSuccess(Block(v, path[level].bno, level), In)

ItemNext(v, r) ==
  OnSuccess(Up(v, r.path, 1),
    LAMBDA next : IF SameObject(next.item, r.item.key) THEN next ELSE Error("NOT_FOUND"))

-----------------------------------------------------------------------------

DnodeFill(v, id) ==
  LET Raw(stat) == Dnode(id[2], stat.mode, stat.size) @@ [key |-> id, raw |-> stat]
      Fill(r) ==
        IF Failed(r) THEN Error(IF r.status = "NOT_FOUND" THEN "VOLUME_CORRUPTED" ELSE r.status)
        ELSE IF r.item.key[3] # 0 \/ r.item.stat.version \notin {"v1", "v2"}
        THEN Error("VOLUME_CORRUPTED")
        ELSE Ok([dno |-> Raw(r.item.stat)])
  IN  Fill(ItemSearch(v, <<id[1], id[2], 0>>))

DnodeStat(v, dno) ==
  [ used |-> IF dno.raw.version = "v1" /\ dno.type = "SPECIAL" THEN 0 ELSE (dno.raw.blocks * v.bs) % 2^PosBits,
    ctime |-> dno.raw.ctime, atime |-> dno.raw.atime, mtime |-> dno.raw.mtime,
    writable |-> dno.raw.writable ]

(* A pointer is taken as it stands, one block at a time.                   *)
GetExtent(v, dno, log_bno) ==
  LET offset == log_bno * v.bs + 1
      In(item) ==
        LET intra == offset - item.key[3]
        IN  IF item.key[3] = 0 THEN Ok([extent |-> SparseBlock(log_bno)])
            ELSE IF item.kind = "INDIRECT" /\ (intra % v.bs) = 0 /\ intra \div v.bs < Len(item.pointers)
            THEN Ok([extent |-> PhysBlocks(log_bno, 1, item.pointers[intra \div v.bs + 1])])
            ELSE IF item.kind = "DIRECT" /\ intra = 0
            THEN Ok([extent |-> BufferOf(log_bno, 1, item.bytes)])
            ELSE Error("VOLUME_CORRUPTED")
  IN  OnSuccess(ItemSearch(v, <<dno.key[1], dno.key[2], offset>>), LAMBDA r : In(r.item))

S == INSTANCE FswShandle

(* Directories are searched item by item; none is an empty directory.      *)
RECURSIVE ScanItems(_, _, _)
ScanItems(v, r, name) ==
  LET Found(e) == Ok([child |-> e.object, name |-> Iso(e.name)])
      In(entries, hits) ==
        IF hits # {} THEN Found(entries[Min(hits)]) ELSE ScanItems(v, ItemNext(v, r), name)
  IN  IF Failed(r) THEN Error(r.status)
      ELSE IF r.item.key[3] = 0 THEN Error("NOT_FOUND")
      ELSE In(r.item.entries,
              {i \in DOMAIN r.item.entries : streq(name, Iso(r.item.entries[i].name))})

DirLookup(v, dno, name) ==
  ScanItems(v, ItemSearch(v, <<dno.key[1], dno.key[2], FirstItem>>), name)

(* The position in a directory is one past the offset (a hash of the name) *)
(* of the last entry returned.                                             *)
RECURSIVE ReadItems(_, _, _, _)
ReadItems(v, r, shand, pos) ==
  LET Shown(e) == e.offset >= pos /\ e.offset \notin DotOffsets /\ e.name # PrivName
      Found(e) ==
        Ok([shand |-> [shand EXCEPT !.pos = e.offset + 1], child |-> e.object, name |-> Iso(e.name)])
      In(entries, hits) ==
        IF hits # {} THEN Found(entries[Min(hits)]) ELSE ReadItems(v, ItemNext(v, r), shand, pos)
  IN  IF Failed(r) THEN Error(r.status)
      ELSE IF r.item.key[3] = 0 THEN Error("NOT_FOUND")
      ELSE In(r.item.entries, {i \in DOMAIN r.item.entries : Shown(r.item.entries[i])})

DirRead(v, shand) ==
  LET pos == IF shand.pos = 0 THEN FirstItem ELSE shand.pos
      key == shand.dnode.key
  IN  ReadItems(v, ItemSearch(v, <<key[1], key[2], pos>>), shand, pos)

Readlink(v, dno) == S!ReadlinkData(v, dno)
=============================================================================
