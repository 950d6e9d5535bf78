--------------------------------- MODULE Hfs -------------------------------
(***************************************************************************)
(* The HFS+ driver (filesystems/fsw_hfs.c). The catalog and the extents    *)
(* overflow file are B-trees in files; v.block gives the node in a block   *)
(* of such a file (a node is one block here). Times are a day since 1904   *)
(* and a second of the day.                                                *)
(***************************************************************************)
EXTENDS FswBase, FiniteSets, FiniteSetsExt

CONSTANTS
  PosBits,    \* width of fsw_u32
  BEHIND,     \* the 15 bytes behind the literal "HFS+ volume" in the driver
  GARBAGE     \* in v.bad if the stack byte for forkType is not 0

-----------------------------------------------------------------------------
\* What is on the disk.

Extents == Seq(Nat \X Nat)                   \* <<startBlock, blockCount>>

ForkData == [size : Nat, blocks : Nat, extents : Extents]

VolumeHeader ==
  [ at : Nat, signature : {"H+", "HX", "BD", "none"}, total_blocks : Nat, free_blocks : Nat,
    catalog : Extents, extents : Extents ]

CatalogKey == Nat \X Seq(0 .. 65535)         \* <<parentID, nodeName>>

ExtentKey == Nat \X Nat \X Nat               \* <<fileID, forkType, startBlock>>

CatalogFolder ==
  [key : CatalogKey, kind : {"DIR"}, id : Nat, valence : Nat, ctime : Nat \X Nat, mtime : Nat \X Nat]

CatalogFile ==
  [key : CatalogKey, kind : {"FILE"}, id : Nat, ctime : Nat \X Nat, mtime : Nat \X Nat, fork : ForkData]

CatalogThread == [key : CatalogKey, kind : {"THREAD"}]

HeaderRec == [root : Nat, compare : {"FOLDING", "BINARY"}]

IndexNode(Keys) == [kind : {"INDEX"}, records : Seq([key : Keys, child : Nat])]

CatalogNode ==
       IndexNode(CatalogKey)
  \cup [kind : {"LEAF"}, records : Seq(CatalogFolder \cup CatalogFile \cup CatalogThread), fLink : Nat]

ExtentsNode ==
       IndexNode(ExtentKey)
  \cup [kind : {"LEAF"}, records : Seq([key : ExtentKey, extents : Extents]), fLink : Nat]

-----------------------------------------------------------------------------
\* B-trees.

RootFolder == 2

RECURSIVE LexLess(_, _)
LexLess(a, b) ==
  /\ b # <<>>
  /\ \/ a = <<>>
     \/ Head(a) < Head(b)
     \/ Head(a) = Head(b) /\ LexLess(Tail(a), Tail(b))

Lowered(units) == [i \in DOMAIN units |-> to_lower(units[i])]

\* Mutant: names are compared without case on every volume.
KeyFolded(v, tree, key) == IF tree # "catalog" THEN key ELSE <<key[1]>> \o Lowered(key[2])

(* A key as the code compares it: zeros in a name are passed over.         *)
Key(v, tree, key) ==
  LET units == SelectSeq(key[2], LAMBDA c : c # 0)
  IN  IF tree # "catalog" THEN key
      ELSE <<key[1]>> \o (IF v.case_sensitive THEN units ELSE Lowered(units))

Before(v, tree, k1, k2) == LexLess(Key(v, tree, k1), Key(v, tree, k2))

RECURSIVE FindBlock(_, _)
FindBlock(exts, lbno) ==
  IF exts = <<>> THEN [found |-> FALSE, left |-> lbno]
  ELSE IF lbno < Head(exts)[2] THEN [found |-> TRUE, pbno |-> Head(exts)[1] + lbno]
  ELSE FindBlock(Tail(exts), lbno - Head(exts)[2])

(* Nodes are read through the extents of the volume header: the trees are  *)
(* not so fragmented as to need overflow records themselves.               *)
ReadNode(v, tree, n) ==
  LET b == FindBlock(v.sb[tree], n)
  IN  IF ~b.found \/ b.pbno \in v.bad THEN Error("VOLUME_CORRUPTED")
      ELSE Ok([node |-> v.block[b.pbno]])

RECURSIVE Search(_, _, _, _)
Search(v, tree, n, key) ==
  LET InIndex(node, upTo) ==
        IF upTo = {} THEN Error("NOT_FOUND")
        ELSE Search(v, tree, node.records[Cardinality(upTo)].child, key)
      InLeaf(node, hits) ==
        IF hits # {} THEN Ok([node |-> node, rec |-> Min(hits)])
        ELSE IF /\ node.records # <<>> /\ node.fLink # 0
                /\ Before(v, tree, Last(node.records).key, key)
        THEN Search(v, tree, node.fLink, key)
        ELSE Error("NOT_FOUND")
      In(node) ==
        LET recs == node.records
        IN  IF node.kind = "INDEX"
            THEN InIndex(node, {i \in DOMAIN recs : \A j \in 1 .. i : ~Before(v, tree, key, recs[j].key)})
            ELSE InLeaf(node, {i \in DOMAIN recs : Key(v, tree, recs[i].key) = Key(v, tree, key)})
  IN  OnSuccess(ReadNode(v, tree, n), LAMBDA r : In(r.node))

-----------------------------------------------------------------------------

(* "HFS+ volume", and what follows it up to kHFSMaxVolumeNameChars.        *)
Label == Iso(<<72, 70, 83, 43, 32, 118, 111, 108, 117, 109, 101, 0>> \o BEHIND)

Folder(id, size, ctime, mtime) ==
  Dnode(id, "DIR", size) @@ [extents |-> <<>>, used |-> size, ctime |-> ctime, mtime |-> mtime]

(* An embedded volume is found, but the "retry" leaves the loop. Of the    *)
(* two trees the header node is read.                                      *)
VolumeMount(v) ==
  LET Trees(catalog, extents) ==
        IF Failed(catalog) \/ Failed(extents) THEN Error("UNSUPPORTED")
        ELSE Ok([ root |-> Folder(RootFolder, 0, <<0, 0>>, <<0, 0>>),
                label |-> strdup_coerce("UTF16", Label).string,
                case_sensitive |-> v.sb.signature = "HX" /\ catalog.node.compare = "BINARY",
                catalog_root |-> catalog.node.root,
                extents_root |-> extents.node.root ])
  IN  IF v.sb.at \in v.bad THEN Error("IO_ERROR")
      ELSE IF v.sb.signature \notin {"H+", "HX"} THEN Error("UNSUPPORTED")
      ELSE Trees(ReadNode(v, "catalog", 0), ReadNode(v, "extents", 0))

(* The place of the highest bit.                                           *)
ComputeShift(size) == CHOOSE i \in 0 .. size : size \div 2^i = 1

VolumeStat(v) ==
  LET Bytes(blocks) == (blocks * 2^ComputeShift(v.bs)) % 2^PosBits
  IN  [total |-> Bytes(v.sb.total_blocks), free |-> Bytes(v.sb.free_blocks)]

(* A dnode is complete from the catalog record on.                         *)
DnodeFill(v, dno) == Ok([dno |-> dno])

(* From 1904 on to 1970 on.                                                *)
MacToPosix(t) == IF t = <<0, 0>> THEN <<0, 0>> ELSE <<t[1] - 24107, t[2]>>

DnodeStat(v, dno) ==
  [ used |-> dno.used, ctime |-> MacToPosix(dno.ctime), mtime |-> MacToPosix(dno.mtime),
    atime |-> <<0, 0>>, writable |-> TRUE ]

(* Past the extents of the catalog record, overflow records are searched.  *)
(* The search key's fork type is never set.                                *)
RECURSIVE Extent(_, _, _, _, _)
Extent(v, dno, exts, log_bno, lbno) ==
  LET b == FindBlock(exts, lbno)
      fork == IF GARBAGE \in v.bad THEN 1 ELSE 0
      More(r) == Extent(v, dno, r.node.records[r.rec].extents, log_bno, b.left)
  IN  IF b.found THEN Ok([extent |-> PhysBlocks(log_bno, 1, b.pbno)])
      ELSE OnSuccess(Search(v, "extents", v.extents_root, <<dno.id, fork, log_bno - b.left>>), More)

GetExtent(v, dno, log_bno) == Extent(v, dno, dno.extents, log_bno, log_bno)

-----------------------------------------------------------------------------
\* Directories: the records of the catalog with the directory as parent.

Child(v, rec) ==
  IF rec.kind = "DIR" THEN Folder(rec.id, rec.valence, rec.ctime, rec.mtime)
  ELSE Dnode(rec.id, "FILE", rec.fork.size) @@
       [ extents |-> rec.fork.extents, used |-> rec.fork.blocks * 2^ComputeShift(v.bs),
         ctime |-> rec.ctime, mtime |-> rec.mtime ]

DirLookup(v, dno, name) ==
  LET units == strdup_coerce("UTF16", name).string.data
      Found(r) == Ok([child |-> Child(v, r.node.records[r.rec]), name |-> Utf16(units)])
  IN  OnSuccess(Search(v, "catalog", v.catalog_root, <<dno.id, units>>), Found)

(* The records from the directory's thread record on are counted up to the *)
(* position of the handle; a thread record at that position is passed.     *)
RECURSIVE Iterate(_, _, _, _, _)
Iterate(v, node, i, cur_pos, shand) ==
  LET rec == node.records[i]
      next == ReadNode(v, "catalog", node.fLink)
  IN  IF i > Len(node.records)
      THEN IF node.fLink = 0 THEN Error("NOT_FOUND")
           ELSE IF Failed(next) THEN Error("OUT_OF_MEMORY")   \* "return 1"
           ELSE Iterate(v, next.node, 1, cur_pos, shand)
      ELSE IF rec.key[1] # shand.dnode.id THEN Error("NOT_FOUND")
      ELSE IF shand.pos # cur_pos THEN Iterate(v, node, i + 1, cur_pos + 1, shand)
      ELSE IF rec.kind = "THREAD"
      THEN Iterate(v, node, i + 1, cur_pos + 1, [shand EXCEPT !.pos = @ + 1])
      ELSE Ok([shand |-> [shand EXCEPT !.pos = @ + 1], child |-> Child(v, rec), name |-> Utf16(rec.key[2])])

DirRead(v, shand) ==
  OnSuccess(Search(v, "catalog", v.catalog_root, <<shand.dnode.id, <<>> >>),
            LAMBDA r : Iterate(v, r.node, r.rec, 0, shand))

Readlink(v, dno) == Error("UNSUPPORTED")
=============================================================================
