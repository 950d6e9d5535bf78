----------------------------- MODULE MCFswFile ------------------------------
(***************************************************************************)
(* Small volumes of every file system, laid out by hand: blocks of 8 bytes *)
(* (16 on ISO 9660). With pointers of 4 bytes and two direct blocks, a     *)
(* file of 16 blocks needs all three levels of indirection in ext2.        *)
(***************************************************************************)
EXTENDS FswFile

\* Names.

N == [ none |-> <<>>, dot |-> <<46>>, dots |-> <<46, 46>>, B |-> <<66>>, C |-> <<67>>, a |-> <<97>>,
       b |-> <<98>>, c |-> <<99>>, f |-> <<102>>, l |-> <<108>>, s |-> <<115>>, v |-> <<118>>,
       x |-> <<120>>, xy |-> <<120, 228>>, zh |-> <<1078>> ]

Slash == <<47>>

MCPaths ==
  { <<N.none, N.none>>, <<N.dot>>, <<N.dots>>, <<N.a>>, <<N.b>>, <<N.B>>, <<N.f>>, <<N.l>>, <<N.s>>,
    <<N.xy>>, <<N.zh>>, <<N.none, N.b, N.f>>, <<N.none, N.l>>, <<N.b, N.none>>,
    <<N.c, N.xy>>, <<N.c, N.dots, N.b>>, <<N.f, N.dots, N.f>>, <<N.l, N.dots, N.a>>, <<N.l, N.f>> }

MCTexts ==
  { <<>>, N.a, <<65>>, N.xy, <<92>>, <<97, 92, 98>>, <<92, 92, 233>>, <<233, 65, 92>>, <<198>>, <<230>>,
    N.zh, <<8364, 97>>, <<128512>>, <<55357, 56832>>, <<127, 2047, 2048>> }

-----------------------------------------------------------------------------
\* Content.

From0(seq) == [i \in 0 .. Len(seq) - 1 |-> seq[i + 1]]

(* The bytes of a file whose blocks are given, 0 for a hole.               *)
Data(bs, blocks, size) ==
  [i \in 1 .. size |-> LET b == blocks[(i - 1) \div bs + 1]
                       IN  IF b = 0 THEN ZERO ELSE <<b, (i - 1) % bs>>]

\* Dates: 1970-01-01, 2000-02-29, 2000-12-31, 2024-12-31, 2100-03-01.

Meta(writable, ctime, mtime) == [writable |-> writable, ctime |-> ctime, mtime |-> mtime]

M == << Meta(TRUE, <<0, 0>>, <<11016, 0>>),
        Meta(FALSE, <<20088, 86399>>, <<47541, 3661>>),
        Meta(TRUE, <<11322, 43200>>, <<20087, 59>>) >>

File(m, bs, blocks, size) == M[m] @@ [type |-> "FILE", size |-> size, data |-> Data(bs, blocks, size)]
Dir(m, size, entries)     == M[m] @@ [type |-> "DIR", size |-> size, entries |-> entries]
Link(m, size, target)     == M[m] @@ [type |-> "SYMLINK", size |-> size, target |-> target]
Special(m)                == M[m] @@ [type |-> "SPECIAL", size |-> 0]

(* Two sectors make a block of ext2 here.                                  *)
Inode(m, mode, size, flags, blocks, block) ==
  M[m] @@ [ mode |-> mode, size |-> size, flags |-> flags, blocks |-> 2 * blocks, block |-> block,
            file_acl |-> FALSE, atime |-> <<0, 0>> ]

NoInode == Inode(1, "SPECIAL", 0, {}, 0, <<>>)

DirEntry(inode, rec_len, name) == [inode |-> inode, rec_len |-> rec_len, name |-> name]

Dots(ino) == 0 :> DirEntry(ino, 3, N.dot) @@ 3 :> DirEntry(2, 5, N.dots)

-----------------------------------------------------------------------------
\* ext2: a file with blocks at every level and holes, a directory whose last
\* blocks are indirect, an unused entry, links of both kinds.

Ext2Vol ==
  [ fs |-> "ext2", binary |-> FALSE, bs |-> 8, bad |-> {}, name |-> N.v, blocks |-> 44, free |-> 3,
    badsets |-> {{}, {1}, {2}, {5}, {14}, {24}, {21, 36}},
    sb |-> [ at |-> 1, magic |-> TRUE, rev |-> "DYNAMIC", incompat |-> {"FILETYPE"},
             inodes_count |-> 8, inodes_per_group |-> 4, inode_size |-> 4,
             first_data_block |-> 1, blocks_count |-> 44, free_blocks_count |-> 3,
             volume_name |-> <<118, 0, 118>> ],
    layout |-> [ groups |-> {2}, inodes |-> 3 .. 6, directories |-> {10, 11, 13, 14, 15, 16},
                 pointers |-> {12, 22, 24, 25} \cup 28 .. 32 \cup {37} ],
    block |->
      2 :> From0(<<3, 5>>) @@
      3 :> From0(<<NoInode, Inode(1, "DIR", 32, {}, 5, From0(<<10, 11, 12, 0, 0>>))>>) @@
      4 :> From0(<< Inode(2, "FILE", 125, {}, 13, From0(<<20, 21, 22, 24, 28>>)),
                    Inode(3, "DIR", 16, {}, 2, From0(<<15, 16, 0, 0, 0>>)) >>) @@
      5 :> From0(<< Inode(1, "SYMLINK", 2, {}, 0, Slash \o N.b),
                    Inode(2, "SYMLINK", 6, {}, 1, From0(<<40, 0, 0, 0, 0>>)) >>) @@
      6 :> From0(<< Inode(3, "FILE", 11, {}, 2, From0(<<41, 43, 0, 0, 0>>)),
                    Inode(2, "FILE", 0, {}, 0, From0(<<0, 0, 0, 0, 0>>)) >>) @@
      10 :> Dots(2) @@
      11 :> (0 :> DirEntry(3, 3, N.b) @@ 3 :> DirEntry(0, 2, <<>>) @@ 5 :> DirEntry(8, 3, N.B)) @@
      12 :> From0(<<13, 14>>) @@
      13 :> (0 :> DirEntry(4, 3, N.c) @@ 3 :> DirEntry(5, 5, N.l)) @@
      14 :> (0 :> DirEntry(6, 3, N.s) @@ 3 :> DirEntry(7, 5, N.f)) @@
      15 :> Dots(4) @@
      16 :> (0 :> DirEntry(1, 4, N.xy) @@ 4 :> DirEntry(0, 4, <<>>)) @@
      22 :> From0(<<23, 0>>) @@
      24 :> From0(<<25, 0>>) @@ 25 :> From0(<<26, 27>>) @@
      28 :> From0(<<29, 30>>) @@ 29 :> From0(<<31, 32>>) @@ 30 :> From0(<<37, 0>>) @@
      31 :> From0(<<33, 34>>) @@ 32 :> From0(<<0, 36>>) @@ 37 :> From0(<<38, 39>>),
    link |-> Data(8, <<40>>, 6) :> N.c \o Slash \o N.dots \o Slash \o N.f,
    truth |->
      1 :> Special(1) @@
      2 :> Dir(1, 32, {<<N.b, 3>>, <<N.B, 8>>, <<N.c, 4>>, <<N.l, 5>>, <<N.s, 6>>, <<N.f, 7>>}) @@
      3 :> File(2, 8, <<20, 21, 23, 0, 26, 27, 0, 0, 33, 34, 0, 36, 38, 39, 0, 0>>, 125) @@
      4 :> Dir(3, 16, {<<N.xy, 1>>}) @@
      5 :> Link(1, 2, <<N.none, N.b>>) @@ 6 :> Link(2, 6, <<N.c, N.dots, N.f>>) @@
      7 :> File(3, 8, <<41, 43>>, 11) @@ 8 :> File(2, 8, <<>>, 0) ]

\* ext4: five groups in meta block groups of two, files with an extent tree
\* of two levels, with extents in the inode, and with block pointers.

Leaf(entries)  == [magic |-> TRUE, depth |-> 0, entries |-> entries]
Index(entries) == [magic |-> TRUE, depth |-> 1, entries |-> entries]

Ext4Vol ==
  [ fs |-> "ext4", binary |-> FALSE, bs |-> 8, bad |-> {}, name |-> N.xy, blocks |-> 80, free |-> 0,
    badsets |-> {{}, {20}, {32}, {22}, {6, 49}},
    sb |-> [ at |-> 0, magic |-> TRUE, rev |-> "DYNAMIC", ro_compat |-> {"SPARSE_SUPER"},
             incompat |-> {"FILETYPE", "EXTENTS", "META_BG"}, first_meta_bg |-> 1,
             inodes_per_group |-> 2, inode_size |-> 4, first_data_block |-> 0,
             blocks_per_group |-> 16, blocks_count |-> 80, free_blocks_count |-> 0,
             volume_name |-> N.xy ],
    layout |-> [ groups |-> {1, 32, 64}, inodes |-> {2, 17, 33, 49, 65}, directories |-> {5, 6, 9},
                 pointers |-> {38}, extents |-> {20} ],
    block |->
      1 :> From0(<<2, 17>>) @@ 32 :> From0(<<33, 49>>) @@ 64 :> From0(<<65>>) @@
      2 :> From0(<<NoInode, Inode(2, "DIR", 24, {"EXTENTS"}, 3, Leaf(<< <<0, 2, 5>>, <<2, 1, 9>> >>))>>) @@
      17 :> From0(<<Inode(1, "FILE", 37, {"EXTENTS"}, 6, Index(<< <<0, 20>> >>)), NoInode>>) @@
      33 :> From0(<< Inode(2, "FILE", 12, {"EXTENTS"}, 2, Leaf(<< <<0, 1, 30>>, <<1, 1, 29>> >>)),
                     Inode(3, "SYMLINK", 1, {}, 0, N.f) >>) @@
      49 :> From0(<<Inode(3, "FILE", 20, {}, 4, From0(<<35, 36, 38, 0, 0>>)), NoInode>>) @@
      65 :> From0(<<NoInode, NoInode>>) @@
      5 :> Dots(2) @@
      6 :> (0 :> DirEntry(3, 3, N.b) @@ 3 :> DirEntry(5, 5, N.f)) @@
      9 :> (0 :> DirEntry(6, 3, N.l) @@ 3 :> DirEntry(7, 5, N.c)) @@
      20 :> Leaf(<< <<0, 2, 21>>, <<2, 1, 24>>, <<3, 2, 26>> >>) @@
      38 :> From0(<<39, 0>>),
    truth |->
      2 :> Dir(2, 24, {<<N.b, 3>>, <<N.f, 5>>, <<N.l, 6>>, <<N.c, 7>>}) @@
      3 :> File(1, 8, <<21, 22, 24, 26, 27>>, 37) @@
      5 :> File(2, 8, <<30, 29>>, 12) @@
      6 :> Link(3, 1, <<N.f>>) @@
      7 :> File(3, 8, <<35, 36, 39>>, 20) ]

-----------------------------------------------------------------------------
\* HFS+: a catalog of three leaves below an index node, a file with two
\* overflow records. The second volume is case-sensitive HFSX.

Mac(t) == IF t = <<0, 0>> THEN t ELSE <<t[1] + 24107, t[2]>>

HfsMeta == << Meta(TRUE, <<0, 0>>, <<11016, 0>>), Meta(TRUE, <<20088, 86399>>, <<20089, 1>>) >>

Folder(m, parent, name, id, valence) ==
  [ key |-> <<parent, name>>, kind |-> "DIR", id |-> id, valence |-> valence,
    ctime |-> Mac(HfsMeta[m].ctime), mtime |-> Mac(HfsMeta[m].mtime) ]

Record(m, parent, name, id, size, blocks, extents) ==
  [ key |-> <<parent, name>>, kind |-> "FILE", id |-> id,
    ctime |-> Mac(HfsMeta[m].ctime), mtime |-> Mac(HfsMeta[m].mtime),
    fork |-> [size |-> size, blocks |-> blocks, extents |-> extents] ]

Thread(id) == [key |-> <<id, <<>> >>, kind |-> "THREAD"]

Volume == Folder(1, 1, N.v, 2, 3)
RecA   == Record(1, 2, N.a, 16, 60, 8, << <<30, 2>>, <<33, 1>> >>)
RecC   == Record(2, 2, N.zh, 18, 9, 2, << <<34, 2>> >>)
RecF   == Record(2, 17, N.f, 19, 3, 1, << <<36, 1>> >>)

Node(recs, fLink) == [kind |-> "LEAF", records |-> recs, fLink |-> fLink]

HfsTruth(m, object) == [field \in DOMAIN object |-> IF field \in DOMAIN HfsMeta[m] THEN HfsMeta[m][field] ELSE object[field]]

HfsVol(signature, name, first, second) ==
  [ fs |-> "hfs", binary |-> signature = "HX", bs |-> 8, bad |-> {}, name |-> N.v, blocks |-> 60, free |-> 13,
    badsets |-> {{}, {GARBAGE}, {15}, {33}, {20}, {21, 2}},
    sb |-> [ at |-> 2, signature |-> signature, total_blocks |-> 60, free_blocks |-> 13,
             catalog |-> << <<10, 2>>, <<14, 3>> >>, extents |-> << <<20, 2>> >> ],
    layout |-> [headers |-> {10, 20}, catalog |-> {11, 14, 15, 16}, extents |-> {21}],
    block |->
      10 :> [root |-> 1, compare |-> "BINARY"] @@
      11 :> [ kind |-> "INDEX",
              records |-> << [key |-> Volume.key, child |-> 2],
                             [key |-> second[1].key, child |-> 3],
                             [key |-> <<17, <<>> >>, child |-> 4] >> ] @@
      14 :> Node(<<Volume, Thread(2)>> \o first, 3) @@
      15 :> Node(second, 4) @@
      16 :> Node(<<Thread(17), RecF>>, 0) @@
      20 :> [root |-> 1, compare |-> "BINARY"] @@
      21 :> Node(<< [key |-> <<16, 0, 3>>, extents |-> << <<40, 1>>, <<42, 2>> >>],
                    [key |-> <<16, 0, 6>>, extents |-> << <<50, 2>> >>] >>, 0),
    truth |->
      2 :> HfsTruth(1, Dir(1, 3, {<<N.a, 16>>, <<name, 17>>, <<N.zh, 18>>})) @@
      16 :> HfsTruth(1, File(1, 8, <<30, 31, 33, 40, 42, 43, 50, 51>>, 60)) @@
      17 :> HfsTruth(2, Dir(2, 1, {<<N.f, 19>>})) @@
      18 :> HfsTruth(2, File(2, 8, <<34, 35>>, 9)) @@
      19 :> HfsTruth(2, File(2, 8, <<36>>, 3)) ]

HfsPlus == HfsVol("H+", N.b, <<RecA>>, <<Folder(2, 2, N.b, 17, 1), RecC>>)
HfsX    == HfsVol("HX", N.B, <<Folder(2, 2, N.B, 17, 1)>>, <<RecA, RecC>>)

MCBehind == [i \in 1 .. 15 |-> 96 + i]

-----------------------------------------------------------------------------
\* ISO 9660: directories whose blocks are full, as the driver wants them.
\* The second volume has Rock Ridge names, one in a continuation area.

DirRecord(length, extent, size, dir, identifier) ==
  [ length |-> length, extent |-> extent, size |-> size, dir |-> dir, identifier |-> identifier,
    susp |-> [sp |-> FALSE, nm |-> <<>>, ce |-> 0] ]

RootRecord == DirRecord(4, 10, 32, TRUE, <<0>>)

Descriptor(type) == [standard |-> "CD001", type |-> type, version |-> 1]

IsoVol ==
  [ fs |-> "iso9660", binary |-> FALSE, bs |-> 16, bad |-> {}, name |-> <<99, 32, 100>>,
    badsets |-> {{}, {3}, {11}, {14}, {12}},
    layout |-> [descriptors |-> 2 .. 5, directories |-> 10 .. 12],
    block |->
      2 :> Descriptor(0) @@
      3 :> Descriptor(1) @@ 4 :> Descriptor(2) @@ 5 :> Descriptor(255) @@
      10 :> (0 :> RootRecord @@ 4 :> DirRecord(4, 10, 32, TRUE, <<1>>) @@
             8 :> DirRecord(8, 14, 20, FALSE, <<102, 46, 59, 49>>)) @@
      11 :> (0 :> DirRecord(4, 12, 16, TRUE, N.b) @@
             4 :> DirRecord(7, 16, 9, FALSE, <<99, 59, 49>>) @@
             11 :> DirRecord(5, 17, 0, FALSE, N.a)) @@
      12 :> (0 :> DirRecord(4, 12, 16, TRUE, <<0>>) @@ 4 :> DirRecord(4, 10, 32, TRUE, <<1>>) @@
             8 :> DirRecord(4, 18, 5, FALSE, N.l)),
    truth |->
      10 :> Dir(1, 32, {<<N.f, 14>>, <<N.b, 12>>, <<N.c, 16>>, <<N.a, 17>>}) @@
      12 :> Dir(1, 16, {<<N.l, 18>>}) @@
      14 :> File(1, 16, <<14, 15>>, 20) @@ 16 :> File(1, 16, <<16>>, 9) @@
      17 :> File(1, 16, <<>>, 0) @@ 18 :> File(1, 16, <<18>>, 5) ]

Labelled(u) ==
  [u EXCEPT !.block[3] = @ @@ [volume_identifier |-> <<99, 32, 100, 32, 32>>, root |-> RootRecord]]

RockRidge ==
  [ IsoVol EXCEPT
      !.badsets = {{}, {11}},
      !.block[10][0].susp.sp = TRUE,
      !.block[10][8].susp.nm = <<N.s>>,
      !.block[11][4].susp = [sp |-> FALSE, nm |-> <<N.xy, N.x>>, ce |-> 20],
      !.truth[10].entries = {<<N.s, 14>>, <<N.b, 12>>, <<N.xy, 16>>, <<N.a, 17>>} ]

-----------------------------------------------------------------------------
\* ReiserFS: a tree of two levels, a directory in two items, a file in blocks
\* and a tail in another leaf.

Item(key, kind, content) ==
  CASE kind = "STAT" -> [key |-> key, kind |-> kind, stat |-> content]
    [] kind = "DIRENTRY" -> [key |-> key, kind |-> kind, entries |-> content]
    [] kind = "INDIRECT" -> [key |-> key, kind |-> kind, pointers |-> content]
    [] kind = "DIRECT" -> [key |-> key, kind |-> kind, bytes |-> content]

StatData(version, m, mode, size) ==
  M[m] @@ [version |-> version, mode |-> mode, size |-> size, atime |-> <<1, 1>>, blocks |-> 1]

Ent(offset, name, object) == [offset |-> offset, name |-> name, object |-> object]

Super(at, magic) ==
  [ at |-> at, magic |-> magic, version |-> 0, block_count |-> 36, free_blocks |-> 20, root_block |-> 10,
    tree_height |-> 3, label |-> <<0, 7>> ]

ReiserVol ==
  [ fs |-> "reiserfs", binary |-> FALSE, bs |-> 8, bad |-> {}, name |-> <<>>, blocks |-> 36, free |-> 20,
    badsets |-> {{}, {8}, {12}, {13}, {32}},
    super |-> <<Super(2, "none"), Super(8, "REISER2FS")>>,
    layout |-> [internal |-> {10}, leaves |-> 11 .. 13],
    block |->
      10 :> [level |-> 2, keys |-> << <<1, 2, 7>>, <<2, 3, 17>> >>, children |-> <<11, 12, 13>>] @@
      11 :> [level |-> 1, items |-> <<
               Item(<<1, 2, 0>>, "STAT", StatData("v2", 1, "DIR", 6)),
               Item(<<1, 2, 1>>, "DIRENTRY", << Ent(1, N.dot, <<1, 2>>), Ent(2, N.dots, <<0, 1>>),
                                                Ent(5, N.a, <<2, 3>>) >>) >>] @@
      12 :> [level |-> 1, items |-> <<
               Item(<<1, 2, 7>>, "DIRENTRY", << Ent(7, N.b, <<2, 4>>), Ent(9, RFS!PrivName, <<2, 9>>),
                                                Ent(11, N.l, <<2, 5>>) >>),
               Item(<<2, 3, 0>>, "STAT", StatData("v2", 2, "FILE", 21)),
               Item(<<2, 3, 1>>, "INDIRECT", <<30, 32>>) >>] @@
      13 :> [level |-> 1, items |-> <<
               Item(<<2, 3, 17>>, "DIRECT", [i \in 1 .. 8 |-> <<13, i>>]),
               Item(<<2, 4, 0>>, "STAT", StatData("v1", 3, "DIR", 3)),
               Item(<<2, 4, 1>>, "DIRENTRY", << Ent(1, N.dot, <<2, 4>>), Ent(2, N.dots, <<1, 2>>),
                                                Ent(3, N.f, <<4, 6>>), Ent(8, N.x, <<4, 7>>) >>),
               Item(<<2, 5, 0>>, "STAT", StatData("v2", 1, "SYMLINK", 3)),
               Item(<<2, 5, 1>>, "DIRECT", << <<13, 30>>, <<13, 31>>, <<13, 32>> >>),
               Item(<<4, 6, 0>>, "STAT", StatData("v1", 2, "FILE", 9)),
               Item(<<4, 6, 1>>, "INDIRECT", <<34, 35>>),
               Item(<<4, 7, 0>>, "STAT", StatData("v1", 3, "SPECIAL", 0)) >>],
    link |-> << <<13, 30>>, <<13, 31>>, <<13, 32>> >> :> N.b \o Slash \o N.f,
    truth |->
      2 :> Dir(1, 6, {<<N.a, 3>>, <<N.b, 4>>, <<N.l, 5>>}) @@
      3 :> (M[2] @@ [type |-> "FILE", size |-> 21,
                     data |-> Data(8, <<30, 32>>, 16) \o [i \in 1 .. 5 |-> <<13, i>>]]) @@
      4 :> Dir(3, 3, {<<N.f, 6>>, <<N.x, 7>>}) @@
      5 :> Link(1, 3, <<N.b, N.f>>) @@
      6 :> File(2, 8, <<34, 35>>, 9) @@
      7 :> Special(3) ]

MCVolumes == <<Ext2Vol, Ext4Vol, HfsPlus, HfsX, Labelled(IsoVol), Labelled(RockRidge), ReiserVol>>
=============================================================================
