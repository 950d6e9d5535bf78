------------------------------- MODULE Images -------------------------------
(***************************************************************************)
(* The pictures of libeg: BMP files (load_bmp.c), Apple's icon files       *)
(* (load_icns.c), pictures in the program itself and the files of icons    *)
(* (image.c), and which icon an entry gets (refind/icns.c).                *)
(*                                                                         *)
(* A picture is [Width, Height, PixelData]: its pixels row by row from the *)
(* top, each <<r, g, b, a>>. A part of a pixel that nothing is written to  *)
(* is NULL: whatever the memory held. Files are sequences of bytes behind  *)
(* their headers; PNG files are decoded by lodepng, which is external.     *)
(***************************************************************************)
EXTENDS Integers, SequencesExt

CONSTANTS
  NULL,
  Sides      \* the sizes of the icons in an icon file: 128, 48, 32, 16; less in a model

Picture(w, h, pixels) == [Width |-> w, Height |-> h, PixelData |-> pixels]
Opaque(WantAlpha) == IF WantAlpha THEN 255 ELSE 0

-----------------------------------------------------------------------------
(* BMP files. The data starts behind a header of 54 bytes.                 *)

HEADER == 54

\* The bytes of a line: the pixels, and up to a multiple of four.
LineBytes(w, bpp) ==
  CASE bpp = 24 -> 3 * w [] bpp = 8 -> w [] bpp = 4 -> (w + 1) \div 2 [] bpp = 1 -> (w + 7) \div 8
Padded(n) == IF n % 4 = 0 THEN n ELSE n + 4 - (n % 4)

\* (faulty variant: the rest of a line is not counted)
ImageLineOffsetFull(w, bpp) == LineBytes(w, bpp)
ImageLineOffset(w, bpp) == Padded(LineBytes(w, bpp))

\* The byte of a file at an offset, as FileData[offset].
Byte(file, offset) == file.data[offset - HEADER + 1]

Colour(file, at, a) == <<Byte(file, at + 2), Byte(file, at + 1), Byte(file, at), a>>

\* The pixel x of the line that starts at base. (One pixel of four bits in a
\* line is beyond this: the loop counts to the width minus two, unsigned.)
BmpPixel(file, base, x, a) ==
  LET bpp == file.BitPerPixel
      Index == CASE bpp = 1 -> (Byte(file, base + (x \div 8)) \div (2 ^ (7 - (x % 8)))) % 2
                 [] bpp = 4 -> IF x % 2 = 0 THEN Byte(file, base + (x \div 2)) \div 16
                               ELSE Byte(file, base + (x \div 2)) % 16
                 [] bpp = 8 -> Byte(file, base + x)
  IN  Colour(file, IF bpp = 24 THEN base + 3 * x ELSE HEADER + 4 * Index, a)

DecodeBMP(file, WantAlpha) ==
  LET w == file.PixelWidth
      h == file.PixelHeight
      line == ImageLineOffset(w, file.BitPerPixel)
      end == file.ImageOffset + line * h
  IN  IF file.magic # "BM" \/ file.CompressionType # 0 \/ file.BitPerPixel \notin {1, 4, 8, 24}
         \/ end > HEADER + Len(file.data)
      THEN NULL
      ELSE Picture(w, h, [k \in 1 .. w * h |->
             LET y == h - 1 - ((k - 1) \div w)
             IN  BmpPixel(file, file.ImageOffset + line * y, (k - 1) % w, Opaque(WantAlpha))])

BmpFile(w, h, bpp, offset, data) ==
  [ magic |-> "BM", CompressionType |-> 0, BitPerPixel |-> bpp, PixelWidth |-> w, PixelHeight |-> h,
    ImageOffset |-> offset, data |-> data ]

EncodeBMP(image) ==
  LET w == image.Width
      pad == [n \in 1 .. Padded(3 * w) - 3 * w |-> 0]
      Line(y) == FlattenSeq([x \in 1 .. w |->
                   LET p == image.PixelData[w * y + x] IN <<p[3], p[2], p[1]>>]) \o pad
  IN  BmpFile(w, image.Height, 24, HEADER,
              FlattenSeq([n \in 1 .. image.Height |-> Line(image.Height - n)]))

\* egSaveFile(): a longer file that is there keeps its end.
SaveFile(old, new) ==
  IF old = NULL THEN new
  ELSE [new EXCEPT !.data = @ \o SubSeq(old.data, Len(@) + 1, Len(old.data))]

-----------------------------------------------------------------------------
(* The compression of icon files: a byte below 128 is followed by bytes to *)
(* copy, one more than it says; another one by a byte to repeat.           *)

\* (faulty variant: a run may be one pixel longer than what is left)
RunFitsMore(len, left) == len <= left + 1
RunFits(len, left) == len <= left

RECURSIVE Decompressed(_, _, _)
\* What is written to the plane, and what is left of the data.
Decompressed(comp, count, plane) ==
  LET left == count - Len(plane)
      repeat == comp[1] >= 128
      len == IF repeat THEN comp[1] - 125 ELSE comp[1] + 1
      bytes == IF repeat THEN [n \in 1 .. len |-> comp[2]] ELSE SubSeq(comp, 2, len + 1)
      used == IF repeat THEN 2 ELSE len + 1
  IN  IF Len(comp) < 2 \/ left = 0 THEN [plane |-> plane, rest |-> comp]
      ELSE IF ~ RunFits(len, left) \/ used > Len(comp) THEN [plane |-> plane, rest |-> Tail(comp)]
      ELSE Decompressed(SubSeq(comp, used + 1, Len(comp)), count, plane \o bytes)

egDecompressIcnsRLE(comp, count) ==
  LET d == Decompressed(comp, count, <<>>)
  IN  [plane |-> d.plane \o [n \in 1 .. count - Len(d.plane) |-> NULL], rest |-> d.rest]

\* n planes, one after the other, and what follows them.
Planes(data, n, count, compressed) ==
  LET Next_(s) == LET d == egDecompressIcnsRLE(s.rest, count)
                  IN  IF compressed THEN [planes |-> Append(s.planes, d.plane), rest |-> d.rest]
                      ELSE [ planes |-> Append(s.planes, SubSeq(s.rest, 1, count)),
                             rest   |-> SubSeq(s.rest, count + 1, Len(s.rest)) ]
      after[k \in 0 .. n] == IF k = 0 THEN [planes |-> <<>>, rest |-> data] ELSE Next_(after[k - 1])
  IN  after[n]

SetPlane(value, count) == [n \in 1 .. count |-> value]
Pixels(r, g, b, a) == [n \in DOMAIN r |-> <<r[n], g[n], b[n], a[n]>>]

-----------------------------------------------------------------------------
(* Icon files: tagged blocks [type, length, data]. The length counts the   *)
(* type and itself; the data of a block that is cut off is shorter.        *)

DataType == << "it32", "ih32", "il32", "is32" >>
MaskType == << "t8mk", "h8mk", "l8mk", "s8mk" >>

\* The blocks up to the first one that is cut off.
WholeBlocks(blocks) ==
  LET cut == {n \in DOMAIN blocks : Len(blocks[n].data) < blocks[n].length - 8}
  IN  {n \in DOMAIN blocks : \A m \in cut : n < m}

\* The data of the last block of a type, or NULL. The icon of 128 pixels has
\* four bytes of zero first.
BlockData(blocks, types, IconSize) ==
  LET icon == CHOOSE n \in DOMAIN Sides : Sides[n] = IconSize
      large == types = DataType /\ icon = 1
      found == {n \in WholeBlocks(blocks) :
                  blocks[n].type = types[icon] /\ (large => SubSeq(blocks[n].data, 1, 4) = <<0, 0, 0, 0>>)}
      data == blocks[CHOOSE n \in found : \A m \in found : m <= n].data
  IN  IF IconSize \notin ToSet(Sides) \/ found = {} THEN NULL
      ELSE IF large THEN SubSeq(data, 5, Len(data)) ELSE data

\* (faulty variant: a mask is used although the picture has no alpha channel)
MaskUsedAlways(mask, count, WantAlpha) == mask # NULL /\ Len(mask) >= count
MaskUsed(mask, count, WantAlpha) == mask # NULL /\ Len(mask) >= count /\ WantAlpha

DecodeICNS(file, IconSize, WantAlpha) ==
  LET count == IconSize * IconSize
      Alpha(mask) == IF MaskUsed(mask, count, WantAlpha) THEN SubSeq(mask, 1, count)
                     ELSE SetPlane(Opaque(WantAlpha), count)
      Packed(planes, alpha) == Pixels(planes[1], planes[2], planes[3], alpha)
      Plain(data, alpha) ==
        [n \in 1 .. count |-> <<data[3 * n - 2], data[3 * n - 1], data[3 * n], alpha[n]>>]
      Decode(data, alpha) ==
        IF file.magic # "icns" \/ data = NULL THEN NULL
        ELSE Picture(IconSize, IconSize,
               IF Len(data) < 3 * count THEN Packed(Planes(data, 3, count, TRUE).planes, alpha)
               ELSE Plain(data, alpha))
  IN  Decode(BlockData(file.blocks, DataType, IconSize),
             Alpha(BlockData(file.blocks, MaskType, IconSize)))

-----------------------------------------------------------------------------
(* Pictures in the program (banner, font, selection, arrows).              *)

\* The planes of colour that are stored, by PixelMode, and whether alpha is.
Stored(mode) ==
  CASE mode \in {"GRAY", "GRAY_ALPHA"} -> 1 [] mode \in {"COLOR", "COLOR_ALPHA"} -> 3 [] OTHER -> 0
PixelModes == {"GRAY", "GRAY_ALPHA", "COLOR", "COLOR_ALPHA", "ALPHA"}
HasAlphaPlane(mode) == mode \in {"GRAY_ALPHA", "COLOR_ALPHA", "ALPHA"}

egPrepareEmbeddedImage(e, WantAlpha) ==
  LET count == e.Width * e.Height
      n == Stored(e.PixelMode)
      alpha == WantAlpha /\ HasAlphaPlane(e.PixelMode)
      planes == Planes(e.Data, IF alpha THEN n + 1 ELSE n, count, e.CompressMode = "RLE").planes
      Plane(k) == IF n = 0 THEN SetPlane(0, count) ELSE planes[IF n = 1 THEN 1 ELSE k]
  IN  IF e.PixelMode \notin PixelModes \/ e.CompressMode \notin {"NONE", "RLE"} THEN NULL
      ELSE Picture(e.Width, e.Height,
             Pixels(Plane(1), Plane(2), Plane(3),
                    IF alpha THEN planes[n + 1] ELSE SetPlane(Opaque(WantAlpha), count)))

-----------------------------------------------------------------------------
(* Files of pictures and icons. files holds what egLoadFile() can read.    *)

\* lodepng gives red, green, blue and alpha.
DecodePNG(file, WantAlpha) ==
  IF file.magic # "png" THEN NULL
  ELSE [file.picture EXCEPT !.PixelData =
          [k \in DOMAIN @ |-> IF WantAlpha THEN @[k] ELSE <<@[k][1], @[k][2], @[k][3], NULL>>]]

\* The first of some pictures that is there.
FirstOf(images) ==
  LET First(there) == IF there = <<>> THEN NULL ELSE there[1]
  IN  First(SelectSeq(images, LAMBDA i : i # NULL))

egDecodeAny(file, IconSize, WantAlpha) ==
  CASE file.magic = "icns" -> DecodeICNS(file, IconSize, WantAlpha)
    [] file.magic = "png"  -> DecodePNG(file, WantAlpha)
    [] file.magic = "BM"   -> DecodeBMP(file, WantAlpha)
    [] OTHER               -> NULL

egLoadImage(files, path, WantAlpha) ==
  IF path \in DOMAIN files THEN egDecodeAny(files[path], Sides[1], WantAlpha) ELSE NULL

\* (faulty variant: a picture of another size is taken as well)
egLoadIconAny(files, path, IconSize) ==
  IF path \in DOMAIN files THEN egDecodeAny(files[path], IconSize, TRUE) ELSE NULL

\* A picture of another size is no icon. Neither is one that cannot be decoded:
\* its size is read from address 0 all the same, which holds no icon's.
egLoadIcon(files, path, IconSize) ==
  LET Fitting(image) ==
        IF image = NULL THEN NULL
        ELSE IF image.Width # IconSize \/ image.Height # IconSize THEN NULL ELSE image
  IN  IF path \in DOMAIN files THEN Fitting(egDecodeAny(files[path], IconSize, TRUE)) ELSE NULL

ICON_EXTENSIONS == <<"icns", "png">>
IconDirs(IconsDir) == IF IconsDir = NULL THEN <<"icons">> ELSE <<IconsDir, "icons">>

egFindIcon(files, IconsDir, BaseName, IconSize) ==
  FirstOf([d \in DOMAIN IconDirs(IconsDir) |->
    FirstOf([e \in DOMAIN ICON_EXTENSIONS |->
      egLoadIcon(files, <<IconDirs(IconsDir)[d], BaseName, ICON_EXTENSIONS[e]>>, IconSize)])])

\* Icons are loaded unless rEFInd shows only text.
LoadIcns(files, names, PixelSize) ==
  FirstOf([n \in DOMAIN names |-> egLoadIcon(files, names[n], PixelSize)])

\* Stripes, which are left out.
DummyImage(size) == Picture(size, size, <<>>)

LoadOSIcon(files, IconsDir, OSIconName, FallbackIconName, BootLogo) ==
  LET prefix == IF BootLogo THEN "boot" ELSE "os"
      names == [n \in DOMAIN OSIconName |-> <<prefix, OSIconName[n]>>] \o << <<prefix, FallbackIconName>> >>
               \o (IF BootLogo THEN << <<"os", FallbackIconName>> >> ELSE <<>>)
  IN  FirstOf(Append([n \in DOMAIN names |-> egFindIcon(files, IconsDir, names[n], Sides[1])],
                     DummyImage(Sides[1])))

\* An icon of rEFInd's own is loaded once.
BuiltinIcon(table, files, IconsDir, Id, PixelSize) ==
  IF table[Id] # NULL THEN table
  ELSE [table EXCEPT ![Id] =
          FirstOf(<<egFindIcon(files, IconsDir, Id, PixelSize), DummyImage(PixelSize)>>)]

-----------------------------------------------------------------------------
(* What the formats say of a picture, from the side of the program that    *)
(* wrote it. The numbers are bounds of the check.                          *)

CONSTANTS Values,    \* the bytes of pixels
          MaxWidth   \* of BMP files

BitsOf(v, n) == [k \in 1 .. n |-> (v \div (2 ^ (n - k))) % 2]
BytesOf(bits) ==
  [n \in 1 .. Len(bits) \div 8 |-> FoldLeft(LAMBDA v, b : 2 * v + b, 0, SubSeq(bits, 8 * n - 7, 8 * n))]

\* A line of a BMP file: the pixels as bits, and zeros up to four bytes.
BmpLine(samples, bpp) ==
  LET bits == FlattenSeq([x \in DOMAIN samples |-> BitsOf(samples[x], bpp)])
      Fill == [n \in 1 .. (32 - (Len(bits) % 32)) % 32 |-> 0]
  IN  BytesOf(bits \o Fill)

\* A file of the samples f[x, y], y from the top, with a colour map and a gap
\* before the lines.
WrittenBmp(w, h, bpp, f, map, gap) ==
  LET colours == [n \in 1 .. 4 * Len(map) |-> map[((n - 1) \div 4) + 1][((n - 1) % 4) + 1]]
      data == colours \o [n \in 1 .. gap |-> 77]
      lines == FlattenSeq([n \in 1 .. h |-> BmpLine([x \in 1 .. w |-> f[x, h + 1 - n]], bpp)])
  IN  BmpFile(w, h, bpp, HEADER + Len(data), data \o lines)

\* The samples that differ in one place.
Patterns(w, h, bpp) ==
  {[x \in 1 .. w, y \in 1 .. h |-> IF <<x, y>> = p THEN v ELSE 0] :
     p \in (1 .. w) \X (1 .. h), v \in {1, (2 ^ bpp) - 1}}

\* Every BMP file shows the pixels it was written from, with blue, green and
\* red of the colour map or of the pixel itself.
BmpRead ==
  \A w \in 1 .. MaxWidth, h \in 1 .. 2, bpp \in {1, 4, 8, 24}, gap \in {0, 3}, alpha \in BOOLEAN :
    LET map == IF bpp = 24 THEN <<>> ELSE [i \in 1 .. 2 ^ bpp |-> <<i - 1, 255 - i + 1, i % 7, 0>>]
        Shown(v) == IF bpp = 24 THEN <<v % 256, (v \div 256) % 256, v \div 65536, Opaque(alpha)>>
                    ELSE <<map[v + 1][3], map[v + 1][2], map[v + 1][1], Opaque(alpha)>>
    IN  (bpp = 4 => w > 1) /\ (bpp = 8 => w < 4) =>
          \A f \in Patterns(w, h, bpp) :
            LET file == WrittenBmp(w, h, bpp, f, map, gap)
                cut == [file EXCEPT !.data = Front(@)]
            IN  /\ DecodeBMP(file, alpha) =
                     Picture(w, h, [k \in 1 .. w * h |-> Shown(f[((k - 1) % w) + 1, ((k - 1) \div w) + 1])])
                /\ DecodeBMP(cut, alpha) = NULL

\* A screen shot shows the screen, also when it replaces a larger one.
ScreenShotsRead ==
  \A w \in 1 .. MaxWidth, h \in 1 .. 2, old \in {<<1, 1>>, <<3, 4>>} :
    LET Screen_(width, height) ==
          Picture(width, height, [k \in 1 .. width * height |-> <<k, 100 + k, 200 + k, 0>>])
        before == EncodeBMP(Screen_(old[1], old[2]))
    IN  \A there \in {NULL, before} :
          DecodeBMP(SaveFile(there, EncodeBMP(Screen_(w, h))), FALSE) = Screen_(w, h)

RECURSIVE Streams(_)
\* All the ways to compress a plane.
Streams(plane) ==
  IF plane = <<>> THEN {<<>>}
  ELSE UNION {
    LET part == SubSeq(plane, 1, n)
        here == {<<n - 1>> \o part}
                \cup IF n >= 3 /\ \A k \in 1 .. n : part[k] = part[1] THEN {<<n + 125, part[1]>>} ELSE {}
    IN  {a \o b : a \in here, b \in Streams(SubSeq(plane, n + 1, Len(plane)))} : n \in DOMAIN plane}

PlaneBytes(count) == {[n \in 1 .. count |-> IF n < m THEN v ELSE w] : m \in {1, count}, v, w \in Values}

\* A plane that was compressed for a larger picture, or cut off, is read up to
\* the run that does not fit, and nothing is written past the picture.
RunsBounded ==
  \A p \in PlaneBytes(5) : \A s \in Streams(p) : \A n \in 0 .. Len(s) :
    LET d == egDecompressIcnsRLE(SubSeq(s, 1, n), 4)
    IN  /\ Len(d.plane) = 4
        /\ \A k \in 1 .. 4 : d.plane[k] \in {p[k], NULL}
        /\ IsSuffix(d.rest, SubSeq(s, 1, n))

Block(type, data) == [type |-> type, length |-> Len(data) + 8, data |-> data]

\* The icon of a size is the one that was stored, compressed or not, with its
\* mask, among the icons of other sizes and before what is cut off. (Compressed
\* only when that is shorter than not: the length is all that tells.)
IconsRead ==
  \A icon \in DOMAIN Sides :
    LET size == Sides[icon]
        count == size * size
        zeros == IF icon = 1 THEN <<0, 0, 0, 0>> ELSE <<>>
        others == [n \in 1 .. Len(Sides) - 1 |->
                     Block(DataType[((icon + n - 1) % Len(Sides)) + 1], <<0, 0, 0, 0, 9>>)]
        mask == [n \in 1 .. count |-> n]
        cut == [type |-> DataType[icon], length |-> 500, data |-> <<1>>]
    IN  \A r \in PlaneBytes(count) : \A g \in {r, Reverse(r)}, b \in {Reverse(r), SetPlane(1, count)} :
          LET plain == FlattenSeq([n \in 1 .. count |-> <<r[n], g[n], b[n]>>])
              packed == IF count > 4 THEN {} ELSE
                        {s \in {x \o y \o z : x \in Streams(r), y \in Streams(g), z \in Streams(b)} :
                           Len(s) < Len(plain)}
          IN  \A data \in {plain} \cup packed, alpha, masked \in BOOLEAN :
                LET blocks == others \o <<Block(DataType[icon], zeros \o data)>>
                              \o (IF masked THEN <<Block(MaskType[icon], mask)>> ELSE <<>>)
                    shown == Pixels(r, g, b, IF alpha /\ masked THEN mask ELSE SetPlane(Opaque(alpha), count))
                IN  \A file \in {blocks, Append(blocks, cut)} :
                      DecodeICNS([magic |-> "icns", blocks |-> file], size, alpha) =
                        Picture(size, size, shown)

\* A picture of the program looks as it was stored, in every mode.
EmbeddedRead ==
  \A mode \in PixelModes, wanted \in BOOLEAN :
    \A p \in [1 .. 2 -> PlaneBytes(4)] :
      LET n == Stored(mode)
          colour == [k \in 1 .. n |-> IF k = 2 THEN p[2] ELSE p[1]]
          planes == IF HasAlphaPlane(mode) THEN Append(colour, Reverse(p[2])) ELSE colour
          Shown(k) == CASE n = 0 -> SetPlane(0, 4) [] n = 1 -> p[1] [] n = 3 -> colour[k]
          alpha == IF wanted /\ HasAlphaPlane(mode) THEN Reverse(p[2]) ELSE SetPlane(Opaque(wanted), 4)
          Stored_(compress, data) ==
            [Width |-> 2, Height |-> 2, PixelMode |-> mode, CompressMode |-> compress, Data |-> data]
          Shortest(plane) == CHOOSE s \in Streams(plane) : \A t \in Streams(plane) : Len(s) <= Len(t)
      IN  \A e \in {Stored_("NONE", FlattenSeq(planes)),
                    Stored_("RLE", FlattenSeq([k \in DOMAIN planes |-> Shortest(planes[k])]))} :
            egPrepareEmbeddedImage(e, wanted) =
              Picture(2, 2, Pixels(Shown(1), Shown(2), Shown(3), alpha))

\* The icon of an entry is the best that can be used: the first name that has
\* one, for it the user's directory before the standard one, there the first
\* extension. A file of the wrong size, or that is no picture, stops nothing.
IconChosen ==
  LET Names == << <<"boot", "a">>, <<"boot", "b">>, <<"os", "b">> >>
      Dirs == <<"mine", "icons">>
      size == Sides[1]
      Icon(n) == Picture(size, size, SetPlane(<<n, n, n, 255>>, size * size))
      Small == Picture(1, 2, SetPlane(<<0, 0, 0, 255>>, 2))
      \* the paths, best first
      path == [k \in 1 .. 12 |-> <<Dirs[(((k - 1) \div 2) % 2) + 1], Names[((k - 1) \div 4) + 1],
                                   ICON_EXTENSIONS[((k - 1) % 2) + 1]>>]
      Usable == {k \in 1 .. 12 : k % 5 # 3}
      File(k) == CASE k \in Usable -> [magic |-> "png", picture |-> Icon(k)]
                   [] k % 10 = 3   -> [magic |-> "png", picture |-> Small]
                   [] OTHER        -> [magic |-> "text"]
  IN  \A there \in SUBSET (1 .. 12) :
        LET files == [p \in {path[k] : k \in there} |-> File(CHOOSE k \in there : path[k] = p)]
            Best(among) == LET k == there \cap Usable \cap among
                           IN  IF k = {} THEN DummyImage(size) ELSE Icon(CHOOSE m \in k : \A j \in k : m <= j)
            Standard == {k \in 1 .. 12 : path[k][1] = "icons"}
        IN  /\ LoadOSIcon(files, "mine", <<"a">>, "b", TRUE) = Best(1 .. 12)
            /\ LoadOSIcon(files, NULL, <<"a", "b">>, "b", TRUE) = Best(Standard)
            /\ LoadOSIcon(files, "mine", <<>>, "b", FALSE) = Best(9 .. 12)
            /\ \E table \in {BuiltinIcon([i \in {Names[1]} |-> NULL], files, "mine", Names[1], size)} :
                 /\ table[Names[1]] = Best(1 .. 4)
                 /\ BuiltinIcon(table, [p \in {} |-> NULL], NULL, Names[1], size) = table
            /\ LoadIcns(files, SubSeq(path, 1, 4), size) =
                 (IF Best(1 .. 4) = DummyImage(size) THEN NULL ELSE Best(1 .. 4))

Sound == BmpRead /\ ScreenShotsRead /\ RunsBounded /\ IconsRead /\ EmbeddedRead /\ IconChosen
=============================================================================
