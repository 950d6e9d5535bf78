-------------------------------- MODULE Texts --------------------------------
(***************************************************************************)
(* How the text of a configuration file becomes lines of tokens            *)
(* (refind/config.c): the encoding of the file, its lines, and the tokens  *)
(* of a line (at the end: how lib.c cuts paths and lists up). Characters   *)
(* of a text are their codes; a file is a sequence of bytes,               *)
(* NULL when it cannot be opened, measured, loaded into memory or read.    *)
(***************************************************************************)
EXTENDS Integers, SequencesExt

CONSTANT NULL

TAB == 9    LF == 10    CR == 13    SPACE == 32    QUOTE == 34    HASH == 35
COMMA == 44    SLASH == 47    EQUALS == 61    BACKSLASH == 92

-----------------------------------------------------------------------------
(* Files. Current and End count characters.                                *)

\* The first bytes tell the encoding, in a file of four bytes or more.
ReadFile(bytes) ==
  LET Marked(mark) == Len(bytes) >= 4 /\ SubSeq(bytes, 1, Len(mark)) = mark
      utf8  == Marked(<<239, 187, 191>>)
      utf16 == Marked(<<255, 254>>)
      wide  == utf16 \/ (~ utf8 /\ Len(bytes) >= 4 /\ bytes[2] = 0 /\ bytes[4] = 0)
  IN  IF bytes = NULL THEN [Buffer |-> NULL]
      ELSE [ Buffer |-> bytes,
             Encoding |-> IF wide THEN "UTF16_LE" ELSE IF utf8 THEN "UTF8" ELSE "ISO8859_1",
             Current |-> IF utf16 THEN 2 ELSE IF utf8 THEN 4 ELSE 1,
             End |-> IF wide THEN Len(bytes) \div 2 ELSE Len(bytes) ]

\* Bytes beyond ASCII are not decoded in UTF-8 either.
Char(file, n) ==
  IF file.Encoding = "UTF16_LE" THEN file.Buffer[2 * n - 1] + 256 * file.Buffer[2 * n]
  ELSE file.Buffer[n]

HasLine(file) == file.Buffer # NULL /\ file.Current <= file.End

\* The first place from n on that is, or is not, an end of line.
Next(file, n, eol) ==
  LET there == {k \in n .. file.End : (Char(file, k) \in {CR, LF}) = eol}
  IN  IF there = {} THEN file.End + 1 ELSE CHOOSE k \in there : \A j \in there : k <= j

\* Empty lines after the line are read along with it.
ReadLine(file) ==
  LET end == Next(file, file.Current, TRUE)
  IN  [ line |-> [k \in 1 .. end - file.Current |-> Char(file, file.Current + k - 1)],
        file |-> [file EXCEPT !.Current = Next(file, end, FALSE)] ]

-----------------------------------------------------------------------------
(* Tokens. At the place p of a line, in quotes or not.                     *)

Blank == {SPACE, TAB, EQUALS, COMMA}

At(line, p) == IF p > Len(line) THEN 0 ELSE line[p]

Keep(more, line, quoted) == [more |-> more, line |-> line, quoted |-> quoted]

\* (faulty variant: two quotes are not one quote of the token)
KeepReadingSingle(line, p, quoted) ==
  CASE At(line, p) = 0     -> Keep(FALSE, line, quoted)
    [] At(line, p) = QUOTE -> Keep(FALSE, line, ~ quoted)
    [] OTHER               -> Keep(quoted \/ line[p] \notin Blank \cup {HASH}, line, quoted)

\* Whether the token goes on at p. Of two quotes one is deleted.
KeepReading(line, p, quoted) ==
  CASE At(line, p) = 0 -> Keep(FALSE, line, quoted)
    [] At(line, p) = QUOTE /\ At(line, p + 1) = QUOTE -> Keep(TRUE, RemoveAt(line, p), quoted)
    [] At(line, p) = QUOTE /\ At(line, p + 1) # QUOTE -> Keep(FALSE, line, ~ quoted)
    [] OTHER -> Keep(quoted \/ line[p] \notin Blank \cup {HASH}, line, quoted)

\* The end of the token, slashes outside quotes turned.
RECURSIVE TokenEnd(_, _, _)
TokenEnd(line, p, quoted) ==
  LET Turned(keep) == IF keep.line[p] = SLASH /\ ~ keep.quoted
                      THEN [keep.line EXCEPT ![p] = BACKSLASH] ELSE keep.line
      After(keep) == IF keep.more THEN TokenEnd(Turned(keep), p + 1, keep.quoted)
                     ELSE [p |-> p, line |-> keep.line, quoted |-> keep.quoted]
  IN  After(KeepReading(line, p, quoted))

SkipBlanks(line, p, quoted) ==
  IF quoted THEN p
  ELSE CHOOSE q \in p .. Len(line) + 1 :
         /\ At(line, q) \notin Blank
         /\ \A k \in p .. q - 1 : line[k] \in Blank

RECURSIVE Tokens(_, _, _)
Tokens(line, p, quoted) ==
  LET Token(start, end) ==
        <<SubSeq(end.line, start, end.p - 1)>>
        \o IF At(end.line, end.p) \in {0, HASH} THEN <<>>
           ELSE Tokens(end.line, end.p + 1, end.quoted)
      Starting(first) ==
        CASE At(line, first) \in {0, HASH} -> <<>>
          [] At(line, first) = QUOTE -> Token(first + 1, TokenEnd(line, first + 1, ~ quoted))
          [] OTHER                   -> Token(first, TokenEnd(line, first, quoted))
  IN  Starting(SkipBlanks(line, p, quoted))

\* The tokens of the next line that has some. (A line that has none leaves no
\* quote open.)
RECURSIVE ReadTokenLine(_)
ReadTokenLine(file) ==
  IF ~ HasLine(file) THEN [tokens |-> <<>>, file |-> file]
  ELSE LET Line(tokens, rest) == IF tokens = <<>> THEN ReadTokenLine(rest)
                                  ELSE [tokens |-> tokens, file |-> rest]
           After(read) == Line(Tokens(read.line, 1, FALSE), read.file)
       IN  After(ReadLine(file))

\* What the callers' loops read.
RECURSIVE TokenLines(_)
TokenLines(file) ==
  LET After(read) ==
        IF read.tokens = <<>> THEN <<>> ELSE <<read.tokens>> \o TokenLines(read.file)
  IN  After(ReadTokenLine(file))

-----------------------------------------------------------------------------
(* Writing tokens, the way the comments of refind.conf-sample and          *)
(* docs/refind/configfile.html tell users to.                              *)

CONSTANTS Values,       \* tokens to write
          Separators,   \* what stands between two of them
          Ends,         \* what stands behind the last, an end of line included
          Fillers       \* lines with no token

Quoted(t) ==
  <<QUOTE>> \o FlattenSeq([k \in DOMAIN t |-> IF t[k] = QUOTE THEN <<QUOTE, QUOTE>> ELSE <<t[k]>>])
  \o <<QUOTE>>

\* A token as it can be written, and as it is to be read.
Written ==
  {[text |-> Quoted(t), value |-> t] : t \in Values}
  \cup {[text |-> t, value |-> [k \in DOMAIN t |-> IF t[k] = SLASH THEN BACKSLASH ELSE t[k]]] :
          t \in {t \in Values : t # <<>> /\ ToSet(t) \cap (Blank \cup {QUOTE, HASH}) = {}}}

Encodings(text) ==
  LET wide == FlattenSeq([k \in DOMAIN text |-> <<text[k], 0>>])
  IN  {text, wide, <<255, 254>> \o wide}
      \cup IF \A k \in DOMAIN text : text[k] < 128 THEN {<<239, 187, 191>> \o text} ELSE {}

Reads(text, lines) ==
  \A bytes \in Encodings(text) : Len(bytes) >= 4 => TokenLines(ReadFile(bytes)) = lines

\* Every way to write one or two tokens, on a line or on two, is read as these
\* tokens; a file that cannot be read has no lines.
WrittenIsRead ==
  /\ TokenLines(ReadFile(NULL)) = <<>>
  /\ \A t \in Written, end \in Ends, filler \in Fillers :
       /\ Reads(filler \o t.text \o end, <<<<t.value>>>>)
       /\ \A u \in Written :
            /\ Reads(t.text \o end \o filler \o u.text, << <<t.value>>, <<u.value>> >>)
            /\ \A between \in Separators :
                 Reads(t.text \o between \o u.text \o end, << <<t.value, u.value>> >>)

-----------------------------------------------------------------------------
(***************************************************************************)
(* How names of files, directories and volumes are taken apart and put     *)
(* together (refind/lib.c). A string is a sequence of characters, written  *)
(* in one case; NULL stands for none.                                      *)
(***************************************************************************)

Slash(c) == c \in {"/", "\\"}

\* The places of the characters c, and the last of a set of places, or default.
Places(s, c) == {k \in DOMAIN s : s[k] = c}
Latest(places, default) == IF places = {} THEN default ELSE CHOOSE k \in places : \A j \in places : j <= k
From(s, k) == SubSeq(s, k, Len(s))

CleanUpPathNameSlashes(s) ==
  LET Add(t, c) == IF ~ Slash(c) THEN Append(t, c)
                   ELSE IF t = <<>> \/ Last(t) = "\\" THEN t ELSE Append(t, "\\")
      t == FoldLeft(Add, <<>>, s)
      name == IF t # <<>> /\ Last(t) = "\\" THEN Front(t) ELSE t
  IN  IF name = <<>> THEN <<"\\">> ELSE name

\* A device path as text: the device up to its last ")", and the file.
SplitDeviceString(s) ==
  LET end == Latest(Places(s, ")"), 0)
  IN  IF end = 0 THEN [device |-> s, file |-> s]
      ELSE [device |-> SubSeq(s, 1, end), file |-> CleanUpPathNameSlashes(From(s, end + 1))]

Basename(path) == From(path, Latest(Places(path, "/") \cup Places(path, "\\"), 0) + 1)

EXTENSION == <<".", "e", "f", "i">>

StripEfiExtension(name) ==
  LET length == Len(name) - 4
  IN  IF length >= 0 /\ From(name, length + 1) = EXTENSION THEN SubSeq(name, 1, length) ELSE name

\* The directories of a path: up to its last backslash.
FindPath(path) == SubSeq(path, 1, Latest(Places(path, "\\"), 1) - 1)

\* The name between the last two backslashes.
FindLastDirName(path) ==
  LET end   == Latest(Places(path, "\\"), 1)
      begin == Latest(Places(path, "\\") \ {end}, 1)
      name  == SelectSeq(SubSeq(path, begin, end - 1), LAMBDA c : c # "\\")
  IN  IF name = <<>> THEN NULL ELSE name

\* From the last dot on. The search does not stop at the start of the path: it
\* goes on in the memory before it, up to a dot or a slash there.
FindExtension(before, path) ==
  LET s    == before \o path
      last == Latest({k \in DOMAIN s : s[k] = "." \/ Slash(s[k])}, 0)
  IN  IF last # 0 /\ s[last] = "." THEN From(s, last) ELSE <<>>

MergeStrings(first, second, AddChar) ==
  (IF first \in {NULL, <<>>} THEN <<>> ELSE first \o AddChar)
  \o IF second = NULL THEN <<>> ELSE second

\* The element with this index, from 0 on.
FindCommaDelimited(s, index) ==
  LET commas == Places(s, ",")
      Nth(n) == CHOOSE k \in commas : Cardinality({j \in commas : j <= k}) = n
      end(n) == IF n > Cardinality(commas) THEN Len(s) + 1 ELSE Nth(n)
  IN  CASE index > Cardinality(commas) -> NULL
        [] index = 0                   -> SubSeq(s, 1, end(1) - 1)
        [] OTHER                       -> SubSeq(s, Nth(index) + 1, end(index + 1) - 1)

IsIn(s, list) == \E k \in 0 .. Len(list) : FindCommaDelimited(list, k) = s

\* The first offset of s, or -1. The last place it can be at is not searched.
FindMem(buffer, s) ==
  LET there == {k \in 0 .. Len(buffer) - Len(s) - 1 : SubSeq(buffer, k + 1, k + Len(s)) = s}
  IN  IF there = {} THEN -1 ELSE CHOOSE k \in there : \A j \in there : k <= j

\* The number of the volume that a device path as text is on, or NULL, and the
\* file. paths: the device paths of the volumes.
FindVolumeAndFilename(loadpath, paths) ==
  LET split == SplitDeviceString(loadpath)
      there == {k \in DOMAIN paths : SplitDeviceString(paths[k]).device = split.device}
  IN  [ volume |-> IF there = {} THEN NULL ELSE CHOOSE k \in there : \A j \in there : k <= j,
        loader |-> split.file ]

SplitVolumeAndFilename(path) ==
  LET colons == Places(path, ":")
      first  == CHOOSE k \in colons : \A j \in colons : k <= j
  IN  IF colons = {} THEN [vol |-> NULL, path |-> path]
      ELSE [vol |-> SubSeq(path, 1, first - 1), path |-> From(path, first + 1)]

-----------------------------------------------------------------------------
(* Lists of pointers, with the room that was allocated for them.           *)

CreateList(n) == [count |-> n, room |-> 8 * ((n + 7) \div 8)]

AddListElement(list) ==
  [ count |-> list.count + 1,
    room  |-> IF list.count % 8 = 0 THEN list.count + 8 ELSE list.room ]

-----------------------------------------------------------------------------
(* What they promise.                                                      *)

CONSTANTS NameChars,   \* characters of names
          MaxLength,   \* of the strings they are checked on
          MaxCount     \* elements of a list

Strings(chars, length) == UNION {[1 .. n -> chars] : n \in 0 .. length}

\* A path is rooted and relative names, alike, in any mixture of slashes.
Join(names, separator) ==
  FlattenSeq([k \in DOMAIN names |-> IF k = 1 THEN names[k] ELSE separator \o names[k]])

RECURSIVE Names(_)
Names(path) ==
  LET first == CHOOSE k \in 1 .. Len(path) + 1 :
                 /\ k <= Len(path) => Slash(path[k])
                 /\ \A j \in 1 .. k - 1 : ~ Slash(path[j])
      rest  == IF first > Len(path) THEN <<>> ELSE Names(From(path, first + 1))
  IN  IF first = 1 THEN rest ELSE <<SubSeq(path, 1, first - 1)>> \o rest

\* Whatever slashes a path is written with, the clean path has its names, one
\* backslash between two of them, and every part of it is found again. (The
\* extension only where a dot or a slash stops the search for it.)
CleanPathsSplit ==
  \A path \in Strings(NameChars \cup {"/", "\\", "."}, MaxLength) :
    LET names == Names(path)
        clean == CleanUpPathNameSlashes(path)
        dots  == Places(Last(names), ".")
        Extension(before) == FindExtension(before, clean)
    IN  IF names = <<>> THEN clean = <<"\\">>
        ELSE /\ clean = Join(names, <<"\\">>)
             /\ Basename(clean) = Last(names)
             /\ FindPath(clean) = Join(Front(names), <<"\\">>)
             /\ FindLastDirName(clean) = IF Len(names) = 1 THEN NULL ELSE names[Len(names) - 1]
             /\ MergeStrings(FindPath(clean), Basename(clean), <<"\\">>) = clean
             /\ StripEfiExtension(clean \o EXTENSION) = clean
             /\ Extension(<<>>) = IF dots = {} THEN <<>> ELSE From(Last(names), Latest(dots, 1))
             /\ Len(names) > 1 \/ dots # {} => Extension(<<".", "a">>) = Extension(<<>>)

\* A list that is merged from its elements has each at its index, and none
\* beyond; only empty elements at its start are lost.
ListsKeepElements ==
  \A elements \in UNION {[1 .. n -> Strings(NameChars \cup {"/"}, 2)] : n \in 1 .. 3} :
    LET list == FoldLeft(LAMBDA t, e : MergeStrings(t, e, <<",">>), NULL, elements)
    IN  elements[1] # <<>> =>
          /\ \A k \in DOMAIN elements : FindCommaDelimited(list, k - 1) = elements[k]
          /\ FindCommaDelimited(list, Len(elements)) = NULL
          /\ \A s \in Strings(NameChars, 2) : IsIn(s, list) <=> s \in ToSet(elements)

\* The path of a loader leads to the volume it is on, with the file's own path
\* there, and "name:path" to the volume's name.
VolumesFound ==
  LET devices == [k \in 1 .. 3 |-> Join([j \in 1 .. k |-> <<"(", "a", ")">>], <<"/">>)]
  IN  \A path \in Strings(NameChars \cup {"/", "\\"}, 3) :
        /\ \A k \in DOMAIN devices :
             FindVolumeAndFilename(devices[k] \o <<"/", "\\">> \o path, devices) =
               [volume |-> k, loader |-> CleanUpPathNameSlashes(path)]
        /\ \A vol \in Strings(NameChars, 2) :
             SplitVolumeAndFilename(vol \o <<":">> \o path) = [vol |-> vol, path |-> path]

\* What is found in a boot sector is there, and nowhere before; what is not
\* found is not there, except at the very end.
SectorsSearched ==
  \A buffer \in Strings({"a", "b"}, 4), s \in {<<"a">>, <<"a", "b">>} :
    LET There(k) == SubSeq(buffer, k + 1, k + Len(s)) = s
        found == FindMem(buffer, s)
        end   == Len(buffer) - Len(s)
    IN  Len(buffer) >= Len(s) =>
          /\ found # -1 => There(found)
          /\ \A k \in 0 .. (IF found = -1 THEN end ELSE found) - 1 : ~ There(k)

\* No element is added beyond the room of its list.
RECURSIVE RoomFor(_, _)
RoomFor(list, more) ==
  more = 0 \/ LET added == AddListElement(list) IN added.count <= added.room /\ RoomFor(added, more - 1)

\* All of it, and no list without room for what is added.
Sound ==
  /\ CleanPathsSplit /\ ListsKeepElements /\ VolumesFound /\ SectorsSearched
  /\ \A n \in 0 .. MaxCount : RoomFor(CreateList(n), MaxCount)
=============================================================================
