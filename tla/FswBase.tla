------------------------------ MODULE FswBase ------------------------------
(***************************************************************************)
(* What the core, the file system drivers and the host driver exchange     *)
(* (filesystems/fsw_core.h): a status with its results, strings of known   *)
(* encoding, dnodes, and the extents that a driver's get_extent locates.   *)
(***************************************************************************)
EXTENDS Integers, Sequences, SequencesExt, TLC

Ok(results)   == [status |-> "SUCCESS"] @@ results
Error(status) == [status |-> status]
Failed(r)     == r.status # "SUCCESS"

(* The steps of an operation end with the first that fails.                *)
OnSuccess(r, Continue(_)) == IF Failed(r) THEN Error(r.status) ELSE Continue(r)

(* The file system knows more of a dnode than this.                        *)
Dnode(id, type, size) == [id |-> id, type |-> type, size |-> size]

(* A byte of a file is <<block, offset>> for the byte of the disk that     *)
(* holds it, ZERO in a hole, or an item of a buffer that a driver made.    *)
ZERO == <<>>

Invalid == [type |-> "INVALID", log_start |-> 0, log_count |-> 0]

PhysBlocks(start, count, phys) ==
  [type |-> "PHYSBLOCK", log_start |-> start, log_count |-> count, phys_start |-> phys]

SparseBlock(start) == [type |-> "SPARSE", log_start |-> start, log_count |-> 1]

BufferOf(start, count, bytes) ==
  [type |-> "BUFFER", log_start |-> start, log_count |-> count, buffer |-> bytes]

(* A storage handle: the dnode, the position, the extent last used.        *)
ShandleOpen(dno) == [dnode |-> dno, pos |-> 0, extent |-> Invalid]

Covers(extent, log_bno) ==
  /\ extent.type # "INVALID"
  /\ log_bno \in extent.log_start .. extent.log_start + extent.log_count - 1

-----------------------------------------------------------------------------
\* Strings: len counts characters, data are the units of the encoding, bytes
\* or words of 16 bits.

String(type, len, data) == [type |-> type, len |-> len, data |-> data]

EmptyString == String("EMPTY", 0, <<>>)
Iso(bytes)  == String("ISO88591", Len(bytes), bytes)
Utf16(data) == String("UTF16", Len(data), data)

Swap(word) == (word % 256) * 256 + word \div 256

(* A character of UTF-8 at the head of bytes, and how many it takes.       *)
Utf8Head(bytes) ==
  LET lead == bytes[1]
      low(i) == bytes[i] % 64
  IN  CASE lead \in 192 .. 223 -> [n |-> 2, c |-> (lead % 32) * 64 + low(2)]
        [] lead \in 224 .. 239 -> [n |-> 3, c |-> ((lead % 16) * 64 + low(2)) * 64 + low(3)]
        [] lead \in 240 .. 247 ->
             [n |-> 4, c |-> (((lead % 8) * 64 + low(2)) * 64 + low(3)) * 64 + low(4)]
        [] OTHER -> [n |-> 1, c |-> lead]

RECURSIVE Utf8Chars(_)
Utf8Chars(bytes) ==
  IF bytes = <<>> THEN <<>>
  ELSE LET h == Utf8Head(bytes) IN <<h.c>> \o Utf8Chars(SubSeq(bytes, h.n + 1, Len(bytes)))

(* The characters of a string, as the loops of fsw_strfunc.h take them:    *)
(* a word of UTF-16 is a character, also half of a surrogate pair.         *)
Chars(s) ==
  CASE s.type = "UTF8" -> Utf8Chars(s.data)
    [] s.type = "UTF16_SWAPPED" -> [i \in DOMAIN s.data |-> Swap(s.data[i])]
    [] OTHER -> s.data

(* Of the letters beyond ASCII only four are in the table.                 *)
to_lower(c) ==
  IF c = 0 THEN 65535
  ELSE IF c \in 65 .. 90 \cup {198, 208, 216, 222} THEN c + 32
  ELSE c

(* ISO 8859-1 and UTF-16 are compared without case, on an EFI host; equal  *)
(* encodings byte by byte; all others character by character.              *)
streq(s1, s2) ==
  LET folds == {s1.type, s2.type} = {"ISO88591", "UTF16"}
      Same(c1, c2) == IF folds THEN to_lower(c1) = to_lower(c2) ELSE c1 = c2
  IN  /\ s1.len = s2.len
      /\ \/ s1.len = 0
         \/ s1.type = s2.type /\ s1.data = s2.data
         \/ s1.type # s2.type /\ \A i \in 1 .. s1.len : Same(Chars(s1)[i], Chars(s2)[i])

(* Comparison with a string constant of the code.                          *)
streq_cstr(s, constant) == streq(s, Iso(constant))

ToIso(chars) == [i \in DOMAIN chars |-> chars[i] % 256]

\* Mutant: characters are cut to a byte.
ToUtf16Bytes(chars) == [i \in DOMAIN chars |-> chars[i] % 256]

ToUtf16(chars) == [i \in DOMAIN chars |-> chars[i] % 65536]

Utf8Bytes(c) ==
  LET Next(n) == 128 + ((c \div 64^n) % 64)
  IN  IF c < 128 THEN <<c>>
      ELSE IF c < 2048 THEN <<192 + c \div 64, Next(0)>>
      ELSE IF c < 65536 THEN <<224 + c \div 4096, Next(1), Next(0)>>
      ELSE <<240 + c \div 262144, Next(2), Next(1), Next(0)>>

ToUtf8(chars) == FlattenSeq([i \in DOMAIN chars |-> Utf8Bytes(chars[i])])

(* A copy in the given encoding; there is none to swapped UTF-16.          *)
strdup_coerce(type, src) ==
  IF src.len = 0 THEN Ok([string |-> String(type, 0, <<>>)])
  ELSE IF src.type = type THEN Ok([string |-> src])
  ELSE CASE type = "ISO88591" -> Ok([string |-> String(type, src.len, ToIso(Chars(src)))])
         [] type = "UTF16" -> Ok([string |-> String(type, src.len, ToUtf16(Chars(src)))])
         [] type = "UTF8" -> Ok([string |-> String(type, src.len, ToUtf8(Chars(src)))])
         [] OTHER -> Error("UNSUPPORTED")

(* The part before the separator and the part after it. UTF-8 and swapped  *)
(* UTF-16 are not split.                                                   *)
strsplit(buffer, separator) ==
  LET d == buffer.data
      n == SelectInSeq(d, LAMBDA c : c = separator)
      Part(data) == String(buffer.type, Len(data), data)
  IN  IF buffer.len = 0 THEN [element |-> EmptyString, buffer |-> buffer]
      ELSE IF buffer.type \notin {"ISO88591", "UTF16"} THEN [element |-> buffer, buffer |-> EmptyString]
      ELSE IF n = 0 THEN [element |-> buffer, buffer |-> Part(<<>>)]
      ELSE [element |-> Part(SubSeq(d, 1, n - 1)), buffer |-> Part(SubSeq(d, n + 1, Len(d)))]
=============================================================================
