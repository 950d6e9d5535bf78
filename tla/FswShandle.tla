---------------------------- MODULE FswShandle -----------------------------
(***************************************************************************)
(* Reading the data of a dnode through a storage handle                    *)
(* (filesystems/fsw_core.c), for any driver: GetExtent is the get_extent   *)
(* entry of its dispatch table. A volume v is a record; v.bs is its block  *)
(* size and v.bad the set of blocks that cannot be read while one          *)
(* operation runs.                                                         *)
(***************************************************************************)
EXTENDS FswBase

CONSTANTS
  GetExtent(_, _, _),   \* volume, dnode, logical block -> status, extent
  PosBits,              \* width of fsw_u32
  PATH_MAX              \* FSW_PATH_MAX

Smaller(a, b) == IF a < b THEN a ELSE b

(* The bytes that the extent gives from offset off on, at most len: a      *)
(* block is copied to its end, a hole or a buffer to the extent's end.     *)
Piece(v, extent, off, len) ==
  LET end == IF extent.type = "PHYSBLOCK" THEN v.bs - (off % v.bs)
             ELSE extent.log_count * v.bs - off
      Byte(k) == CASE extent.type = "PHYSBLOCK" -> <<extent.phys_start + k \div v.bs, k % v.bs>>
                   [] extent.type = "BUFFER" -> extent.buffer[k + 1]
                   [] OTHER -> ZERO
  IN  [k \in 1 .. Smaller(end, len) |-> Byte(off + k - 1)]

Unreadable(v, extent, off) ==
  extent.type = "PHYSBLOCK" /\ extent.phys_start + off \div v.bs \in v.bad

(* The position is stored in the handle only when all of it is read; the   *)
(* extent stays in the handle for the next read.                           *)
RECURSIVE Copy(_, _, _, _, _), CopyPiece(_, _, _, _, _)

Copy(v, shand, pos, buflen, data) ==
  LET log_bno == pos \div v.bs
      From(got) ==
        IF Failed(got) THEN got @@ [shand |-> [shand EXCEPT !.extent = Invalid]]
        ELSE CopyPiece(v, [shand EXCEPT !.extent = got.extent], pos, buflen, data)
  IN  IF buflen = 0 THEN Ok([shand |-> [shand EXCEPT !.pos = pos], data |-> data])
      ELSE From(IF Covers(shand.extent, log_bno) THEN Ok([extent |-> shand.extent])
                ELSE GetExtent(v, shand.dnode, log_bno))

CopyPiece(v, shand, pos, buflen, data) ==
  LET off == pos - shand.extent.log_start * v.bs
      After(piece) ==
        Copy(v, shand, (pos + Len(piece)) % 2^PosBits, buflen - Len(piece), data \o piece)
  IN  IF Unreadable(v, shand.extent, off) THEN Error("IO_ERROR") @@ [shand |-> shand]
      ELSE After(Piece(v, shand.extent, off, buflen))

(* At the end of the file nothing is read; the rest of the arithmetic has  *)
(* the width of fsw_u32.                                                   *)
Read(v, shand, buffer_size) ==
  LET pos == shand.pos % 2^PosBits
      buflen == Smaller(buffer_size, (shand.dnode.size - pos) % 2^PosBits)
  IN  IF shand.pos >= shand.dnode.size THEN Ok([shand |-> shand, data |-> <<>>])
      ELSE Copy(v, shand, pos, buflen, <<>>)

(* The target of a symbolic link that is stored as a file's data; v.link   *)
(* gives the text that these bytes are.                                    *)
ReadlinkData(v, dno) ==
  LET Target(r) == IF Len(r.data) < dno.size THEN Error("VOLUME_CORRUPTED")
                   ELSE Ok([target |-> strdup_coerce("UTF16", Iso(v.link[r.data])).string])
  IN  IF dno.size > PATH_MAX THEN Error("VOLUME_CORRUPTED")
      ELSE OnSuccess(Read(v, ShandleOpen(dno), dno.size), Target)
=============================================================================
