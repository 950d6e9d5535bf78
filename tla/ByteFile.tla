------------------------------ MODULE ByteFile -----------------------------
(***************************************************************************)
(* What the EFI file protocol promises of a read-only file: it is a fixed  *)
(* sequence of bytes with a position. A read returns the bytes from the    *)
(* position on and moves it past them, or fails and moves nothing.         *)
(***************************************************************************)
EXTENDS Naturals, Sequences

CONSTANTS Contents,   \* what files hold
          Amounts,    \* how much a read may ask for
          None

VARIABLES data, pos, out

Init == data = None /\ pos = 0 /\ out = None

Open == data' \in Contents /\ pos' = 0 /\ out' = None

Close == data' = None /\ pos' = 0 /\ out' = None

SetPosition == data # None /\ pos' \in Nat /\ out' = None /\ UNCHANGED data

(* A short read happens only at the end of the file.                       *)
Read(n) ==
  /\ data # None
  /\ out' = SubSeq(data, pos + 1, IF pos + n < Len(data) THEN pos + n ELSE Len(data))
  /\ pos' = pos + Len(out')
  /\ UNCHANGED data

Fail == data # None /\ out' = None /\ UNCHANGED <<data, pos>>

Next == Open \/ Close \/ SetPosition \/ Fail \/ \E n \in Amounts : Read(n)

Spec == Init /\ [][Next]_<<data, pos, out>>
=============================================================================
