----------------------------- MODULE TextField -----------------------------
(***************************************************************************)
(* What the editor of boot options promises (docs/refind/using.html:165):  *)
(* the arrow keys move a cursor in the line, text is deleted and typed at  *)
(* it, Enter boots with the edited options, Esc drops them.                *)
(***************************************************************************)
EXTENDS Integers, SequencesExt

CONSTANTS Printable,   \* the characters that can be typed
          Texts        \* the options an entry can have

VARIABLES text, pos, state, result

Init == text \in Texts /\ pos = 0 /\ state = "edit" /\ result = <<>>

Move == pos' \in 0 .. Len(text) /\ UNCHANGED <<text, state, result>>

Insert ==
  /\ \E c \in Printable : text' = InsertAt(text, pos + 1, c)
  /\ pos' = pos + 1
  /\ UNCHANGED <<state, result>>

\* The character under the cursor, or the one before it.
Erase ==
  /\ \/ pos < Len(text) /\ text' = RemoveAt(text, pos + 1) /\ pos' = pos
     \/ pos > 0 /\ text' = RemoveAt(text, pos) /\ pos' = pos - 1
  /\ UNCHANGED <<state, result>>

Finish ==
  /\ \/ state' = "enter" /\ result' = text
     \/ state' = "exit" /\ result' = <<>>
  /\ UNCHANGED <<text, pos>>

Next == state = "edit" /\ (Move \/ Insert \/ Erase \/ Finish)

Spec == Init /\ [][Next]_<<text, pos, state, result>>
=============================================================================
