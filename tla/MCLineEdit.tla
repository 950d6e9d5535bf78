----------------------------- MODULE MCLineEdit -----------------------------
(* A console of four columns, lines of up to seven characters: one letter  *)
(* and the space make words.                                               *)
EXTENDS LineEdit

MCInputs == { <<>> }

MCHabits == { Keys \ {"End"}, Keys \ {"Delete", "Down"}, Keys \ {"End", "Delete"},
              Keys \ {"End", "Delete", "Backspace"} }
=============================================================================
