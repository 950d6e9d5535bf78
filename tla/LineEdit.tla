------------------------------ MODULE LineEdit ------------------------------
(***************************************************************************)
(* line_edit() of refind/screen.c: one line of boot options in a buffer of *)
(* size characters, of which the console shows those from first on, with   *)
(* the cursor in column cursor. The editor reads keys until Enter or Esc.  *)
(* The text it shows is the first len characters; what the caller gets is  *)
(* the buffer, up to its terminator.                                       *)
(***************************************************************************)
EXTENDS Integers, Sequences, FiniteSets, FiniteSetsExt, FiniteSetTheorems,
        SequenceTheorems, WellFoundedInduction, TLAPS

CONSTANTS Chars,      \* printable characters other than the space
          Space, Nul,
          Inputs,     \* the options of the entry, sequences of characters
          Headroom,   \* characters allocated beyond the options (1024)
          XMax,       \* columns of the console
          Jump,       \* columns shown again when deleting at the left edge (10)
          Habits,     \* sets of keys, of which a user presses those of one
          NULL

Keys == {"Type", "Left", "Right", "Up", "Down", "Home", "End", "Delete",
         "Backspace", "Enter", "Esc"}

ASSUME KeysAssumption == Habits \subseteq SUBSET Keys
ASSUME CharsAssumption == Nul \notin Chars /\ Nul # Space
ASSUME NullAssumption == NULL \notin Nat \X Nat
ASSUME InputsAssumption == Inputs \subseteq Seq(Chars \cup {Space})
ASSUME WidthAssumption ==
  /\ XMax \in Nat /\ Headroom \in Nat /\ Jump \in Nat \ {0}
  /\ Jump + 2 <= XMax /\ XMax > 2 /\ 2 * XMax <= Headroom

VARIABLES
  keys,        \* the keys this user presses
  line, size, len,
  first, cursor,
  state,       \* "edit", "enter", "exit"; "hung" in a loop that cannot end
  line_out

buffer == <<line, size, len>>
window == <<first, cursor>>
vars == <<keys, line, size, len, first, cursor, state, line_out>>

Printable == Chars \cup {Space}
Word == Chars \cup {Nul}

\* The position of the cursor in the line.
Pos == first + cursor

\* What lies behind the terminator is not initialized; one value stands for it.
Init ==
  /\ \E line_in \in Inputs, junk \in Printable \cup {Nul} :
       LET n == Len(line_in)
       IN  /\ size = n + Headroom
           /\ len = n
           /\ line = [i \in 0 .. n + Headroom - 1 |->
                        IF i < n THEN line_in[i + 1] ELSE IF i = n THEN Nul ELSE junk]
  /\ first = 0 /\ cursor = 0
  /\ keys \in Habits
  /\ state = "edit"
  /\ line_out = NULL

Shows(w) == first' = w[1] /\ cursor' = w[2]

\* Position q, left of the cursor or at it: the line scrolls at column 0.
LeftTo(q) == IF q >= first THEN <<first, q - first>> ELSE <<q, 0>>

\* (faulty variant: the line scrolls past its end)
cursor_right_always(w) ==
  IF w[2] + 2 < XMax THEN <<w[1], w[2] + 1>> ELSE <<w[1] + 1, w[2]>>

cursor_right(w) ==
  IF w[2] + 2 < XMax THEN <<w[1], w[2] + 1>>
  ELSE IF w[1] + w[2] < len THEN <<w[1] + 1, w[2]>> ELSE w

\* Where a loop of cursor_right() gets from window w, and the way there.
Reach(w) == IF w[2] + 2 < XMax THEN Max({w[1] + XMax - 2, len}) ELSE Max({w[1] + w[2], len})
RightTo(w, q) ==
  LET edge == Max({w[2], XMax - 2})
  IN  IF q - w[1] <= edge THEN <<w[1], q - w[1]>> ELSE <<q - edge, edge>>

Left ==
  /\ "Left" \in keys
  /\ Shows(LeftTo(IF Pos > 0 THEN Pos - 1 ELSE 0))
  /\ UNCHANGED <<buffer, state, line_out>>

Right ==
  /\ "Right" \in keys
  /\ Pos # len
  /\ Shows(cursor_right(<<first, cursor>>))
  /\ UNCHANGED <<buffer, state, line_out>>

Home ==
  /\ "Home" \in keys
  /\ Shows(<<0, 0>>)
  /\ UNCHANGED <<buffer, state, line_out>>

End ==
  /\ "End" \in keys
  /\ Shows(IF len >= XMax THEN <<len - (XMax - 2), XMax - 2>> ELSE <<first, len>>)
  /\ UNCHANGED <<buffer, state, line_out>>

\* Back over characters of S, at most to the start.
SkipLeft(p, S) == Max({ q \in 0 .. p : q = 0 \/ line[q] \notin S })

\* To the start of a word.
Up ==
  /\ "Up" \in keys
  /\ LET q == SkipLeft(SkipLeft(SkipLeft(Pos, {Space}), Word), {Space})
     IN  Shows(IF q # len /\ q > 0 THEN cursor_right(LeftTo(q)) ELSE LeftTo(q))
  /\ UNCHANGED <<buffer, state, line_out>>

\* On over characters of S; NULL when the loop never meets another one.
SkipRight(w, S) ==
  IF w = NULL THEN NULL
  ELSE LET stops == { q \in w[1] + w[2] .. Reach(w) : line[q] \notin S }
       IN  IF stops = {} THEN NULL ELSE RightTo(w, Min(stops))

\* To the start of the next word.
Down ==
  /\ "Down" \in keys
  /\ LET w == SkipRight(SkipRight(SkipRight(window, {Space}), Chars), {Space})
     IN  IF w = NULL THEN state' = "hung" /\ UNCHANGED window
         ELSE Shows(w) /\ UNCHANGED state
  /\ UNCHANGED <<buffer, line_out>>

\* The characters behind position p move one place towards it.
CloseGap(p) == [i \in DOMAIN line |-> IF i \in p .. len - 1 THEN line[i + 1] ELSE line[i]]

Delete ==
  /\ "Delete" \in keys
  /\ len > 0 /\ Pos # len
  /\ line' = [CloseGap(Pos) EXCEPT ![len - 1] = Space]
  /\ len' = len - 1
  /\ UNCHANGED <<size, window, state, line_out>>

\* What is shown after the character left of column 0 or 1 is gone.
ScrolledBack ==
  IF len - 1 < XMax - 2 \/ first <= Jump THEN <<0, first>> ELSE <<first - Jump, Jump>>

Backspace ==
  /\ "Backspace" \in keys
  /\ len > 0 /\ Pos > 0
  /\ line' = CloseGap(Pos - 1)
  /\ len' = len - 1
  /\ LET c == IF cursor > 0 THEN cursor - 1 ELSE 0
     IN  Shows(IF c > 0 \/ first = 0 THEN <<first, c>> ELSE ScrolledBack)
  /\ UNCHANGED <<size, state, line_out>>

\* (faulty variant: the shift stops one character early)
InsertedShort(c) ==
  [i \in DOMAIN line |-> IF i = len + 1 THEN Nul
                        ELSE IF i = Pos THEN c
                        ELSE IF i \in Pos + 2 .. len THEN line[i - 1]
                        ELSE line[i]]

\* The buffer with c at the cursor and a terminator after the longer line.
Inserted(c) ==
  [i \in DOMAIN line |-> IF i = len + 1 THEN Nul
                        ELSE IF i = Pos THEN c
                        ELSE IF i \in Pos + 1 .. len THEN line[i - 1]
                        ELSE line[i]]

HasRoom == len + 1 # size

Type ==
  /\ "Type" \in keys
  /\ HasRoom
  /\ \E c \in Printable : line' = Inserted(c)
  /\ len' = len + 1
  /\ Shows(IF cursor + 2 < XMax THEN <<first, cursor + 1>>
           ELSE IF Pos < len + 1 THEN <<first + 1, cursor>> ELSE <<first, cursor>>)
  /\ UNCHANGED <<size, state, line_out>>

Enter ==
  /\ "Enter" \in keys
  /\ line_out' = line
  /\ state' = "enter"
  /\ UNCHANGED <<buffer, window>>

Esc ==
  /\ "Esc" \in keys
  /\ state' = "exit"
  /\ UNCHANGED <<buffer, window, line_out>>

Next ==
  /\ state = "edit"
  /\ UNCHANGED keys
  /\ \/ Left \/ Right \/ Home \/ End \/ Up \/ Down
     \/ Delete \/ Backspace \/ Type \/ Enter \/ Esc

Spec == Init /\ [][Next]_vars

-----------------------------------------------------------------------------
(* The properties. End misplaces the cursor in a scrolled line, Delete      *)
(* leaves spaces behind the text, Backspace in column 0 misplaces the       *)
(* cursor: what holds depends on which of them the user presses.            *)

Without(K) == keys \cap K = {}

TypeOK ==
  Without({"End"}) =>
    /\ size \in Nat /\ len \in 0 .. size - 1
    /\ line \in [0 .. size - 1 -> Printable \cup {Nul}]
    /\ first \in 0 .. size - 1 /\ cursor \in 0 .. size - 1
    /\ state \in {"edit", "enter", "exit", "hung"}
    /\ line_out \in {NULL, line}

\* The position of the cursor is in the buffer, so that typing there writes
\* inside it; only End, Delete and Down together get it one place further.
CursorInBuffer == {"End", "Delete", "Down"} \subseteq keys \/ Pos < size

\* The buffer handed to the caller ends in a terminator, at the end of the
\* text or behind it.
Terminated == Without({"End"}) => \E j \in len .. size - 1 : line[j] = Nul

(* Typing never leaves the buffer, and the caller gets a terminated string.*)
BufferSafe == CursorInBuffer /\ Terminated

\* The string in a terminated buffer.
String(b) ==
  LET n == Min({ i \in DOMAIN b : b[i] = Nul })
  IN  [i \in 1 .. n |-> b[i - 1]]

text == [i \in 1 .. len |-> line[i - 1]]
result == IF state = "enter" THEN String(line_out) ELSE <<>>

Field == INSTANCE TextField WITH Texts <- Inputs, pos <- Pos

\* Typing and moving edit the line as the documentation says, wherever the
\* line is scrolled, and Enter returns exactly the text shown.
EditsText ==
  /\ Field!Init
  /\ [][Without({"End", "Delete", "Backspace"}) => Field!Next]_<<text, Pos, state, result>>


-----------------------------------------------------------------------------
(* The proof that the buffer is safe, for every width and length of a line. *)
(* The first column shown is at least a line's width before the end of the *)
(* buffer (Room). What End adds is harmless as long as there is one column *)
(* more, or the cursor is in the text and Down cannot leave it (Slack).    *)

Shape ==
  /\ size \in Nat /\ 2 * XMax <= size /\ len \in 0 .. size - 1
  /\ line \in [0 .. size - 1 -> Printable \cup {Nul}]
  /\ first \in Nat /\ cursor \in Nat

\* For window <<f, c>>, with buffer b and n characters of text.
Room(f, c) == f + XMax - 2 < size /\ f + c < size
Slack(f, c, b, n) ==
  "End" \in keys => \/ f + XMax <= size
                    \/ f + c <= n /\ ("Down" \in keys => b[n] = Nul)
Fits(f, c) == f \in Nat /\ c \in Nat /\ Room(f, c) /\ Slack(f, c, line, len)

\* The text ends in a terminator unless the buffer has room behind it.
Ends == line[len] = Nul \/ len < size - 1

IInv ==
  \/ {"End", "Delete", "Down"} \subseteq keys
  \/ Shape /\ Room(first, cursor) /\ Slack(first, cursor, line, len) /\ Ends /\ Terminated

\* The initial segments below the members of S have a smallest one.
LEMMA MinIsLeast ==
  ASSUME NEW S \in SUBSET Nat, S # {}
  PROVE  Min(S) \in S /\ \A y \in S : Min(S) <= y
<1>. DEFINE upto(x) == 0 .. x
            T == { upto(x) : x \in S }
<1>1. T \subseteq FiniteSubsetsOf(Nat)
  <2>1. \A x \in S : upto(x) \in SUBSET Nat /\ IsFiniteSet(upto(x))
    BY FS_Interval
  <2>. QED
    BY <2>1 DEF FiniteSubsetsOf
<1>. HIDE DEF upto
<1>2. \E u \in T : \A w \in T : ~(<<w, u>> \in StrictSubsetOrdering(Nat))
  <2>1. IsWellFoundedOn(StrictSubsetOrdering(Nat), FiniteSubsetsOf(Nat))
    BY FS_StrictSubsetOrderingWellFounded
  <2>2. T # {}
    OBVIOUS
  <2>. HIDE DEF T
  <2>. QED
    BY <1>1, <2>1, <2>2, WFMin
<1>3. PICK x \in S : \A y \in S : ~(<<upto(y), upto(x)>> \in StrictSubsetOrdering(Nat))
  BY <1>2
<1>4. ASSUME NEW y \in S, ~(x <= y) PROVE FALSE
  <2>1. upto(y) \subseteq upto(x) /\ upto(y) # upto(x) /\ upto(x) \subseteq Nat
    BY <1>4 DEF upto
  <2>. QED
    BY <2>1, <1>3 DEF StrictSubsetOrdering
<1>. QED
  BY <1>4 DEF Min

LEMMA MaxIsGreatest ==
  ASSUME NEW p \in Nat, NEW S \in SUBSET (0 .. p), S # {}
  PROVE  Max(S) \in S
<1>. DEFINE T == { p - x : x \in S }
<1>1. T \subseteq Nat /\ T # {}
  <2>1. \A x \in S : p - x \in Nat
    OBVIOUS
  <2>. QED
    BY <2>1
<1>. HIDE DEF T
<1>2. Min(T) \in T /\ \A y \in T : Min(T) <= y
  BY <1>1, MinIsLeast
<1>. USE DEF T
<1>3. PICK x \in S : Min(T) = p - x
  BY <1>2
<1>4. \A y \in S : p - x <= p - y
  BY <1>2, <1>3
<1>5. \A y \in S : x >= y
  BY <1>4
<1>. QED
  BY <1>5 DEF Max

LEMMA MaxOfTwo ==
  ASSUME NEW a \in Int, NEW b \in Int
  PROVE  /\ Max({a, b}) \in Int
         /\ a <= Max({a, b}) /\ b <= Max({a, b})
         /\ Max({a, b}) = a \/ Max({a, b}) = b
<1>1. \E x \in {a, b} : \A y \in {a, b} : x >= y
  OBVIOUS
<1>. QED
  BY <1>1 DEF Max

LEMMA InitHolds == Init => IInv
<1>. SUFFICES ASSUME Init PROVE IInv
  OBVIOUS
<1>1. PICK line_in \in Inputs, junk \in Printable \cup {Nul} :
        LET n == Len(line_in)
        IN  /\ size = n + Headroom
            /\ len = n
            /\ line = [i \in 0 .. n + Headroom - 1 |->
                         IF i < n THEN line_in[i + 1] ELSE IF i = n THEN Nul ELSE junk]
  BY DEF Init
<1>2. line_in \in Seq(Printable)
  BY InputsAssumption DEF Printable
<1>3. Len(line_in) \in Nat /\ \A i \in 0 .. Len(line_in) - 1 : line_in[i + 1] \in Printable
  BY <1>2
<1>. USE WidthAssumption
<1>4. size \in Nat /\ 2 * XMax <= size /\ len \in 0 .. size - 1 /\ first = 0 /\ cursor = 0
  BY <1>1, <1>3 DEF Init
<1>5. line \in [0 .. size - 1 -> Printable \cup {Nul}]
  BY <1>1, <1>3
<1>6. line[len] = Nul
  BY <1>1, <1>3
<1>. QED
  BY <1>4, <1>5, <1>6 DEF IInv, Shape, Room, Slack, Ends, Terminated

\* Moving to the left keeps the room there is.
LEMMA LeftFits ==
  ASSUME Shape, Fits(first, cursor), NEW q \in 0 .. Pos
  PROVE  LET w == LeftTo(q)
         IN  w = <<w[1], w[2]>> /\ Fits(w[1], w[2]) /\ w[1] + w[2] = q
<1>. USE WidthAssumption
<1>1. CASE q >= first
  BY <1>1 DEF Shape, Fits, Room, Slack, LeftTo, Pos
<1>2. CASE ~ (q >= first)
  BY <1>2 DEF Shape, Fits, Room, Slack, LeftTo, Pos
<1>. QED
  BY <1>1, <1>2

\* Moving to the right scrolls only a cursor that is in the text.
LEMMA RightFits ==
  ASSUME Shape, Ends, NEW f, NEW c, Fits(f, c), f + c # len
  PROVE  LET w == cursor_right(<<f, c>>)
         IN  w = <<w[1], w[2]>> /\ Fits(w[1], w[2])
<1>. USE WidthAssumption DEF Shape, Ends, Fits
<1>1. CASE c + 2 < XMax
  BY <1>1 DEF cursor_right, Room, Slack
<1>2. CASE ~ (c + 2 < XMax) /\ f + c < len
  BY <1>2 DEF cursor_right, Room, Slack
<1>3. CASE ~ (c + 2 < XMax) /\ ~ (f + c < len)
  BY <1>3 DEF cursor_right
<1>. QED
  BY <1>1, <1>2, <1>3

\* Skipping characters of a word or spaces stops at a terminator, if the text
\* ends in one.
LEMMA SkipFits ==
  ASSUME Shape, Ends, "Down" \in keys, NEW f, NEW c, Fits(f, c),
         NEW S, Nul \notin S, SkipRight(<<f, c>>, S) # NULL
  PROVE  LET w == SkipRight(<<f, c>>, S)
         IN  w = <<w[1], w[2]>> /\ Fits(w[1], w[2])
<1>. DEFINE reach == Reach(<<f, c>>)
            stops == { q \in f + c .. reach : line[q] \notin S }
            q == Min(stops)
            edge == Max({c, XMax - 2})
<1>. USE WidthAssumption DEF Shape, Fits
<1>1. SkipRight(<<f, c>>, S) = RightTo(<<f, c>>, q) /\ stops # {}
  BY DEF SkipRight
<1>2. /\ reach \in Int /\ len <= reach /\ reach < size
      /\ reach > len => reach = IF c + 2 < XMax THEN f + XMax - 2 ELSE f + c
  <2>1. CASE c + 2 < XMax
    <3>. DEFINE a == f + XMax - 2
    <3>1. reach = Max({a, len})
      BY <2>1 DEF Reach
    <3>2. a \in Int /\ len \in Int /\ a < size /\ len < size
      BY DEF Room
    <3>. HIDE DEF a, reach
    <3>3. reach \in Int /\ a <= reach /\ len <= reach /\ (reach = a \/ reach = len)
      BY <3>1, <3>2, MaxOfTwo
    <3>. QED
      BY <2>1, <3>2, <3>3 DEF a
  <2>2. CASE ~ (c + 2 < XMax)
    <3>. DEFINE a == f + c
    <3>1. reach = Max({a, len})
      BY <2>2 DEF Reach
    <3>2. a \in Int /\ len \in Int /\ a < size /\ len < size
      BY DEF Room
    <3>. HIDE DEF a, reach
    <3>3. reach \in Int /\ a <= reach /\ len <= reach /\ (reach = a \/ reach = len)
      BY <3>1, <3>2, MaxOfTwo
    <3>. QED
      BY <2>2, <3>2, <3>3 DEF a
  <2>. QED
    BY <2>1, <2>2
<1>3. edge \in Int /\ c <= edge /\ XMax - 2 <= edge
  <2>. DEFINE a == XMax - 2
  <2>1. a \in Int /\ c \in Int /\ edge = Max({c, a})
    OBVIOUS
  <2>. HIDE DEF a, edge
  <2>2. edge \in Int /\ c <= edge /\ a <= edge
    BY <2>1, MaxOfTwo
  <2>. QED
    BY <2>2 DEF a
<1>. HIDE DEF reach, edge
<1>4. stops \subseteq Nat
  BY <1>2
<1>5. q \in stops /\ \A y \in stops : q <= y
  <2>. HIDE DEF stops
  <2>. QED
    BY <1>1, <1>4, MinIsLeast
<1>6. f + c <= len /\ line[len] = Nul => q <= len
  BY <1>2, <1>5
<1>. HIDE DEF q
<1>7. q \in Nat /\ f + c <= q /\ q <= reach
  BY <1>5
<1>8. CASE q - f <= edge
  <2>1. RightTo(<<f, c>>, q) = <<f, q - f>>
    BY <1>8 DEF RightTo, edge
  <2>2. f \in Nat /\ q - f \in Nat /\ f + (q - f) = q
    BY <1>7
  <2>3. Room(f, q - f)
    BY <1>2, <1>7, <2>2 DEF Room
  <2>4. Slack(f, q - f, line, len)
    BY <1>6, <2>2 DEF Slack
  <2>. QED
    BY <1>1, <2>1, <2>2, <2>3, <2>4, SMTT(40)
<1>9. CASE ~ (q - f <= edge)
  <2>1. RightTo(<<f, c>>, q) = <<q - edge, edge>>
    BY <1>9 DEF RightTo, edge
  <2>2. q <= len /\ q - edge \in Nat /\ edge \in Nat
    BY <1>2, <1>3, <1>7, <1>9
  <2>3. q < size - 1 \/ (q <= len /\ line[len] = Nul)
    BY <1>7, <2>2 DEF Ends
  <2>4. Room(q - edge, edge)
    BY <1>2, <1>3, <1>7, <2>2 DEF Room
  <2>5. Slack(q - edge, edge, line, len)
    BY <1>3, <1>7, <2>2, <2>3 DEF Slack
  <2>. QED
    BY <1>1, <2>1, <2>2, <2>4, <2>5, SMTT(40)
<1>. QED
  BY <1>8, <1>9

\* A key that moves the cursor to a window that fits keeps the invariant.
LEMMA MoveKeeps ==
  ASSUME Shape, Ends, Terminated, UNCHANGED <<keys, buffer>>,
         NEW w, w = <<w[1], w[2]>>, Fits(w[1], w[2]), Shows(w)
  PROVE  IInv'
<1>1. first' = w[1] /\ cursor' = w[2]
  BY DEF Shows
<1>2. keys' = keys /\ line' = line /\ size' = size /\ len' = len
  BY DEF buffer
<1>3. Shape'
  BY <1>1, <1>2 DEF Shape, Fits
<1>4. Ends' /\ Terminated'
  BY <1>2 DEF Ends, Terminated, Without
<1>5. Room(first, cursor)' /\ Slack(first, cursor, line, len)'
  BY <1>1, <1>2 DEF Fits, Room, Slack
<1>. QED
  BY <1>3, <1>4, <1>5 DEF IInv

LEMMA SkipLeftType ==
  ASSUME NEW p \in Nat, NEW S
  PROVE  SkipLeft(p, S) \in 0 .. p
<1>. DEFINE T == { q \in 0 .. p : q = 0 \/ line[q] \notin S }
<1>1. 0 \in T /\ T \in SUBSET (0 .. p)
  OBVIOUS
<1>. HIDE DEF T
<1>2. Max(T) \in T
  BY <1>1, MaxIsGreatest
<1>. QED
  BY <1>1, <1>2 DEF SkipLeft, T

LEMMA MovesKeep ==
  ASSUME Shape, Ends, Terminated, Fits(first, cursor), keys' = keys,
         Left \/ Right \/ Home \/ End \/ Up
  PROVE  IInv'
<1>. USE WidthAssumption
<1>0. Pos \in Nat
  BY DEF Pos, Fits
<1>1. CASE Left
  <2>. DEFINE q == IF Pos > 0 THEN Pos - 1 ELSE 0
              w == LeftTo(q)
  <2>1. q \in 0 .. Pos
    BY <1>0
  <2>2. w = <<w[1], w[2]>> /\ Fits(w[1], w[2])
    <3>. HIDE DEF q
    <3>. QED
      BY <2>1, LeftFits
  <2>3. Shows(w) /\ UNCHANGED buffer
    BY <1>1 DEF Left
  <2>. HIDE DEF w
  <2>. QED
    BY <2>2, <2>3, MoveKeeps
<1>2. CASE Right
  <2>. DEFINE w == cursor_right(<<first, cursor>>)
  <2>1. first + cursor # len /\ Shows(w) /\ UNCHANGED buffer
    BY <1>2 DEF Right, Pos
  <2>2. w = <<w[1], w[2]>> /\ Fits(w[1], w[2])
    BY <2>1, RightFits
  <2>. HIDE DEF w
  <2>. QED
    BY <2>1, <2>2, MoveKeeps
<1>3. CASE Home
  <2>. DEFINE w == <<0, 0>>
  <2>1. Fits(0, 0)
    BY DEF Fits, Room, Slack, Shape
  <2>2. w = <<w[1], w[2]>> /\ Fits(w[1], w[2]) /\ Shows(w) /\ UNCHANGED buffer
    BY <1>3, <2>1 DEF Home
  <2>. HIDE DEF w
  <2>. QED
    BY <2>2, MoveKeeps
<1>4. CASE End
  <2>1. CASE len >= XMax
    <3>. DEFINE w == <<len - (XMax - 2), XMax - 2>>
    <3>1. Fits(len - (XMax - 2), XMax - 2)
      BY <2>1 DEF Fits, Room, Slack, Shape, Ends
    <3>2. w = <<w[1], w[2]>> /\ Fits(w[1], w[2]) /\ Shows(w) /\ UNCHANGED buffer
      BY <1>4, <2>1, <3>1 DEF End
    <3>. HIDE DEF w
    <3>. QED
      BY <3>2, MoveKeeps
  <2>2. CASE ~ (len >= XMax)
    <3>. DEFINE w == <<first, len>>
    <3>1. first + XMax <= size
      BY <1>4, <2>2 DEF End, Fits, Slack, Shape
    <3>2. Fits(first, len)
      BY <2>2, <3>1 DEF Fits, Room, Slack, Shape
    <3>3. w = <<w[1], w[2]>> /\ Fits(w[1], w[2]) /\ Shows(w) /\ UNCHANGED buffer
      BY <1>4, <2>2, <3>2 DEF End
    <3>. HIDE DEF w
    <3>. QED
      BY <3>3, MoveKeeps
  <2>. QED
    BY <2>1, <2>2
<1>5. CASE Up
  <2>. DEFINE a == SkipLeft(Pos, {Space})
              b == SkipLeft(a, Word)
              q == SkipLeft(b, {Space})
              v == LeftTo(q)
              w == cursor_right(v)
  <2>1. a \in 0 .. Pos /\ b \in 0 .. a /\ q \in 0 .. b
    <3>1. a \in 0 .. Pos
      BY <1>0, SkipLeftType
    <3>. HIDE DEF a
    <3>2. b \in 0 .. a
      BY <1>0, <3>1, SkipLeftType
    <3>. HIDE DEF b
    <3>3. q \in 0 .. b
      BY <1>0, <3>1, <3>2, SkipLeftType
    <3>. QED
      BY <3>1, <3>2, <3>3
  <2>2. /\ Shows(IF q # len /\ q > 0 THEN w ELSE v)
        /\ UNCHANGED buffer
    BY <1>5 DEF Up
  <2>. HIDE DEF a, b, q
  <2>3. q \in 0 .. Pos
    BY <1>0, <2>1
  <2>4. v = <<v[1], v[2]>> /\ Fits(v[1], v[2]) /\ v[1] + v[2] = q
    BY <2>3, LeftFits
  <2>. HIDE DEF v
  <2>5. CASE q # len /\ q > 0
    <3>1. w = <<w[1], w[2]>> /\ Fits(w[1], w[2])
      BY <2>4, <2>5, RightFits
    <3>2. Shows(w)
      BY <2>2, <2>5
    <3>. HIDE DEF w
    <3>. QED
      BY <2>2, <3>1, <3>2, MoveKeeps
  <2>6. CASE ~ (q # len /\ q > 0)
    BY <2>2, <2>4, <2>6, MoveKeeps
  <2>. QED
    BY <2>5, <2>6
<1>. QED
  BY <1>1, <1>2, <1>3, <1>4, <1>5

\* From no window there is no way on.
LEMMA NoWindow == \A S : SkipRight(NULL, S) = NULL
BY DEF SkipRight

LEMMA DownKeeps ==
  ASSUME Shape, Ends, Terminated, Fits(first, cursor), keys' = keys, Down
  PROVE  IInv'
<1>. DEFINE a == SkipRight(window, {Space})
            b == SkipRight(a, Chars)
            w == SkipRight(b, {Space})
<1>1. CASE w # NULL
  <2>1. b # NULL /\ a # NULL /\ window = <<first, cursor>>
    <3>1. b # NULL
      BY <1>1, NoWindow
    <3>2. a # NULL
      BY <3>1, NoWindow
    <3>. QED
      BY <3>1, <3>2 DEF window
  <2>2. Nul \notin {Space} /\ Nul \notin Chars /\ "Down" \in keys
    BY CharsAssumption DEF Down
  <2>3. a = <<a[1], a[2]>> /\ Fits(a[1], a[2])
    BY <2>1, <2>2, SkipFits
  <2>. HIDE DEF a
  <2>4. b = <<b[1], b[2]>> /\ Fits(b[1], b[2])
    BY <2>1, <2>2, <2>3, SkipFits
  <2>. HIDE DEF b
  <2>5. w = <<w[1], w[2]>> /\ Fits(w[1], w[2])
    BY <1>1, <2>2, <2>4, SkipFits
  <2>6. Shows(w) /\ UNCHANGED buffer
    BY <1>1 DEF Down, a, b
  <2>. HIDE DEF w
  <2>. QED
    BY <2>5, <2>6, MoveKeeps
<1>2. CASE w = NULL
  <2>. DEFINE v == <<first, cursor>>
  <2>1. v = <<v[1], v[2]>> /\ Fits(v[1], v[2]) /\ UNCHANGED <<first, cursor>> /\ UNCHANGED buffer
    BY <1>2 DEF Down, window
  <2>2. Shows(v)
    BY <2>1 DEF Shows
  <2>. HIDE DEF v
  <2>. QED
    BY <2>1, <2>2, MoveKeeps
<1>. QED
  BY <1>1, <1>2

\* Closing a gap leaves what is behind the text.
LEMMA GapCloses ==
  ASSUME Shape, NEW p \in Nat
  PROVE  /\ CloseGap(p) \in [0 .. size - 1 -> Printable \cup {Nul}]
         /\ \A j \in len .. size - 1 : CloseGap(p)[j] = line[j]
         /\ p < len => CloseGap(p)[len - 1] = line[len]
BY DEF Shape, CloseGap

LEMMA DeleteKeeps ==
  ASSUME Shape, Ends, Terminated, Fits(first, cursor), keys' = keys, Delete,
         ~ {"End", "Delete", "Down"} \subseteq keys
  PROVE  IInv'
<1>. USE WidthAssumption
<1>0. Pos \in Nat
  BY DEF Pos, Fits
<1>. DEFINE b == CloseGap(Pos)
<1>1. /\ line' = [b EXCEPT ![len - 1] = Space]
      /\ len' = len - 1 /\ size' = size /\ first' = first /\ cursor' = cursor
      /\ len > 0 /\ Pos # len /\ "Delete" \in keys
  BY DEF Delete, window
<1>2. b \in [0 .. size - 1 -> Printable \cup {Nul}] /\ \A j \in len .. size - 1 : b[j] = line[j]
  BY <1>0, GapCloses
<1>. HIDE DEF b
<1>3. Shape'
  BY <1>1, <1>2 DEF Shape, Printable
<1>4. Ends'
  BY <1>1 DEF Ends, Shape
<1>5. Terminated'
  BY <1>1, <1>2 DEF Terminated, Without, Shape
<1>6. Room(first, cursor)' /\ Slack(first, cursor, line, len)'
  BY <1>1 DEF Fits, Room, Slack, Pos, Shape
<1>. QED
  BY <1>3, <1>4, <1>5, <1>6 DEF IInv

LEMMA BackspaceKeeps ==
  ASSUME Shape, Ends, Terminated, Fits(first, cursor), keys' = keys, Backspace
  PROVE  IInv'
<1>. USE WidthAssumption
<1>. DEFINE b == CloseGap(Pos - 1)
            c == IF cursor > 0 THEN cursor - 1 ELSE 0
            w == IF c > 0 \/ first = 0 THEN <<first, c>> ELSE ScrolledBack
<1>1. Pos \in Nat /\ Pos = first + cursor /\ len \in Nat /\ size \in Nat
  BY DEF Pos, Fits, Shape
<1>2. /\ line' = b /\ len' = len - 1 /\ size' = size /\ len > 0 /\ Pos > 0
      /\ first' = w[1] /\ cursor' = w[2]
  BY DEF Backspace, Shows
<1>3. /\ b \in [0 .. size - 1 -> Printable \cup {Nul}]
      /\ \A j \in len .. size - 1 : b[j] = line[j]
      /\ Pos <= len => b[len - 1] = line[len]
  BY <1>1, <1>2, GapCloses
<1>. HIDE DEF b
<1>4. /\ w[1] \in Nat /\ w[2] \in Nat /\ w[1] <= first
      /\ \/ w[1] + w[2] = Pos - 1
         \/ w[1] + w[2] = first /\ (w[1] < first \/ w[1] = 0)
  BY <1>1, <1>2 DEF ScrolledBack, Fits
<1>. HIDE DEF w
<1>5. Shape'
  BY <1>1, <1>2, <1>3, <1>4 DEF Shape
<1>6. Ends'
  BY <1>1, <1>2 DEF Ends, Shape
<1>7. Terminated'
  BY <1>2, <1>3 DEF Terminated, Without, Shape
<1>8. Room(first, cursor)'
  BY <1>1, <1>2, <1>4 DEF Fits, Room
<1>9. Slack(first, cursor, line, len)'
  <2>1. CASE w[1] + w[2] = Pos - 1
    BY <1>1, <1>2, <1>3, <1>4, <2>1, SMTT(40) DEF Fits, Slack
  <2>2. CASE w[1] < first \/ w[1] = 0
    <3>1. w[1] + XMax <= size
      BY <1>1, <1>4, <2>2 DEF Fits, Room, Shape
    <3>. QED
      BY <1>2, <3>1 DEF Slack
  <2>. QED
    BY <1>4, <2>1, <2>2
<1>. QED
  BY <1>5, <1>6, <1>7, <1>8, <1>9 DEF IInv

\* A window that ends where the text does has room for a line.
LEMMA Roomy ==
  ASSUME NEW f \in Int, NEW c \in Int, NEW n \in Int, NEW s \in Int, NEW x \in Int,
         f + c <= n + 1, x - 2 <= c, n + 1 < s
  PROVE  f + x - 2 < s /\ f + c < s
OBVIOUS

LEMMA TypeKeeps ==
  ASSUME Shape, Ends, Terminated, Fits(first, cursor), keys' = keys, Type
  PROVE  IInv'
<1>. USE WidthAssumption
<1>. DEFINE w == IF cursor + 2 < XMax THEN <<first, cursor + 1>>
                 ELSE IF Pos < len + 1 THEN <<first + 1, cursor>> ELSE <<first, cursor>>
<1>1. Pos \in Nat /\ Pos = first + cursor /\ len \in Nat /\ size \in Nat
  BY DEF Pos, Fits, Shape
<1>2. PICK c \in Printable : line' = Inserted(c)
  BY DEF Type
<1>3. /\ len' = len + 1 /\ size' = size /\ len + 1 # size
      /\ first' = w[1] /\ cursor' = w[2]
  BY DEF Type, Shows, HasRoom
<1>4. /\ line' \in [0 .. size - 1 -> Printable \cup {Nul}]
      /\ line'[len + 1] = Nul
  <2>1. \A i \in 0 .. size - 1 : Inserted(c)[i] \in Printable \cup {Nul}
    BY <1>1, <1>2 DEF Inserted, Shape
  <2>2. Inserted(c) = [i \in 0 .. size - 1 |-> Inserted(c)[i]]
    BY DEF Inserted, Shape
  <2>3. Inserted(c)[len + 1] = Nul
    BY <1>1, <1>3 DEF Inserted, Shape
  <2>. QED
    BY <1>2, <2>1, <2>2, <2>3
<1>5. /\ w[1] \in Nat /\ w[2] \in Nat
      /\ \/ w[1] = first /\ w[1] + w[2] <= first + XMax - 2 /\ w[1] + w[2] = Pos + 1
         \/ w[1] = first + 1 /\ w[1] + w[2] = Pos + 1 /\ Pos < len + 1 /\ XMax - 2 <= w[2]
         \/ w[1] = first /\ w[1] + w[2] = Pos /\ ~ (Pos < len + 1)
  BY <1>1 DEF Fits
<1>. HIDE DEF w
<1>6. Shape'
  BY <1>1, <1>3, <1>4, <1>5 DEF Shape
<1>7. Ends' /\ Terminated'
  BY <1>1, <1>3, <1>4 DEF Ends, Terminated, Shape
<1>8. Room(first, cursor)'
  <2>1. /\ first + XMax - 2 < size /\ first + cursor < size
        /\ len < size /\ first \in Nat /\ cursor \in Nat
    BY DEF Fits, Room, Shape
  <2>2. len + 1 < size
    BY <1>1, <1>3, <2>1
  <2>3. first' \in Nat /\ cursor' \in Nat /\ size' = size
    BY <1>3, <1>5
  <2>4. CASE first' = first
    BY <1>1, <1>3, <1>5, <2>1, <2>2, <2>3, <2>4 DEF Room
  <2>5. CASE first' # first
    <3>1. first' + cursor' <= len + 1 /\ XMax - 2 <= cursor'
      BY <1>1, <1>3, <1>5, <2>5
    <3>2. first' \in Int /\ cursor' \in Int /\ len \in Int /\ size \in Int /\ XMax \in Int
      BY <1>1, <2>3
    <3>3. first' + XMax - 2 < size /\ first' + cursor' < size
      BY <2>2, <3>1, <3>2, Roomy, Zenon
    <3>. QED
      BY <2>3, <3>3 DEF Room
  <2>. QED
    BY <2>4, <2>5
<1>9. Slack(first, cursor, line, len)'
  BY <1>1, <1>3, <1>4, <1>5, SMTT(40) DEF Fits, Slack, Shape
<1>. QED
  BY <1>6, <1>7, <1>8, <1>9 DEF IInv

LEMMA StepKeeps == IInv /\ [Next]_vars => IInv'
<1>. SUFFICES ASSUME IInv, [Next]_vars PROVE IInv'
  OBVIOUS
<1>0. keys' = keys
  BY DEF Next, vars
<1>1. CASE {"End", "Delete", "Down"} \subseteq keys
  BY <1>0, <1>1 DEF IInv
<1>2. CASE ~ {"End", "Delete", "Down"} \subseteq keys
  <2>1. Shape /\ Ends /\ Terminated /\ Fits(first, cursor)
    BY <1>2 DEF IInv, Fits, Shape
  <2>2. CASE UNCHANGED <<keys, line, size, len, first, cursor>>
    <3>. DEFINE w == <<first, cursor>>
    <3>1. w = <<w[1], w[2]>> /\ Fits(w[1], w[2]) /\ Shows(w) /\ UNCHANGED <<keys, buffer>>
      BY <2>1, <2>2 DEF Shows, buffer
    <3>. HIDE DEF w
    <3>. QED
      BY <2>1, <3>1, MoveKeeps
  <2>3. CASE Enter \/ Esc \/ UNCHANGED vars
    BY <1>0, <2>2, <2>3 DEF Enter, Esc, vars, buffer, window
  <2>. QED
    BY <1>0, <1>2, <2>1, <2>3, MovesKeep, DownKeeps, DeleteKeeps,
       BackspaceKeeps, TypeKeeps DEF Next
<1>. QED
  BY <1>1, <1>2

\* The strengthening of BufferSafe holds: it is inductive.
LEMMA LineEditInvariant == Spec => []IInv
BY InitHolds, StepKeeps, PTL DEF Spec

\* For a console and options of any width, typing never leaves the buffer and
\* the caller gets a terminated string, as BufferSafe says for each kind of user.
THEOREM LineEditBufferSafe == Spec => []BufferSafe
<1>1. Spec => []IInv
  BY LineEditInvariant
<1>2. IInv => BufferSafe
  BY DEF IInv, Shape, Room, BufferSafe, CursorInBuffer, Terminated, Pos, Without
<1>. QED
  BY <1>1, <1>2, PTL

-----------------------------------------------------------------------------
(* The proof that a user without the keys End, Delete and Backspace edits  *)
(* the text of TextField. The terminator is then right behind the text and *)
(* the cursor in the text or right behind it.                              *)

Edits == Without({"End", "Delete", "Backspace"})
Text == \A i \in 0 .. len - 1 : line[i] \in Printable
EInv ==
  Edits =>
    /\ Shape /\ Fits(first, cursor) /\ Ends /\ Pos <= len
    /\ line[len] = Nul /\ Text
    /\ state = "enter" => line_out = line

\* Skipping characters stops in the text or right behind it.
LEMMA Landed ==
  ASSUME NEW w, NEW p \in Nat, NEW q \in Nat, w = <<p, q>>, NEW n \in Nat, p + q <= n
  PROVE  /\ w # NULL /\ w = <<w[1], w[2]>>
         /\ w[1] \in Nat /\ w[2] \in Nat /\ w[1] + w[2] <= n
BY NullAssumption

LEMMA SkipLands ==
  ASSUME Shape, line[len] = Nul, NEW f \in Nat, NEW c \in Nat, f + c <= len,
         NEW S, Nul \notin S
  PROVE  LET w == SkipRight(<<f, c>>, S)
         IN  /\ w # NULL /\ w = <<w[1], w[2]>>
             /\ w[1] \in Nat /\ w[2] \in Nat /\ w[1] + w[2] <= len
<1>. USE WidthAssumption, NullAssumption DEF Shape
<1>. DEFINE reach == Reach(<<f, c>>)
            stops == { q \in f + c .. reach : line[q] \notin S }
            q == Min(stops)
            edge == Max({c, XMax - 2})
<1>1. reach \in Int /\ len <= reach
  <2>. DEFINE a == IF c + 2 < XMax THEN f + XMax - 2 ELSE f + c
  <2>1. a \in Int /\ len \in Int
    OBVIOUS
  <2>2. reach = Max({a, len})
    <3>1. CASE c + 2 < XMax
      BY <3>1 DEF Reach
    <3>2. CASE ~ (c + 2 < XMax)
      BY <3>2 DEF Reach
    <3>. QED
      BY <3>1, <3>2
  <2>. HIDE DEF a, reach
  <2>. QED
    BY <2>1, <2>2, MaxOfTwo
<1>2. edge \in Int /\ c <= edge
  <2>. DEFINE a == XMax - 2
  <2>1. edge = Max({c, a}) /\ a \in Int /\ c \in Int
    OBVIOUS
  <2>. HIDE DEF a, edge
  <2>. QED
    BY <2>1, MaxOfTwo
<1>. HIDE DEF reach, edge
<1>3. len \in stops /\ stops \in SUBSET Nat
  BY <1>1
<1>4. SkipRight(<<f, c>>, S) = RightTo(<<f, c>>, q)
  <2>1. <<f, c>> # NULL
    OBVIOUS
  <2>. QED
    BY <1>3, <2>1 DEF SkipRight, reach
<1>5. q \in f + c .. reach /\ q <= len
  <2>1. q \in stops /\ q <= len
    <3>. HIDE DEF stops
    <3>. QED
      BY <1>3, MinIsLeast
  <2>. QED
    BY <2>1
<1>. HIDE DEF q
<1>6. RightTo(<<f, c>>, q) = IF q - f <= edge THEN <<f, q - f>> ELSE <<q - edge, edge>>
  BY DEF RightTo, edge
<1>7. q \in Int /\ f + c <= q /\ q <= len /\ len \in Nat
  BY <1>1, <1>5
<1>8. CASE q - f <= edge
  <2>. DEFINE d == q - f
  <2>1. d \in Nat /\ f + d = q
    BY <1>7
  <2>2. SkipRight(<<f, c>>, S) = <<f, d>>
    BY <1>4, <1>6, <1>8
  <2>3. f + d <= len
    BY <1>7, <2>1
  <2>. HIDE DEF d
  <2>. QED
    BY <1>7, <2>1, <2>2, <2>3, Landed
<1>9. CASE ~ (q - f <= edge)
  <2>. DEFINE p == q - edge
  <2>1. p \in Nat /\ edge \in Nat /\ p + edge = q
    BY <1>2, <1>7, <1>9
  <2>2. SkipRight(<<f, c>>, S) = <<p, edge>>
    BY <1>4, <1>6, <1>9
  <2>3. p + edge <= len
    BY <1>7, <2>1
  <2>. HIDE DEF p
  <2>. QED
    BY <1>7, <2>1, <2>2, <2>3, Landed
<1>. QED
  BY <1>8, <1>9

LEMMA InitEdits == Init => EInv /\ Field!Init
<1>. SUFFICES ASSUME Init PROVE EInv /\ Field!Init
  OBVIOUS
<1>1. PICK line_in \in Inputs, junk \in Printable \cup {Nul} :
        LET n == Len(line_in)
        IN  /\ size = n + Headroom
            /\ len = n
            /\ line = [i \in 0 .. n + Headroom - 1 |->
                         IF i < n THEN line_in[i + 1] ELSE IF i = n THEN Nul ELSE junk]
  BY DEF Init
<1>2. line_in \in Seq(Printable)
  BY InputsAssumption DEF Printable
<1>. DEFINE n == Len(line_in)
<1>3. /\ n \in Nat /\ len = n /\ n < n + Headroom
      /\ line_in = [i \in 1 .. n |-> line_in[i]]
      /\ \A i \in 1 .. n : line_in[i] \in Printable
  BY <1>1, <1>2, WidthAssumption, SMTT(40)
<1>. HIDE DEF n
<1>4. line[len] = Nul /\ \A i \in 0 .. n - 1 : line[i] = line_in[i + 1]
  BY <1>1, <1>3, WidthAssumption, SMTT(40) DEF n
<1>5. text = line_in
  <2>1. \A i \in 1 .. n : line[i - 1] = line_in[i]
    BY <1>3, <1>4, SMTT(40)
  <2>. QED
    BY <1>3, <2>1 DEF text
<1>6. IInv /\ Pos = 0 /\ state = "edit"
  BY InitHolds DEF Init, Pos
<1>7. EInv
  <2>1. Text /\ Pos <= len
    <3>1. \A i \in 0 .. n - 1 : i + 1 \in 1 .. n
      BY <1>3
    <3>2. \A i \in 0 .. n - 1 : line[i] \in Printable
      BY <1>3, <1>4, <3>1
    <3>. QED
      BY <1>3, <1>6, <3>2 DEF Text
  <2>2. Edits => Shape /\ Fits(first, cursor) /\ Ends
    BY <1>6 DEF Edits, Without, IInv, Fits, Shape
  <2>. QED
    BY <1>4, <1>6, <2>1, <2>2 DEF EInv
<1>8. Field!Init
  BY <1>5, <1>6 DEF Field!Init, result
<1>. QED
  BY <1>7, <1>8

\* A step that moves the cursor within the text.
LEMMA MoveEdits ==
  ASSUME EInv, IInv', Edits, state = "edit", keys' = keys,
         UNCHANGED <<buffer, state, line_out>>, (Pos \in 0 .. len)'
  PROVE  EInv' /\ Field!Move
<1>1. line' = line /\ size' = size /\ len' = len /\ Edits'
  BY DEF buffer, Edits, Without
<1>2. EInv'
  BY <1>1 DEF EInv, Edits, Without, IInv, Fits, Text, Shape
<1>3. text' = text /\ result' = result /\ Len(text) = len
  BY <1>1 DEF text, result, EInv, Shape
<1>. QED
  BY <1>1, <1>2, <1>3 DEF Field!Move

LEMMA MovesEdit ==
  ASSUME EInv, IInv', Edits, state = "edit", keys' = keys,
         Left \/ Right \/ Home \/ Up \/ Down
  PROVE  EInv' /\ Field!Move
<1>0. /\ Shape /\ Ends /\ Fits(first, cursor) /\ line[len] = Nul
      /\ first \in Nat /\ cursor \in Nat /\ len \in Nat
      /\ Pos \in 0 .. len /\ Pos = first + cursor
  BY DEF EInv, Fits, Shape, Pos
<1>. SUFFICES UNCHANGED <<buffer, state, line_out>> /\ (Pos \in 0 .. len)'
  BY MoveEdits
<1>. SUFFICES ASSUME UNCHANGED <<buffer, state, line_out>> => len' = len
              PROVE  UNCHANGED <<buffer, state, line_out>> /\ first' + cursor' \in 0 .. len
  BY DEF Pos, buffer
<1>1. CASE Left
  <2>. DEFINE q == IF Pos > 0 THEN Pos - 1 ELSE 0
  <2>1. q \in 0 .. Pos
    BY <1>0
  <2>2. UNCHANGED <<buffer, state, line_out>> /\ Shows(LeftTo(q))
    BY <1>1 DEF Left
  <2>. HIDE DEF q
  <2>3. first' + cursor' = q
    BY <1>0, <2>1, <2>2, LeftFits DEF Shows
  <2>4. q \in 0 .. len
    BY <1>0, <2>1
  <2>. QED
    BY <2>2, <2>3, <2>4
<1>2. CASE Right
  BY <1>0, <1>2 DEF Right, Shows, cursor_right, Pos, Shape
<1>3. CASE Home
  BY <1>0, <1>3 DEF Home, Shows, Shape
<1>4. CASE Up
  <2>. DEFINE a == SkipLeft(Pos, {Space})
              b == SkipLeft(a, Word)
              q == SkipLeft(b, {Space})
              v == LeftTo(q)
  <2>1. q \in 0 .. Pos
    <3>1. a \in 0 .. Pos
      BY <1>0, SkipLeftType
    <3>. HIDE DEF a
    <3>2. b \in 0 .. a
      BY <1>0, <3>1, SkipLeftType
    <3>. HIDE DEF b
    <3>3. q \in 0 .. b
      BY <1>0, <3>1, <3>2, SkipLeftType
    <3>. HIDE DEF q
    <3>. QED
      BY <1>0, <3>1, <3>2, <3>3
  <2>2. /\ Shows(IF q # len /\ q > 0 THEN cursor_right(v) ELSE v)
        /\ UNCHANGED <<buffer, state, line_out>>
    BY <1>4 DEF Up
  <2>. HIDE DEF q
  <2>3. v[1] \in Nat /\ v[2] \in Nat /\ v[1] + v[2] = q
    BY <1>0, <2>1, LeftFits DEF Fits
  <2>. HIDE DEF v
  <2>4. q \in 0 .. len
    BY <1>0, <2>1
  <2>5. CASE q # len /\ q > 0
    <3>1. first' + cursor' = q + 1 \/ first' + cursor' = q
      BY <2>2, <2>3, <2>5 DEF Shows, cursor_right
    <3>. QED
      BY <1>0, <2>2, <2>4, <2>5, <3>1
  <2>6. CASE ~ (q # len /\ q > 0)
    BY <2>2, <2>3, <2>4, <2>6 DEF Shows
  <2>. QED
    BY <2>5, <2>6
<1>5. CASE Down
  <2>. DEFINE a == SkipRight(window, {Space})
              b == SkipRight(a, Chars)
              w == SkipRight(b, {Space})
  <2>1. Nul \notin {Space} /\ Nul \notin Chars /\ window = <<first, cursor>>
        /\ first + cursor <= len
    BY <1>0, CharsAssumption DEF window, Pos
  <2>2. a # NULL /\ a = <<a[1], a[2]>> /\ a[1] \in Nat /\ a[2] \in Nat /\ a[1] + a[2] <= len
    BY <1>0, <2>1, SkipLands
  <2>. HIDE DEF a
  <2>3. b # NULL /\ b = <<b[1], b[2]>> /\ b[1] \in Nat /\ b[2] \in Nat /\ b[1] + b[2] <= len
    BY <1>0, <2>1, <2>2, SkipLands
  <2>. HIDE DEF b
  <2>4. w # NULL /\ w[1] \in Nat /\ w[2] \in Nat /\ w[1] + w[2] <= len
    BY <1>0, <2>1, <2>3, SkipLands
  <2>5. Shows(w) /\ UNCHANGED <<buffer, state, line_out>>
    BY <1>5, <2>4 DEF Down, a, b
  <2>. HIDE DEF w
  <2>. QED
    BY <1>0, <2>4, <2>5 DEF Shows, Shape
<1>. QED
  BY <1>1, <1>2, <1>3, <1>4, <1>5

\* The characters of a line with one inserted.
LEMMA InsertedText ==
  ASSUME NEW S, NEW s \in Seq(S), NEW p \in 0 .. Len(s), NEW c \in S
  PROVE  Field!InsertAt(s, p + 1, c) =
           [i \in 1 .. Len(s) + 1 |-> IF i <= p THEN s[i] ELSE IF i = p + 1 THEN c ELSE s[i - 1]]
<1>. DEFINE a == SubSeq(s, 1, p)
            b == SubSeq(s, p + 1, Len(s))
            u == a \o <<c>>
            t == u \o b
            n == Len(s)
<1>1. n \in Nat /\ p \in Nat /\ p <= n
  OBVIOUS
<1>2. a \in Seq(S) /\ Len(a) = p /\ \A i \in 1 .. p : a[i] = s[i]
  OBVIOUS
<1>3. b \in Seq(S) /\ Len(b) = n - p /\ \A i \in 1 .. n - p : b[i] = s[p + i]
  OBVIOUS
<1>. HIDE DEF a, b, n
<1>4. /\ u \in Seq(S) /\ Len(u) = p + 1 /\ u[p + 1] = c
      /\ \A i \in 1 .. p : u[i] = a[i]
  BY <1>1, <1>2
<1>. HIDE DEF u
<1>5. /\ t \in Seq(S) /\ Len(t) = n + 1
      /\ \A i \in 1 .. n + 1 : t[i] = IF i <= p + 1 THEN u[i] ELSE b[i - (p + 1)]
  <2>1. /\ t \in Seq(S) /\ Len(t) = Len(u) + Len(b)
        /\ \A i \in 1 .. Len(u) + Len(b) : t[i] = IF i <= Len(u) THEN u[i] ELSE b[i - Len(u)]
    BY <1>3, <1>4, ConcatProperties, Zenon DEF t
  <2>2. Len(u) + Len(b) = n + 1
    BY <1>1, <1>3, <1>4
  <2>. QED
    BY <1>4, <2>1, <2>2
<1>. HIDE DEF t
<1>6. ASSUME NEW i \in 1 .. n + 1
      PROVE  t[i] = IF i <= p THEN s[i] ELSE IF i = p + 1 THEN c ELSE s[i - 1]
  <2>1. CASE i <= p + 1
    BY <1>1, <1>2, <1>4, <1>5, <2>1
  <2>2. CASE i > p + 1
    <3>. DEFINE k == i - (p + 1)
    <3>1. k \in 1 .. n - p /\ p + k = i - 1 /\ ~ (i <= p) /\ ~ (i <= p + 1)
      BY <1>1, <2>2
    <3>2. t[i] = b[k]
      BY <1>5, <3>1
    <3>. HIDE DEF k
    <3>3. t[i] = s[i - 1]
      BY <1>3, <3>1, <3>2
    <3>. QED
      BY <1>1, <3>1, <3>3
  <2>. QED
    BY <1>1, <2>1, <2>2
<1>7. t = [i \in 1 .. n + 1 |-> t[i]]
  BY <1>5
<1>8. t = [i \in 1 .. n + 1 |-> IF i <= p THEN s[i] ELSE IF i = p + 1 THEN c ELSE s[i - 1]]
  BY <1>6, <1>7
<1>9. Field!InsertAt(s, p + 1, c) = t
  <2>1. (p + 1) - 1 = p
    BY <1>1
  <2>2. Field!InsertAt(s, p + 1, c) = SubSeq(s, 1, (p + 1) - 1) \o <<c>> \o SubSeq(s, p + 1, Len(s))
    BY DEF Field!InsertAt
  <2>. QED
    BY <2>1, <2>2, Zenon DEF a, b, t, u
<1>. QED
  BY <1>8, <1>9 DEF n

LEMMA TypeEdits ==
  ASSUME EInv, IInv', Edits, state = "edit", keys' = keys, Type
  PROVE  EInv' /\ Field!Insert
<1>0. /\ Shape /\ Ends /\ line[len] = Nul /\ Text
      /\ first \in Nat /\ cursor \in Nat /\ Pos = first + cursor /\ Pos \in 0 .. len
      /\ len \in Nat /\ size \in Nat /\ len < size
  BY DEF EInv, Fits, Shape, Pos
<1>1. PICK c \in Printable : line' = Inserted(c)
  BY DEF Type
<1>2. /\ len' = len + 1 /\ len + 1 # size /\ state' = state /\ line_out' = line_out
      /\ first' + cursor' = Pos + 1
  BY <1>0 DEF Type, HasRoom, Shows
<1>3. \A i \in 0 .. len : line'[i] = IF i < Pos THEN line[i] ELSE IF i = Pos THEN c ELSE line[i - 1]
  BY <1>0, <1>1, <1>2 DEF Inserted, Shape
<1>4. line'[len + 1] = Nul
  BY <1>0, <1>1, <1>2 DEF Inserted, Shape
<1>5. EInv'
  <2>1. Text'
    BY <1>0, <1>1, <1>2, <1>3 DEF Text
  <2>2. Shape' /\ Fits(first, cursor)' /\ Ends' /\ Edits'
    BY DEF IInv, Edits, Without, Shape, Fits
  <2>. QED
    BY <1>0, <1>2, <1>4, <2>1, <2>2 DEF EInv, Pos
<1>6. text \in Seq(Printable) /\ Len(text) = len /\ \A i \in 1 .. len : text[i] = line[i - 1]
  <2>1. \A i \in 1 .. len : line[i - 1] \in Printable
    BY <1>0 DEF Text
  <2>. QED
    BY <1>0, <2>1 DEF text
<1>7. text' = Field!InsertAt(text, Pos + 1, c)
  <2>1. Field!InsertAt(text, Pos + 1, c) =
          [i \in 1 .. len + 1 |-> IF i <= Pos THEN text[i] ELSE IF i = Pos + 1 THEN c ELSE text[i - 1]]
    <3>1. Pos \in 0 .. Len(text)
      BY <1>0, <1>6
    <3>2. Field!InsertAt(text, Pos + 1, c) =
            [i \in 1 .. Len(text) + 1 |->
               IF i <= Pos THEN text[i] ELSE IF i = Pos + 1 THEN c ELSE text[i - 1]]
      BY <1>6, <3>1, InsertedText, SMTT(40)
    <3>. QED
      BY <1>6, <3>2
  <2>2. \A i \in 1 .. len + 1 :
          line'[i - 1] = IF i <= Pos THEN text[i] ELSE IF i = Pos + 1 THEN c ELSE text[i - 1]
    <3>. TAKE i \in 1 .. len + 1
    <3>1. i - 1 \in 0 .. len
      BY <1>0
    <3>2. line'[i - 1] = IF i - 1 < Pos THEN line[i - 1] ELSE IF i - 1 = Pos THEN c ELSE line[i - 1 - 1]
      BY <1>3, <3>1
    <3>3. i <= Pos => text[i] = line[i - 1]
      BY <1>0, <1>6
    <3>4. i > Pos + 1 => text[i - 1] = line[i - 1 - 1]
      BY <1>0, <1>6
    <3>. QED
      BY <1>0, <3>2, <3>3, <3>4
  <2>3. text' = [i \in 1 .. len + 1 |-> line'[i - 1]]
    BY <1>2 DEF text
  <2>. QED
    BY <2>1, <2>2, <2>3
<1>8. Pos' = Pos + 1 /\ result' = result
  BY <1>2 DEF Pos, result
<1>. QED
  BY <1>5, <1>7, <1>8, <1>2 DEF Field!Insert

\* Enter gives the caller the text shown.
LEMMA FinishEdits ==
  ASSUME EInv, IInv', Edits, state = "edit", keys' = keys, Enter \/ Esc
  PROVE  EInv' /\ Field!Finish
<1>0. /\ Shape /\ line[len] = Nul /\ Text /\ len \in 0 .. size - 1 /\ size \in Nat
      /\ line \in [0 .. size - 1 -> Printable \cup {Nul}]
  BY DEF EInv, Shape
<1>1. line' = line /\ len' = len /\ size' = size /\ first' = first /\ cursor' = cursor
  BY DEF Enter, Esc, buffer, window
<1>2. text' = text /\ Pos' = Pos
  BY <1>1 DEF text, Pos
<1>3. EInv'
  BY <1>1 DEF EInv, Edits, Without, Shape, Fits, Room, Slack, Ends, Pos, Text, Enter, Esc
<1>4. CASE Esc
  BY <1>2, <1>3, <1>4 DEF Esc, Field!Finish, result
<1>5. CASE Enter
  <2>. DEFINE S == { i \in DOMAIN line : line[i] = Nul }
  <2>1. len \in S /\ S \in SUBSET Nat
    BY <1>0
  <2>2. \A i \in S : i >= len
    <3>1. Nul \notin Printable
      BY CharsAssumption DEF Printable
    <3>2. \A i \in 0 .. len - 1 : line[i] # Nul
      BY <1>0, <3>1 DEF Text
    <3>. QED
      BY <1>0, <3>2
  <2>3. Min(S) = len
    <3>1. Min(S) \in S /\ Min(S) <= len
      <4>. HIDE DEF S
      <4>. QED
        BY <2>1, MinIsLeast
    <3>2. len <= Min(S) /\ Min(S) \in Nat
      BY <2>1, <2>2, <3>1
    <3>. QED
      BY <1>0, <3>1, <3>2
  <2>4. String(line) = text
    BY <2>3 DEF String, text
  <2>5. state' = "enter" /\ line_out' = line
    BY <1>5 DEF Enter
  <2>. QED
    BY <1>2, <1>3, <2>4, <2>5 DEF Field!Finish, result
<1>. QED
  BY <1>4, <1>5

LEMMA StepEdits ==
  ASSUME IInv, EInv, [Next]_vars
  PROVE  /\ EInv'
         /\ [Edits => Field!Next]_<<text, Pos, state, result>>
<1>0. IInv'
  BY StepKeeps
<1>1. CASE UNCHANGED vars
  <2>1. UNCHANGED <<text, Pos, state, result>>
    BY <1>1 DEF vars, text, Pos, result
  <2>2. EInv'
    BY <1>1 DEF vars, EInv, Edits, Without, Shape, Fits, Room, Slack, Ends, Pos, Text
  <2>. QED
    BY <2>1, <2>2
<1>2. CASE Next /\ ~ Edits
  BY <1>2 DEF Next, EInv, Edits, Without
<1>3. CASE Next /\ Edits
  <2>1. state = "edit" /\ keys' = keys
    BY <1>3 DEF Next
  <2>2. Left \/ Right \/ Home \/ Up \/ Down \/ Type \/ Enter \/ Esc
    BY <1>3 DEF Next, Edits, Without, End, Delete, Backspace
  <2>. QED
    BY <1>0, <1>3, <2>1, <2>2, MovesEdit, TypeEdits, FinishEdits DEF Field!Next
<1>. QED
  BY <1>1, <1>2, <1>3

\* For a console and options of any width, typing and moving the cursor edit
\* the line as TextField promises, and Enter returns the text that is shown.
THEOREM LineEditEditsText == Spec => EditsText
<1>1. Spec => [](IInv /\ EInv)
  BY LineEditInvariant, InitEdits, StepEdits, PTL DEF Spec
<1>2. Init => Field!Init
  BY InitEdits
<1>3. IInv /\ EInv /\ [Next]_vars =>
        [Without({"End", "Delete", "Backspace"}) => Field!Next]_<<text, Pos, state, result>>
  BY StepEdits DEF Edits
<1>. QED
  BY <1>1, <1>2, <1>3, PTL DEF Spec, EditsText

=============================================================================
