---------------------------- MODULE Menu_proofs ----------------------------
(***************************************************************************)
(* Proofs about Menu: for every set of screens, every display size and     *)
(* every sequence of keys, the selection indexes an entry and the display  *)
(* shows the state.  The inductive invariant IInv adds what the            *)
(* interpolation between the icon rows needs: the window of visible icons  *)
(* is inside the entries, and contains a selection of row 0 whenever a key *)
(* is read.  InStep adds what the display is: the picture of the state, or *)
(* of the state before the last key while a partial repaint is due.        *)
(*                                                                         *)
(* Then proofs about Scan, which fills the main menu: for all disks and    *)
(* every refind.conf, no loader is missed, rEFInd does not list itself,    *)
(* the kernels found get their RAM disks and the lists are those of this   *)
(* refind.conf.  What the loops over lines, volumes and files compute is   *)
(* proved once for all of them: Kept says what holds after n turns, and    *)
(* TurnsKeep and LoopEnds that it still does after the last.  The          *)
(* inductive invariant ScanInv says that the loaders of the letters of     *)
(* ScanFor followed so far are offered.                                    *)
(***************************************************************************)
EXTENDS Menu, Scan, FiniteSetTheorems, SequenceTheorems, WellFoundedInduction, TLAPS

\* What IdentifyRows leaves for the whole call.
RowsKnown(s, r) ==
  /\ r.MaxIndex = Count(s) - 1
  /\ r.FinalRow0 = FinalRow0(s)
  /\ r.InitialRow1 = InitialRow1(s)
  /\ r.MaxVisible >= 1
  /\ Icons(s) => r.MaxVisible <= r.FinalRow0 + 1

Selected(s, r) ==
  /\ r.CurrentSelection \in 0 .. Count(s) - 1
  /\ r.PreviousSelection \in 0 .. Count(s) - 1

\* The window of the icon style; LastVisible may be stale only while the
\* first entry is selected and nothing has scrolled.
WindowKnown(s, r) ==
  /\ r.FirstVisible >= 0
  /\ r.FirstVisible + r.MaxVisible - 1 <= r.MaxIndex
  /\ s.row0 = 0 => r.FirstVisible = 0
  /\ \/ r.LastVisible = r.FirstVisible + r.MaxVisible - 1
     \/ r.CurrentSelection = 0 /\ r.FirstVisible = 0 /\ r.LastVisible >= 0

\* A selection in row 0 is inside the window.
InWindow(r) ==
  r.CurrentSelection <= r.FinalRow0 =>
    r.FirstVisible <= r.CurrentSelection /\ r.CurrentSelection <= r.LastVisible

IInv ==
  /\ TypeOK
  /\ pc = "init" => st = InitScroll(screen)
  /\ pc # "init" => RowsKnown(screen, st) /\ Selected(screen, st)
  /\ pc \in {"paint", "read"} /\ Icons(screen) => WindowKnown(screen, st)
  /\ pc = "paint" /\ Icons(screen) /\ ~st.PaintAll /\ ~st.PaintSelection => InWindow(st)
  /\ pc = "read" /\ Icons(screen) => InWindow(st)

-----------------------------------------------------------------------------
(* Arithmetic: a proportional jump a * b \div c with b <= c stays in 0..a.  *)
LEMMA Proportion ==
  ASSUME NEW a \in Nat, NEW b \in Nat, NEW c \in Nat, c > 0, b <= c
  PROVE  /\ (a * b) \div c \in Nat
         /\ (a * b) \div c <= a
         /\ b = 0 => (a * b) \div c = 0
<1>1. a * b \in Nat /\ a * b <= a * c
  BY SMT
<1>2. (a * b) \div c \in Nat
  BY <1>1, SMT
<1>3. (a * b) \div c <= a
  <2>1. c * ((a * b) \div c) <= a * b
    BY <1>1, SMT
  <2>2. c * ((a * b) \div c) <= a * c
    BY <1>1, <1>2, <2>1, SMT
  <2>. DEFINE q == (a * b) \div c
  <2>3. q \in Nat /\ c * q <= a * c
    BY <1>2, <2>2
  <2>4. ASSUME q > a PROVE FALSE
    <3>1. c * q >= c * (a + 1)
      BY <2>3, <2>4, SMT
    <3>. QED BY <2>3, <3>1, SMT
  <2>. QED BY <2>3, <2>4, SMT
<1>4. b = 0 => (a * b) \div c = 0
  BY SMT
<1>. QED BY <1>2, <1>3, <1>4

-----------------------------------------------------------------------------
(* Screens.                                                                 *)
LEMMA ScreenFacts ==
  ASSUME NEW s \in Screens
  PROVE  /\ s.row0 \in Nat /\ s.row1 \in Nat /\ Count(s) \in Nat /\ Count(s) >= 1
         /\ s.TimeoutSeconds \in Nat /\ s.default \in Int
         /\ ScreenSpace(s) \in Int /\ ScreenSpace(s) >= 1
         /\ VisibleSpace(s) \in Int
         /\ FinalRow0(s) \in 0 .. Count(s) - 1
         /\ InitialRow1(s) \in 0 .. Count(s) - 1
<1>1. s \in ScreenType /\ s.row0 + s.row1 > 0
      /\ s.UGAWidth \div TileWidth > 1 /\ s.ConHeight > 4
  BY ScreensAssumption
<1>2. /\ s.row0 \in Nat /\ s.row1 \in Nat /\ s.TimeoutSeconds \in Nat /\ s.default \in Int
      /\ s.UGAWidth \in Nat /\ s.ConHeight \in Nat /\ s.MaxTags \in Nat
      /\ s.InfoLineCount \in Nat /\ s.style \in {"text", "graphics", "icons"}
  BY <1>1 DEF ScreenType
<1>3. Count(s) \in Nat /\ Count(s) >= 1
  BY <1>1, <1>2 DEF Count
<1>4. ScreenSpace(s) \in Int /\ ScreenSpace(s) >= 1
  <2>1. TileWidth \in Nat \ {0}
    BY TileAssumption DEF TileWidth
  <2>2. s.UGAWidth \div TileWidth \in Int
    BY <1>2, <2>1
  <2>3. QED
    BY <1>1, <1>2, <2>2 DEF ScreenSpace
<1>5. VisibleSpace(s) \in Int
  <2>1. CASE s.style = "icons"
    BY <1>2, <2>1 DEF VisibleSpace
  <2>2. CASE s.style = "graphics"
    BY <1>2, <2>2 DEF VisibleSpace
  <2>3. CASE s.style = "text"
    BY <1>2, <2>3, WordAssumption DEF VisibleSpace
  <2>. QED BY <1>2, <2>1, <2>2, <2>3
<1>6. FinalRow0(s) \in 0 .. Count(s) - 1
  BY <1>2, <1>3 DEF FinalRow0, Count
<1>7. InitialRow1(s) \in 0 .. Count(s) - 1
  BY <1>2, <1>3 DEF InitialRow1, Count
<1>. QED BY <1>2, <1>3, <1>4, <1>5, <1>6, <1>7

\* The state at the first paint.
LEMMA InitScrollFacts ==
  ASSUME NEW s \in Screens
  PROVE  /\ InitScroll(s) \in ScrollState
         /\ InitScroll(s).CurrentSelection = 0
         /\ InitScroll(s).PreviousSelection = 0
         /\ InitScroll(s).MaxIndex = Count(s) - 1
         /\ InitScroll(s).FirstVisible = 0
         /\ InitScroll(s).MaxVisible >= 1
         /\ InitScroll(s).LastVisible = InitScroll(s).MaxVisible - 1
<1>. DEFINE space == VisibleSpace(s)
            mv == IF space > 0 /\ space < ScreenSpace(s) THEN space ELSE ScreenSpace(s)
<1>1. mv \in Int /\ mv >= 1
  BY ScreenFacts
<1>. HIDE DEF mv
<1>2. InitScroll(s) = [ CurrentSelection |-> 0, PreviousSelection |-> 0,
        MaxIndex |-> Count(s) - 1,
        FirstVisible |-> 0, LastVisible |-> mv - 1, MaxVisible |-> mv,
        FinalRow0 |-> 0, InitialRow1 |-> 0,
        PaintAll |-> TRUE, PaintSelection |-> FALSE ]
  BY DEF InitScroll, mv
<1>. QED BY <1>1, <1>2, ScreenFacts DEF ScrollState

\* AdjustScrollState moves the window only, to one that holds the selection.
LEMMA AdjustFacts ==
  ASSUME NEW r \in ScrollState, r.MaxVisible >= 1,
         NEW a, a = AdjustScrollState(r)
  PROVE  /\ a \in ScrollState
         /\ a.CurrentSelection = r.CurrentSelection
         /\ a.PreviousSelection = r.PreviousSelection
         /\ a.MaxIndex = r.MaxIndex /\ a.MaxVisible = r.MaxVisible
         /\ a.FinalRow0 = r.FinalRow0 /\ a.InitialRow1 = r.InitialRow1
         /\ a.PaintSelection = r.PaintSelection
         /\ \/ /\ r.CurrentSelection \in r.FirstVisible .. r.LastVisible
               /\ a = r
            \/ /\ r.CurrentSelection > r.LastVisible
               /\ 1 + r.CurrentSelection >= r.MaxVisible
               /\ a.LastVisible = r.CurrentSelection
               /\ a.FirstVisible = 1 + r.CurrentSelection - r.MaxVisible
            \/ /\ r.CurrentSelection > r.LastVisible
               /\ 1 + r.CurrentSelection < r.MaxVisible
            \/ /\ r.CurrentSelection <= r.LastVisible
               /\ r.CurrentSelection < r.FirstVisible
               /\ a.FirstVisible = r.CurrentSelection
               /\ a.LastVisible = r.CurrentSelection + r.MaxVisible - 1
<1>. DEFINE f == ScrollForward(r)
<1>0. a = ScrollBackward(f) /\ f = ScrollForward(r)
  BY DEF AdjustScrollState
<1>. HIDE DEF f
<1>1. CASE r.CurrentSelection > r.LastVisible
  <2>. DEFINE first == IF 1 + r.CurrentSelection < r.MaxVisible THEN 0
                       ELSE 1 + r.CurrentSelection - r.MaxVisible
  <2>1. f = [r EXCEPT !.LastVisible = r.CurrentSelection,
                      !.FirstVisible = first, !.PaintAll = TRUE]
    BY <1>0, <1>1 DEF ScrollForward
  <2>a. first \in Int /\ (1 + r.CurrentSelection >= r.MaxVisible
                            => first = 1 + r.CurrentSelection - r.MaxVisible)
    BY DEF ScrollState
  <2>. HIDE DEF first
  <2>2. /\ f \in ScrollState
        /\ f.CurrentSelection = r.CurrentSelection /\ f.FirstVisible = first
        /\ f.LastVisible = r.CurrentSelection /\ f.MaxVisible = r.MaxVisible
        /\ f.PreviousSelection = r.PreviousSelection
        /\ f.MaxIndex = r.MaxIndex
        /\ f.FinalRow0 = r.FinalRow0 /\ f.InitialRow1 = r.InitialRow1
        /\ f.PaintSelection = r.PaintSelection
    BY <2>1, <2>a DEF ScrollState
  <2>3. CASE 1 + r.CurrentSelection >= r.MaxVisible
    <3>1. a = f
      BY <1>0, <2>2, <2>a, <2>3 DEF ScrollBackward, ScrollState
    <3>. QED BY <1>1, <2>2, <2>a, <2>3, <3>1 DEF ScrollState
  <2>4. CASE 1 + r.CurrentSelection < r.MaxVisible
    <3>1. a = f \/ a = [f EXCEPT !.FirstVisible = f.CurrentSelection,
                 !.LastVisible  = f.CurrentSelection + f.MaxVisible - 1,
                 !.PaintAll     = TRUE]
      BY <1>0 DEF ScrollBackward
    <3>2. CASE a = f
      BY <1>1, <2>2, <2>4, <3>2
    <3>3. CASE a = [f EXCEPT !.FirstVisible = f.CurrentSelection,
                 !.LastVisible  = f.CurrentSelection + f.MaxVisible - 1,
                 !.PaintAll     = TRUE]
      <4>1. f.CurrentSelection \in Int /\ f.CurrentSelection + f.MaxVisible - 1 \in Int
        BY <2>2 DEF ScrollState
      <4>2. /\ a \in ScrollState
            /\ a.CurrentSelection = f.CurrentSelection
            /\ a.PreviousSelection = f.PreviousSelection
            /\ a.MaxIndex = f.MaxIndex /\ a.MaxVisible = f.MaxVisible
            /\ a.FinalRow0 = f.FinalRow0 /\ a.InitialRow1 = f.InitialRow1
            /\ a.PaintSelection = f.PaintSelection
        BY <2>2, <3>3, <4>1 DEF ScrollState
      <4>. QED BY <1>1, <2>2, <2>4, <4>2
    <3>. QED BY <3>1, <3>2, <3>3
  <2>. QED BY <2>3, <2>4 DEF ScrollState
<1>2. CASE r.CurrentSelection <= r.LastVisible
  <2>1. f = r
    BY <1>0, <1>2 DEF ScrollForward, ScrollState
  <2>2. CASE r.CurrentSelection >= r.FirstVisible
    <3>1. a = r
      BY <1>0, <2>1, <2>2 DEF ScrollBackward, ScrollState
    <3>. QED BY <1>2, <2>2, <3>1 DEF ScrollState
  <2>3. CASE r.CurrentSelection < r.FirstVisible
    <3>1. a = [r EXCEPT !.FirstVisible = r.CurrentSelection,
                 !.LastVisible  = r.CurrentSelection + r.MaxVisible - 1,
                 !.PaintAll     = TRUE]
      BY <1>0, <2>1, <2>3 DEF ScrollBackward
    <3>2. r.CurrentSelection \in Int /\ r.CurrentSelection + r.MaxVisible - 1 \in Int
      BY DEF ScrollState
    <3>3. /\ a \in ScrollState
          /\ a.CurrentSelection = r.CurrentSelection
          /\ a.PreviousSelection = r.PreviousSelection
          /\ a.MaxIndex = r.MaxIndex /\ a.MaxVisible = r.MaxVisible
          /\ a.FinalRow0 = r.FinalRow0 /\ a.InitialRow1 = r.InitialRow1
          /\ a.PaintSelection = r.PaintSelection
          /\ a.FirstVisible = r.CurrentSelection
          /\ a.LastVisible = r.CurrentSelection + r.MaxVisible - 1
      BY <3>1, <3>2, ZenonT(60) DEF ScrollState
    <3>. QED BY <1>2, <2>3, <3>3
  <2>. QED BY <2>2, <2>3 DEF ScrollState
<1>. QED BY <1>1, <1>2 DEF ScrollState

\* Every movement leads to an entry.
LEMMA MovedInRange ==
  ASSUME NEW s \in Screens, NEW r \in ScrollState, NEW m \in Movements,
         RowsKnown(s, r), Selected(s, r),
         Icons(s) => WindowKnown(s, r) /\ InWindow(r)
  PROVE  Moved(s, r, m) \in 0 .. Count(s) - 1
<1>1. /\ r.CurrentSelection \in Int /\ r.MaxIndex \in Int /\ r.FirstVisible \in Int
      /\ r.LastVisible \in Int /\ r.MaxVisible \in Int /\ r.FinalRow0 \in Int
      /\ r.InitialRow1 \in Int
  BY DEF ScrollState
<1>2. /\ Count(s) \in Nat /\ r.MaxIndex = Count(s) - 1
      /\ r.FinalRow0 \in 0 .. r.MaxIndex /\ r.InitialRow1 \in 0 .. r.MaxIndex
      /\ r.CurrentSelection \in 0 .. r.MaxIndex /\ r.MaxVisible >= 1
  BY ScreenFacts DEF RowsKnown, Selected
<1>3. Previous(r) \in 0 .. r.MaxIndex /\ Following(r) \in 0 .. r.MaxIndex
  BY <1>1, <1>2 DEF Previous, Following
<1>4. PageUp(r) \in 0 .. r.MaxIndex
  BY <1>1, <1>2 DEF PageUp, AtLeast0
<1>5. PageDown(r) \in 0 .. r.MaxIndex
  BY <1>1, <1>2 DEF PageDown, AtMost
<1>6. ASSUME Icons(s) PROVE UpInIcons(r) \in 0 .. r.MaxIndex
  <2>1. CASE r.CurrentSelection < r.InitialRow1
    BY <1>2, <2>1 DEF UpInIcons
  <2>2. CASE r.CurrentSelection >= r.InitialRow1 /\ r.MaxIndex > r.InitialRow1
    <3>. DEFINE a == r.LastVisible - r.FirstVisible
                b == r.CurrentSelection - r.InitialRow1
                c == r.MaxIndex - r.InitialRow1
    <3>1. a \in Nat /\ b \in Nat /\ c \in Nat /\ c > 0 /\ b <= c
      BY <1>1, <1>2, <1>6, <2>2 DEF WindowKnown
    <3>2. UpInIcons(r) = r.FirstVisible + (a * b) \div c
      BY <1>1, <2>2 DEF UpInIcons
    <3>. HIDE DEF a, b, c
    <3>3. (a * b) \div c \in Nat /\ (a * b) \div c <= a /\ (b = 0 => (a * b) \div c = 0)
      BY <3>1, Proportion
    <3>. DEFINE q == (a * b) \div c
    <3>4. q \in Nat /\ q <= a /\ (b = 0 => q = 0) /\ UpInIcons(r) = r.FirstVisible + q
      BY <3>2, <3>3
    <3>. HIDE DEF q
    <3>. QED BY <1>1, <1>2, <1>6, <3>4, <2>2 DEF WindowKnown, a, b
  <2>3. CASE r.CurrentSelection >= r.InitialRow1 /\ ~(r.MaxIndex > r.InitialRow1)
    <3>1. UpInIcons(r) = r.FirstVisible
      BY <1>1, <2>3 DEF UpInIcons
    <3>. QED BY <1>1, <1>2, <1>6, <3>1 DEF WindowKnown
  <2>. QED BY <1>1, <2>1, <2>2, <2>3
<1>7. ASSUME Icons(s) PROVE DownInIcons(r) \in 0 .. r.MaxIndex
  <2>1. CASE r.CurrentSelection > r.FinalRow0
    BY <1>2, <2>1 DEF DownInIcons
  <2>2. CASE r.CurrentSelection <= r.FinalRow0 /\ r.LastVisible > r.FirstVisible
    <3>. DEFINE a == r.MaxIndex - r.InitialRow1
                b == r.CurrentSelection - r.FirstVisible
                c == r.LastVisible - r.FirstVisible
    <3>1. a \in Nat /\ b \in Nat /\ c \in Nat /\ c > 0 /\ b <= c
      BY <1>1, <1>2, <1>7, <2>2 DEF InWindow
    <3>2. DownInIcons(r) = r.InitialRow1 + (a * b) \div c
      BY <1>1, <2>2 DEF DownInIcons
    <3>. HIDE DEF a, b, c
    <3>3. (a * b) \div c \in Nat /\ (a * b) \div c <= a
      BY <3>1, Proportion
    <3>. DEFINE q == (a * b) \div c
    <3>4. q \in Nat /\ q <= a /\ DownInIcons(r) = r.InitialRow1 + q
      BY <3>2, <3>3
    <3>. HIDE DEF q
    <3>. QED BY <1>1, <1>2, <3>4 DEF a
  <2>3. CASE r.CurrentSelection <= r.FinalRow0 /\ ~(r.LastVisible > r.FirstVisible)
    BY <1>1, <1>2, <2>3 DEF DownInIcons
  <2>. QED BY <1>1, <1>2, <2>1, <2>2, <2>3
<1>8. CASE m \in {"LINE_UP", "LINE_DOWN"}
  <2>1. CASE Icons(s)
    BY <1>2, <1>6, <1>7, <1>8, <2>1 DEF Moved
  <2>2. CASE ~Icons(s)
    BY <1>2, <1>3, <1>8, <2>2 DEF Moved
  <2>. QED BY <2>1, <2>2
<1>9. CASE m \in {"LINE_LEFT", "LINE_RIGHT"}
  BY <1>2, <1>3, <1>9 DEF Moved
<1>10. CASE m \in {"PAGE_UP", "PAGE_DOWN"}
  BY <1>2, <1>4, <1>5, <1>10 DEF Moved
<1>11. CASE m \in {"FIRST", "LAST", "NONE"}
  <2>1. Moved(s, r, m) \in {0, r.MaxIndex, r.CurrentSelection}
    BY <1>11 DEF Moved
  <2>. QED BY <1>2, <2>1
<1>. QED
  BY <1>8, <1>9, <1>10, <1>11 DEF Movements

\* A movement keeps the rows, and leaves a window that either holds the
\* selection or is about to be repainted.
LEMMA UpdateScrollFacts ==
  ASSUME NEW s \in Screens, NEW r \in ScrollState, NEW m \in Movements,
         RowsKnown(s, r), Selected(s, r),
         Icons(s) => WindowKnown(s, r) /\ InWindow(r),
         NEW u, u = UpdateScroll(s, r, m)
  PROVE  /\ u \in ScrollState
         /\ RowsKnown(s, u) /\ Selected(s, u)
         /\ Icons(s) => WindowKnown(s, u)
         /\ Icons(s) /\ ~u.PaintAll /\ ~u.PaintSelection => InWindow(u)
<1>. DEFINE sel   == Moved(s, r, m)
            moved == sel # r.CurrentSelection
            r1 == [r EXCEPT !.PreviousSelection = r.CurrentSelection,
                            !.CurrentSelection  = sel,
                            !.PaintAll = @ \/ (m \in {"FIRST", "LAST"} /\ moved)]
            r2 == IF Icons(s) THEN r1 ELSE AdjustScrollState(r1)
            last == r2.FirstVisible + r2.MaxVisible - 1
<1>1. u = [r2 EXCEPT !.PaintSelection = @ \/ (~r2.PaintAll /\ moved), !.LastVisible = last]
  BY DEF UpdateScroll
<1>2. sel \in 0 .. Count(s) - 1
  BY MovedInRange
<1>3. sel \in Int /\ Count(s) \in Nat
  BY <1>2, ScreenFacts
<1>. HIDE DEF sel
<1>4. /\ r1 \in ScrollState
      /\ r1.CurrentSelection = sel /\ r1.PreviousSelection = r.CurrentSelection
      /\ r1.FirstVisible = r.FirstVisible /\ r1.LastVisible = r.LastVisible
      /\ r1.MaxVisible = r.MaxVisible /\ r1.MaxIndex = r.MaxIndex
      /\ r1.FinalRow0 = r.FinalRow0 /\ r1.InitialRow1 = r.InitialRow1
      /\ r1.PaintSelection = r.PaintSelection
  BY <1>3 DEF ScrollState
<1>. HIDE DEF r1
<1>5. /\ r2 \in ScrollState
      /\ r2.CurrentSelection = sel /\ r2.PreviousSelection = r.CurrentSelection
      /\ r2.MaxVisible = r.MaxVisible /\ r2.MaxIndex = r.MaxIndex
      /\ r2.FinalRow0 = r.FinalRow0 /\ r2.InitialRow1 = r.InitialRow1
      /\ Icons(s) => r2.FirstVisible = r.FirstVisible
  <2>1. CASE Icons(s)
    BY <1>4, <2>1
  <2>2. CASE ~Icons(s)
    <3>1. r2 = AdjustScrollState(r1) /\ r1.MaxVisible >= 1
      BY <1>4, <2>2 DEF RowsKnown
    <3>. HIDE DEF r2
    <3>. QED BY <1>4, <2>2, <3>1, AdjustFacts
  <2>. QED BY <2>1, <2>2
<1>. HIDE DEF r2
<1>6. last \in Int
  BY <1>5 DEF ScrollState
<1>. HIDE DEF last
<1>7. /\ u \in ScrollState
      /\ u.CurrentSelection = sel /\ u.PreviousSelection = r.CurrentSelection
      /\ u.FirstVisible = r2.FirstVisible /\ u.LastVisible = last
      /\ u.MaxVisible = r.MaxVisible /\ u.MaxIndex = r.MaxIndex
      /\ u.FinalRow0 = r.FinalRow0 /\ u.InitialRow1 = r.InitialRow1
      /\ ~u.PaintAll /\ ~u.PaintSelection => ~moved
  BY <1>1, <1>5, <1>6 DEF ScrollState
<1>8. RowsKnown(s, u) /\ Selected(s, u)
  BY <1>2, <1>7 DEF RowsKnown, Selected
<1>9. ASSUME Icons(s) PROVE WindowKnown(s, u)
  BY <1>5, <1>7, <1>9 DEF WindowKnown, last
<1>10. ASSUME Icons(s), ~u.PaintAll, ~u.PaintSelection PROVE InWindow(u)
  <2>1. sel = r.CurrentSelection
    BY <1>7, <1>10
  <2>. QED
    BY <1>3, <1>5, <1>7, <1>10, <2>1 DEF InWindow, WindowKnown, RowsKnown, ScrollState, last
<1>. QED BY <1>7, <1>8, <1>9, <1>10

\* A full repaint in the icon style brings a row-0 selection into the window.
LEMMA PaintAllFacts ==
  ASSUME NEW s \in Screens, NEW r \in ScrollState,
         RowsKnown(s, r), Selected(s, r), Icons(s) => WindowKnown(s, r),
         NEW a, a = PaintAllState(s, r)
  PROVE  /\ a \in ScrollState
         /\ RowsKnown(s, a) /\ Selected(s, a)
         /\ a.PaintSelection = r.PaintSelection
         /\ Icons(s) => WindowKnown(s, a) /\ InWindow(a)
<1>1. CASE Icons(s) /\ Row(s, r.CurrentSelection) = 0
  <2>1. a = AdjustScrollState(r) /\ r.MaxVisible >= 1
    BY <1>1 DEF PaintAllState, RowsKnown
  <2>2. /\ a \in ScrollState
        /\ a.CurrentSelection = r.CurrentSelection
        /\ a.PreviousSelection = r.PreviousSelection
        /\ a.MaxIndex = r.MaxIndex /\ a.MaxVisible = r.MaxVisible
        /\ a.FinalRow0 = r.FinalRow0 /\ a.InitialRow1 = r.InitialRow1
        /\ a.PaintSelection = r.PaintSelection
    BY <2>1, AdjustFacts
  <2>3. RowsKnown(s, a) /\ Selected(s, a)
    BY <2>2 DEF RowsKnown, Selected
  <2>4. s.row0 > 0 /\ r.CurrentSelection >= 0 /\ r.CurrentSelection <= r.MaxIndex
    BY <1>1, ScreenFacts DEF Row, Selected, RowsKnown
  <2>5. WindowKnown(s, a) /\ InWindow(a)
    <3>1. CASE r.CurrentSelection \in r.FirstVisible .. r.LastVisible /\ a = r
      BY <1>1, <3>1 DEF InWindow
    <3>2. CASE /\ r.CurrentSelection > r.LastVisible
               /\ 1 + r.CurrentSelection >= r.MaxVisible
               /\ a.LastVisible = r.CurrentSelection
               /\ a.FirstVisible = 1 + r.CurrentSelection - r.MaxVisible
      BY <1>1, <2>2, <2>3, <2>4, <3>2 DEF WindowKnown, InWindow, ScrollState, RowsKnown
    <3>3. CASE /\ r.CurrentSelection > r.LastVisible
               /\ 1 + r.CurrentSelection < r.MaxVisible
      BY <1>1, <2>2, <2>4, <3>3 DEF WindowKnown, ScrollState, RowsKnown
    <3>4. CASE /\ r.CurrentSelection <= r.LastVisible
               /\ r.CurrentSelection < r.FirstVisible
               /\ a.FirstVisible = r.CurrentSelection
               /\ a.LastVisible = r.CurrentSelection + r.MaxVisible - 1
      BY <1>1, <2>2, <2>3, <2>4, <3>4 DEF WindowKnown, InWindow, ScrollState, RowsKnown
    <3>. QED BY <2>1, AdjustFacts, <3>1, <3>2, <3>3, <3>4
  <2>. QED BY <2>2, <2>3, <2>5
<1>2. CASE ~(Icons(s) /\ Row(s, r.CurrentSelection) = 0)
  <2>1. a = r
    BY <1>2 DEF PaintAllState
  <2>2. ASSUME Icons(s) PROVE InWindow(a)
    <3>1. r.CurrentSelection >= s.row0
      BY <1>2, <2>2, ScreenFacts DEF Row, Selected
    <3>2. CASE s.row0 = 0
      BY <2>1, <2>2, <3>2, ScreenFacts
         DEF InWindow, WindowKnown, RowsKnown, Selected, ScrollState, FinalRow0
    <3>3. CASE s.row0 > 0
      BY <2>1, <3>1, <3>3, ScreenFacts DEF InWindow, RowsKnown, Selected, ScrollState, FinalRow0
    <3>. QED BY <3>2, <3>3, ScreenFacts
  <2>. QED BY <2>1, <2>2
<1>. QED BY <1>1, <1>2

-----------------------------------------------------------------------------
LEMMA InitIInv == Init => IInv
<1>. SUFFICES ASSUME Init PROVE IInv
  OBVIOUS
<1>1. screen \in Screens /\ st = InitScroll(screen) /\ pc = "init"
  BY DEF Init
<1>2. st \in ScrollState
  BY <1>1, InitScrollFacts
<1>3. timeout \in [have : BOOLEAN, left : Nat]
  <2>1. screen.TimeoutSeconds \in Nat
    BY <1>1, ScreenFacts
  <2>. QED BY <2>1 DEF Init
<1>4. TypeOK
  BY <1>1, <1>2, <1>3 DEF Init, TypeOK, Exits
<1>. QED BY <1>1, <1>4 DEF IInv

LEMMA BeginIInv ==
  IInv /\ Begin => IInv' /\ st'.CurrentSelection = Contract!Default(Request(screen))
<1>. SUFFICES ASSUME IInv, Begin
     PROVE  IInv' /\ st'.CurrentSelection = Contract!Default(Request(screen))
  OBVIOUS
<1>. DEFINE s == screen
            r == IdentifyRows(s, st)
            e == [r EXCEPT !.CurrentSelection = s.default]
            d == IF s.default \in Entries(s) THEN UpdateScroll(s, e, "NONE") ELSE r
<1>1. /\ st = InitScroll(s) /\ s \in Screens /\ TypeOK
      /\ st' = [d EXCEPT !.PaintAll = TRUE] /\ pc' = "paint"
      /\ UNCHANGED <<screen, timeout, painted, exit, chosen>>
  BY DEF IInv, TypeOK, Begin
<1>2. /\ st \in ScrollState /\ st.CurrentSelection = 0 /\ st.PreviousSelection = 0
      /\ st.MaxIndex = Count(s) - 1 /\ st.FirstVisible = 0
      /\ st.MaxVisible >= 1 /\ st.LastVisible = st.MaxVisible - 1
  BY <1>1, InitScrollFacts
<1>. DEFINE mv == IF Icons(s) /\ st.MaxVisible > FinalRow0(s) + 1
                  THEN FinalRow0(s) + 1 ELSE st.MaxVisible
<1>3. mv \in Int /\ mv >= 1 /\ mv <= st.MaxVisible /\ (Icons(s) => mv <= FinalRow0(s) + 1)
  BY <1>1, <1>2, ScreenFacts DEF ScrollState
<1>4. r = [st EXCEPT !.FinalRow0 = FinalRow0(s), !.InitialRow1 = InitialRow1(s),
                     !.MaxVisible = mv]
  BY DEF IdentifyRows
<1>5. FinalRow0(s) \in Int /\ InitialRow1(s) \in Int /\ s.default \in Int
  BY <1>1, ScreenFacts
<1>. HIDE DEF mv, r
<1>6. /\ r \in ScrollState /\ r.CurrentSelection = 0 /\ r.PreviousSelection = 0
      /\ r.MaxIndex = Count(s) - 1 /\ r.FirstVisible = 0 /\ r.MaxVisible = mv
      /\ r.LastVisible = st.LastVisible
      /\ r.FinalRow0 = FinalRow0(s) /\ r.InitialRow1 = InitialRow1(s)
  BY <1>2, <1>3, <1>4, <1>5 DEF ScrollState
<1>7. RowsKnown(s, r) /\ Selected(s, r) /\ (Icons(s) => WindowKnown(s, r))
  BY <1>1, <1>2, <1>3, <1>6, ScreenFacts DEF RowsKnown, Selected, WindowKnown, ScrollState
<1>8. /\ d \in ScrollState /\ RowsKnown(s, d) /\ Selected(s, d)
      /\ Icons(s) => WindowKnown(s, d)
      /\ d.CurrentSelection = Contract!Default(Request(s))
  <2>1. CASE s.default \in Entries(s)
    <3>. DEFINE u == UpdateScroll(s, e, "NONE")
    <3>1. d = u
      BY <2>1
    <3>2. /\ e \in ScrollState /\ e.CurrentSelection = s.default /\ e.PreviousSelection = 0
          /\ e.MaxIndex = r.MaxIndex /\ e.FirstVisible = 0 /\ e.MaxVisible = mv
          /\ e.LastVisible = st.LastVisible
          /\ e.FinalRow0 = FinalRow0(s) /\ e.InitialRow1 = InitialRow1(s)
      BY <1>5, <1>6 DEF ScrollState
    <3>. HIDE DEF e
    <3>3. Moved(s, e, "NONE") = s.default
      BY <3>2 DEF Moved
    <3>. DEFINE r1 == [e EXCEPT !.PreviousSelection = e.CurrentSelection,
                                !.CurrentSelection  = s.default,
                                !.PaintAll = @ \/ ("NONE" \in {"FIRST", "LAST"} /\ s.default # e.CurrentSelection)]
                r2 == IF Icons(s) THEN r1 ELSE AdjustScrollState(r1)
                last == r2.FirstVisible + r2.MaxVisible - 1
    <3>4. u = [r2 EXCEPT !.PaintSelection = @ \/ (~r2.PaintAll /\ s.default # e.CurrentSelection),
                         !.LastVisible = last]
      BY <3>3 DEF UpdateScroll
    <3>5. /\ r1 \in ScrollState
          /\ r1.CurrentSelection = s.default /\ r1.PreviousSelection = s.default
          /\ r1.FirstVisible = 0 /\ r1.MaxVisible = mv /\ r1.MaxIndex = e.MaxIndex
          /\ r1.FinalRow0 = e.FinalRow0 /\ r1.InitialRow1 = e.InitialRow1
      BY <1>5, <3>2 DEF ScrollState
    <3>. HIDE DEF r1
    <3>6. /\ r2 \in ScrollState
          /\ r2.CurrentSelection = s.default /\ r2.PreviousSelection = s.default
          /\ r2.MaxVisible = mv /\ r2.MaxIndex = e.MaxIndex
          /\ r2.FinalRow0 = e.FinalRow0 /\ r2.InitialRow1 = e.InitialRow1
          /\ Icons(s) => r2.FirstVisible = 0
      <4>1. CASE Icons(s)
        BY <3>5, <4>1
      <4>2. CASE ~Icons(s)
        <5>1. r2 = AdjustScrollState(r1) /\ r1.MaxVisible >= 1
          BY <1>3, <3>5, <4>2
        <5>. HIDE DEF r2
        <5>. QED BY <3>5, <4>2, <5>1, AdjustFacts
      <4>. QED BY <4>1, <4>2
    <3>. HIDE DEF r2
    <3>7. last \in Int
      BY <3>6 DEF ScrollState
    <3>. HIDE DEF last
    <3>8. /\ u \in ScrollState
          /\ u.CurrentSelection = s.default /\ u.PreviousSelection = s.default
          /\ u.FirstVisible = r2.FirstVisible /\ u.LastVisible = last
          /\ u.MaxVisible = mv /\ u.MaxIndex = e.MaxIndex
          /\ u.FinalRow0 = e.FinalRow0 /\ u.InitialRow1 = e.InitialRow1
      BY <3>4, <3>6, <3>7 DEF ScrollState
    <3>. HIDE DEF u
    <3>9. RowsKnown(s, u) /\ Selected(s, u)
      BY <1>3, <1>6, <2>1, <3>2, <3>8 DEF RowsKnown, Selected, Entries
    <3>10. Icons(s) => WindowKnown(s, u)
      BY <1>1, <1>3, <1>6, <3>2, <3>6, <3>8, ScreenFacts DEF WindowKnown, last
    <3>. QED BY <2>1, <3>1, <3>8, <3>9, <3>10 DEF Contract!Default, Request, Entries
  <2>2. CASE s.default \notin Entries(s)
    BY <1>6, <1>7, <2>2 DEF Contract!Default, Request, Entries
  <2>. QED BY <2>1, <2>2
<1>. HIDE DEF d
<1>9. /\ st' \in ScrollState /\ st'.PaintAll = TRUE
      /\ st'.CurrentSelection = d.CurrentSelection
      /\ RowsKnown(s, st') /\ Selected(s, st') /\ (Icons(s) => WindowKnown(s, st'))
  BY <1>1, <1>8 DEF ScrollState, RowsKnown, Selected, WindowKnown
<1>10. IInv'
  BY <1>1, <1>9 DEF IInv, TypeOK, RowsKnown, Selected, WindowKnown
<1>. QED BY <1>8, <1>9, <1>10

LEMMA PaintAllIInv == IInv /\ PaintAll => IInv'
<1>. SUFFICES ASSUME IInv, PaintAll PROVE IInv'
  OBVIOUS
<1>. DEFINE r == PaintAllState(screen, st)
<1>1. /\ TypeOK /\ screen \in Screens /\ st \in ScrollState
      /\ RowsKnown(screen, st) /\ Selected(screen, st)
      /\ Icons(screen) => WindowKnown(screen, st)
  BY DEF IInv, TypeOK, PaintAll
<1>2. /\ r \in ScrollState /\ RowsKnown(screen, r) /\ Selected(screen, r)
      /\ Icons(screen) => WindowKnown(screen, r) /\ InWindow(r)
  BY <1>1, PaintAllFacts
<1>3. st' = [r EXCEPT !.PaintAll = FALSE]
  BY DEF PaintAll
<1>. HIDE DEF r
<1>4. /\ st' \in ScrollState
      /\ RowsKnown(screen, st') /\ Selected(screen, st')
      /\ Icons(screen) => WindowKnown(screen, st') /\ InWindow(st')
  BY <1>2, <1>3 DEF ScrollState, RowsKnown, Selected, WindowKnown, InWindow
<1>5. pc' = "read" /\ UNCHANGED <<screen, timeout, exit, chosen>>
  BY DEF PaintAll
<1>. QED BY <1>1, <1>4, <1>5 DEF IInv, TypeOK

\* A partial repaint happens only for a selection inside the window or in row 1.
LEMMA PaintSelectionIInv == IInv /\ PaintSelection => IInv'
<1>. SUFFICES ASSUME IInv, PaintSelection PROVE IInv'
  OBVIOUS
<1>. DEFINE r == IF NeedsFullPaint(screen, st) THEN PaintAllState(screen, st) ELSE st
<1>1. /\ TypeOK /\ screen \in Screens /\ st \in ScrollState
      /\ RowsKnown(screen, st) /\ Selected(screen, st)
      /\ Icons(screen) => WindowKnown(screen, st)
  BY DEF IInv, TypeOK, PaintSelection
<1>2. /\ r \in ScrollState /\ RowsKnown(screen, r) /\ Selected(screen, r)
      /\ Icons(screen) => WindowKnown(screen, r) /\ InWindow(r)
  <2>1. CASE NeedsFullPaint(screen, st)
    BY <1>1, <2>1, PaintAllFacts
  <2>2. CASE ~NeedsFullPaint(screen, st)
    <3>1. ASSUME Icons(screen) PROVE InWindow(st)
      <4>1. \/ st.CurrentSelection \in st.FirstVisible .. st.LastVisible
            \/ st.CurrentSelection >= st.InitialRow1
        BY <1>1, <2>2, <3>1 DEF NeedsFullPaint, ScrollState
      <4>2. CASE st.CurrentSelection \in st.FirstVisible .. st.LastVisible
        BY <1>1, <4>2 DEF InWindow, ScrollState
      <4>3. CASE st.CurrentSelection >= st.InitialRow1
        <5>1. CASE screen.row0 + screen.row1 = 1 \/ screen.row0 = 0
          \* one entry, or no row 0: the first entry is selected or row 1 is
          BY <1>1, <3>1, <5>1, ScreenFacts
             DEF InWindow, WindowKnown, RowsKnown, Selected, ScrollState, FinalRow0, Count
        <5>2. CASE screen.row0 + screen.row1 > 1 /\ screen.row0 > 0
          BY <1>1, <3>1, <4>3, <5>2, ScreenFacts
             DEF InWindow, RowsKnown, Selected, ScrollState, FinalRow0, InitialRow1, Count
        <5>. QED BY <1>1, <5>1, <5>2, ScreenFacts DEF Count
      <4>. QED BY <4>1, <4>2, <4>3
    <3>. QED BY <1>1, <2>2, <3>1
  <2>. QED BY <2>1, <2>2
<1>3. st' = [r EXCEPT !.PaintSelection = FALSE]
  BY DEF PaintSelection
<1>. HIDE DEF r
<1>4. /\ st' \in ScrollState
      /\ RowsKnown(screen, st') /\ Selected(screen, st')
      /\ Icons(screen) => WindowKnown(screen, st') /\ InWindow(st')
  BY <1>2, <1>3 DEF ScrollState, RowsKnown, Selected, WindowKnown, InWindow
<1>5. pc' = "read" /\ UNCHANGED <<screen, timeout, exit, chosen>>
  BY DEF PaintSelection
<1>. QED BY <1>1, <1>4, <1>5 DEF IInv, TypeOK

LEMMA KeyMoveIInv ==
  ASSUME IInv, NEW m \in Movements, KeyMove(m) PROVE IInv'
<1>1. /\ TypeOK /\ screen \in Screens /\ st \in ScrollState
      /\ RowsKnown(screen, st) /\ Selected(screen, st)
      /\ Icons(screen) => WindowKnown(screen, st) /\ InWindow(st)
  BY DEF IInv, TypeOK, KeyMove
<1>2. st' = UpdateScroll(screen, st, m)
  BY DEF KeyMove
<1>3. /\ st' \in ScrollState /\ RowsKnown(screen, st') /\ Selected(screen, st')
      /\ Icons(screen) => WindowKnown(screen, st')
      /\ Icons(screen) /\ ~st'.PaintAll /\ ~st'.PaintSelection => InWindow(st')
  BY <1>1, <1>2, UpdateScrollFacts
<1>4. pc' = "paint" /\ UNCHANGED <<screen, exit, chosen>>
  BY DEF KeyMove
<1>5. timeout' \in [have : BOOLEAN, left : Nat]
  BY <1>1 DEF KeyMove, CancelTimeout, TypeOK
<1>. QED BY <1>1, <1>3, <1>4, <1>5 DEF IInv, TypeOK

\* The steps that leave the scroll state alone.
LEMMA QuietIInv ==
  IInv /\ (PaintNothing \/ Wait \/ Tick \/ KeyIgnored \/ UNCHANGED vars) => IInv'
<1>. SUFFICES ASSUME IInv, PaintNothing \/ Wait \/ Tick \/ KeyIgnored \/ UNCHANGED vars
     PROVE IInv'
  OBVIOUS
<1>1. UNCHANGED <<screen, st, exit, chosen>>
  BY DEF PaintNothing, Wait, Tick, KeyIgnored, vars
<1>2. timeout' \in [have : BOOLEAN, left : Nat]
  <2>1. CASE Tick
    BY <2>1 DEF IInv, TypeOK, Tick
  <2>2. CASE KeyIgnored
    BY <2>2 DEF IInv, TypeOK, KeyIgnored, CancelTimeout
  <2>3. CASE PaintNothing \/ Wait \/ UNCHANGED vars
    BY <2>3 DEF IInv, TypeOK, PaintNothing, Wait, vars
  <2>. QED BY <2>1, <2>2, <2>3
<1>3. \/ pc' = "paint" /\ pc = "read"
      \/ pc' = "read" /\ pc = "paint" /\ ~st.PaintAll /\ ~st.PaintSelection
      \/ pc' = pc
  BY DEF PaintNothing, Wait, Tick, KeyIgnored, vars
<1>. QED BY <1>1, <1>2, <1>3 DEF IInv, TypeOK

LEMMA LeaveIInv ==
  ASSUME IInv, pc = "read", NEW code \in Exits, NEW i \in Entries(screen),
         Leave(code, i), timeout' = timeout \/ CancelTimeout
  PROVE  IInv'
<1>1. /\ TypeOK /\ screen \in Screens /\ st \in ScrollState
      /\ RowsKnown(screen, st) /\ Selected(screen, st)
  BY DEF IInv, TypeOK
<1>2. i \in Int /\ i \in 0 .. Count(screen) - 1
  BY <1>1, ScreenFacts DEF Entries
<1>3. st' = [st EXCEPT !.CurrentSelection = i] /\ pc' = "done" /\ exit' = code
      /\ chosen' = i /\ screen' = screen
  BY DEF Leave
<1>4. st' \in ScrollState /\ RowsKnown(screen, st') /\ Selected(screen, st')
  BY <1>1, <1>2, <1>3 DEF ScrollState, RowsKnown, Selected
<1>5. timeout' \in [have : BOOLEAN, left : Nat]
  BY <1>1 DEF CancelTimeout, TypeOK
<1>. QED BY <1>1, <1>2, <1>3, <1>4, <1>5 DEF IInv, TypeOK

LEMMA NextIInv == IInv /\ [Next]_vars => IInv'
<1>. SUFFICES ASSUME IInv, [Next]_vars PROVE IInv'
  OBVIOUS
<1>0. pc = "read" => st.CurrentSelection \in Entries(screen)
  BY DEF IInv, Selected, Entries
<1>1. CASE Begin
  BY <1>1, BeginIInv
<1>2. CASE PaintAll
  BY <1>2, PaintAllIInv
<1>3. CASE PaintSelection
  BY <1>3, PaintSelectionIInv
<1>4. CASE PaintNothing \/ Wait \/ Tick \/ KeyIgnored \/ UNCHANGED vars
  BY <1>4, QuietIInv
<1>5. CASE Expire
  BY <1>0, <1>5, LeaveIInv DEF Expire, Exits
<1>6. ASSUME NEW m \in Movements, KeyMove(m) PROVE IInv'
  BY <1>6, KeyMoveIInv
<1>7. ASSUME NEW code \in {"ENTER", "ESCAPE", "DETAILS"}, KeyExit(code) PROVE IInv'
  BY <1>0, <1>7, LeaveIInv DEF KeyExit, Exits
<1>8. ASSUME NEW i \in Entries(screen), KeyShortcut(i) PROVE IInv'
  BY <1>8, LeaveIInv DEF KeyShortcut, Exits
<1>. QED
  BY <1>1, <1>2, <1>3, <1>4, <1>5, <1>6, <1>7, <1>8 DEF Next, Program, User, Done

(* The invariant holds in every reachable state of RunGenericMenu().       *)
THEOREM MenuInvariant == Spec => []IInv
<1>1. Init => IInv
  BY InitIInv
<1>2. IInv /\ [Next]_vars => IInv'
  BY NextIInv
<1>. QED BY <1>1, <1>2, PTL DEF Spec

(* The variables of RunGenericMenu() keep their types: in particular the   *)
(* countdown, an unsigned integer in the code, never runs below zero.      *)
THEOREM MenuTypeCorrect == Spec => []TypeOK
<1>1. IInv => TypeOK
  BY DEF IInv
<1>. QED BY <1>1, MenuInvariant, PTL

(* Entries[] is never indexed out of range by CurrentSelection or          *)
(* PreviousSelection, for any number of entries in the two rows, display   *)
(* size, max_tags, style, and sequence of keys.                            *)
THEOREM MenuSelectionInRange == Spec => []SelectionInRange
<1>1. IInv => SelectionInRange
  <2>. SUFFICES ASSUME IInv PROVE SelectionInRange
    OBVIOUS
  <2>1. CASE pc = "init"
    BY <2>1, InitScrollFacts, ScreenFacts DEF IInv, TypeOK, SelectionInRange, Entries
  <2>2. CASE pc # "init"
    BY <2>2 DEF IInv, Selected, SelectionInRange, Entries
  <2>. QED BY <2>1, <2>2
<1>. QED BY <1>1, MenuInvariant, PTL

-----------------------------------------------------------------------------
\* While the countdown runs no key was pressed: the default entry is selected.
Untouched ==
  /\ pc = "done" <=> exit # "NONE"
  /\ timeout.have => /\ screen.TimeoutSeconds > 0
                     /\ pc # "init" => st.CurrentSelection = Contract!Default(Request(screen))

\* A full repaint leaves the selection alone.
LEMMA SelectionKept ==
  ASSUME NEW s \in Screens, NEW r \in ScrollState, r.MaxVisible >= 1
  PROVE  /\ PaintAllState(s, r) \in ScrollState
         /\ PaintAllState(s, r).CurrentSelection = r.CurrentSelection
BY AdjustFacts DEF PaintAllState

LEMMA UntouchedStep == IInv /\ Untouched /\ [Next]_vars => Untouched'
<1>. SUFFICES ASSUME IInv, Untouched, [Next]_vars PROVE Untouched'
  OBVIOUS
<1>0. TypeOK /\ screen \in Screens /\ st \in ScrollState
  BY DEF IInv, TypeOK
<1>1. CASE Begin
  BY <1>1, BeginIInv DEF Begin, Untouched, Request
<1>2. CASE PaintAll \/ PaintSelection
  <2>1. st.MaxVisible >= 1 /\ st'.CurrentSelection = st.CurrentSelection
    <3>. st.MaxVisible >= 1
      BY <1>2 DEF IInv, RowsKnown, PaintAll, PaintSelection
    <3>. DEFINE q == PaintAllState(screen, st)
    <3>1. q \in ScrollState /\ q.CurrentSelection = st.CurrentSelection
      BY <1>0, SelectionKept
    <3>2. \/ st' = [q EXCEPT !.PaintAll = FALSE]
          \/ st' = [q EXCEPT !.PaintSelection = FALSE]
          \/ st' = [st EXCEPT !.PaintSelection = FALSE]
      BY <1>2 DEF PaintAll, PaintSelection
    <3>. HIDE DEF q
    <3>. QED BY <1>0, <3>1, <3>2 DEF ScrollState
  <2>. QED BY <1>2, <2>1 DEF PaintAll, PaintSelection, Untouched, Request
<1>3. CASE PaintNothing \/ Wait \/ Tick \/ Done \/ UNCHANGED vars
  BY <1>0, <1>3 DEF PaintNothing, Wait, Tick, Done, vars, Untouched, Request, TypeOK
<1>4. CASE User
  <2>1. timeout'.have = FALSE
    BY <1>0, <1>4 DEF User, KeyMove, KeyIgnored, KeyExit, KeyShortcut, CancelTimeout, TypeOK
  <2>2. pc = "read" /\ (pc' = "done" <=> exit' # exit) /\ (pc' = "done" => exit' # "NONE")
    BY <1>4 DEF User, KeyMove, KeyIgnored, KeyExit, KeyShortcut, Leave, Untouched
  <2>. QED BY <2>1, <2>2 DEF Untouched
<1>5. CASE Expire
  <2>1. st'.CurrentSelection = st.CurrentSelection
    BY <1>0, <1>5 DEF Expire, Leave, ScrollState
  <2>. QED BY <1>5, <2>1 DEF Expire, Leave, Untouched, Request
<1>. QED BY <1>1, <1>2, <1>3, <1>4, <1>5 DEF Next, Program

\* Leaving the loop is the one step of the contract; all others stutter.
LEMMA StepKeepsContract ==
  IInv /\ Untouched /\ [Next]_vars => [Contract!Return]_<<Request(screen), exit, chosen>>
<1>. SUFFICES ASSUME IInv, Untouched, [Next]_vars
     PROVE  Contract!Return \/ UNCHANGED <<Request(screen), exit, chosen>>
  OBVIOUS
<1>1. ASSUME NEW code \in Exits, NEW i \in Entries(screen), Leave(code, i), pc = "read",
             code = "TIMEOUT" => timeout.have /\ i = st.CurrentSelection
      PROVE  Contract!Return
  <2>1. <<code, i>> \in Contract!Outcomes(Request(screen))
    BY <1>1 DEF Contract!Outcomes, Request, Entries, Exits, Untouched
  <2>2. exit = "NONE" /\ exit' = code /\ chosen' = i /\ screen' = screen
    BY <1>1 DEF Leave, Untouched
  <2>. QED BY <2>1, <2>2 DEF Contract!Return
<1>2. pc = "read" => st.CurrentSelection \in Entries(screen)
  BY DEF IInv, Selected, Entries
<1>3. CASE Expire
  BY <1>1, <1>2, <1>3 DEF Expire, Exits
<1>4. ASSUME NEW code \in {"ENTER", "ESCAPE", "DETAILS"}, KeyExit(code) PROVE Contract!Return
  BY <1>1, <1>2, <1>4 DEF KeyExit, Exits
<1>5. ASSUME NEW i \in Entries(screen), KeyShortcut(i) PROVE Contract!Return
  BY <1>1, <1>5 DEF KeyShortcut, Exits
<1>6. CASE \/ Begin \/ PaintAll \/ PaintSelection \/ PaintNothing \/ Tick \/ Wait
           \/ KeyIgnored \/ (\E m \in Movements \ {"NONE"} : KeyMove(m)) \/ UNCHANGED vars
  BY <1>6 DEF Begin, PaintAll, PaintSelection, PaintNothing, Tick, Wait, KeyIgnored, KeyMove, vars
<1>. QED BY <1>3, <1>4, <1>5, <1>6 DEF Next, Program, User, Done

(* RunGenericMenu() keeps the contract for every screen: it is left once,  *)
(* with an index of an entry, and by a timeout only with the default entry *)
(* of a screen that has one.  The strengthening says that while the        *)
(* countdown runs the default entry is the selected one.                   *)
THEOREM MenuKeepsContract == Spec => KeepsContract
<1>1. Init => Contract!Init
  BY DEF Init, Contract!Init
<1>2. Init => Untouched
  <2>. SUFFICES ASSUME Init PROVE Untouched
    OBVIOUS
  <2>1. timeout.have = (screen.TimeoutSeconds > 0)
    BY ZenonT(30) DEF Init
  <2>2. pc = "init" /\ exit = "NONE"
    BY DEF Init
  <2>. QED BY <2>1, <2>2 DEF Untouched
<1>3. IInv /\ Untouched /\ [Next]_vars => Untouched'
  BY UntouchedStep
<1>4. IInv /\ Untouched /\ [Next]_vars => [Contract!Return]_<<Request(screen), exit, chosen>>
  BY StepKeepsContract
<1>. QED BY <1>1, <1>2, <1>3, <1>4, MenuInvariant, PTL DEF Spec, KeepsContract, Contract!Spec

-----------------------------------------------------------------------------
(* The display.  Whatever the window, a full repaint draws the same places, *)
(* so that the display is a picture of the state: it shows in each place    *)
(* the entry that belongs there, and one of them selected.  Between a key   *)
(* and the next repaint it is the picture of the selection before the key.  *)

Spots(s, mv) ==
  { p \in {0, 1} \X Entries(s) :
      /\ s.style \in {"graphics", "text"} => p[1] = 0
      /\ s.style = "text" => p[2] < mv
      /\ Icons(s) /\ p[1] = 0 => p[2] < mv /\ s.row0 > 0
      /\ p[1] = 1 => p[2] >= s.row0 }
EntryAt(s, first, p) == IF s.style = "graphics" \/ p[1] = 1 THEN p[2] ELSE p[2] + first
Picture(s, mv, first, sel) ==
  [ p \in Spots(s, mv) |-> [entry |-> EntryAt(s, first, p), lit |-> EntryAt(s, first, p) = sel] ]

\* Entry i is in the window, or is drawn whatever the window is.
InView(s, r, i) ==
  /\ i \in Entries(s)
  /\ s.style = "text" \/ (Icons(s) /\ i < s.row0) =>
       r.FirstVisible <= i /\ i <= r.FirstVisible + r.MaxVisible - 1

\* The window is filled, so that every full repaint draws the same places.
Filled(s, r) ==
  /\ s.style # "graphics" => r.FirstVisible >= 0
  /\ s.style = "text" =>
       /\ r.LastVisible = r.FirstVisible + r.MaxVisible - 1
       /\ r.FirstVisible = 0 \/ r.LastVisible <= r.MaxIndex
  /\ Icons(s) =>
       /\ r.FirstVisible + r.MaxVisible - 1 <= r.FinalRow0
       /\ \/ r.LastVisible = r.FirstVisible + r.MaxVisible - 1
          \/ r.FirstVisible = 0 /\ r.MaxVisible = r.FinalRow0 + 1 /\ r.LastVisible >= r.FinalRow0

Shows(sel) == painted = Picture(screen, st.MaxVisible, st.FirstVisible, sel)

InStep ==
  /\ pc = "init" => DOMAIN painted = {}
  /\ pc \in {"paint", "read"} =>
       Filled(screen, st) /\ DOMAIN painted \subseteq Spots(screen, st.MaxVisible)
  /\ pc = "paint" =>
       /\ screen.style = "text" => InView(screen, st, st.CurrentSelection)
       /\ st.PaintAll => ~st.PaintSelection
       /\ ~st.PaintAll /\ st.PaintSelection =>
            Shows(st.PreviousSelection) /\ InView(screen, st, st.PreviousSelection)
       /\ ~st.PaintAll /\ ~st.PaintSelection =>
            Shows(st.CurrentSelection) /\ InView(screen, st, st.CurrentSelection)
  /\ pc = "read" =>
       Shows(st.CurrentSelection) /\ InView(screen, st, st.CurrentSelection) /\ ~st.PaintSelection

\* An icon menu has a tool.  Without one the rows are identified wrongly (the
\* scan stops before the last entry) and the last loader stays lit after Home.
HasTools == \A s \in Screens : Icons(s) => s.row1 > 0

\* Where the rows begin in a menu with tools.
LEMMA RowFacts ==
  ASSUME HasTools, NEW s \in Screens, NEW r \in ScrollState, RowsKnown(s, r)
  PROVE  /\ s.style \in {"text", "graphics", "icons"}
         /\ s.row0 \in Nat /\ s.row1 \in Nat /\ Count(s) = s.row0 + s.row1
         /\ r.MaxIndex = Count(s) - 1 /\ r.MaxVisible \in Int /\ r.MaxVisible >= 1
         /\ r.FirstVisible \in Int /\ r.LastVisible \in Int
         /\ r.CurrentSelection \in Int /\ r.PreviousSelection \in Int
         /\ Icons(s) => /\ s.row1 > 0 /\ r.MaxVisible <= r.FinalRow0 + 1
                        /\ r.FinalRow0 = IF s.row0 = 0 THEN 0 ELSE s.row0 - 1
                        /\ r.InitialRow1 = s.row0
<1>1. s.row0 \in Nat /\ s.row1 \in Nat /\ s.style \in {"text", "graphics", "icons"}
  BY ScreensAssumption DEF ScreenType
<1>2. Count(s) = s.row0 + s.row1
  BY DEF Count
<1>3. /\ r.MaxIndex = Count(s) - 1 /\ r.MaxVisible \in Int /\ r.MaxVisible >= 1
      /\ r.FirstVisible \in Int /\ r.LastVisible \in Int
      /\ r.CurrentSelection \in Int /\ r.PreviousSelection \in Int
  BY DEF RowsKnown, ScrollState
<1>4. ASSUME Icons(s)
      PROVE  /\ s.row1 > 0 /\ r.MaxVisible <= r.FinalRow0 + 1
             /\ r.FinalRow0 = IF s.row0 = 0 THEN 0 ELSE s.row0 - 1
             /\ r.InitialRow1 = s.row0
  <2>1. s.row1 > 0
    BY <1>4 DEF HasTools
  <2>2. FinalRow0(s) = IF s.row0 = 0 THEN 0 ELSE s.row0 - 1
    BY <1>1, <1>2, <2>1 DEF FinalRow0
  <2>3. InitialRow1(s) = s.row0
    BY <1>1, <1>2, <2>1 DEF InitialRow1
  <2>. QED BY <1>4, <2>1, <2>2, <2>3 DEF RowsKnown
<1>. QED BY <1>1, <1>2, <1>3, <1>4

LEMMA PositionForm ==
  ASSUME NEW s \in Screens, NEW r \in ScrollState, NEW i \in Entries(s)
  PROVE  /\ s.style = "graphics" => Position(s, r, i) = <<0, i>>
         /\ s.style = "text" => Position(s, r, i) = <<0, i - r.FirstVisible>>
         /\ Icons(s) /\ i >= s.row0 => Position(s, r, i) = <<1, i>>
         /\ Icons(s) /\ i < s.row0 => Position(s, r, i) = <<0, i - r.FirstVisible>>
<1>1. s.row0 \in Nat /\ i \in Int
  BY ScreenFacts DEF Entries
<1>2. Row(s, i) = 1 <=> i >= s.row0
  BY <1>1 DEF Row
<1>3. CASE s.style = "graphics"
  BY <1>3 DEF Position, Icons
<1>4. CASE s.style # "graphics" /\ ~(Icons(s) /\ Row(s, i) = 1)
  BY <1>2, <1>4 DEF Position
<1>5. CASE s.style # "graphics" /\ Icons(s) /\ Row(s, i) = 1
  <2>1. Position(s, r, i) = <<1, i>>
    BY <1>5 DEF Position
  <2>. QED BY <1>1, <1>2, <1>5, <2>1 DEF Icons
<1>. QED BY <1>3, <1>4, <1>5

\* The entries in view and the places correspond.
LEMMA PositionInView ==
  ASSUME HasTools, NEW s \in Screens, NEW r \in ScrollState, RowsKnown(s, r), Filled(s, r),
         NEW i, InView(s, r, i)
  PROVE  /\ Position(s, r, i) \in Spots(s, r.MaxVisible)
         /\ EntryAt(s, r.FirstVisible, Position(s, r, i)) = i
<1>1. i \in Entries(s) /\ i \in Int
  BY ScreenFacts DEF InView, Entries
<1>2. Entries(s) = 0 .. Count(s) - 1
  BY DEF Entries
<1>3. CASE s.style = "graphics"
  BY <1>1, <1>3, PositionForm DEF Spots, EntryAt, Icons
<1>4. CASE s.style = "text"
  <2>1. Position(s, r, i) = <<0, i - r.FirstVisible>>
    BY <1>1, <1>4, PositionForm
  <2>2. i - r.FirstVisible \in 0 .. Count(s) - 1 /\ i - r.FirstVisible < r.MaxVisible
    BY <1>1, <1>2, <1>4, RowFacts, SMTT(40) DEF InView, Filled
  <2>3. i - r.FirstVisible + r.FirstVisible = i
    BY <1>1, RowFacts
  <2>. QED BY <1>2, <1>4, <2>1, <2>2, <2>3 DEF Spots, EntryAt, Icons
<1>5. CASE Icons(s) /\ i >= s.row0
  <2>1. Position(s, r, i) = <<1, i>>
    BY <1>1, <1>5, PositionForm
  <2>. QED BY <1>1, <1>5, <2>1 DEF Spots, EntryAt, Icons
<1>6. CASE Icons(s) /\ i < s.row0
  <2>1. Position(s, r, i) = <<0, i - r.FirstVisible>>
    BY <1>1, <1>6, PositionForm
  <2>2. /\ i - r.FirstVisible \in 0 .. Count(s) - 1 /\ i - r.FirstVisible < r.MaxVisible
        /\ s.row0 > 0
    <3>1. r.FirstVisible >= 0 /\ r.FirstVisible <= i /\ i <= r.FirstVisible + r.MaxVisible - 1
      BY <1>6 DEF InView, Filled, Icons
    <3>2. /\ s.row0 \in Nat /\ r.FirstVisible \in Int /\ r.MaxVisible \in Int
          /\ Count(s) \in Int
      BY RowFacts
    <3>. QED BY <1>1, <1>2, <1>6, <3>1, <3>2
  <2>3. i - r.FirstVisible + r.FirstVisible = i
    BY <1>1, RowFacts
  <2>. QED BY <1>2, <1>6, <2>1, <2>2, <2>3 DEF Spots, EntryAt, Icons
<1>. QED BY <1>1, <1>3, <1>4, <1>5, <1>6, RowFacts DEF Icons

LEMMA PlaceInView ==
  ASSUME HasTools, NEW s \in Screens, NEW r \in ScrollState, RowsKnown(s, r), Filled(s, r),
         NEW p \in Spots(s, r.MaxVisible)
  PROVE  /\ InView(s, r, EntryAt(s, r.FirstVisible, p))
         /\ Position(s, r, EntryAt(s, r.FirstVisible, p)) = p
<1>. DEFINE i == EntryAt(s, r.FirstVisible, p)
<1>1. p = <<p[1], p[2]>> /\ p[1] \in {0, 1} /\ p[2] \in Entries(s)
  BY DEF Spots
<1>2. Entries(s) = 0 .. Count(s) - 1
  BY DEF Entries
<1>3. CASE s.style = "graphics"
  <2>1. i = p[2] /\ p[1] = 0
    BY <1>3 DEF EntryAt, Spots
  <2>2. InView(s, r, i)
    BY <1>1, <1>3, <2>1 DEF InView, Icons
  <2>. HIDE DEF i
  <2>. QED BY <1>1, <1>3, <2>1, <2>2, PositionForm DEF i
<1>4. CASE s.style = "text"
  <2>1. i = p[2] + r.FirstVisible /\ p[1] = 0 /\ p[2] < r.MaxVisible
    BY <1>4 DEF EntryAt, Spots
  <2>. HIDE DEF i
  <2>2. InView(s, r, i)
    BY <1>1, <1>2, <1>4, <2>1, RowFacts, SMTT(40) DEF InView, Filled, Icons
  <2>3. i \in Entries(s) /\ i - r.FirstVisible = p[2]
    BY <1>1, <1>2, <2>1, <2>2, RowFacts DEF InView
  <2>. QED BY <1>1, <1>4, <2>1, <2>2, <2>3, PositionForm DEF i
<1>5. CASE Icons(s) /\ p[1] = 1
  <2>1. i = p[2] /\ p[2] >= s.row0
    BY <1>5 DEF EntryAt, Spots
  <2>. HIDE DEF i
  <2>2. InView(s, r, i)
    BY <1>1, <1>2, <1>5, <2>1, RowFacts DEF InView, Icons
  <2>. QED BY <1>1, <1>5, <2>1, <2>2, PositionForm DEF i
<1>6. CASE Icons(s) /\ p[1] = 0
  <2>1. i = p[2] + r.FirstVisible /\ p[2] < r.MaxVisible /\ s.row0 > 0
    BY <1>6 DEF EntryAt, Spots, Icons
  <2>. HIDE DEF i
  <2>2. i \in Entries(s) /\ i < s.row0 /\ i - r.FirstVisible = p[2] /\ i - r.FirstVisible >= 0
        /\ i <= r.FirstVisible + r.MaxVisible - 1
    <3>1. r.FirstVisible >= 0 /\ r.FirstVisible + r.MaxVisible - 1 <= r.FinalRow0
      BY <1>6 DEF Filled, Icons
    <3>2. /\ s.row0 \in Nat /\ s.row1 \in Nat /\ Count(s) = s.row0 + s.row1
          /\ r.FirstVisible \in Int /\ r.MaxVisible \in Int
          /\ r.FinalRow0 = s.row0 - 1
      BY <1>6, <2>1, RowFacts
    <3>3. p[2] \in Int /\ p[2] >= 0
      BY <1>1, <1>2, <3>2
    <3>4. /\ i \in 0 .. Count(s) - 1 /\ i < s.row0 /\ i - r.FirstVisible = p[2]
          /\ i <= r.FirstVisible + r.MaxVisible - 1
      BY <2>1, <3>1, <3>2, <3>3
    <3>. QED BY <1>2, <3>3, <3>4
  <2>3. InView(s, r, i)
    BY <1>1, <1>2, <2>1, <2>2, RowFacts DEF InView
  <2>. QED BY <1>1, <1>6, <2>1, <2>2, <2>3, PositionForm DEF i
<1>. QED BY <1>1, <1>3, <1>4, <1>5, <1>6, RowFacts DEF Icons

LEMMA DrawnInView ==
  ASSUME HasTools, NEW s \in Screens, NEW r \in ScrollState, RowsKnown(s, r), Filled(s, r), NEW i
  PROVE  i \in Drawn(s, r) <=> InView(s, r, i)
<1>. SUFFICES ASSUME i \in Entries(s) PROVE i \in Drawn(s, r) <=> InView(s, r, i)
  BY DEF Drawn, InView
<1>1. i \in 0 .. Count(s) - 1 /\ i \in Int
  BY ScreenFacts DEF Entries
<1>2. CASE s.style = "graphics"
  BY <1>2 DEF Drawn, InView, Icons
<1>3. CASE s.style = "text"
  BY <1>1, <1>3, RowFacts DEF Drawn, InView, Icons, Filled
<1>4. CASE Icons(s) /\ i >= s.row0
  BY <1>1, <1>4, RowFacts DEF Drawn, InView, Icons, Filled, Row
<1>5. CASE Icons(s) /\ i < s.row0
  BY <1>1, <1>5, RowFacts DEF Drawn, InView, Icons, Filled, Row
<1>. QED BY <1>1, <1>2, <1>3, <1>4, <1>5, RowFacts DEF Icons

\* A full repaint makes the display the picture of the state.
LEMMA FullPaint ==
  ASSUME HasTools, NEW s \in Screens, NEW r \in ScrollState, RowsKnown(s, r), Filled(s, r),
         NEW old, DOMAIN old \subseteq Spots(s, r.MaxVisible)
  PROVE  PaintEntries(s, r, old) = Picture(s, r.MaxVisible, r.FirstVisible, r.CurrentSelection)
<1>. DEFINE places == { Position(s, r, i) : i \in Drawn(s, r) }
            spots == Spots(s, r.MaxVisible)
            At(p) == EntryAt(s, r.FirstVisible, p)
            Who(p) == CHOOSE i \in Drawn(s, r) : Position(s, r, i) = p
<1>1. \A i \in Drawn(s, r) : Position(s, r, i) \in spots /\ At(Position(s, r, i)) = i
  BY DrawnInView, PositionInView
<1>2. \A p \in spots : At(p) \in Drawn(s, r) /\ Position(s, r, At(p)) = p
  BY DrawnInView, PlaceInView
<1>. HIDE DEF spots, At
<1>3. places = spots
  BY <1>1, <1>2
<1>4. \A p \in spots : Who(p) = At(p)
  <2>. SUFFICES ASSUME NEW p \in spots PROVE Who(p) = At(p)
    OBVIOUS
  <2>1. Who(p) \in Drawn(s, r) /\ Position(s, r, Who(p)) = p
    BY <1>2
  <2>. QED BY <1>1, <2>1
<1>. HIDE DEF Who
<1>5. PaintEntries(s, r, old) =
        [p \in places \cup DOMAIN old |-> IF p \in places THEN Cell(r, Who(p)) ELSE old[p]]
  BY DEF PaintEntries, Who
<1>. HIDE DEF places
<1>6. places \cup DOMAIN old = spots
  BY <1>3 DEF spots
<1>7. PaintEntries(s, r, old) = [p \in spots |-> Cell(r, At(p))]
  BY <1>3, <1>4, <1>5, <1>6
<1>. QED BY <1>7 DEF Picture, Cell, At, spots

\* Where the selection moved inside the window, two places are enough.
LEMMA PartialPaint ==
  ASSUME HasTools, NEW s \in Screens, NEW r \in ScrollState, RowsKnown(s, r), Filled(s, r),
         InView(s, r, r.CurrentSelection), InView(s, r, r.PreviousSelection),
         NEW old, old = Picture(s, r.MaxVisible, r.FirstVisible, r.PreviousSelection)
  PROVE  PaintTwo(s, r, old) = Picture(s, r.MaxVisible, r.FirstVisible, r.CurrentSelection)
<1>. DEFINE spots == Spots(s, r.MaxVisible)
            At(p) == EntryAt(s, r.FirstVisible, p)
            now == Position(s, r, r.CurrentSelection)
            before == Position(s, r, r.PreviousSelection)
            new == PaintTwo(s, r, old)
            pict == Picture(s, r.MaxVisible, r.FirstVisible, r.CurrentSelection)
<1>1. /\ now \in spots /\ At(now) = r.CurrentSelection
      /\ before \in spots /\ At(before) = r.PreviousSelection
  BY PositionInView
<1>2. \A p \in spots : Position(s, r, At(p)) = p
  BY PlaceInView
<1>3. DOMAIN old = spots /\ \A p \in spots : old[p] = [entry |-> At(p), lit |-> At(p) = r.PreviousSelection]
  BY DEF Picture
<1>4. DOMAIN pict = spots /\ \A p \in spots : pict[p] = [entry |-> At(p), lit |-> At(p) = r.CurrentSelection]
  BY DEF Picture
<1>. HIDE DEF spots, At
<1>5. new = [ p \in {now, before} \cup DOMAIN old |->
                CASE p = now -> Cell(r, r.CurrentSelection)
                  [] p = before /\ p # now -> [entry |-> r.PreviousSelection, lit |-> FALSE]
                  [] p \notin {now, before} -> old[p] ]
  BY DEF PaintTwo
<1>6. {now, before} \cup DOMAIN old = spots
  BY <1>1, <1>3
<1>7. pict = [p \in spots |-> pict[p]]
  BY <1>4 DEF Picture, spots
<1>. HIDE DEF new, pict, now, before
<1>8. ASSUME NEW p \in spots PROVE new[p] = pict[p]
  <2>1. CASE p = now
    <3>1. new[p] = Cell(r, r.CurrentSelection)
      BY <1>5, <1>6, <2>1
    <3>. QED BY <1>1, <1>4, <2>1, <3>1 DEF Cell
  <2>2. CASE p = before /\ p # now
    <3>1. new[p] = [entry |-> r.PreviousSelection, lit |-> FALSE]
      BY <1>5, <1>6, <2>2
    <3>2. r.PreviousSelection # r.CurrentSelection
      BY <2>2 DEF now, before
    <3>. QED BY <1>1, <1>4, <2>2, <3>1, <3>2
  <2>3. CASE p \notin {now, before}
    <3>1. new[p] = old[p]
      BY <1>5, <1>6, <2>3
    <3>2. At(p) # r.CurrentSelection /\ At(p) # r.PreviousSelection
      BY <1>2, <2>3 DEF now, before
    <3>. QED BY <1>3, <1>4, <3>1, <3>2
  <2>. QED BY <2>1, <2>2, <2>3
<1>9. DOMAIN new = spots /\ new = [p \in spots |-> new[p]]
  BY <1>5, <1>6
<1>. QED BY <1>7, <1>8, <1>9 DEF new, pict

LEMMA PictureInSync ==
  ASSUME HasTools, NEW s \in Screens, NEW r \in ScrollState, RowsKnown(s, r), Filled(s, r),
         InView(s, r, r.CurrentSelection),
         NEW f, f = Picture(s, r.MaxVisible, r.FirstVisible, r.CurrentSelection)
  PROVE  /\ { p \in DOMAIN f : f[p].lit } = {Position(s, r, r.CurrentSelection)}
         /\ \A i \in Drawn(s, r) : /\ Position(s, r, i) \in DOMAIN f
                                   /\ f[Position(s, r, i)].entry = i
<1>. DEFINE spots == Spots(s, r.MaxVisible)
            At(p) == EntryAt(s, r.FirstVisible, p)
            now == Position(s, r, r.CurrentSelection)
<1>1. now \in spots /\ At(now) = r.CurrentSelection
  BY PositionInView
<1>2. \A p \in spots : Position(s, r, At(p)) = p
  BY PlaceInView
<1>3. \A i \in Drawn(s, r) : Position(s, r, i) \in spots /\ At(Position(s, r, i)) = i
  BY DrawnInView, PositionInView
<1>4. DOMAIN f = spots /\ \A p \in spots : f[p] = [entry |-> At(p), lit |-> At(p) = r.CurrentSelection]
  BY DEF Picture
<1>5. \A p \in spots : At(p) = r.CurrentSelection => p = now
  BY <1>2
<1>. HIDE DEF spots, At, now
<1>6. \A p \in spots : f[p].lit <=> p = now
  <2>. SUFFICES ASSUME NEW p \in spots PROVE f[p].lit <=> p = now
    OBVIOUS
  <2>1. f[p] = [entry |-> At(p), lit |-> At(p) = r.CurrentSelection]
    BY <1>4
  <2>2. CASE At(p) = r.CurrentSelection
    <3>1. f[p] = [entry |-> At(p), lit |-> TRUE]
      BY <2>1, <2>2
    <3>. QED BY <1>5, <2>2, <3>1
  <2>3. CASE At(p) # r.CurrentSelection
    <3>1. f[p] = [entry |-> At(p), lit |-> FALSE]
      BY <2>1, <2>3
    <3>. QED BY <1>1, <2>3, <3>1
  <2>. QED BY <2>2, <2>3
<1>7. { p \in DOMAIN f : f[p].lit } = { p \in spots : p = now }
  BY <1>4, <1>6
<1>8. { p \in DOMAIN f : f[p].lit } = {now}
  BY <1>1, <1>7
<1>9. ASSUME NEW i \in Drawn(s, r)
      PROVE  Position(s, r, i) \in DOMAIN f /\ f[Position(s, r, i)].entry = i
  <2>1. Position(s, r, i) \in spots /\ At(Position(s, r, i)) = i
    BY <1>3
  <2>2. f[Position(s, r, i)] = [entry |-> At(Position(s, r, i)),
                                lit |-> At(Position(s, r, i)) = r.CurrentSelection]
    BY <1>4, <2>1
  <2>. QED BY <1>4, <2>1, <2>2
<1>. QED BY <1>8, <1>9 DEF now

-----------------------------------------------------------------------------
\* A window that moved is repainted.
LEMMA AdjustPaints ==
  ASSUME NEW r \in ScrollState
  PROVE  AdjustScrollState(r) = r \/ AdjustScrollState(r).PaintAll
<1>. DEFINE f == ScrollForward(r)
<1>1. f \in ScrollState /\ (f = r \/ f.PaintAll)
  <2>1. CASE r.CurrentSelection > r.LastVisible
    <3>. DEFINE first == IF 1 + r.CurrentSelection < r.MaxVisible THEN 0
                         ELSE 1 + r.CurrentSelection - r.MaxVisible
    <3>1. first \in Int
      BY DEF ScrollState
    <3>. HIDE DEF first
    <3>2. f = [r EXCEPT !.LastVisible = r.CurrentSelection,
                        !.FirstVisible = first, !.PaintAll = TRUE]
      BY <2>1 DEF ScrollForward, first
    <3>. QED BY <3>1, <3>2 DEF ScrollState
  <2>2. CASE ~(r.CurrentSelection > r.LastVisible)
    BY <2>2 DEF ScrollForward
  <2>. QED BY <2>1, <2>2
<1>. HIDE DEF f
<1>2. AdjustScrollState(r) = ScrollBackward(f)
  BY DEF AdjustScrollState, f
<1>3. CASE f.CurrentSelection < f.FirstVisible
  BY <1>1, <1>2, <1>3 DEF ScrollBackward, ScrollState
<1>4. CASE ~(f.CurrentSelection < f.FirstVisible)
  BY <1>1, <1>2, <1>4 DEF ScrollBackward
<1>. QED BY <1>3, <1>4

LEMMA UpdateFilled ==
  ASSUME HasTools, NEW s \in Screens, NEW r \in ScrollState, NEW m \in Movements,
         RowsKnown(s, r), Filled(s, r), Moved(s, r, m) \in Entries(s),
         NEW u, u = UpdateScroll(s, r, m)
  PROVE  /\ u \in ScrollState /\ Filled(s, u) /\ u.MaxVisible = r.MaxVisible
         /\ u.CurrentSelection = Moved(s, r, m) /\ u.PreviousSelection = r.CurrentSelection
         /\ s.style = "text" => InView(s, u, u.CurrentSelection)
         /\ u.PaintAll => u.PaintSelection = r.PaintSelection
         /\ ~u.PaintAll => /\ ~r.PaintAll
                           /\ u.FirstVisible = r.FirstVisible
                           /\ u.PaintSelection \/ u.CurrentSelection = r.CurrentSelection
<1>. DEFINE sel   == Moved(s, r, m)
            moved == sel # r.CurrentSelection
            r1 == [r EXCEPT !.PreviousSelection = r.CurrentSelection,
                            !.CurrentSelection  = sel,
                            !.PaintAll = @ \/ (m \in {"FIRST", "LAST"} /\ moved)]
            r2 == IF Icons(s) THEN r1 ELSE AdjustScrollState(r1)
            last == r2.FirstVisible + r2.MaxVisible - 1
<1>1. u = [r2 EXCEPT !.PaintSelection = @ \/ (~r2.PaintAll /\ moved), !.LastVisible = last]
  BY DEF UpdateScroll
<1>2. sel \in 0 .. Count(s) - 1 /\ sel \in Int
  BY ScreenFacts DEF Entries
<1>. HIDE DEF sel
<1>4. /\ r1 \in ScrollState
      /\ r1.CurrentSelection = sel /\ r1.PreviousSelection = r.CurrentSelection
      /\ r1.FirstVisible = r.FirstVisible /\ r1.LastVisible = r.LastVisible
      /\ r1.MaxVisible = r.MaxVisible /\ r1.MaxIndex = r.MaxIndex
      /\ r1.FinalRow0 = r.FinalRow0
      /\ r1.PaintSelection = r.PaintSelection
      /\ r.PaintAll => r1.PaintAll
  BY <1>2 DEF ScrollState
<1>. HIDE DEF r1
<1>5. /\ r2 \in ScrollState
      /\ r2.CurrentSelection = sel /\ r2.PreviousSelection = r.CurrentSelection
      /\ r2.MaxVisible = r.MaxVisible /\ r2.MaxIndex = r.MaxIndex
      /\ r2.FinalRow0 = r.FinalRow0
      /\ r2.PaintSelection = r.PaintSelection
      /\ ~r2.PaintAll => ~r.PaintAll /\ r2.FirstVisible = r.FirstVisible
      /\ Icons(s) => r2.FirstVisible = r.FirstVisible
      /\ s.style = "text" =>
           /\ r2.FirstVisible >= 0 /\ r2.FirstVisible <= sel
           /\ sel <= r2.FirstVisible + r.MaxVisible - 1
           /\ r2.FirstVisible = 0 \/ r2.FirstVisible + r.MaxVisible - 1 <= r.MaxIndex
  <2>1. CASE Icons(s)
    BY <1>4, <2>1 DEF Icons
  <2>2. CASE ~Icons(s)
    <3>1. r2 = AdjustScrollState(r1) /\ r1.MaxVisible >= 1
      BY <1>4, <2>2 DEF RowsKnown
    <3>. HIDE DEF r2
    <3>2. r2 = r1 \/ r2.PaintAll
      BY <1>4, <3>1, AdjustPaints
    <3>3. /\ r2 \in ScrollState
          /\ r2.CurrentSelection = sel /\ r2.PreviousSelection = r.CurrentSelection
          /\ r2.MaxVisible = r.MaxVisible /\ r2.MaxIndex = r.MaxIndex
          /\ r2.FinalRow0 = r.FinalRow0
          /\ r2.PaintSelection = r.PaintSelection
      BY <1>4, <3>1, AdjustFacts
    <3>4. /\ r.FirstVisible \in Int /\ r.MaxVisible \in Int /\ r.LastVisible \in Int
          /\ r.MaxVisible >= 1 /\ Count(s) \in Int /\ r.MaxIndex = Count(s) - 1
      BY RowFacts
    <3>5. ASSUME s.style = "text"
          PROVE  /\ r2.FirstVisible >= 0 /\ r2.FirstVisible <= sel
                 /\ sel <= r2.FirstVisible + r.MaxVisible - 1
                 /\ r2.FirstVisible = 0 \/ r2.FirstVisible + r.MaxVisible - 1 <= r.MaxIndex
      <4>1. /\ r.FirstVisible >= 0 /\ r.LastVisible = r.FirstVisible + r.MaxVisible - 1
            /\ r.FirstVisible = 0 \/ r.LastVisible <= r.MaxIndex
        BY <3>5 DEF Filled
      <4>2. \/ sel \in r.FirstVisible .. r.LastVisible /\ r2 = r1
            \/ /\ sel > r.LastVisible /\ 1 + sel >= r.MaxVisible
               /\ r2.FirstVisible = 1 + sel - r.MaxVisible
            \/ sel > r.LastVisible /\ 1 + sel < r.MaxVisible
            \/ sel < r.FirstVisible /\ r2.FirstVisible = sel
        BY <1>4, <3>1, AdjustFacts
      <4>. QED BY <1>2, <1>4, <3>4, <4>1, <4>2
    <3>. QED BY <1>4, <2>2, <3>2, <3>3, <3>5
  <2>. QED BY <2>1, <2>2
<1>. HIDE DEF r2
<1>6. last \in Int
  BY <1>5 DEF ScrollState
<1>. HIDE DEF last
<1>7. /\ u.CurrentSelection = sel /\ u.PreviousSelection = r.CurrentSelection
      /\ u.FirstVisible = r2.FirstVisible /\ u.LastVisible = last
      /\ u.MaxVisible = r.MaxVisible /\ u.MaxIndex = r.MaxIndex
      /\ u.FinalRow0 = r.FinalRow0 /\ u.PaintAll = r2.PaintAll
      /\ u.PaintSelection = (r2.PaintSelection \/ (~r2.PaintAll /\ moved))
      /\ u \in ScrollState
  BY <1>1, <1>5, <1>6 DEF ScrollState
<1>8. Filled(s, u)
  <2>1. last = r2.FirstVisible + r.MaxVisible - 1
    BY <1>5 DEF last
  <2>2. r2.FirstVisible \in Int /\ r.MaxVisible \in Int
    BY <1>5, RowFacts DEF ScrollState
  <2>3. CASE s.style = "text"
    BY <1>5, <1>7, <2>1, <2>2, <2>3 DEF Filled, Icons
  <2>4. CASE Icons(s)
    <3>1. r.FirstVisible >= 0 /\ r.FirstVisible + r.MaxVisible - 1 <= r.FinalRow0
      BY <2>4 DEF Filled, Icons
    <3>. QED BY <1>5, <1>7, <2>1, <2>4, <3>1 DEF Filled, Icons
  <2>5. CASE s.style = "graphics"
    BY <2>5 DEF Filled, Icons
  <2>. QED BY <2>3, <2>4, <2>5, RowFacts DEF Icons
<1>9. s.style = "text" => InView(s, u, u.CurrentSelection)
  BY <1>5, <1>7 DEF InView, sel
<1>10. u.PaintAll => u.PaintSelection = r.PaintSelection
  <2>. SUFFICES ASSUME u.PaintAll PROVE u.PaintSelection = r.PaintSelection
    OBVIOUS
  <2>1. r2.PaintAll /\ r.PaintSelection \in BOOLEAN
    BY <1>7 DEF ScrollState
  <2>2. u.PaintSelection = (r.PaintSelection \/ (~r2.PaintAll /\ moved))
    BY <1>5, <1>7
  <2>. QED BY <2>1, <2>2
<1>11. ~u.PaintAll => u.PaintSelection \/ u.CurrentSelection = r.CurrentSelection
  <2>. SUFFICES ASSUME ~u.PaintAll, sel # r.CurrentSelection PROVE u.PaintSelection
    BY <1>7
  <2>1. ~r2.PaintAll
    BY <1>7
  <2>. QED BY <1>7, <2>1
<1>12. ~u.PaintAll => ~r.PaintAll /\ u.FirstVisible = r.FirstVisible
  BY <1>5, <1>7
<1>. QED BY <1>7, <1>8, <1>9, <1>10, <1>11, <1>12 DEF sel

LEMMA PaintAllFilled ==
  ASSUME HasTools, NEW s \in Screens, NEW r \in ScrollState,
         RowsKnown(s, r), Selected(s, r), Filled(s, r),
         s.style = "text" => InView(s, r, r.CurrentSelection),
         NEW a, a = PaintAllState(s, r)
  PROVE  /\ a \in ScrollState /\ RowsKnown(s, a) /\ Filled(s, a)
         /\ a.MaxVisible = r.MaxVisible /\ a.PaintSelection = r.PaintSelection
         /\ InView(s, a, a.CurrentSelection)
<1>0. r.CurrentSelection \in Entries(s) /\ r.CurrentSelection \in Int /\ s.row0 \in Nat
  BY ScreenFacts DEF Selected, Entries
<1>1. CASE Icons(s) /\ Row(s, r.CurrentSelection) = 0
  <2>1. a = AdjustScrollState(r) /\ r.MaxVisible >= 1
    BY <1>1 DEF PaintAllState, RowsKnown
  <2>2. /\ a \in ScrollState
        /\ a.CurrentSelection = r.CurrentSelection
        /\ a.PreviousSelection = r.PreviousSelection
        /\ a.MaxIndex = r.MaxIndex /\ a.MaxVisible = r.MaxVisible
        /\ a.FinalRow0 = r.FinalRow0 /\ a.InitialRow1 = r.InitialRow1
        /\ a.PaintSelection = r.PaintSelection
    BY <2>1, AdjustFacts
  <2>3. r.CurrentSelection < s.row0 /\ r.CurrentSelection >= 0 /\ r.FinalRow0 = s.row0 - 1
    BY <1>0, <1>1, RowFacts DEF Row, Selected
  <2>4. /\ r.FirstVisible >= 0 /\ r.FirstVisible + r.MaxVisible - 1 <= r.FinalRow0
        /\ \/ r.LastVisible = r.FirstVisible + r.MaxVisible - 1
           \/ r.FirstVisible = 0 /\ r.MaxVisible = r.FinalRow0 + 1 /\ r.LastVisible >= r.FinalRow0
    BY <1>1 DEF Filled, Icons
  <2>5. /\ r.FirstVisible \in Int /\ r.MaxVisible \in Int /\ r.LastVisible \in Int
    BY RowFacts
  <2>6. /\ a.FirstVisible >= 0 /\ a.FirstVisible + r.MaxVisible - 1 <= r.FinalRow0
        /\ \/ a.LastVisible = a.FirstVisible + r.MaxVisible - 1
           \/ a.FirstVisible = 0 /\ r.MaxVisible = r.FinalRow0 + 1 /\ a.LastVisible >= r.FinalRow0
        /\ a.FirstVisible <= r.CurrentSelection
        /\ r.CurrentSelection <= a.FirstVisible + r.MaxVisible - 1
    <3>1. \/ r.CurrentSelection \in r.FirstVisible .. r.LastVisible /\ a = r
          \/ /\ r.CurrentSelection > r.LastVisible
             /\ 1 + r.CurrentSelection >= r.MaxVisible
             /\ a.LastVisible = r.CurrentSelection
             /\ a.FirstVisible = 1 + r.CurrentSelection - r.MaxVisible
          \/ /\ r.CurrentSelection > r.LastVisible
             /\ 1 + r.CurrentSelection < r.MaxVisible
          \/ /\ r.CurrentSelection <= r.LastVisible
             /\ r.CurrentSelection < r.FirstVisible
             /\ a.FirstVisible = r.CurrentSelection
             /\ a.LastVisible = r.CurrentSelection + r.MaxVisible - 1
      BY <2>1, AdjustFacts
    <3>2. s.row0 \in Int /\ r.CurrentSelection \in Int
      BY <1>0
    <3>3. CASE r.CurrentSelection \in r.FirstVisible .. r.LastVisible /\ a = r
      BY <2>3, <2>4, <2>5, <3>2, <3>3
    <3>4. CASE /\ r.CurrentSelection > r.LastVisible
               /\ 1 + r.CurrentSelection >= r.MaxVisible
               /\ a.LastVisible = r.CurrentSelection
               /\ a.FirstVisible = 1 + r.CurrentSelection - r.MaxVisible
      <4>. DEFINE c == r.CurrentSelection
                  v == r.MaxVisible
      <4>1. c \in Int /\ v \in Int /\ c < s.row0 /\ c >= 0 /\ 1 + c >= v /\ v >= 1
        BY <2>1, <2>3, <2>5, <3>2, <3>4
      <4>2. a.LastVisible = c /\ a.FirstVisible = 1 + c - v
        BY <3>4
      <4>. HIDE DEF c, v
      <4>3. /\ 1 + c - v >= 0 /\ 1 + c - v + v - 1 = c /\ c <= s.row0 - 1 /\ 1 + c - v <= c
        BY <3>2, <4>1
      <4>. QED BY <2>3, <4>1, <4>2, <4>3 DEF c, v
    <3>5. CASE r.CurrentSelection > r.LastVisible /\ 1 + r.CurrentSelection < r.MaxVisible
      BY <2>3, <2>4, <2>5, <3>2, <3>5
    <3>6. CASE /\ r.CurrentSelection <= r.LastVisible
               /\ r.CurrentSelection < r.FirstVisible
               /\ a.FirstVisible = r.CurrentSelection
               /\ a.LastVisible = r.CurrentSelection + r.MaxVisible - 1
      BY <2>1, <2>3, <2>4, <2>5, <3>2, <3>6
    <3>. QED BY <3>1, <3>3, <3>4, <3>5, <3>6
  <2>7. RowsKnown(s, a)
    BY <2>2 DEF RowsKnown
  <2>8. Filled(s, a)
    BY <1>1, <2>2, <2>6 DEF Filled, Icons
  <2>9. InView(s, a, a.CurrentSelection)
    BY <1>0, <2>2, <2>6 DEF InView
  <2>. QED BY <2>2, <2>7, <2>8, <2>9
<1>2. CASE ~(Icons(s) /\ Row(s, r.CurrentSelection) = 0)
  <2>1. a = r
    BY <1>2 DEF PaintAllState
  <2>2. InView(s, r, r.CurrentSelection)
    BY <1>0, <1>2 DEF InView, Row
  <2>. QED BY <2>1, <2>2
<1>. QED BY <1>1, <1>2

-----------------------------------------------------------------------------
\* The display stays in step: one lemma per action.
LEMMA InitInStep == Init => InStep
<1>. SUFFICES ASSUME Init PROVE InStep
  OBVIOUS
<1>1. pc = "init" /\ painted = << >>
  BY DEF Init
<1>2. DOMAIN painted = {}
  BY <1>1
<1>. QED BY <1>1, <1>2 DEF InStep

\* The state in which the default entry is looked up: nothing has scrolled.
LEMMA BeginFilled ==
  ASSUME HasTools, NEW s \in Screens, NEW r, r = IdentifyRows(s, InitScroll(s))
  PROVE  /\ r \in ScrollState /\ RowsKnown(s, r) /\ Filled(s, r)
         /\ r.CurrentSelection = 0 /\ r.PaintAll /\ ~r.PaintSelection
         /\ InView(s, r, 0)
<1>. DEFINE i == InitScroll(s)
            mv == IF Icons(s) /\ i.MaxVisible > FinalRow0(s) + 1
                  THEN FinalRow0(s) + 1 ELSE i.MaxVisible
<1>1. /\ i \in ScrollState /\ i.CurrentSelection = 0 /\ i.FirstVisible = 0
      /\ i.MaxIndex = Count(s) - 1 /\ i.MaxVisible >= 1 /\ i.LastVisible = i.MaxVisible - 1
  BY InitScrollFacts
<1>2. i.PaintAll = TRUE /\ i.PaintSelection = FALSE
  BY DEF InitScroll
<1>3. FinalRow0(s) \in Int /\ FinalRow0(s) >= 0 /\ InitialRow1(s) \in Int /\ Count(s) \in Int
      /\ Count(s) >= 1
  BY ScreenFacts
<1>4. r = [i EXCEPT !.FinalRow0 = FinalRow0(s), !.InitialRow1 = InitialRow1(s),
                    !.MaxVisible = mv]
  BY DEF IdentifyRows
<1>. HIDE DEF i
<1>5. i.MaxVisible \in Int /\ mv \in Int /\ mv >= 1
  BY <1>1, <1>3 DEF ScrollState
<1>6. /\ Icons(s) => mv <= FinalRow0(s) + 1
      /\ mv = i.MaxVisible \/ (mv = FinalRow0(s) + 1 /\ i.MaxVisible > FinalRow0(s) + 1)
      /\ ~Icons(s) => mv = i.MaxVisible
  BY <1>1, <1>3, <1>5
<1>. HIDE DEF mv
<1>7. /\ r \in ScrollState /\ r.CurrentSelection = 0 /\ r.FirstVisible = 0
      /\ r.MaxIndex = Count(s) - 1 /\ r.MaxVisible = mv /\ r.LastVisible = i.MaxVisible - 1
      /\ r.FinalRow0 = FinalRow0(s) /\ r.InitialRow1 = InitialRow1(s)
      /\ r.PaintAll = TRUE /\ r.PaintSelection = FALSE
  BY <1>1, <1>2, <1>3, <1>4, <1>5 DEF ScrollState
<1>8. RowsKnown(s, r)
  BY <1>5, <1>6, <1>7 DEF RowsKnown
<1>9. Filled(s, r)
  <2>1. CASE s.style = "text"
    BY <1>3, <1>5, <1>6, <1>7, <2>1 DEF Filled, Icons
  <2>2. CASE Icons(s)
    BY <1>3, <1>5, <1>6, <1>7, <2>2 DEF Filled, Icons
  <2>3. CASE s.style = "graphics"
    BY <2>3 DEF Filled, Icons
  <2>. QED BY <1>7, <1>8, <2>1, <2>2, <2>3, RowFacts DEF Icons
<1>10. InView(s, r, 0)
  BY <1>3, <1>5, <1>7 DEF InView, Entries
<1>. QED BY <1>7, <1>8, <1>9, <1>10

LEMMA BeginInStep ==
  ASSUME HasTools, IInv, InStep, Begin PROVE InStep'
<1>. DEFINE s == screen
            r == IdentifyRows(s, st)
            e == [r EXCEPT !.CurrentSelection = s.default]
            d == IF s.default \in Entries(s) THEN UpdateScroll(s, e, "NONE") ELSE r
<1>1. /\ st = InitScroll(s) /\ s \in Screens
      /\ st' = [d EXCEPT !.PaintAll = TRUE] /\ pc' = "paint"
      /\ screen' = screen /\ painted' = painted /\ DOMAIN painted = {}
  BY DEF IInv, TypeOK, InStep, Begin
<1>2. /\ r \in ScrollState /\ RowsKnown(s, r) /\ Filled(s, r)
      /\ r.CurrentSelection = 0 /\ r.PaintAll /\ ~r.PaintSelection
      /\ InView(s, r, 0)
  BY <1>1, BeginFilled
<1>. HIDE DEF r
<1>3. /\ d \in ScrollState /\ Filled(s, d) /\ ~d.PaintSelection
      /\ s.style = "text" => InView(s, d, d.CurrentSelection)
  <2>1. CASE s.default \in Entries(s)
    <3>1. s.default \in Int /\ Count(s) \in Int
      BY <1>1, ScreenFacts
    <3>2. /\ e \in ScrollState /\ e.CurrentSelection = s.default
          /\ e.PaintAll = r.PaintAll /\ e.PaintSelection = r.PaintSelection
          /\ e.FirstVisible = r.FirstVisible /\ e.LastVisible = r.LastVisible
          /\ e.MaxVisible = r.MaxVisible /\ e.MaxIndex = r.MaxIndex
          /\ e.FinalRow0 = r.FinalRow0 /\ e.InitialRow1 = r.InitialRow1
      BY <1>2, <3>1 DEF ScrollState
    <3>. HIDE DEF e
    <3>3. RowsKnown(s, e)
      BY <1>2, <3>2 DEF RowsKnown
    <3>4. Filled(s, e)
      BY <1>2, <3>2 DEF Filled
    <3>5. Moved(s, e, "NONE") = s.default /\ "NONE" \in Movements
      BY <3>2 DEF Moved, Movements
    <3>. DEFINE u == UpdateScroll(s, e, "NONE")
    <3>6. /\ Filled(s, u) /\ u \in ScrollState
          /\ s.style = "text" => InView(s, u, u.CurrentSelection)
          /\ u.PaintAll => u.PaintSelection = e.PaintSelection
          /\ ~u.PaintAll => ~e.PaintAll
      BY <1>1, <2>1, <3>2, <3>3, <3>4, <3>5, UpdateFilled
    <3>7. d = u
      BY <2>1
    <3>. HIDE DEF u, d
    <3>8. ~u.PaintSelection
      BY <1>2, <3>2, <3>6
    <3>. QED BY <3>6, <3>7, <3>8
  <2>2. CASE s.default \notin Entries(s)
    BY <1>2, <2>2
  <2>. QED BY <2>1, <2>2
<1>. HIDE DEF d
<1>4. /\ st'.PaintAll /\ ~st'.PaintSelection
      /\ st'.CurrentSelection = d.CurrentSelection
      /\ st'.FirstVisible = d.FirstVisible /\ st'.LastVisible = d.LastVisible
      /\ st'.MaxVisible = d.MaxVisible /\ st'.MaxIndex = d.MaxIndex
      /\ st'.FinalRow0 = d.FinalRow0
  BY <1>1, <1>3 DEF ScrollState
<1>5. Filled(s, st')
  BY <1>3, <1>4 DEF Filled
<1>6. s.style = "text" => InView(s, st', st'.CurrentSelection)
  BY <1>3, <1>4 DEF InView
<1>7. DOMAIN painted' \subseteq Spots(s, st'.MaxVisible)
  BY <1>1
<1>. QED BY <1>1, <1>4, <1>5, <1>6, <1>7 DEF InStep

\* What a repaint leaves, from a picture of the state it leaves.
LEMMA Repainted ==
  ASSUME NEW s \in Screens, NEW a \in ScrollState, Filled(s, a), InView(s, a, a.CurrentSelection),
         ~a.PaintSelection,
         pc' = "read", screen' = s, st' = [a EXCEPT !.PaintAll = FALSE],
         painted' = Picture(s, a.MaxVisible, a.FirstVisible, a.CurrentSelection)
  PROVE  InStep'
<1>1. /\ ~st'.PaintSelection
      /\ st'.CurrentSelection = a.CurrentSelection
      /\ st'.FirstVisible = a.FirstVisible /\ st'.LastVisible = a.LastVisible
      /\ st'.MaxVisible = a.MaxVisible /\ st'.MaxIndex = a.MaxIndex
      /\ st'.FinalRow0 = a.FinalRow0
  BY DEF ScrollState
<1>2. Filled(s, st') /\ InView(s, st', st'.CurrentSelection)
  BY <1>1 DEF Filled, InView
<1>3. DOMAIN painted' = Spots(s, st'.MaxVisible)
  BY <1>1 DEF Picture
<1>4. Shows(st.CurrentSelection)'
  BY <1>1 DEF Shows
<1>. QED BY <1>2, <1>3, <1>4, <1>1 DEF InStep

LEMMA PaintAllInStep ==
  ASSUME HasTools, IInv, InStep, PaintAll PROVE InStep'
<1>. DEFINE a == PaintAllState(screen, st)
<1>1. /\ screen \in Screens /\ st \in ScrollState
      /\ RowsKnown(screen, st) /\ Selected(screen, st) /\ Filled(screen, st)
      /\ screen.style = "text" => InView(screen, st, st.CurrentSelection)
      /\ DOMAIN painted \subseteq Spots(screen, st.MaxVisible) /\ ~st.PaintSelection
  BY DEF IInv, TypeOK, InStep, PaintAll
<1>2. /\ a \in ScrollState /\ RowsKnown(screen, a) /\ Filled(screen, a)
      /\ a.MaxVisible = st.MaxVisible /\ a.PaintSelection = st.PaintSelection
      /\ InView(screen, a, a.CurrentSelection)
  BY <1>1, PaintAllFilled
<1>3. /\ st' = [a EXCEPT !.PaintAll = FALSE] /\ painted' = PaintEntries(screen, a, painted)
      /\ pc' = "read" /\ screen' = screen
  BY DEF PaintAll
<1>. HIDE DEF a
<1>4. painted' = Picture(screen, a.MaxVisible, a.FirstVisible, a.CurrentSelection)
  BY <1>1, <1>2, <1>3, FullPaint
<1>5. ~a.PaintSelection
  BY <1>1, <1>2
<1>. QED BY <1>1, <1>2, <1>3, <1>4, <1>5, Repainted

\* A partial repaint is asked for with both ends of the movement in view.
LEMMA PaintSelectionInStep ==
  ASSUME HasTools, IInv, InStep, PaintSelection PROVE InStep'
<1>1. /\ screen \in Screens /\ st \in ScrollState
      /\ RowsKnown(screen, st) /\ Selected(screen, st) /\ Filled(screen, st)
      /\ screen.style = "text" => InView(screen, st, st.CurrentSelection)
      /\ DOMAIN painted \subseteq Spots(screen, st.MaxVisible)
      /\ Shows(st.PreviousSelection) /\ InView(screen, st, st.PreviousSelection)
      /\ ~st.PaintAll
  BY DEF IInv, TypeOK, InStep, PaintSelection
<1>2. pc' = "read" /\ screen' = screen
  BY DEF PaintSelection
<1>. DEFINE full == NeedsFullPaint(screen, st)
            a == IF full THEN PaintAllState(screen, st) ELSE st
            b == [a EXCEPT !.PaintSelection = FALSE]
<1>3. /\ st' = b
      /\ full => painted' = PaintEntries(screen, a, painted)
      /\ ~full => painted' = PaintTwo(screen, a, painted)
  BY DEF PaintSelection
<1>4. /\ a \in ScrollState /\ Filled(screen, a) /\ InView(screen, a, a.CurrentSelection)
      /\ painted' = Picture(screen, a.MaxVisible, a.FirstVisible, a.CurrentSelection)
  <2>1. CASE full
    <3>1. a = PaintAllState(screen, st)
      BY <2>1
    <3>. HIDE DEF a, full
    <3>2. /\ a \in ScrollState /\ RowsKnown(screen, a) /\ Filled(screen, a)
          /\ a.MaxVisible = st.MaxVisible
          /\ InView(screen, a, a.CurrentSelection)
      BY <1>1, <3>1, PaintAllFilled
    <3>3. PaintEntries(screen, a, painted)
             = Picture(screen, a.MaxVisible, a.FirstVisible, a.CurrentSelection)
      BY <1>1, <3>2, FullPaint
    <3>. QED BY <1>3, <2>1, <3>2, <3>3
  <2>2. CASE ~full
    <3>1. a = st
      BY <2>2
    <3>2. InView(screen, st, st.CurrentSelection)
      <4>1. CASE Icons(screen) /\ st.CurrentSelection < screen.row0
        <5>1. st.InitialRow1 = screen.row0 /\ screen.row0 > 0 /\ st.FinalRow0 = screen.row0 - 1
              /\ screen.row0 \in Int /\ st.CurrentSelection \in Int /\ st.FirstVisible \in Int
              /\ st.MaxVisible \in Int /\ st.LastVisible \in Int
          BY <1>1, <4>1, RowFacts, ScreenFacts DEF Selected
        <5>2. st.CurrentSelection \in st.FirstVisible .. st.LastVisible
          BY <2>2, <4>1, <5>1 DEF NeedsFullPaint
        <5>3. \/ st.LastVisible = st.FirstVisible + st.MaxVisible - 1
              \/ st.FirstVisible = 0 /\ st.MaxVisible = st.FinalRow0 + 1
          BY <1>1, <4>1 DEF Filled
        <5>4. /\ st.FirstVisible <= st.CurrentSelection
              /\ st.CurrentSelection <= st.FirstVisible + st.MaxVisible - 1
          BY <4>1, <5>1, <5>2, <5>3
        <5>. QED BY <1>1, <5>4 DEF InView, Selected, Entries
      <4>2. CASE Icons(screen) /\ ~(st.CurrentSelection < screen.row0)
        BY <1>1, <4>2 DEF InView, Selected, Entries, Icons
      <4>3. CASE screen.style = "graphics"
        BY <1>1, <4>3 DEF InView, Selected, Entries, Icons
      <4>. QED BY <1>1, <4>1, <4>2, <4>3, RowFacts DEF Icons
    <3>. HIDE DEF a, full
    <3>3. PaintTwo(screen, st, painted)
             = Picture(screen, st.MaxVisible, st.FirstVisible, st.CurrentSelection)
      BY <1>1, <3>2, PartialPaint DEF Shows
    <3>. QED BY <1>1, <1>3, <2>2, <3>1, <3>2, <3>3
  <2>. QED BY <2>1, <2>2
<1>. HIDE DEF a
<1>5. /\ b \in ScrollState /\ ~b.PaintSelection
      /\ b.CurrentSelection = a.CurrentSelection
      /\ b.FirstVisible = a.FirstVisible /\ b.LastVisible = a.LastVisible
      /\ b.MaxVisible = a.MaxVisible /\ b.MaxIndex = a.MaxIndex
      /\ b.FinalRow0 = a.FinalRow0
  BY <1>4 DEF ScrollState
<1>. HIDE DEF b
<1>6. Filled(screen, b) /\ InView(screen, b, b.CurrentSelection)
  BY <1>4, <1>5 DEF Filled, InView
<1>7. DOMAIN painted' = Spots(screen, st'.MaxVisible) /\ Shows(st.CurrentSelection)'
  BY <1>2, <1>3, <1>4, <1>5 DEF Picture, Shows
<1>. QED BY <1>2, <1>3, <1>5, <1>6, <1>7 DEF InStep

LEMMA KeyMoveInStep ==
  ASSUME HasTools, IInv, InStep, NEW m \in Movements, KeyMove(m) PROVE InStep'
<1>1. /\ screen \in Screens /\ st \in ScrollState
      /\ RowsKnown(screen, st) /\ Selected(screen, st) /\ Filled(screen, st)
      /\ Icons(screen) => WindowKnown(screen, st) /\ InWindow(st)
      /\ DOMAIN painted \subseteq Spots(screen, st.MaxVisible)
      /\ Shows(st.CurrentSelection) /\ InView(screen, st, st.CurrentSelection)
      /\ ~st.PaintSelection
  BY DEF IInv, TypeOK, InStep, KeyMove
<1>2. /\ st' = UpdateScroll(screen, st, m) /\ pc' = "paint"
      /\ screen' = screen /\ painted' = painted
  BY DEF KeyMove
<1>3. Moved(screen, st, m) \in Entries(screen)
  BY <1>1, MovedInRange DEF Entries
<1>4. /\ Filled(screen, st') /\ st'.MaxVisible = st.MaxVisible
      /\ st'.PreviousSelection = st.CurrentSelection
      /\ screen.style = "text" => InView(screen, st', st'.CurrentSelection)
      /\ st'.PaintAll => st'.PaintSelection = st.PaintSelection
      /\ ~st'.PaintAll => /\ st'.FirstVisible = st.FirstVisible
                          /\ st'.PaintSelection \/ st'.CurrentSelection = st.CurrentSelection
  BY <1>1, <1>2, <1>3, UpdateFilled
<1>5. ASSUME ~st'.PaintAll
      PROVE  /\ painted' = Picture(screen, st'.MaxVisible, st'.FirstVisible, st.CurrentSelection)
             /\ InView(screen, st', st.CurrentSelection)
  BY <1>1, <1>2, <1>4, <1>5 DEF Shows, InView
<1>6. st'.PaintAll => ~st'.PaintSelection
  BY <1>1, <1>4
<1>7. ~st'.PaintAll /\ st'.PaintSelection =>
        Shows(st.PreviousSelection)' /\ InView(screen, st', st'.PreviousSelection)
  BY <1>2, <1>4, <1>5 DEF Shows
<1>8. ~st'.PaintAll /\ ~st'.PaintSelection =>
        Shows(st.CurrentSelection)' /\ InView(screen, st', st'.CurrentSelection)
  BY <1>2, <1>4, <1>5 DEF Shows
<1>9. DOMAIN painted' \subseteq Spots(screen, st'.MaxVisible)
  BY <1>1, <1>2, <1>4
<1>. QED BY <1>2, <1>4, <1>6, <1>7, <1>8, <1>9 DEF InStep

\* The steps that change neither the scroll state nor the display.
LEMMA QuietInStep ==
  ASSUME InStep, PaintNothing \/ Wait \/ Tick \/ KeyIgnored \/ UNCHANGED vars PROVE InStep'
<1>1. UNCHANGED <<screen, st, painted>>
  BY DEF PaintNothing, Wait, Tick, KeyIgnored, vars
<1>2. \/ pc' = "paint" /\ pc = "read"
      \/ pc' = "read" /\ pc = "paint" /\ ~st.PaintAll /\ ~st.PaintSelection
      \/ pc' = pc
  BY DEF PaintNothing, Wait, Tick, KeyIgnored, vars
<1>. QED BY <1>1, <1>2 DEF InStep, Shows

LEMMA NextInStep ==
  ASSUME HasTools, IInv, InStep, [Next]_vars PROVE InStep'
<1>1. CASE Begin
  BY <1>1, BeginInStep
<1>2. CASE PaintAll
  BY <1>2, PaintAllInStep
<1>3. CASE PaintSelection
  BY <1>3, PaintSelectionInStep
<1>4. CASE PaintNothing \/ Wait \/ Tick \/ KeyIgnored \/ UNCHANGED vars
  BY <1>4, QuietInStep
<1>5. CASE pc' = "done"
  BY <1>5 DEF InStep
<1>6. CASE Expire
  BY <1>5, <1>6 DEF Expire, Leave
<1>7. ASSUME NEW m \in Movements, KeyMove(m) PROVE InStep'
  BY <1>7, KeyMoveInStep
<1>8. ASSUME NEW code \in {"ENTER", "ESCAPE", "DETAILS"}, KeyExit(code) PROVE InStep'
  BY <1>5, <1>8 DEF KeyExit, Leave
<1>9. ASSUME NEW i \in Entries(screen), KeyShortcut(i) PROVE InStep'
  BY <1>5, <1>9 DEF KeyShortcut, Leave
<1>. QED
  BY <1>1, <1>2, <1>3, <1>4, <1>6, <1>7, <1>8, <1>9 DEF Next, Program, User, Done

LEMMA InStepInSync == ASSUME HasTools, IInv, InStep PROVE DisplayInSync
<1>. SUFFICES ASSUME pc = "read"
     PROVE /\ { p \in DOMAIN painted : painted[p].lit }
                = {Position(screen, st, st.CurrentSelection)}
           /\ \A i \in Drawn(screen, st) :
                /\ Position(screen, st, i) \in DOMAIN painted
                /\ painted[Position(screen, st, i)].entry = i
  BY DEF DisplayInSync
<1>1. /\ screen \in Screens /\ st \in ScrollState /\ RowsKnown(screen, st)
      /\ Filled(screen, st) /\ InView(screen, st, st.CurrentSelection)
      /\ painted = Picture(screen, st.MaxVisible, st.FirstVisible, st.CurrentSelection)
  BY DEF IInv, TypeOK, InStep, Shows
<1>. QED BY <1>1, PictureInSync

(* Whenever a key is read the display shows one entry as selected, the one *)
(* Enter would choose, where a full repaint would draw it, and no drawn    *)
(* cell is wrong: for every menu, every screen size and every sequence of  *)
(* keys, partial repaints are enough.  The hypothesis: an icon menu has a  *)
(* tool, see HasTools.                                                     *)
THEOREM MenuDisplayInSync == ASSUME HasTools PROVE Spec => []DisplayInSync
<1>1. Init => InStep
  BY InitInStep
<1>2. IInv /\ InStep /\ [Next]_vars => InStep'
  BY NextInStep
<1>3. IInv /\ InStep => DisplayInSync
  BY InStepInSync
<1>. QED BY <1>1, <1>2, <1>3, MenuInvariant, PTL DEF Spec

-----------------------------------------------------------------------------
(* The loops over sequences: one turn of each, on what the turn before     *)
(* left. a is what the loop is given.                                      *)

LEMMA LeastOf ==
  ASSUME NEW S \in SUBSET Nat, S # {}
  PROVE  \E x \in S : \A y \in S : x <= y
<1>. DEFINE below(x) == 0 .. x
            T == { below(x) : x \in S }
<1>1. T \subseteq FiniteSubsetsOf(Nat)
  <2>1. \A x \in S : below(x) \in SUBSET Nat /\ IsFiniteSet(below(x))
    BY FS_Interval
  <2>. QED BY <2>1 DEF FiniteSubsetsOf
<1>. HIDE DEF below
<1>2. \E u \in T : \A v \in T : ~(<<v, u>> \in StrictSubsetOrdering(Nat))
  <2>1. IsWellFoundedOn(StrictSubsetOrdering(Nat), FiniteSubsetsOf(Nat))
    BY FS_StrictSubsetOrderingWellFounded
  <2>2. T # {}
    OBVIOUS
  <2>. HIDE DEF T
  <2>. QED BY <1>1, <2>1, <2>2, WFMin
<1>3. PICK x \in S : \A y \in S : ~(<<below(y), below(x)>> \in StrictSubsetOrdering(Nat))
  BY <1>2
<1>4. ASSUME NEW y \in S, y < x PROVE FALSE
  <2>1. below(y) \subseteq below(x) /\ x \in below(x) /\ x \notin below(y)
    BY <1>4 DEF below
  <2>2. below(x) \subseteq Nat
    BY DEF below
  <2>. QED BY <1>3, <2>1, <2>2 DEF StrictSubsetOrdering
<1>5. \A y \in S : x <= y
  BY <1>4
<1>. QED BY <1>5

Turn(loop, e, n, a) ==
  CASE loop = "select"  -> IF a.list[n] \in a.set THEN Append(e, a.list[n]) ELSE e
    [] loop = "flatten" -> e \o a.list[n]
    [] loop = "newest"  -> AddLoaderListEntry(e, a.list[n])
    [] loop = "path"    -> V!Node(a.d, a.blocksize, e, a.d.path[n])
    [] loop = "config"  -> HandleLine(e, a.list[n])
    [] loop = "file"    -> Line(e, a.list[n], a.volumes, a.self)
    [] loop = "main"    -> MainLine(e, a.list[n], a.files, a.volumes, a.self)

Turns(loop, n, f, e, a) ==
  f = [k \in 0 .. n |-> IF k = 0 THEN e ELSE Turn(loop, f[k - 1], k, a)]

LEMMA TurnsExist ==
  ASSUME NEW loop, NEW e, NEW a
  PROVE  \A n \in Nat : \E f : Turns(loop, n, f, e, a)
<1>. DEFINE S == { n \in Nat : ~ \E f : Turns(loop, n, f, e, a) }
<1>. SUFFICES ASSUME S # {} PROVE FALSE
  OBVIOUS
<1>1. PICK n \in S : \A y \in S : n <= y
  <2>1. S \in SUBSET Nat
    OBVIOUS
  <2>. HIDE DEF S
  <2>. QED BY <2>1, LeastOf
<1>2. n # 0
  <2>. DEFINE f == [k \in 0 .. 0 |-> e]
  <2>1. \A k \in 0 .. 0 : k = 0
    OBVIOUS
  <2>2. Turns(loop, 0, f, e, a)
    BY <2>1 DEF Turns
  <2>. QED BY <2>2
<1>3. PICK f : Turns(loop, n - 1, f, e, a)
  <2>1. n - 1 \in Nat /\ ~(n <= n - 1)
    BY <1>2
  <2>. QED BY <1>1, <2>1
<1>. DEFINE g == [k \in 0 .. n |-> IF k = n THEN Turn(loop, f[n - 1], n, a) ELSE f[k]]
<1>4. Turns(loop, n, g, e, a)
  <2>1. \A k \in 0 .. n - 1 : g[k] = f[k]
    OBVIOUS
  <2>2. g[n] = Turn(loop, f[n - 1], n, a)
    OBVIOUS
  <2>3. f = [k \in 0 .. n - 1 |-> IF k = 0 THEN e ELSE Turn(loop, f[k - 1], k, a)]
    BY <1>3 DEF Turns
  <2>4. ASSUME NEW k \in 0 .. n
        PROVE  g[k] = IF k = 0 THEN e ELSE Turn(loop, g[k - 1], k, a)
    <3>. HIDE DEF g
    <3>1. CASE k = n
      <4>1. n - 1 \in 0 .. n - 1
        BY <1>2
      <4>. QED BY <1>2, <2>1, <2>2, <3>1, <4>1
    <3>2. CASE k # n
      <4>1. k \in 0 .. n - 1 /\ (k # 0 => k - 1 \in 0 .. n - 1)
        BY <3>2
      <4>2. g[k] = f[k]
        BY <2>1, <4>1
      <4>3. f[k] = IF k = 0 THEN e ELSE Turn(loop, f[k - 1], k, a)
        BY <2>3, <4>1
      <4>. QED BY <2>1, <4>1, <4>2, <4>3
    <3>. QED BY <3>1, <3>2
  <2>5. g = [k \in 0 .. n |-> g[k]]
    OBVIOUS
  <2>. HIDE DEF g
  <2>. QED BY <2>4, <2>5 DEF Turns
<1>. QED BY <1>4

\* A sequence, of whatever it is of.
IsSeq(s) == s \in Seq(ToSet(s))

UpTo(n, list) == {list[k] : k \in 1 .. n}

\* Of the first n elements, the last one alone is in A.
OnlyLast(n, list, A) == n > 0 /\ UpTo(n - 1, list) \cap A = {} /\ list[n] \in A

\* What is kept begins with the first of the n elements that is in A.
FirstKept(n, kept, list, A) ==
  kept # <<>> => \E m \in 1 .. n : /\ list[m] \in A /\ kept[1] = list[m]
                                  /\ \A j \in 1 .. m - 1 : list[j] \notin A

Kinds == {"internal", "external", "optical"}

\* What the paths of GlobalConfig.AlsoScan are.
AlsoScanTyped(list) == IsSeq(list) /\ \A a \in ToSet(list) : IsSeq(a.path)

\* The keywords that set the list of this one.
KeysOf(key) == {key} \cup IF key = "also_scan_dirs" THEN {"dont_scan_volumes"} ELSE {}

\* The first n lines have been handled; a.first is what there was.
ConfigKept(gc, n, a) ==
  /\ DOMAIN gc = DOMAIN GlobalConfig0
  /\ AlsoScanTyped(gc.AlsoScan)
  /\ \A key \in ListKeys :
       LET said == {m \in 1 .. n : a.list[m][1] \in KeysOf(key)}
       IN  List(gc, key) = IF said # {} THEN Given(key, a.list[Max(said)]) ELSE List(a.first, key)

IsEntry(e) == DOMAIN e = DOMAIN NewEntry

\* An entry of refind.conf is called what a stanza is.
Described(e, titles) == IsEntry(e) /\ e.Tag = "loader" /\ e.Title \in titles

StanzaKept(s, titles) ==
  /\ DOMAIN s = DOMAIN NoStanza
  /\ IsSeq(s.entries) /\ \A e \in ToSet(s.entries) : Described(e, titles)
  /\ IsEntry(s.entry) /\ s.entry.Tag = "loader"
  /\ s.mode \in {"stanza", "submenu"} => s.entry.Title \in titles /\ <<s.title>> \in titles

\* What holds after n turns.
Kept(loop, e, n, a) ==
  CASE loop = "select"  -> /\ e \in Seq(a.of) /\ ToSet(e) = UpTo(n, a.list) \cap a.set
                           /\ OnlyLast(n, a.list, a.set) => e = <<a.list[n]>>
                           /\ FirstKept(n, e, a.list, a.set)
    [] loop = "flatten" -> e \in Seq(a.of) /\ ToSet(e) = UNION {ToSet(s) : s \in UpTo(n, a.list)}
    [] loop = "newest"  -> IsSeq(e) /\ ToSet(e) = UpTo(n, a.list)
    [] loop = "config"  -> ConfigKept(e, n, a)
    [] loop = "file"    -> StanzaKept(e, a.titles)
    [] loop = "main"    -> StanzaKept(e, a.titles)
    [] loop = "path"    -> DOMAIN e = {"kind", "whole", "legacy", "bootable"} /\ e.kind \in Kinds
    [] OTHER -> FALSE

LEMMA TurnsKeep ==
  ASSUME NEW loop, NEW n \in Nat, NEW f, NEW e, NEW a, Turns(loop, n, f, e, a), Kept(loop, e, 0, a),
         \A k \in 1 .. n : \A s : Kept(loop, s, k - 1, a) => Kept(loop, Turn(loop, s, k, a), k, a)
  PROVE  Kept(loop, f[n], n, a)
<1>. DEFINE S == { k \in 0 .. n : ~ Kept(loop, f[k], k, a) }
<1>1. \A k \in 0 .. n : f[k] = IF k = 0 THEN e ELSE Turn(loop, f[k - 1], k, a)
  <2>1. f = [k \in 0 .. n |-> IF k = 0 THEN e ELSE Turn(loop, f[k - 1], k, a)]
    BY DEF Turns
  <2>. QED BY <2>1
<1>. SUFFICES ASSUME S # {} PROVE FALSE
  OBVIOUS
<1>2. PICK k \in S : \A y \in S : k <= y
  <2>1. S \in SUBSET Nat
    OBVIOUS
  <2>. HIDE DEF S
  <2>. QED BY <2>1, LeastOf
<1>3. k # 0
  BY <1>1
<1>4. k - 1 \in 0 .. n /\ ~(k <= k - 1) /\ k \in 1 .. n
  BY <1>3
<1>5. Kept(loop, f[k - 1], k - 1, a)
  BY <1>2, <1>4
<1>6. f[k] = Turn(loop, f[k - 1], k, a)
  BY <1>1, <1>3
<1>. QED BY <1>4, <1>5, <1>6

\* The function that a loop is.
LEMMA LoopEnds ==
  ASSUME NEW loop, NEW n \in Nat, NEW e, NEW a, Kept(loop, e, 0, a),
         \A k \in 1 .. n : \A s : Kept(loop, s, k - 1, a) => Kept(loop, Turn(loop, s, k, a), k, a)
  PROVE  LET g == CHOOSE f : Turns(loop, n, f, e, a) IN Kept(loop, g[n], n, a)
<1>. DEFINE g == CHOOSE f : Turns(loop, n, f, e, a)
<1>1. Turns(loop, n, g, e, a)
  BY TurnsExist, Zenon
<1>. HIDE DEF g
<1>2. Kept(loop, g[n], n, a)
  BY <1>1, TurnsKeep
<1>. QED BY <1>2 DEF g

-----------------------------------------------------------------------------
(* Parts of sequences, and sequences of sequences.                         *)

LEMMA UpToAll ==
  ASSUME NEW X, NEW list \in Seq(X)
  PROVE  UpTo(Len(list), list) = ToSet(list) /\ ToSet(list) \subseteq X /\ UpTo(0, list) = {}
BY DEF UpTo, ToSet

LEMMA UpToNext ==
  ASSUME NEW list, NEW k \in Nat, k > 0
  PROVE  UpTo(k, list) = UpTo(k - 1, list) \cup {list[k]}
<1>1. \A j : j \in 1 .. k <=> j \in 1 .. (k - 1) \/ j = k
  OBVIOUS
<1>. QED BY <1>1 DEF UpTo

LEMMA AppendSet ==
  ASSUME NEW X, NEW list \in Seq(X), NEW e \in X
  PROVE  Append(list, e) \in Seq(X) /\ ToSet(Append(list, e)) = ToSet(list) \cup {e}
<1>1. Append(list, e) \in Seq(X) /\ Len(Append(list, e)) = Len(list) + 1
  OBVIOUS
<1>2. \A k \in 1 .. Len(list) : Append(list, e)[k] = list[k]
  OBVIOUS
<1>3. Append(list, e)[Len(list) + 1] = e
  OBVIOUS
<1>4. DOMAIN Append(list, e) = 1 .. Len(list) + 1 /\ DOMAIN list = 1 .. Len(list) /\ Len(list) \in Nat
  BY <1>1
<1>5. \A k : k \in 1 .. Len(list) + 1 <=> k \in 1 .. Len(list) \/ k = Len(list) + 1
  BY <1>4
<1>. QED BY <1>1, <1>2, <1>3, <1>4, <1>5 DEF ToSet

LEMMA ConcatSet ==
  ASSUME NEW X, NEW s \in Seq(X), NEW t \in Seq(X)
  PROVE  s \o t \in Seq(X) /\ ToSet(s \o t) = ToSet(s) \cup ToSet(t)
<1>1. s \o t \in Seq(X) /\ Len(s \o t) = Len(s) + Len(t)
  OBVIOUS
<1>2. \A k \in 1 .. Len(s) + Len(t) : (s \o t)[k] = IF k <= Len(s) THEN s[k] ELSE t[k - Len(s)]
  OBVIOUS
<1>3. DOMAIN (s \o t) = 1 .. Len(s) + Len(t) /\ DOMAIN s = 1 .. Len(s) /\ DOMAIN t = 1 .. Len(t)
      /\ Len(s) \in Nat /\ Len(t) \in Nat
  BY <1>1
<1>4. ToSet(s \o t) \subseteq ToSet(s) \cup ToSet(t)
  BY <1>2, <1>3 DEF ToSet
<1>5. ASSUME NEW k \in 1 .. Len(s) PROVE s[k] \in ToSet(s \o t)
  BY <1>2, <1>3 DEF ToSet
<1>6. ASSUME NEW k \in 1 .. Len(t) PROVE t[k] \in ToSet(s \o t)
  <2>1. k + Len(s) \in 1 .. Len(s) + Len(t) /\ ~(k + Len(s) <= Len(s)) /\ k + Len(s) - Len(s) = k
    BY <1>3
  <2>2. (s \o t)[k + Len(s)] = t[k]
    BY <1>2, <2>1
  <2>. QED BY <1>3, <2>1, <2>2 DEF ToSet
<1>. QED BY <1>1, <1>3, <1>4, <1>5, <1>6 DEF ToSet

LEMMA EmptyIs ==
  ASSUME NEW X, NEW s \in Seq(X), ToSet(s) = {}
  PROVE  s = <<>>
<1>1. Len(s) \in Nat /\ \A k \in 1 .. Len(s) : s[k] \in ToSet(s)
  BY DEF ToSet
<1>2. Len(s) = 0
  BY <1>1
<1>. QED BY <1>2

LEMMA SelectIs ==
  ASSUME NEW X, NEW list \in Seq(X), NEW A
  PROVE  /\ Select(list, A) \in Seq(X) /\ ToSet(Select(list, A)) = ToSet(list) \cap A
         /\ OnlyLast(Len(list), list, A) => Select(list, A) = <<list[Len(list)]>>
         /\ FirstKept(Len(list), Select(list, A), list, A)
<1>. DEFINE a == [list |-> list, set |-> A, of |-> X]
            L(f) == [n \in 0 .. Len(list) |->
                       IF n = 0 THEN <<>>
                       ELSE IF list[n] \in A THEN Append(f[n - 1], list[n]) ELSE f[n - 1]]
            g == CHOOSE f : Turns("select", Len(list), f, <<>>, a)
<1>1. a.list = list /\ a.set = A /\ a.of = X /\ Len(list) \in Nat
  OBVIOUS
<1>. HIDE DEF a
<1>2. Kept("select", <<>>, 0, a)
  BY <1>1, UpToAll DEF Kept, ToSet, OnlyLast, FirstKept
<1>3. ASSUME NEW k \in 1 .. Len(list), NEW s, Kept("select", s, k - 1, a)
      PROVE  Kept("select", Turn("select", s, k, a), k, a)
  <2>1. /\ s \in Seq(X) /\ ToSet(s) = UpTo(k - 1, list) \cap A /\ list[k] \in X
        /\ FirstKept(k - 1, s, list, A)
    BY <1>1, <1>3 DEF Kept
  <2>2. UpTo(k, list) = UpTo(k - 1, list) \cup {list[k]}
    BY UpToNext
  <2>3. Append(s, list[k]) \in Seq(X) /\ ToSet(Append(s, list[k])) = ToSet(s) \cup {list[k]}
    BY <2>1, AppendSet
  <2>4. Turn("select", s, k, a) = IF list[k] \in A THEN Append(s, list[k]) ELSE s
    BY <1>1 DEF Turn
  <2>5. Turn("select", s, k, a) \in Seq(X) /\ ToSet(Turn("select", s, k, a)) = UpTo(k, list) \cap A
    BY <2>1, <2>2, <2>3, <2>4
  <2>6. ASSUME OnlyLast(k, list, A) PROVE Turn("select", s, k, a) = <<list[k]>>
    <3>1. s = <<>> /\ list[k] \in A
      BY <2>1, <2>6, EmptyIs DEF OnlyLast
    <3>2. Append(<<>>, list[k]) = <<list[k]>>
      OBVIOUS
    <3>. QED BY <2>4, <3>1, <3>2
  <2>7. FirstKept(k, Turn("select", s, k, a), list, A)
    <3>1. 1 .. k - 1 \subseteq 1 .. k /\ k \in 1 .. k
      BY <1>1
    <3>2. CASE list[k] \notin A
      BY <2>1, <2>4, <3>1, <3>2 DEF FirstKept
    <3>3. CASE list[k] \in A /\ s = <<>>
      <4>1. Append(s, list[k])[1] = list[k]
        BY <3>3
      <4>2. \A j \in 1 .. k - 1 : list[j] \notin A
        BY <2>1, <3>3 DEF UpTo, ToSet
      <4>. QED BY <2>4, <3>1, <3>3, <4>1, <4>2 DEF FirstKept
    <3>4. CASE list[k] \in A /\ s # <<>>
      <4>1. Append(s, list[k])[1] = s[1]
        BY <2>1, <3>4
      <4>. QED BY <2>1, <2>4, <3>1, <3>4, <4>1 DEF FirstKept
    <3>. QED BY <3>2, <3>3, <3>4
  <2>. QED BY <1>1, <2>5, <2>6, <2>7 DEF Kept
<1>4. Kept("select", g[Len(list)], Len(list), a)
  BY <1>1, <1>2, <1>3, LoopEnds
<1>5. /\ g[Len(list)] \in Seq(X) /\ ToSet(g[Len(list)]) = ToSet(list) \cap A
      /\ OnlyLast(Len(list), list, A) => g[Len(list)] = <<list[Len(list)]>>
      /\ FirstKept(Len(list), g[Len(list)], list, A)
  <2>. HIDE DEF g
  <2>. QED BY <1>1, <1>4, UpToAll DEF Kept
<1>6. \A f : Turns("select", Len(list), f, <<>>, a) <=> f = L(f)
  <2>1. \A f, n : Turn("select", f, n, a) = IF list[n] \in A THEN Append(f, list[n]) ELSE f
    BY <1>1 DEF Turn
  <2>2. ASSUME NEW f
        PROVE  [k \in 0 .. Len(list) |-> IF k = 0 THEN <<>> ELSE Turn("select", f[k - 1], k, a)] = L(f)
    BY <2>1
  <2>. HIDE DEF L
  <2>. QED BY <2>2 DEF Turns
<1>7. Select(list, A) = g[Len(list)]
  BY <1>6, ZenonT(60) DEF Select
<1>. QED BY <1>5, <1>7

LEMMA FlattenIs ==
  ASSUME NEW X, NEW seqs \in Seq(Seq(X))
  PROVE  FlattenSeq(seqs) \in Seq(X) /\ ToSet(FlattenSeq(seqs)) = UNION {ToSet(s) : s \in ToSet(seqs)}
<1>1. CASE Len(seqs) = 0
  <2>1. seqs = <<>> /\ ToSet(seqs) = {}
    BY <1>1 DEF ToSet
  <2>. QED BY <1>1, <2>1 DEF FlattenSeq
<1>2. CASE Len(seqs) # 0
  <2>. DEFINE m == Len(seqs)
              L(f) == [i \in 1 .. m |-> IF i = 1 THEN seqs[i] ELSE f[i - 1] \o seqs[i]]
              g == CHOOSE f : f = L(f)
              a == [list |-> seqs, of |-> X]
              h == [k \in 0 .. m |-> IF k = 0 THEN <<>> ELSE g[k]]
  <2>1. m \in Nat /\ m # 0 /\ 1 \in 1 .. m /\ a.list = seqs /\ a.of = X
    BY <1>2
  <2>2. \A e, k : Turn("flatten", e, k, a) = e \o seqs[k]
    BY <2>1 DEF Turn
  <2>3. \A k \in 1 .. m : seqs[k] \in Seq(X)
    OBVIOUS
  <2>. HIDE DEF m, a
  <2>4. \E f : f = L(f)
    <3>1. PICK t : Turns("flatten", m, t, <<>>, a)
      BY <2>1, TurnsExist
    <3>2. \A k \in 0 .. m : t[k] = IF k = 0 THEN <<>> ELSE t[k - 1] \o seqs[k]
      <4>1. t = [k \in 0 .. m |-> IF k = 0 THEN <<>> ELSE t[k - 1] \o seqs[k]]
        BY <2>2, <3>1 DEF Turns
      <4>. QED BY <4>1
    <3>3. t[1] = seqs[1]
      <4>1. 1 \in 0 .. m /\ 0 \in 0 .. m /\ 1 - 1 = 0
        BY <2>1
      <4>2. t[0] = <<>>
        BY <3>2, <4>1
      <4>3. \A k \in 0 .. m : k # 0 => t[k] = t[k - 1] \o seqs[k]
        BY <3>2
      <4>4. t[1] = t[1 - 1] \o seqs[1]
        <5>1. 1 # 0
          OBVIOUS
        <5>. QED BY <4>1, <4>3, <5>1, Zenon
      <4>5. t[1] = <<>> \o seqs[1]
        BY <4>1, <4>2, <4>4, Zenon
      <4>. QED BY <2>1, <2>3, <4>5
    <3>. DEFINE f == [i \in 1 .. m |-> t[i]]
    <3>4. ASSUME NEW i \in 1 .. m
          PROVE  f[i] = IF i = 1 THEN seqs[i] ELSE f[i - 1] \o seqs[i]
      <4>1. CASE i = 1
        BY <3>3, <4>1
      <4>2. CASE i # 1
        <5>1. i - 1 \in 1 .. m /\ i \in 0 .. m /\ i # 0
          BY <2>1, <4>2
        <5>. QED BY <3>2, <4>2, <5>1
      <4>. QED BY <4>1, <4>2
    <3>5. f = [i \in 1 .. m |-> f[i]]
      OBVIOUS
    <3>. HIDE DEF f
    <3>6. f = L(f)
      BY <3>4, <3>5
    <3>. QED BY <3>6
  <2>5. g = L(g)
    <3>. HIDE DEF L
    <3>. QED BY <2>4, Zenon
  <2>6. FlattenSeq(seqs) = g[m]
    BY <1>2 DEF FlattenSeq, m
  <2>. HIDE DEF g
  <2>7. Turns("flatten", m, h, <<>>, a)
    <3>1. \A i \in 1 .. m : g[i] = IF i = 1 THEN seqs[i] ELSE g[i - 1] \o seqs[i]
      BY <2>5
    <3>2. \A i \in 1 .. m : h[i] = g[i]
      OBVIOUS
    <3>3. h[0] = <<>>
      BY <2>1
    <3>4. ASSUME NEW k \in 0 .. m
          PROVE  h[k] = IF k = 0 THEN <<>> ELSE Turn("flatten", h[k - 1], k, a)
      <4>. HIDE DEF h
      <4>1. CASE k = 0
        BY <3>3, <4>1
      <4>2. CASE k = 1
        <5>1. <<>> \o seqs[1] = seqs[1]
          BY <2>1, <2>3
        <5>2. h[1] = seqs[1]
          BY <2>1, <3>1, <3>2
        <5>3. h[k] = Turn("flatten", h[0], k, a)
          BY <2>2, <3>3, <4>2, <5>1, <5>2
        <5>. QED BY <4>2, <5>3
      <4>3. CASE k # 0 /\ k # 1
        <5>1. k \in 1 .. m /\ k - 1 \in 1 .. m
          BY <2>1, <4>3
        <5>2. g[k] = g[k - 1] \o seqs[k]
          BY <3>1, <4>3, <5>1
        <5>3. h[k] = h[k - 1] \o seqs[k]
          BY <3>2, <5>1, <5>2
        <5>. QED BY <2>2, <4>3, <5>3
      <4>. QED BY <4>1, <4>2, <4>3
    <3>5. h = [k \in 0 .. m |-> h[k]]
      OBVIOUS
    <3>. HIDE DEF h
    <3>. QED BY <3>4, <3>5 DEF Turns
  <2>8. h[m] = g[m]
    BY <2>1
  <2>. HIDE DEF h
  <2>9. Kept("flatten", <<>>, 0, a)
    BY <2>1 DEF Kept, UpTo, ToSet
  <2>10. ASSUME NEW k \in 1 .. m, NEW s, Kept("flatten", s, k - 1, a)
         PROVE  Kept("flatten", Turn("flatten", s, k, a), k, a)
    <3>1. s \in Seq(X) /\ ToSet(s) = UNION {ToSet(x) : x \in UpTo(k - 1, seqs)}
      BY <2>1, <2>10 DEF Kept
    <3>2. UpTo(k, seqs) = UpTo(k - 1, seqs) \cup {seqs[k]}
      BY <2>1, UpToNext
    <3>3. s \o seqs[k] \in Seq(X) /\ ToSet(s \o seqs[k]) = ToSet(s) \cup ToSet(seqs[k])
      BY <2>3, <3>1, ConcatSet
    <3>4. ToSet(s \o seqs[k]) = UNION {ToSet(x) : x \in UpTo(k, seqs)}
      BY <3>1, <3>2, <3>3
    <3>. QED BY <2>1, <2>2, <3>3, <3>4 DEF Kept
  <2>11. Kept("flatten", g[m], m, a)
    BY <2>1, <2>7, <2>8, <2>9, <2>10, TurnsKeep
  <2>12. g[m] \in Seq(X) /\ ToSet(g[m]) = UNION {ToSet(x) : x \in UpTo(m, seqs)}
    BY <2>1, <2>11 DEF Kept
  <2>13. UpTo(m, seqs) = ToSet(seqs)
    BY UpToAll DEF m
  <2>. QED BY <2>6, <2>12, <2>13
<1>. QED BY <1>1, <1>2

LEMMA SeqIs ==
  ASSUME NEW X, NEW s \in Seq(X)
  PROVE  IsSeq(s) /\ ToSet(s) \subseteq X
<1>1. s \in [1 .. Len(s) -> X] /\ Len(s) \in Nat /\ DOMAIN s = 1 .. Len(s)
  OBVIOUS
<1>2. \A k \in 1 .. Len(s) : s[k] \in ToSet(s)
  BY <1>1 DEF ToSet
<1>3. s \in [1 .. Len(s) -> ToSet(s)]
  BY <1>1, <1>2
<1>4. ToSet(s) \subseteq X
  BY <1>1 DEF ToSet
<1>5. s \in Seq(ToSet(s))
  BY <1>1, <1>3, SeqDef
<1>. QED BY <1>4, <1>5 DEF IsSeq

LEMMA SeqIn ==
  ASSUME NEW X, NEW s, IsSeq(s), ToSet(s) \subseteq X
  PROVE  s \in Seq(X)
<1>1. s \in [1 .. Len(s) -> ToSet(s)] /\ Len(s) \in Nat
  BY DEF IsSeq
<1>. QED BY <1>1, SeqDef

LEMMA IsSeqDomain ==
  ASSUME NEW s, IsSeq(s)
  PROVE  Len(s) \in Nat /\ DOMAIN s = 1 .. Len(s) /\ \A k \in DOMAIN s : s[k] \in ToSet(s)
BY DEF IsSeq, ToSet

LEMMA FunctionIsSeq ==
  ASSUME NEW n \in Nat, NEW f, f = [k \in 1 .. n |-> f[k]]
  PROVE  IsSeq(f) /\ Len(f) = n
<1>1. \A k \in 1 .. n : f[k] \in ToSet(f)
  BY DEF ToSet
<1>2. f \in [1 .. n -> ToSet(f)]
  BY <1>1
<1>. QED BY <1>2, SeqDef DEF IsSeq

LEMMA Concatenated ==
  ASSUME NEW s, NEW t, IsSeq(s), IsSeq(t)
  PROVE  IsSeq(s \o t) /\ ToSet(s \o t) = ToSet(s) \cup ToSet(t)
<1>. DEFINE X == ToSet(s) \cup ToSet(t)
<1>1. s \in Seq(X) /\ t \in Seq(X)
  BY SeqIn
<1>. HIDE DEF X
<1>2. s \o t \in Seq(X) /\ ToSet(s \o t) = ToSet(s) \cup ToSet(t)
  BY <1>1, ConcatSet
<1>. QED BY <1>2, SeqIs

LEMMA Appended ==
  ASSUME NEW s, NEW e, IsSeq(s)
  PROVE  IsSeq(Append(s, e)) /\ ToSet(Append(s, e)) = ToSet(s) \cup {e}
<1>. DEFINE X == ToSet(s) \cup {e}
<1>1. s \in Seq(X) /\ e \in X
  BY SeqIn
<1>. HIDE DEF X
<1>2. Append(s, e) \in Seq(X) /\ ToSet(Append(s, e)) = ToSet(s) \cup {e}
  BY <1>1, AppendSet
<1>. QED BY <1>2, SeqIs

LEMMA Single ==
  ASSUME NEW e
  PROVE  IsSeq(<<e>>) /\ ToSet(<<e>>) = {e} /\ IsSeq(<<>>) /\ ToSet(<<>>) = {}
<1>1. IsSeq(<<>>) /\ ToSet(<<>>) = {}
  BY DEF IsSeq, ToSet
<1>2. <<e>> = Append(<<>>, e)
  OBVIOUS
<1>3. IsSeq(Append(<<>>, e)) /\ ToSet(Append(<<>>, e)) = {} \cup {e}
  BY <1>1, Appended
<1>. QED BY <1>1, <1>2, <1>3

LEMMA Chosen ==
  ASSUME NEW s, NEW A, IsSeq(s)
  PROVE  IsSeq(Select(s, A)) /\ ToSet(Select(s, A)) = ToSet(s) \cap A
<1>1. Select(s, A) \in Seq(ToSet(s)) /\ ToSet(Select(s, A)) = ToSet(s) \cap A
  BY SelectIs DEF IsSeq
<1>. QED BY <1>1, SeqIs

LEMMA LastChosen ==
  ASSUME NEW s, NEW e, NEW A, IsSeq(s), ToSet(s) \cap A = {}, e \in A
  PROVE  Select(Append(s, e), A) = <<e>>
<1>. DEFINE X == ToSet(s) \cup {e}
            list == Append(s, e)
<1>1. s \in Seq(X) /\ e \in X
  BY SeqIn
<1>. HIDE DEF X
<1>2. /\ list \in Seq(X) /\ Len(list) = Len(s) + 1 /\ list[Len(s) + 1] = e /\ Len(s) \in Nat
      /\ \A k \in 1 .. Len(s) : list[k] = s[k] /\ s[k] \in ToSet(s)
  BY <1>1 DEF ToSet
<1>. HIDE DEF list
<1>3. UpTo(Len(list) - 1, list) \subseteq ToSet(s)
  <2>1. Len(list) - 1 = Len(s)
    BY <1>2
  <2>. QED BY <1>2, <2>1 DEF UpTo
<1>4. OnlyLast(Len(list), list, A)
  BY <1>2, <1>3 DEF OnlyLast
<1>5. Select(list, A) = <<e>>
  BY <1>2, <1>4, SelectIs
<1>. QED BY <1>5 DEF list

LEMMA Flattened ==
  ASSUME NEW seqs, IsSeq(seqs), \A s \in ToSet(seqs) : IsSeq(s)
  PROVE  /\ IsSeq(FlattenSeq(seqs))
         /\ ToSet(FlattenSeq(seqs)) = UNION {ToSet(s) : s \in ToSet(seqs)}
<1>. DEFINE X == UNION {ToSet(s) : s \in ToSet(seqs)}
<1>1. ASSUME NEW s \in ToSet(seqs) PROVE s \in Seq(X)
  <2>1. ToSet(s) \subseteq X
    OBVIOUS
  <2>. HIDE DEF X
  <2>. QED BY <2>1, SeqIn
<1>. HIDE DEF X
<1>2. seqs \in Seq(Seq(X))
  <2>1. ToSet(seqs) \subseteq Seq(X)
    BY <1>1
  <2>. QED BY <2>1, SeqIn
<1>3. FlattenSeq(seqs) \in Seq(X) /\ ToSet(FlattenSeq(seqs)) = UNION {ToSet(s) : s \in ToSet(seqs)}
  BY <1>2, FlattenIs
<1>. QED BY <1>3, SeqIs

LEMMA InsertIs ==
  ASSUME NEW s, NEW i \in Nat, NEW e, IsSeq(s), i <= Len(s)
  PROVE  IsSeq(InsertAt(s, i + 1, e)) /\ ToSet(InsertAt(s, i + 1, e)) = ToSet(s) \cup {e}
<1>. DEFINE X == ToSet(s)
            front == SubSeq(s, 1, i)
            back == SubSeq(s, i + 1, Len(s))
<1>1. s \in Seq(X) /\ Len(s) \in Nat /\ i + 1 - 1 = i
  BY IsSeqDomain DEF IsSeq
<1>. HIDE DEF X
<1>2. front \in Seq(X) /\ back \in Seq(X) /\ s = front \o back
  <2>1. front \in Seq(X) /\ Len(front) = i /\ \A k \in 1 .. i : front[k] = s[k]
    BY <1>1
  <2>2. back \in Seq(X) /\ Len(back) = Len(s) - i
        /\ \A k \in 1 .. Len(s) - i : back[k] = s[k + i]
    BY <1>1
  <2>. HIDE DEF front, back
  <2>3. front \o back \in Seq(X) /\ Len(front \o back) = Len(s)
    BY <1>1, <2>1, <2>2
  <2>4. ASSUME NEW k \in 1 .. Len(s) PROVE (front \o back)[k] = s[k]
    <3>1. CASE k <= i
      BY <1>1, <2>1, <2>2, <3>1
    <3>2. CASE k > i
      <4>1. k - i \in 1 .. Len(s) - i /\ k - i + i = k
        BY <1>1, <3>2
      <4>2. (front \o back)[k] = back[k - i]
        BY <1>1, <2>1, <2>2, <3>2
      <4>. QED BY <2>2, <4>1, <4>2
    <3>3. k <= i \/ k > i
      BY <1>1
    <3>. QED BY <3>1, <3>2, <3>3, Zenon
  <2>. QED BY <1>1, <2>1, <2>2, <2>3, <2>4, SeqEqual
<1>3. IsSeq(front) /\ IsSeq(back)
  BY <1>2, SeqIs
<1>4. ToSet(s) = ToSet(front) \cup ToSet(back)
  BY <1>2, <1>3, Concatenated
<1>. HIDE DEF front, back
<1>5. IsSeq(front \o <<e>>) /\ ToSet(front \o <<e>>) = ToSet(front) \cup {e}
  BY <1>3, Single, Concatenated
<1>6. /\ IsSeq((front \o <<e>>) \o back)
      /\ ToSet((front \o <<e>>) \o back) = ToSet(front) \cup {e} \cup ToSet(back)
  BY <1>3, <1>5, Concatenated
<1>7. InsertAt(s, i + 1, e) = (front \o <<e>>) \o back
  <2>1. (i + 1) - 1 = i
    BY <1>1
  <2>2. SubSeq(s, 1, (i + 1) - 1) = front
    BY <2>1 DEF front
  <2>. QED BY <2>2, Zenon DEF InsertAt, back
<1>. QED BY <1>4, <1>6, <1>7

\* However the times compare, no loader of a directory is lost.
LEMMA AddedIs ==
  ASSUME NEW s, NEW e, IsSeq(s)
  PROVE  /\ IsSeq(AddLoaderListEntry(s, e))
         /\ ToSet(AddLoaderListEntry(s, e)) = ToSet(s) \cup {e}
<1>. DEFINE P(n) == /\ \A k \in 1 .. n : Older(e.time, s[k].time)
                    /\ n = Len(s) \/ ~ Older(e.time, s[n + 1].time)
            newer == CHOOSE n \in 0 .. Len(s) : P(n)
            B == {k \in 1 .. Len(s) : ~ Older(e.time, s[k].time)}
<1>1. Len(s) \in Nat
  BY IsSeqDomain
<1>2. \E n \in 0 .. Len(s) : P(n)
  <2>1. CASE B = {}
    <3>1. Len(s) \in 0 .. Len(s) /\ P(Len(s))
      BY <1>1, <2>1
    <3>. QED BY <3>1
  <2>2. CASE B # {}
    <3>1. PICK m \in B : \A y \in B : m <= y
      <4>1. B \in SUBSET Nat
        OBVIOUS
      <4>. HIDE DEF B
      <4>. QED BY <2>2, <4>1, LeastOf
    <3>2. m - 1 \in 0 .. Len(s) /\ (m - 1) + 1 = m
      BY <1>1
    <3>3. \A k \in 1 .. m - 1 : Older(e.time, s[k].time)
      <4>1. ASSUME NEW k \in 1 .. m - 1, ~ Older(e.time, s[k].time) PROVE FALSE
        <5>1. k \in B /\ ~(m <= k)
          BY <1>1, <3>2, <4>1
        <5>. QED BY <3>1, <5>1
      <4>. QED BY <4>1
    <3>4. ~ Older(e.time, s[m].time)
      OBVIOUS
    <3>5. P(m - 1)
      BY <3>2, <3>3, <3>4
    <3>. QED BY <3>2, <3>5
  <2>. QED BY <2>1, <2>2
<1>3. newer \in 0 .. Len(s)
  BY <1>2
<1>4. AddLoaderListEntry(s, e) = InsertAt(s, newer + 1, e)
  BY DEF AddLoaderListEntry
<1>. HIDE DEF newer
<1>5. newer \in Nat /\ newer <= Len(s)
  BY <1>1, <1>3
<1>. QED BY <1>4, <1>5, InsertIs

-----------------------------------------------------------------------------
(* Directories and their files.                                            *)

\* What the assumption says of directories.
Listing(list) == list \in Seq(File) /\ \A e, f \in ToSet(list) : e.name = f.name => e = f

LEMMA DirIs ==
  ASSUME world \in ToSet(Worlds), NEW v, NEW path
  PROVE  Listing(Dir(v, path))
<1>1. Listing(<<>>)
  BY DEF Listing, ToSet
<1>2. \A d \in ToSet(world.devices) : d.fs # NULL => \A dir \in DOMAIN d.fs : Listing(d.fs[dir])
  BY WorldsAssumption DEF Listing
<1>3. CASE Directories(v) = <<>>
  BY <1>1, <1>3 DEF Dir
<1>4. CASE Directories(v) # <<>>
  <2>. DEFINE on == {d \in ToSet(world.devices) : d.handle = v.DeviceHandle /\ d.fs # NULL}
  <2>1. on # {} /\ Directories(v) = (CHOOSE d \in on : TRUE).fs
    BY <1>4 DEF Directories
  <2>2. (CHOOSE d \in on : TRUE) \in on
    BY <2>1
  <2>. QED BY <1>1, <1>2, <2>1, <2>2 DEF Dir
<1>. QED BY <1>3, <1>4

LEMMA FilesInIs ==
  ASSUME world \in ToSet(Worlds), NEW v, NEW path, NEW traits
  PROVE  /\ IsSeq(FilesIn(v, path, traits))
         /\ ToSet(FilesIn(v, path, traits))
              = {e \in ToSet(Dir(v, path)) : ~ e.dir /\ Is(e.name, traits)}
<1>1. IsSeq(Dir(v, path)) /\ ToSet(Dir(v, path)) \subseteq File
  BY DirIs, SeqIs DEF Listing
<1>. DEFINE A == {e \in ToSet(Dir(v, path)) : ~ e.dir /\ Is(e.name, traits)}
<1>2. FilesIn(v, path, traits) = Select(Dir(v, path), A)
  BY DEF FilesIn, Where
<1>3. ToSet(Dir(v, path)) \cap A = A
  OBVIOUS
<1>. HIDE DEF A
<1>4. IsSeq(FilesIn(v, path, traits)) /\ ToSet(FilesIn(v, path, traits)) = A
  BY <1>1, <1>2, <1>3, Chosen
<1>. QED BY <1>4 DEF A

\* A list of paths.
ArePaths(list) == IsSeq(list) /\ \A p \in ToSet(list) : IsSeq(p)

LEMMA PairIs ==
  ASSUME NEW x, NEW y
  PROVE  IsSeq(<<x, y>>)
<1>1. <<x, y>> = Append(<<x>>, y)
  OBVIOUS
<1>2. IsSeq(Append(<<x>>, y))
  BY Single, Appended
<1>. QED BY <1>1, <1>2, Zenon

LEMMA EfiDirsIs ==
  ASSUME world \in ToSet(Worlds), NEW v
  PROVE  ArePaths(EfiDirs(v))
<1>. DEFINE list == DirsIn(v, <<"EFI">>)
            A == {e \in ToSet(list) : e.name # "tools" /\ ~ Is(e.name, {".*"})}
            dirs == Select(list, A)
<1>1. IsSeq(list)
  <2>1. IsSeq(Dir(v, <<"EFI">>))
    BY DirIs, SeqIs DEF Listing
  <2>2. list = Select(Dir(v, <<"EFI">>), {e \in ToSet(Dir(v, <<"EFI">>)) : e.dir})
    BY DEF DirsIn, Where
  <2>. HIDE DEF list
  <2>. QED BY <2>1, <2>2, Chosen
<1>2. EfiDirs(v) = [n \in DOMAIN dirs |-> <<"EFI", dirs[n].name>>]
  BY DEF EfiDirs, Where
<1>. HIDE DEF list, A
<1>3. Len(dirs) \in Nat /\ DOMAIN dirs = 1 .. Len(dirs)
  BY <1>1, Chosen, IsSeqDomain
<1>. HIDE DEF dirs
<1>4. EfiDirs(v) = [n \in 1 .. Len(dirs) |-> EfiDirs(v)[n]]
  BY <1>2, <1>3
<1>5. IsSeq(EfiDirs(v))
  BY <1>3, <1>4, FunctionIsSeq
<1>6. \A p \in ToSet(EfiDirs(v)) : IsSeq(p)
  BY <1>2, PairIs DEF ToSet
<1>. QED BY <1>5, <1>6 DEF ArePaths

LEMMA AlsoDirsIs ==
  ASSUME NEW v, AlsoScanTyped(GlobalConfig.AlsoScan)
  PROVE  ArePaths(AlsoDirs(v))
<1>. DEFINE list == GlobalConfig.AlsoScan
            A == {a \in ToSet(list) : Concerns(a, v, a.path)}
            wanted == Select(list, A)
<1>1. AlsoDirs(v) = [n \in DOMAIN wanted |-> wanted[n].path]
  BY DEF AlsoDirs, Where
<1>. HIDE DEF A
<1>2. IsSeq(list) /\ \A a \in ToSet(list) : IsSeq(a.path)
  BY DEF AlsoScanTyped
<1>. HIDE DEF list
<1>3. IsSeq(wanted) /\ ToSet(wanted) \subseteq ToSet(list)
  BY <1>2, Chosen
<1>. HIDE DEF wanted
<1>4. Len(wanted) \in Nat /\ DOMAIN wanted = 1 .. Len(wanted)
      /\ \A n \in DOMAIN wanted : IsSeq(wanted[n].path)
  BY <1>2, <1>3, IsSeqDomain
<1>5. AlsoDirs(v) = [n \in 1 .. Len(wanted) |-> AlsoDirs(v)[n]]
  BY <1>1, <1>4
<1>6. IsSeq(AlsoDirs(v))
  BY <1>4, <1>5, FunctionIsSeq
<1>7. \A p \in ToSet(AlsoDirs(v)) : IsSeq(p)
  BY <1>1, <1>4 DEF ToSet
<1>. QED BY <1>6, <1>7 DEF ArePaths

LEMMA PathIs ==
  ASSUME NEW path, NEW name, IsSeq(path)
  PROVE  /\ IsSeq(Append(path, name))
         /\ Front(Append(path, name)) = path /\ Last(Append(path, name)) = name
<1>1. path \in Seq(ToSet(path)) /\ Len(path) \in Nat
  BY IsSeqDomain DEF IsSeq
<1>. DEFINE X == ToSet(path) \cup {name}
            q == Append(path, name)
<1>2. path \in Seq(X) /\ name \in X
  BY SeqIn
<1>. HIDE DEF X
<1>3. q \in Seq(X) /\ Len(q) = Len(path) + 1 /\ q[Len(path) + 1] = name
      /\ \A k \in 1 .. Len(path) : q[k] = path[k]
  BY <1>1, <1>2
<1>. HIDE DEF q
<1>4. Len(q) - 1 = Len(path)
  BY <1>1, <1>3
<1>5. SubSeq(q, 1, Len(path)) = path
  <2>1. SubSeq(q, 1, Len(path)) \in Seq(X) /\ Len(SubSeq(q, 1, Len(path))) = Len(path)
        /\ \A k \in 1 .. Len(path) : SubSeq(q, 1, Len(path))[k] = q[k]
    BY <1>1, <1>3
  <2>. QED BY <1>2, <1>3, <2>1, SeqEqual
<1>6. Front(q) = path
  BY <1>4, <1>5 DEF Front
<1>7. Last(q) = name
  BY <1>3 DEF Last
<1>. QED BY <1>6, <1>7, Appended DEF q

LEMMA ScanLoaderDirIs ==
  ASSUME world \in ToSet(Worlds), NEW v, NEW path, IsSeq(path)
  PROVE  /\ ArePaths(ScanLoaderDir(v, path))
         /\ ToSet(ScanLoaderDir(v, path)) =
              IF ShouldScan(v, path)
              THEN {Append(path, e.name) : e \in
                     {f \in ToSet(FilesIn(v, path, MatchPatterns)) : ~ Skipped(Append(path, f.name))}}
              ELSE {}
<1>. DEFINE found == FilesIn(v, path, MatchPatterns)
            A == {e \in ToSet(found) : ~ Skipped(Append(path, e.name))}
            files == Select(found, A)
            L(f) == [n \in 0 .. Len(files) |->
                       IF n = 0 THEN <<>> ELSE AddLoaderListEntry(f[n - 1], files[n])]
            list == CHOOSE f : f = L(f)
            newest == list[Len(files)]
            names == [n \in DOMAIN newest |-> Append(path, newest[n].name)]
            a == [list |-> files]
            g == CHOOSE f : Turns("newest", Len(files), f, <<>>, a)
<1>1. ScanLoaderDir(v, path) = IF ShouldScan(v, path) THEN names ELSE <<>>
  BY DEF ScanLoaderDir, Where
<1>2. IsSeq(files) /\ ToSet(files) = A
  <2>1. IsSeq(found)
    BY FilesInIs
  <2>. HIDE DEF found
  <2>2. ToSet(found) \cap A = A
    OBVIOUS
  <2>. HIDE DEF A
  <2>. QED BY <2>1, <2>2, Chosen
<1>. HIDE DEF files
<1>3. a.list = files /\ Len(files) \in Nat
  BY <1>2, IsSeqDomain
<1>. HIDE DEF a
<1>4. \A f, n : Turn("newest", f, n, a) = AddLoaderListEntry(f, files[n])
  BY <1>3 DEF Turn
<1>5. newest = g[Len(files)]
  <2>1. \A f : Turns("newest", Len(files), f, <<>>, a) <=> f = L(f)
    <3>1. ASSUME NEW f
          PROVE  [k \in 0 .. Len(files) |-> IF k = 0 THEN <<>> ELSE Turn("newest", f[k - 1], k, a)]
                   = L(f)
      BY <1>4
    <3>. HIDE DEF L
    <3>. QED BY <3>1 DEF Turns
  <2>. HIDE DEF L
  <2>. QED BY <2>1
<1>6. Kept("newest", <<>>, 0, a)
  <2>1. UpTo(0, files) = {}
    BY DEF UpTo
  <2>. QED BY <1>3, <2>1, Single DEF Kept
<1>7. ASSUME NEW k \in 1 .. Len(files), NEW s, Kept("newest", s, k - 1, a)
      PROVE  Kept("newest", Turn("newest", s, k, a), k, a)
  <2>1. IsSeq(s) /\ ToSet(s) = UpTo(k - 1, files)
    BY <1>3, <1>7 DEF Kept
  <2>2. UpTo(k, files) = UpTo(k - 1, files) \cup {files[k]}
    BY <1>3, UpToNext
  <2>3. IsSeq(AddLoaderListEntry(s, files[k]))
        /\ ToSet(AddLoaderListEntry(s, files[k])) = ToSet(s) \cup {files[k]}
    BY <2>1, AddedIs
  <2>. QED BY <1>3, <1>4, <2>1, <2>2, <2>3 DEF Kept
<1>8. Kept("newest", g[Len(files)], Len(files), a)
  BY <1>3, <1>6, <1>7, LoopEnds
<1>. HIDE DEF list, g
<1>9. IsSeq(newest) /\ ToSet(newest) = A
  <2>1. UpTo(Len(files), files) = ToSet(files)
    BY <1>2, UpToAll DEF IsSeq
  <2>. QED BY <1>2, <1>3, <1>5, <1>8, <2>1 DEF Kept
<1>. HIDE DEF newest
<1>10. Len(newest) \in Nat /\ DOMAIN newest = 1 .. Len(newest)
  BY <1>9, IsSeqDomain
<1>11. IsSeq(names)
  <2>1. names = [n \in 1 .. Len(newest) |-> names[n]]
    BY <1>10
  <2>. HIDE DEF names
  <2>. QED BY <1>10, <2>1, FunctionIsSeq
<1>12. ToSet(names) = {Append(path, e.name) : e \in A}
  <2>1. ToSet(newest) = {newest[n] : n \in DOMAIN newest}
    BY DEF ToSet
  <2>2. ToSet(names) = {Append(path, newest[n].name) : n \in DOMAIN newest}
    BY DEF ToSet
  <2>. HIDE DEF A, names
  <2>. QED BY <1>9, <2>1, <2>2
<1>13. \A p \in ToSet(names) : IsSeq(p)
  <2>. HIDE DEF A, names
  <2>. QED BY <1>12, PathIs
<1>. HIDE DEF names
<1>14. ArePaths(IF ShouldScan(v, path) THEN names ELSE <<>>)
  BY <1>11, <1>13, Single DEF ArePaths
<1>. QED BY <1>1, <1>12, <1>14, Single

-----------------------------------------------------------------------------
(* Entries.                                                                *)

LEMMA EntryFields ==
  /\ {"Tag", "Title", "LoaderPath", "DevicePath", "SubScreen", "LoadOptions", "OSType",
      "ShortcutLetter", "UseGraphicsMode", "ShortcutDigit", "Enabled", "InitrdPath",
      "VolName", "VolTitle", "Row", "Volume"} \subseteq DOMAIN NewEntry
  /\ NewEntry.Tag = "loader"
BY DEF NewEntry

\* What the properties see of an entry.
Same(d, e) ==
  /\ IsEntry(d)
  /\ d.Tag = e.Tag /\ d.Title = e.Title /\ d.LoaderPath = e.LoaderPath /\ d.DevicePath = e.DevicePath

LEMMA DefaultsKeep ==
  ASSUME NEW e, NEW path, NEW rooted, NEW v, IsEntry(e)
  PROVE  Same(SetLoaderDefaults(e, path, rooted, v), e)
<1>. DEFINE d == SetLoaderDefaults(e, path, rooted, v)
<1>1. PICK type, letter, options, graphics :
        d = [e EXCEPT !.OSType = type, !.ShortcutLetter = letter, !.LoadOptions = options,
                      !.UseGraphicsMode = graphics]
  BY ZenonT(60) DEF SetLoaderDefaults
<1>. HIDE DEF d
<1>2. {"Tag", "Title", "LoaderPath", "DevicePath"} \subseteq DOMAIN e
  BY EntryFields DEF IsEntry
<1>3. DOMAIN d = DOMAIN e
  BY <1>1
<1>4. d.Tag = e.Tag /\ d.Title = e.Title /\ d.LoaderPath = e.LoaderPath /\ d.DevicePath = e.DevicePath
  BY <1>1, <1>2
<1>5. IsEntry(d)
  BY <1>3 DEF IsEntry
<1>6. Same(d, e)
  BY <1>4, <1>5 DEF Same
<1>. QED BY <1>6 DEF d

LEMMA SubScreenKeeps ==
  ASSUME NEW e, NEW v, IsEntry(e)
  PROVE  Same(GenerateSubScreen(e, v), e)
<1>. DEFINE d == GenerateSubScreen(e, v)
<1>1. PICK shown, options : d = [e EXCEPT !.SubScreen = shown, !.LoadOptions = options]
  BY Zenon DEF GenerateSubScreen
<1>. HIDE DEF d
<1>2. {"Tag", "Title", "LoaderPath", "DevicePath"} \subseteq DOMAIN e
  BY EntryFields DEF IsEntry
<1>3. DOMAIN d = DOMAIN e
  BY <1>1
<1>4. d.Tag = e.Tag /\ d.Title = e.Title /\ d.LoaderPath = e.LoaderPath /\ d.DevicePath = e.DevicePath
  BY <1>1, <1>2
<1>5. IsEntry(d)
  BY <1>3 DEF IsEntry
<1>6. Same(d, e)
  BY <1>4, <1>5 DEF Same
<1>. QED BY <1>6 DEF d

LEMMA LoaderEntryIs ==
  ASSUME NEW path, NEW title, NEW v
  PROVE  LET e == LoaderEntry(path, title, v)
         IN  /\ IsEntry(e) /\ e.Tag = "loader" /\ e.LoaderPath = path
             /\ e.DevicePath = FileDevicePath(v, path)
<1>. DEFINE e == [NewEntry EXCEPT !.Title = IF title = NULL THEN path ELSE <<title>>,
                                  !.VolTitle = v.VolName, !.VolName = v.VolName,
                                  !.LoaderPath = path, !.DevicePath = FileDevicePath(v, path)]
            d == SetLoaderDefaults(e, path, FALSE, v)
<1>1. /\ IsEntry(e) /\ e.Tag = "loader" /\ e.LoaderPath = path
      /\ e.DevicePath = FileDevicePath(v, path)
  BY EntryFields DEF IsEntry
<1>2. LoaderEntry(path, title, v) = GenerateSubScreen(d, v)
  BY DEF LoaderEntry
<1>. HIDE DEF e
<1>3. Same(d, e)
  BY <1>1, DefaultsKeep
<1>. HIDE DEF d
<1>4. Same(GenerateSubScreen(d, v), d)
  BY <1>3, SubScreenKeeps DEF Same
<1>. QED BY <1>1, <1>2, <1>3, <1>4 DEF Same

-----------------------------------------------------------------------------
(* The loaders of a volume.                                                *)

LEMMA KnownLoadersIs ==
  ASSUME NEW v
  PROVE  /\ IsSeq(KnownLoaders(v))
         /\ \A k \in ToSet(KnownLoaders(v)) : k.dir \in {CORE_SERVICES, MICROSOFT}
<1>. DEFINE A == {k \in ToSet(Known) : /\ FileExists(v, Append(k.dir, k.file))
                                       /\ ~ InList(k.dir, GlobalConfig.DontScanDirs)
                                       /\ ~ InList(<<k.tests>>, GlobalConfig.DontScanFiles)}
<1>1. KnownLoaders(v) = Select(Known, A)
  BY DEF KnownLoaders, Where
<1>2. IsSeq(Known) /\ \A k \in ToSet(Known) : k.dir \in {CORE_SERVICES, MICROSOFT}
  <2>1. \A n \in DOMAIN Known : Known[n].dir \in {CORE_SERVICES, MICROSOFT}
    <3>1. DOMAIN Known = 1 .. 3
      BY DEF Known
    <3>2. Known[1].dir = CORE_SERVICES
      BY DEF Known
    <3>3. Known[2].dir = CORE_SERVICES
      BY DEF Known
    <3>4. Known[3].dir = MICROSOFT
      BY DEF Known
    <3>5. \A n \in 1 .. 3 : n = 1 \/ n = 2 \/ n = 3
      OBVIOUS
    <3>. QED BY <3>1, <3>2, <3>3, <3>4, <3>5, Zenon
  <2>2. Known = [n \in 1 .. 3 |-> Known[n]]
    BY DEF Known
  <2>. QED BY <2>1, <2>2, FunctionIsSeq DEF ToSet
<1>. HIDE DEF A
<1>. QED BY <1>1, <1>2, Chosen

\* The directories it looks at, in their order.
InOrder(v) == <<<<>>>> \o EfiDirs(v) \o AlsoDirs(v)

LEMMA InOrderIs ==
  ASSUME world \in ToSet(Worlds), NEW v, AlsoScanTyped(GlobalConfig.AlsoScan)
  PROVE  ArePaths(InOrder(v)) /\ ToSet(InOrder(v)) = LoaderDirs(v)
<1>. DEFINE root == <<<<>>>>
<1>1. ArePaths(EfiDirs(v)) /\ ArePaths(AlsoDirs(v))
  BY EfiDirsIs, AlsoDirsIs
<1>2. ArePaths(root) /\ ToSet(root) = {<<>>}
  BY Single DEF ArePaths
<1>. HIDE DEF root
<1>3. IsSeq(root \o EfiDirs(v)) /\ ToSet(root \o EfiDirs(v)) = {<<>>} \cup ToSet(EfiDirs(v))
  BY <1>1, <1>2, Concatenated DEF ArePaths
<1>4. /\ IsSeq((root \o EfiDirs(v)) \o AlsoDirs(v))
      /\ ToSet((root \o EfiDirs(v)) \o AlsoDirs(v))
           = {<<>>} \cup ToSet(EfiDirs(v)) \cup ToSet(AlsoDirs(v))
  BY <1>1, <1>3, Concatenated DEF ArePaths
<1>5. InOrder(v) = (root \o EfiDirs(v)) \o AlsoDirs(v)
  BY DEF InOrder, root
<1>6. \A p \in ToSet(InOrder(v)) : IsSeq(p)
  BY <1>1, <1>2, <1>4, <1>5 DEF ArePaths
<1>. QED BY <1>4, <1>5, <1>6 DEF ArePaths, LoaderDirs

\* The paths of the loaders it finds.
Paths(v) ==
  {Append(k.dir, k.file) : k \in ToSet(KnownLoaders(v))}
  \cup UNION {ToSet(ScanLoaderDir(v, dir)) : dir \in LoaderDirs(v)}

LEMMA PathsAre ==
  ASSUME world \in ToSet(Worlds), NEW v, AlsoScanTyped(GlobalConfig.AlsoScan), NEW path \in Paths(v)
  PROVE  IsSeq(path)
<1>1. ASSUME NEW k \in ToSet(KnownLoaders(v)), path = Append(k.dir, k.file) PROVE IsSeq(path)
  <2>1. k.dir \in {CORE_SERVICES, MICROSOFT}
    BY KnownLoadersIs
  <2>2. CORE_SERVICES = [n \in 1 .. 3 |-> CORE_SERVICES[n]]
    BY DEF CORE_SERVICES
  <2>3. MICROSOFT = [n \in 1 .. 3 |-> MICROSOFT[n]]
    BY DEF MICROSOFT
  <2>4. IsSeq(k.dir)
    BY <2>1, <2>2, <2>3, FunctionIsSeq
  <2>. QED BY <1>1, <2>4, Appended
<1>2. ASSUME NEW dir \in LoaderDirs(v), path \in ToSet(ScanLoaderDir(v, dir)) PROVE IsSeq(path)
  <2>1. IsSeq(dir)
    BY InOrderIs DEF ArePaths
  <2>. QED BY <1>2, <2>1, ScanLoaderDirIs DEF ArePaths
<1>. QED BY <1>1, <1>2 DEF Paths

IsSelfFallback(v) == SelfDirPath = <<"EFI", "boot">> /\ OnSelf(v)

LEMMA MappedIs ==
  ASSUME NEW s, NEW f, IsSeq(s), DOMAIN f = DOMAIN s, f = [n \in DOMAIN s |-> f[n]]
  PROVE  IsSeq(f) /\ ToSet(f) = {f[n] : n \in DOMAIN s}
<1>1. Len(s) \in Nat /\ DOMAIN s = 1 .. Len(s)
  BY IsSeqDomain
<1>2. IsSeq(f)
  BY <1>1, FunctionIsSeq
<1>. QED BY <1>2 DEF ToSet

LEMMA FallbackIs ==
  ASSUME NEW v, NEW paths
  PROVE  /\ IsSeq(FallbackEntry(v, paths))
         /\ \A e \in ToSet(FallbackEntry(v, paths)) :
              e = LoaderEntry(FALLBACK_FULLNAME, "Fallback boot loader", v) /\ ~ IsSelfFallback(v)
         /\ FileExists(v, FALLBACK_FULLNAME) /\ ~ IsSelfFallback(v) =>
              \/ \E p \in ToSet(paths) : DuplicatesFallback(v, p)
              \/ LoaderEntry(FALLBACK_FULLNAME, "Fallback boot loader", v) \in ToSet(FallbackEntry(v, paths))
<1>1. (\A p \in ToSet(paths) : ~ DuplicatesFallback(v, p))
        <=> \A n \in DOMAIN paths : ~ DuplicatesFallback(v, paths[n])
  BY DEF ToSet
<1>. QED BY <1>1, Single DEF FallbackEntry, IsSelfFallback

LEMMA ScanEfiFilesIs ==
  ASSUME world \in ToSet(Worlds), NEW v, AlsoScanTyped(GlobalConfig.AlsoScan), v.IsReadable
  PROVE  /\ IsSeq(ScanEfiFiles(v))
         /\ \A e \in ToSet(ScanEfiFiles(v)) :
              \E path, title :
                e = LoaderEntry(path, title, v)
                /\ (path \in Paths(v) \/ (path = FALLBACK_FULLNAME /\ ~ IsSelfFallback(v)))
         /\ \A path \in Paths(v) : \E title : LoaderEntry(path, title, v) \in ToSet(ScanEfiFiles(v))
         /\ FileExists(v, FALLBACK_FULLNAME) /\ ~ IsSelfFallback(v) =>
              \/ \E path \in Paths(v) : DuplicatesFallback(v, path)
              \/ LoaderEntry(FALLBACK_FULLNAME, "Fallback boot loader", v) \in ToSet(ScanEfiFiles(v))
<1>. DEFINE dirs   == InOrder(v)
            lists  == [n \in DOMAIN dirs |-> ScanLoaderDir(v, dirs[n])]
            paths  == FlattenSeq(lists)
            known  == KnownLoaders(v)
            titled == [n \in DOMAIN known |-> <<Append(known[n].dir, known[n].file), known[n].title>>]
            plain  == [n \in DOMAIN paths |-> <<paths[n], NULL>>]
            found  == titled \o plain
            all    == [n \in DOMAIN found |-> LoaderEntry(found[n][1], found[n][2], v)]
            firsts == [n \in DOMAIN found |-> found[n][1]]
<1>1. ScanEfiFiles(v) = all \o FallbackEntry(v, firsts)
  BY ZenonT(60) DEF ScanEfiFiles, InOrder
<1>2. IsSeq(paths) /\ ToSet(paths) = UNION {ToSet(ScanLoaderDir(v, dir)) : dir \in LoaderDirs(v)}
  <2>1. ArePaths(dirs) /\ ToSet(dirs) = LoaderDirs(v)
    BY InOrderIs
  <2>. HIDE DEF dirs
  <2>2. IsSeq(lists) /\ ToSet(lists) = {ScanLoaderDir(v, dirs[n]) : n \in DOMAIN dirs}
    <3>1. DOMAIN lists = DOMAIN dirs /\ lists = [n \in DOMAIN dirs |-> lists[n]]
      OBVIOUS
    <3>2. \A n \in DOMAIN dirs : lists[n] = ScanLoaderDir(v, dirs[n])
      OBVIOUS
    <3>. HIDE DEF lists
    <3>3. IsSeq(lists) /\ ToSet(lists) = {lists[n] : n \in DOMAIN dirs}
      BY <2>1, <3>1, MappedIs DEF ArePaths
    <3>. QED BY <3>2, <3>3
  <2>. HIDE DEF lists
  <2>3. ToSet(lists) = {ScanLoaderDir(v, dir) : dir \in ToSet(dirs)}
    BY <2>2 DEF ToSet
  <2>4. \A list \in ToSet(lists) : IsSeq(list)
    BY <2>1, <2>3, ScanLoaderDirIs DEF ArePaths
  <2>5. IsSeq(paths) /\ ToSet(paths) = UNION {ToSet(list) : list \in ToSet(lists)}
    BY <2>2, <2>4, Flattened
  <2>. QED BY <2>1, <2>3, <2>5
<1>. HIDE DEF paths
<1>3. IsSeq(titled) /\ \A path : (\E t \in ToSet(titled) : t[1] = path)
                          <=> path \in {Append(k.dir, k.file) : k \in ToSet(KnownLoaders(v))}
  <2>1. IsSeq(known)
    BY KnownLoadersIs
  <2>2. ToSet(known) = {known[n] : n \in DOMAIN known}
    BY DEF ToSet
  <2>. HIDE DEF known
  <2>3. DOMAIN titled = DOMAIN known /\ titled = [n \in DOMAIN known |-> titled[n]]
        /\ \A n \in DOMAIN known : titled[n][1] = Append(known[n].dir, known[n].file)
    OBVIOUS
  <2>. HIDE DEF titled
  <2>4. IsSeq(titled) /\ ToSet(titled) = {titled[n] : n \in DOMAIN known}
    BY <2>1, <2>3, MappedIs
  <2>5. ASSUME NEW path
        PROVE  (\E t \in ToSet(titled) : t[1] = path)
                 <=> path \in {Append(k.dir, k.file) : k \in ToSet(known)}
    <3>1. (\E t \in ToSet(titled) : t[1] = path) <=> \E n \in DOMAIN known : titled[n][1] = path
      BY <2>4
    <3>2. path \in {Append(k.dir, k.file) : k \in ToSet(known)}
            <=> \E n \in DOMAIN known : path = Append(known[n].dir, known[n].file)
      BY <2>2
    <3>. QED BY <2>3, <3>1, <3>2
  <2>. QED BY <2>4, <2>5 DEF known
<1>4. IsSeq(plain) /\ \A path : (\E t \in ToSet(plain) : t[1] = path) <=> path \in ToSet(paths)
  <2>1. ToSet(paths) = {paths[n] : n \in DOMAIN paths}
    BY DEF ToSet
  <2>2. DOMAIN plain = DOMAIN paths /\ plain = [n \in DOMAIN paths |-> plain[n]]
        /\ \A n \in DOMAIN paths : plain[n][1] = paths[n]
    OBVIOUS
  <2>. HIDE DEF plain
  <2>3. IsSeq(plain) /\ ToSet(plain) = {plain[n] : n \in DOMAIN paths}
    BY <1>2, <2>2, MappedIs
  <2>. QED BY <2>1, <2>2, <2>3
<1>. HIDE DEF titled, plain
<1>5. IsSeq(found) /\ ToSet(found) = ToSet(titled) \cup ToSet(plain)
  BY <1>3, <1>4, Concatenated
<1>6. \A path : (\E t \in ToSet(found) : t[1] = path) <=> path \in Paths(v)
  BY <1>2, <1>3, <1>4, <1>5 DEF Paths
<1>7. ToSet(found) = {found[n] : n \in DOMAIN found}
  BY DEF ToSet
<1>. HIDE DEF found
<1>8. IsSeq(all) /\ ToSet(all) = {LoaderEntry(t[1], t[2], v) : t \in ToSet(found)}
  <2>1. DOMAIN all = DOMAIN found /\ all = [n \in DOMAIN found |-> all[n]]
        /\ \A n \in DOMAIN found : all[n] = LoaderEntry(found[n][1], found[n][2], v)
    OBVIOUS
  <2>. HIDE DEF all
  <2>2. IsSeq(all) /\ ToSet(all) = {all[n] : n \in DOMAIN found}
    BY <1>5, <2>1, MappedIs
  <2>. QED BY <1>7, <2>1, <2>2
<1>9. ToSet(firsts) = Paths(v)
  <2>1. ToSet(firsts) = {found[n][1] : n \in DOMAIN found}
    BY DEF ToSet
  <2>. HIDE DEF firsts
  <2>2. ToSet(firsts) = {t[1] : t \in ToSet(found)}
    BY <1>7, <2>1
  <2>. QED BY <1>6, <2>2
<1>. HIDE DEF all, firsts
<1>10. /\ IsSeq(FallbackEntry(v, firsts))
       /\ \A e \in ToSet(FallbackEntry(v, firsts)) :
            e = LoaderEntry(FALLBACK_FULLNAME, "Fallback boot loader", v) /\ ~ IsSelfFallback(v)
       /\ FileExists(v, FALLBACK_FULLNAME) /\ ~ IsSelfFallback(v) =>
            \/ \E p \in Paths(v) : DuplicatesFallback(v, p)
            \/ LoaderEntry(FALLBACK_FULLNAME, "Fallback boot loader", v) \in ToSet(FallbackEntry(v, firsts))
  BY <1>9, FallbackIs
<1>11. /\ IsSeq(ScanEfiFiles(v))
       /\ ToSet(ScanEfiFiles(v)) = ToSet(all) \cup ToSet(FallbackEntry(v, firsts))
  BY <1>1, <1>8, <1>10, Concatenated
<1>12. ASSUME NEW e \in ToSet(ScanEfiFiles(v))
       PROVE  \E path, title :
                e = LoaderEntry(path, title, v)
                /\ (path \in Paths(v) \/ (path = FALLBACK_FULLNAME /\ ~ IsSelfFallback(v)))
  <2>1. CASE e \in ToSet(all)
    <3>1. PICK t \in ToSet(found) : e = LoaderEntry(t[1], t[2], v)
      BY <1>8, <2>1
    <3>2. t[1] \in Paths(v)
      BY <1>6
    <3>. WITNESS t[1], t[2]
    <3>. QED BY <3>1, <3>2
  <2>2. CASE e \in ToSet(FallbackEntry(v, firsts))
    <3>1. e = LoaderEntry(FALLBACK_FULLNAME, "Fallback boot loader", v) /\ ~ IsSelfFallback(v)
      BY <1>10, <2>2
    <3>. QED BY <3>1
  <2>. QED BY <1>11, <2>1, <2>2
<1>13. ASSUME NEW path \in Paths(v)
       PROVE  \E title : LoaderEntry(path, title, v) \in ToSet(ScanEfiFiles(v))
  <2>1. PICK t \in ToSet(found) : t[1] = path
    BY <1>6
  <2>2. LoaderEntry(path, t[2], v) \in ToSet(ScanEfiFiles(v))
    BY <1>8, <1>11, <2>1
  <2>. QED BY <2>2
<1>14. FileExists(v, FALLBACK_FULLNAME) /\ ~ IsSelfFallback(v) =>
         \/ \E path \in Paths(v) : DuplicatesFallback(v, path)
         \/ LoaderEntry(FALLBACK_FULLNAME, "Fallback boot loader", v) \in ToSet(ScanEfiFiles(v))
  BY <1>10, <1>11
<1>. QED BY <1>11, <1>12, <1>13, <1>14, ZenonT(60)

LEMMA ScanKindIs ==
  ASSUME world \in ToSet(Worlds), NEW kind, AlsoScanTyped(GlobalConfig.AlsoScan), IsSeq(Volumes)
  PROVE  /\ IsSeq(ScanKind(kind))
         /\ \A e : e \in ToSet(ScanKind(kind)) <=>
              \E v \in ToSet(Volumes) :
                v.DiskKind = kind /\ v.IsReadable /\ e \in ToSet(ScanEfiFiles(v))
<1>. DEFINE A == {v \in ToSet(Volumes) : v.DiskKind = kind}
            vs == Select(Volumes, A)
            lists == [n \in DOMAIN vs |-> ScanEfiFiles(vs[n])]
<1>1. ScanKind(kind) = FlattenSeq(lists)
  BY DEF ScanKind, Where
<1>2. IsSeq(vs) /\ ToSet(vs) = A
  <2>1. ToSet(Volumes) \cap A = A
    OBVIOUS
  <2>. HIDE DEF A
  <2>. QED BY <2>1, Chosen
<1>. HIDE DEF vs
<1>3. IsSeq(lists) /\ ToSet(lists) = {ScanEfiFiles(v) : v \in A}
  <2>1. DOMAIN lists = DOMAIN vs /\ lists = [n \in DOMAIN vs |-> lists[n]]
        /\ \A n \in DOMAIN vs : lists[n] = ScanEfiFiles(vs[n])
    OBVIOUS
  <2>2. ToSet(vs) = {vs[n] : n \in DOMAIN vs}
    BY DEF ToSet
  <2>. HIDE DEF lists, A
  <2>3. IsSeq(lists) /\ ToSet(lists) = {lists[n] : n \in DOMAIN vs}
    BY <1>2, <2>1, MappedIs
  <2>. QED BY <1>2, <2>1, <2>2, <2>3
<1>. HIDE DEF lists
<1>4. \A v : ~ v.IsReadable => ScanEfiFiles(v) = <<>>
  BY DEF ScanEfiFiles
<1>5. \A list \in ToSet(lists) : IsSeq(list)
  BY <1>3, <1>4, ScanEfiFilesIs, Single
<1>6. IsSeq(FlattenSeq(lists)) /\ ToSet(FlattenSeq(lists)) = UNION {ToSet(s) : s \in ToSet(lists)}
  BY <1>3, <1>5, Flattened
<1>7. \A e : e \in ToSet(FlattenSeq(lists)) <=> \E v \in A : e \in ToSet(ScanEfiFiles(v))
  BY <1>3, <1>6
<1>8. \A e, v : e \in ToSet(ScanEfiFiles(v)) => v.IsReadable
  BY <1>4, Single
<1>. QED BY <1>1, <1>6, <1>7, <1>8

-----------------------------------------------------------------------------
(* refind.conf.                                                            *)

LineSet == Seq(STRING) \ {<<>>}

LEMMA LinesAre ==
  ASSUME world \in ToSet(Worlds), NEW name
  PROVE  Lines(world.conf, name) \in Seq(LineSet)
<1>1. \A x \in DOMAIN world.conf : world.conf[x] \in Seq(LineSet)
  BY WorldsAssumption DEF LineSet
<1>2. <<>> \in Seq(LineSet)
  OBVIOUS
<1>. QED BY <1>1, <1>2 DEF Lines

LEMMA AllLinesAre ==
  ASSUME world \in ToSet(Worlds)
  PROVE  AllLines(world.conf) \in Seq(LineSet)
<1>. DEFINE main == Lines(world.conf, CONFIG_FILE_NAME)
            parts == [i \in DOMAIN main |->
                        IF Includes(main[i]) THEN Lines(world.conf, main[i][2]) ELSE <<main[i]>>]
<1>1. main \in Seq(LineSet)
  BY LinesAre
<1>2. AllLines(world.conf) = FlattenSeq(parts)
  BY DEF AllLines
<1>. HIDE DEF main
<1>3. Len(main) \in Nat /\ DOMAIN main = 1 .. Len(main) /\ \A i \in DOMAIN main : main[i] \in LineSet
  BY <1>1
<1>4. \A i \in DOMAIN main : parts[i] \in Seq(LineSet)
  <2>1. \A line \in LineSet : <<line>> \in Seq(LineSet)
    OBVIOUS
  <2>. QED BY <1>3, <2>1, LinesAre
<1>5. parts \in Seq(Seq(LineSet))
  <2>1. parts \in [1 .. Len(main) -> Seq(LineSet)]
    <3>1. parts = [i \in 1 .. Len(main) |-> parts[i]]
      BY <1>3
    <3>. HIDE DEF parts
    <3>. QED BY <1>3, <1>4, <3>1
  <2>. HIDE DEF parts
  <2>. QED BY <1>3, <2>1, SeqDef
<1>. HIDE DEF parts
<1>. QED BY <1>2, <1>5, FlattenIs

LEMMA ElementsAre ==
  ASSUME NEW ts, IsSeq(ts)
  PROVE  AlsoScanTyped(Elements(ts))
<1>1. \A t : IsSeq(Element(t).path)
  <2>1. ASSUME NEW t \in DOMAIN PathSpec PROVE IsSeq(PathSpec[t].path)
    BY WorldsAssumption, SeqIs
  <2>2. ASSUME NEW t PROVE [vol |-> NULL, path |-> <<t>>].path = <<t>>
    OBVIOUS
  <2>. QED BY <2>1, <2>2, Single DEF Element
<1>2. Elements(ts) = [i \in DOMAIN ts |-> Element(ts[i])]
  BY DEF Elements
<1>3. DOMAIN Elements(ts) = DOMAIN ts /\ Elements(ts) = [i \in DOMAIN ts |-> Elements(ts)[i]]
  BY <1>2
<1>4. IsSeq(Elements(ts)) /\ ToSet(Elements(ts)) = {Elements(ts)[i] : i \in DOMAIN ts}
  BY <1>3, MappedIs
<1>. QED BY <1>1, <1>2, <1>4 DEF AlsoScanTyped

LEMMA ListFields ==
  /\ DOMAIN ListSettings = {"also_scan_dirs", "dont_scan_dirs", "dont_scan_files", "scan_driver_dirs"}
  /\ ListSettings["also_scan_dirs"] = "AlsoScan" /\ ListSettings["dont_scan_dirs"] = "DontScanDirs"
  /\ ListSettings["dont_scan_files"] = "DontScanFiles"
  /\ ListSettings["scan_driver_dirs"] = "DriverDirs"
BY DEF ListSettings

LEMMA ConfigFields ==
  {"AlsoScan", "DontScanDirs", "DontScanFiles", "DriverDirs", "DontScanVolumes"}
    \subseteq DOMAIN GlobalConfig0
BY DEF GlobalConfig0

\* Of the lists, a line about AlsoScan sets one, the other lines one each.
LEMMA ListsAre ==
  ASSUME NEW gc, NEW line
  PROVE  /\ ListKeys = {"also_scan_dirs", "dont_scan_dirs", "dont_scan_files", "scan_driver_dirs",
                        "dont_scan_volumes"}
         /\ List(gc, "also_scan_dirs") = gc.AlsoScan /\ List(gc, "dont_scan_dirs") = gc.DontScanDirs
         /\ List(gc, "dont_scan_files") = gc.DontScanFiles
         /\ List(gc, "scan_driver_dirs") = gc.DriverDirs
         /\ List(gc, "dont_scan_volumes") = gc.DontScanVolumes
         /\ Given("dont_scan_volumes", line) = Tail(line)
         /\ \A key \in DOMAIN ListSettings : Given(key, line) = Elements(Tail(line))
BY ListFields DEF ListKeys, List, Given, Args

\* A line changes the lists that its keyword sets, and no other.
LEMMA HandleLineIs ==
  ASSUME NEW gc, NEW line, DOMAIN gc = DOMAIN GlobalConfig0
  PROVE  /\ DOMAIN HandleLine(gc, line) = DOMAIN gc
         /\ \A key \in ListKeys :
              List(HandleLine(gc, line), key) =
                IF line[1] \in KeysOf(key) THEN Given(key, line) ELSE List(gc, key)
<1>. DEFINE h == HandleLine(gc, line)
            key == line[1]
            F == {"AlsoScan", "DontScanDirs", "DontScanFiles", "DriverDirs", "DontScanVolumes"}
            Kept1(f, x) == h = [gc EXCEPT ![f] = x] /\ f \notin F
<1>1. DOMAIN IntSettings = {"timeout", "scan_delay", "textmode", "max_tags"}
      /\ \A k \in DOMAIN IntSettings : IntSettings[k] \notin F
  BY DEF IntSettings
<1>2. DOMAIN StringSettings = {"icons_dir", "banner", "selection_small", "selection_big", "default_selection"}
      /\ \A k \in DOMAIN StringSettings : StringSettings[k] \notin F
  BY DEF StringSettings
<1>3. DOMAIN SwitchSettings = {"textonly", "scan_all_linux_kernels"}
      /\ \A k \in DOMAIN SwitchSettings : SwitchSettings[k] \notin F
  BY DEF SwitchSettings
<1>4. CASE key \in DOMAIN ListSettings
  <2>1. h = [gc EXCEPT ![ListSettings[key]] = Elements(Tail(line))]
    <3>1. /\ key \notin DOMAIN IntSettings /\ key \notin DOMAIN StringSettings
          /\ key \notin DOMAIN SwitchSettings
          /\ key # "dont_scan_volumes" /\ key # "hideui" /\ key # "scanfor" /\ key # "showtools"
          /\ key # "use_graphics_for" /\ key # "resolution"
      BY <1>1, <1>2, <1>3, <1>4, ListFields
    <3>2. h = HandleStrings(gc, line, ListSettings[key])
      BY <1>4, <3>1 DEF HandleLine
    <3>. QED BY <3>2 DEF HandleStrings, Args
  <2>. HIDE DEF h
  <2>2. /\ h[ListSettings[key]] = Elements(Tail(line))
        /\ \A f \in F : f # ListSettings[key] => h[f] = gc[f]
    BY <1>4, <2>1, ListFields, ConfigFields
  <2>3. ASSUME NEW k \in ListKeys
        PROVE  List(h, k) = IF key \in KeysOf(k) THEN Given(k, line) ELSE List(gc, k)
    <3>1. key \in KeysOf(k) <=> k = key
      BY <1>4, ListFields DEF KeysOf
    <3>2. CASE k = key
      <4>1. List(h, k) = h[ListSettings[key]]
        BY <1>4, <3>2, ListFields DEF List
      <4>. QED BY <1>4, <2>2, <3>1, <3>2, <4>1, ListsAre
    <3>3. CASE k # key
      <4>1. PICK f \in F : f # ListSettings[key] /\ List(h, k) = h[f] /\ List(gc, k) = gc[f]
        <5>1. CASE k = "dont_scan_volumes"
          BY <1>4, <5>1, ListFields DEF List
        <5>2. CASE k \in DOMAIN ListSettings
          <6>1. ListSettings[k] \in F /\ ListSettings[k] # ListSettings[key] /\ k # "dont_scan_volumes"
            BY <1>4, <3>3, <5>2, ListFields
          <6>. QED BY <6>1 DEF List
        <5>. QED BY <5>1, <5>2 DEF ListKeys
      <4>. QED BY <2>2, <3>1, <3>3, <4>1
    <3>. QED BY <3>2, <3>3
  <2>. QED BY <2>1, <2>3 DEF h
<1>5. CASE key = "dont_scan_volumes"
  <2>1. h = [gc EXCEPT !.AlsoScan = Elements(Tail(line)), !.DontScanVolumes = Tail(line)]
    BY <1>1, <1>2, <1>3, <1>5, ListFields DEF HandleLine, HandleStrings, Args
  <2>. HIDE DEF h
  <2>2. DOMAIN h = DOMAIN gc /\ h.AlsoScan = Elements(Tail(line)) /\ h.DontScanVolumes = Tail(line)
        /\ \A f \in F \ {"AlsoScan", "DontScanVolumes"} : h[f] = gc[f]
    BY <2>1, ConfigFields
  <2>3. ASSUME NEW k \in ListKeys
        PROVE  List(h, k) = IF key \in KeysOf(k) THEN Given(k, line) ELSE List(gc, k)
    <3>1. CASE k = "also_scan_dirs"
      <4>1. key \in KeysOf(k) /\ Given(k, line) = Elements(Tail(line)) /\ List(h, k) = h.AlsoScan
        BY <1>5, <3>1, ListFields, ListsAre DEF KeysOf
      <4>. QED BY <2>2, <4>1
    <3>3. CASE k = "dont_scan_volumes"
      <4>1. key \in KeysOf(k) /\ Given(k, line) = Tail(line) /\ List(h, k) = h.DontScanVolumes
        BY <1>5, <3>3, ListsAre DEF KeysOf
      <4>. QED BY <2>2, <4>1
    <3>2. CASE k \in {"dont_scan_dirs", "dont_scan_files", "scan_driver_dirs"}
      BY <1>5, <2>2, <3>2, ListsAre DEF KeysOf
    <3>. QED BY <3>1, <3>2, <3>3, ListsAre
  <2>. QED BY <2>2, <2>3 DEF h
<1>6. CASE key \notin DOMAIN ListSettings \cup {"dont_scan_volumes"}
  <2>1. h = gc \/ (\E f, x : Kept1(f, x))
        \/ \E x, y : h = [gc EXCEPT !.RequestedScreenWidth = x, !.RequestedScreenHeight = y]
    <3>1. CASE key \in DOMAIN IntSettings
      BY <1>1, <1>2, <1>3, <1>6, <3>1, ListFields, ZenonT(60) DEF HandleLine
    <3>2. CASE key \in DOMAIN StringSettings
      BY <1>1, <1>2, <1>3, <1>6, <3>2, ListFields, ZenonT(60) DEF HandleLine
    <3>3. CASE key \in DOMAIN SwitchSettings
      BY <1>1, <1>2, <1>3, <1>6, <3>3, ListFields, ZenonT(60) DEF HandleLine
    <3>4. CASE key \notin DOMAIN IntSettings \cup DOMAIN StringSettings \cup DOMAIN SwitchSettings
      <4>1. \/ key \in {"hideui", "scanfor", "showtools", "use_graphics_for"}
            \/ key = "resolution" /\ Len(line) \in {2, 3}
            \/ key \notin {"hideui", "scanfor", "showtools", "use_graphics_for"}
               /\ ~ (key = "resolution" /\ Len(line) \in {2, 3})
        OBVIOUS
      <4>2. CASE key \in {"hideui", "scanfor", "showtools", "use_graphics_for"}
        <5>1. CASE key = "hideui"
          <6>1. h = [gc EXCEPT !.HideUIFlags = HideUI(gc.HideUIFlags, Args(line))]
            BY <1>6, <3>4, <5>1 DEF HandleLine
          <6>. HIDE DEF h
          <6>. QED BY <6>1
        <5>2. CASE key = "scanfor"
          <6>1. h = [gc EXCEPT !.ScanFor = ScanFor(line)]
            BY <1>6, <3>4, <5>2 DEF HandleLine
          <6>. HIDE DEF h
          <6>. QED BY <6>1
        <5>3. CASE key = "showtools"
          <6>1. h = [gc EXCEPT !.ShowTools = ShowTools(Args(line))]
            BY <1>6, <3>4, <5>3 DEF HandleLine
          <6>. HIDE DEF h
          <6>. QED BY <6>1
        <5>4. CASE key = "use_graphics_for"
          <6>1. h = [gc EXCEPT !.GraphicsFor = ToSet(Args(line)) \cap Graphics]
            BY <1>6, <3>4, <5>4 DEF HandleLine
          <6>. HIDE DEF h
          <6>. QED BY <6>1
        <5>. QED BY <4>2, <5>1, <5>2, <5>3, <5>4, ZenonT(60)
      <4>3. CASE key = "resolution" /\ Len(line) \in {2, 3}
        BY <1>6, <3>4, <4>3 DEF HandleLine
      <4>4. CASE /\ key \notin {"hideui", "scanfor", "showtools", "use_graphics_for"}
                 /\ ~ (key = "resolution" /\ Len(line) \in {2, 3})
        BY <1>6, <3>4, <4>4 DEF HandleLine
      <4>. QED BY <4>1, <4>2, <4>3, <4>4
    <3>. QED BY <3>1, <3>2, <3>3, <3>4
  <2>. HIDE DEF h
  <2>2. DOMAIN h = DOMAIN gc /\ \A f \in F : h[f] = gc[f]
    BY <2>1, ConfigFields
  <2>3. ASSUME NEW k \in ListKeys
        PROVE  List(h, k) = IF key \in KeysOf(k) THEN Given(k, line) ELSE List(gc, k)
    <3>1. key \notin KeysOf(k)
      BY <1>6, ListFields, ListsAre DEF KeysOf
    <3>2. List(h, k) = List(gc, k)
      BY <2>2, ListsAre
    <3>. QED BY <3>1, <3>2
  <2>. QED BY <2>2, <2>3 DEF h
<1>. QED BY <1>4, <1>5, <1>6

LEMMA MaxIs ==
  ASSUME NEW S, NEW m \in S, S \subseteq Nat, \A y \in S : m >= y
  PROVE  Max(S) = m
<1>1. \A x \in S : (\A y \in S : x >= y) <=> x = m
  OBVIOUS
<1>2. Max(S) \in S /\ \A y \in S : Max(S) >= y
  BY DEF Max
<1>. QED BY <1>1, <1>2

LEMMA TailIs ==
  ASSUME NEW line \in LineSet
  PROVE  IsSeq(Tail(line))
<1>1. Tail(line) \in Seq(STRING)
  BY DEF LineSet
<1>. QED BY <1>1, SeqIs

LEMMA ResetIs ==
  ASSUME NEW gc, NEW self, DOMAIN gc = DOMAIN GlobalConfig0
  PROVE  LET gc1 == Reset(gc, self)
         IN  /\ DOMAIN gc1 = DOMAIN GlobalConfig0
             /\ gc1.AlsoScan = ALSO_SCAN_DIRS /\ gc1.DontScanDirs = <<self>>
             /\ gc1.DontScanFiles = DONT_SCAN_FILES
             /\ gc1.DriverDirs = gc.DriverDirs /\ gc1.DontScanVolumes = gc.DontScanVolumes
BY ConfigFields DEF Reset

LEMMA ReadConfigIs ==
  ASSUME world \in ToSet(Worlds), NEW gc, NEW self, DOMAIN gc = DOMAIN GlobalConfig0
  PROVE  ConfigKept(ReadConfig(gc, world.conf, self), Len(Conf),
                    [list |-> Conf, first |-> Reset(gc, self)])
<1>. DEFINE n == Len(Conf)
            gc1 == Reset(gc, self)
            a == [list |-> Conf, first |-> gc1]
            L(f) == [k \in 0 .. n |-> IF k = 0 THEN gc1 ELSE HandleLine(f[k - 1], Conf[k])]
            g == CHOOSE f : Turns("config", n, f, gc1, a)
<1>1. Conf \in Seq(LineSet) /\ n \in Nat
  BY AllLinesAre DEF Conf
<1>2. a.list = Conf /\ a.first = gc1
  OBVIOUS
<1>. HIDE DEF a, n
<1>3. \A f, k : Turn("config", f, k, a) = HandleLine(f, Conf[k])
  BY <1>2 DEF Turn
<1>4. ReadConfig(gc, world.conf, self) = g[n]
  <2>1. \A f : Turns("config", n, f, gc1, a) <=> f = L(f)
    <3>1. ASSUME NEW f
          PROVE  [k \in 0 .. n |-> IF k = 0 THEN gc1 ELSE Turn("config", f[k - 1], k, a)] = L(f)
      BY <1>3
    <3>. HIDE DEF L
    <3>. QED BY <3>1 DEF Turns
  <2>. HIDE DEF gc1
  <2>. QED BY <2>1, ZenonT(60) DEF ReadConfig, Conf, n, gc1
<1>5. DOMAIN gc1 = DOMAIN GlobalConfig0 /\ AlsoScanTyped(gc1.AlsoScan)
  <2>1. AlsoScanTyped(ALSO_SCAN_DIRS)
    BY Single, ElementsAre DEF ALSO_SCAN_DIRS
  <2>. QED BY <2>1, ResetIs
<1>. HIDE DEF gc1
<1>6. Kept("config", gc1, 0, a)
  <2>1. \A key : {m \in 1 .. 0 : a.list[m][1] \in KeysOf(key)} = {}
    OBVIOUS
  <2>. QED BY <1>2, <1>5, <2>1 DEF Kept, ConfigKept
<1>7. ASSUME NEW k \in 1 .. n, NEW s, Kept("config", s, k - 1, a)
      PROVE  Kept("config", Turn("config", s, k, a), k, a)
  <2>. DEFINE h == HandleLine(s, Conf[k])
              SetBy(m, key) == {j \in 1 .. m : a.list[j][1] \in KeysOf(key)}
  <2>1. ConfigKept(s, k - 1, a)
    BY <1>7 DEF Kept
  <2>2. /\ DOMAIN s = DOMAIN GlobalConfig0 /\ AlsoScanTyped(s.AlsoScan)
        /\ \A key \in ListKeys :
             List(s, key) = IF SetBy(k - 1, key) # {} THEN Given(key, a.list[Max(SetBy(k - 1, key))])
                            ELSE List(a.first, key)
    BY <2>1 DEF ConfigKept
  <2>3. /\ DOMAIN h = DOMAIN s
        /\ \A key \in ListKeys :
             List(h, key) = IF Conf[k][1] \in KeysOf(key) THEN Given(key, Conf[k]) ELSE List(s, key)
    BY <2>2, HandleLineIs
  <2>. HIDE DEF h
  <2>4. AlsoScanTyped(h.AlsoScan)
    <3>1. IsSeq(Tail(Conf[k]))
      BY <1>1, TailIs DEF n
    <3>2. AlsoScanTyped(Elements(Tail(Conf[k])))
      BY <3>1, ElementsAre
    <3>3. h.AlsoScan = Elements(Tail(Conf[k])) \/ h.AlsoScan = s.AlsoScan
      BY <2>3, ListFields, ListsAre
    <3>. QED BY <2>2, <3>2, <3>3
  <2>5. ASSUME NEW key \in ListKeys
        PROVE  List(h, key) = IF SetBy(k, key) # {} THEN Given(key, a.list[Max(SetBy(k, key))])
                              ELSE List(a.first, key)
    <3>1. CASE Conf[k][1] \in KeysOf(key)
      <4>1. k \in SetBy(k, key)
        BY <1>1, <1>2, <3>1
      <4>2. SetBy(k, key) \subseteq Nat /\ \A y \in SetBy(k, key) : k >= y
        BY <1>1
      <4>. HIDE DEF SetBy
      <4>3. Max(SetBy(k, key)) = k
        BY <4>1, <4>2, MaxIs
      <4>. QED BY <1>2, <2>3, <3>1, <4>1, <4>3
    <3>2. CASE Conf[k][1] \notin KeysOf(key)
      <4>1. SetBy(k, key) = SetBy(k - 1, key)
        BY <1>1, <1>2, <3>2
      <4>. HIDE DEF SetBy
      <4>. QED BY <2>2, <2>3, <3>2, <4>1
    <3>. QED BY <3>1, <3>2
  <2>6. ConfigKept(h, k, a)
    BY <2>2, <2>3, <2>4, <2>5 DEF ConfigKept
  <2>. QED BY <1>3, <2>6 DEF Kept, h
<1>8. Kept("config", g[n], n, a)
  BY <1>1, <1>6, <1>7, LoopEnds
<1>9. ConfigKept(g[n], n, a)
  BY <1>8 DEF Kept
<1>. QED BY <1>4, <1>9 DEF a, n, gc1

LEMMA MaxExists ==
  ASSUME NEW n \in Nat, NEW S, S \subseteq 1 .. n, S # {}
  PROVE  Max(S) \in S /\ \A y \in S : Max(S) >= y
<1>. DEFINE B == {u \in Nat : \A y \in S : y <= u}
<1>1. n \in B /\ B \in SUBSET Nat
  OBVIOUS
<1>. HIDE DEF B
<1>2. PICK m \in B : \A u \in B : m <= u
  BY <1>1, LeastOf
<1>3. m \in Nat /\ \A y \in S : y <= m
  BY DEF B
<1>4. m \in S
  <2>. SUFFICES ASSUME m \notin S PROVE FALSE
    OBVIOUS
  <2>1. PICK y \in S : TRUE
    OBVIOUS
  <2>2. m - 1 \in Nat /\ \A z \in S : z <= m - 1
    BY <1>3
  <2>3. m - 1 \in B
    BY <2>2 DEF B
  <2>. QED BY <1>2, <1>3, <2>3
<1>5. S \subseteq Nat /\ \A y \in S : m >= y
  BY <1>3
<1>6. Max(S) = m
  BY <1>4, <1>5, MaxIs
<1>. QED BY <1>4, <1>5, <1>6

\* The last line about a list is the last that sets it, but for AlsoScan.
LEMMA LastSaid ==
  ASSUME world \in ToSet(Worlds), NEW key \in ListKeys, ~ Overridden(key)
  PROVE  LET set == {n \in 1 .. Len(Conf) : Conf[n][1] \in KeysOf(key)}
         IN  /\ set = {} <=> SaidOf(key) = {}
             /\ set # {} => Max(set) = Max(SaidOf(key))
<1>. DEFINE set == {n \in 1 .. Len(Conf) : Conf[n][1] \in KeysOf(key)}
            said == SaidOf(key)
            volumes == SaidOf("dont_scan_volumes")
<1>1. DOMAIN Conf = 1 .. Len(Conf) /\ Len(Conf) \in Nat
  BY AllLinesAre DEF Conf
<1>2. CASE key # "also_scan_dirs"
  <2>1. set = said
    BY <1>1, <1>2 DEF KeysOf, SaidOf
  <2>. QED BY <2>1
<1>3. CASE key = "also_scan_dirs"
  <2>1. set = said \cup volumes /\ said \subseteq 1 .. Len(Conf) /\ volumes \subseteq 1 .. Len(Conf)
    BY <1>1, <1>3 DEF KeysOf, SaidOf
  <2>2. \A n \in volumes : \E k \in said : ~ (k < n)
    BY <1>3 DEF Overridden
  <2>. HIDE DEF set, said, volumes
  <2>3. set = {} <=> said = {}
    BY <2>1, <2>2
  <2>4. ASSUME set # {} PROVE Max(set) = Max(said)
    <3>1. Max(said) \in said /\ \A y \in said : Max(said) >= y
      BY <1>1, <2>1, <2>3, <2>4, MaxExists
    <3>2. ASSUME NEW n \in set PROVE Max(said) >= n
      <4>1. CASE n \in said
        BY <3>1, <4>1
      <4>2. CASE n \in volumes
        <5>1. PICK k \in said : ~ (k < n)
          BY <2>2, <4>2
        <5>2. k \in Nat /\ n \in Nat /\ Max(said) \in Nat
          <6>1. \A j \in 1 .. Len(Conf) : j \in Nat
            BY <1>1
          <6>2. k \in 1 .. Len(Conf) /\ n \in 1 .. Len(Conf) /\ Max(said) \in 1 .. Len(Conf)
            BY <2>1, <3>1, <4>2, <5>1, Zenon
          <6>. QED BY <6>1, <6>2, Zenon
        <5>3. Max(said) >= k
          BY <3>1
        <5>. DEFINE top == Max(said)
        <5>. HIDE DEF top
        <5>4. top \in Nat /\ top >= k
          BY <5>2, <5>3 DEF top
        <5>5. top >= n
          BY <5>1, <5>2, <5>4
        <5>. QED BY <5>5 DEF top
      <4>. QED BY <2>1, <4>1, <4>2
    <3>3. set \subseteq Nat /\ Max(said) \in set
      BY <1>1, <2>1, <3>1
    <3>. QED BY <3>2, <3>3, MaxIs
  <2>. QED BY <2>3, <2>4 DEF set, said
<1>. QED BY <1>2, <1>3

\* What SettingsFresh says of ReadConfig().
LEMMA ReadIsFresh ==
  ASSUME world \in ToSet(Worlds), NEW gc, NEW self, DOMAIN gc = DOMAIN GlobalConfig0
  PROVE  LET read == ReadConfig(gc, world.conf, self)
         IN  /\ DOMAIN read = DOMAIN GlobalConfig0 /\ AlsoScanTyped(read.AlsoScan)
             /\ \A key \in ListKeys :
                  \/ Overridden(key)
                  \/ List(read, key) = IF SaidOf(key) # {} THEN Given(key, Conf[Max(SaidOf(key))])
                                       ELSE List(Reset(gc, self), key)
<1>. DEFINE gc1 == Reset(gc, self)
            read == ReadConfig(gc, world.conf, self)
            a == [list |-> Conf, first |-> gc1]
            SetBy(key) == {n \in 1 .. Len(Conf) : Conf[n][1] \in KeysOf(key)}
<1>1. ConfigKept(read, Len(Conf), a)
  BY ReadConfigIs
<1>2. a.list = Conf /\ a.first = gc1
  OBVIOUS
<1>. HIDE DEF read, gc1, a
<1>3. /\ DOMAIN read = DOMAIN GlobalConfig0 /\ AlsoScanTyped(read.AlsoScan)
      /\ \A key \in ListKeys :
           List(read, key) = IF SetBy(key) # {} THEN Given(key, Conf[Max(SetBy(key))])
                             ELSE List(gc1, key)
  BY <1>1, <1>2 DEF ConfigKept
<1>4. ASSUME NEW key \in ListKeys, ~ Overridden(key)
      PROVE  List(read, key) = IF SaidOf(key) # {} THEN Given(key, Conf[Max(SaidOf(key))])
                               ELSE List(gc1, key)
  <2>1. /\ SetBy(key) = {} <=> SaidOf(key) = {}
        /\ SetBy(key) # {} => Max(SetBy(key)) = Max(SaidOf(key))
    BY <1>4, LastSaid
  <2>. HIDE DEF SetBy
  <2>. QED BY <1>3, <2>1
<1>. QED BY <1>3, <1>4 DEF read, gc1

-----------------------------------------------------------------------------
(* Kernels and their RAM disks.                                            *)

LEMMA OptionsAre ==
  ASSUME NEW token
  PROVE  IsSeq(Options(token))
<1>1. CASE token \in DOMAIN Words
  <2>1. Words[token] \in Seq(Seq(STRING))
    BY <1>1, WorldsAssumption
  <2>. QED BY <1>1, <2>1, SeqIs DEF Options
<1>2. CASE token \notin DOMAIN Words
  BY <1>2, Single DEF Options
<1>. QED BY <1>1, <1>2

LEMMA OptionsFileIs ==
  ASSUME NEW v, NEW path
  PROVE  ReadLinuxOptionsFile(v, path) \in Seq(LineSet)
<1>1. PICK data : ReadLinuxOptionsFile(v, path) \in {<<>>, Lines(Text, data)}
  BY DEF ReadLinuxOptionsFile
<1>2. <<>> \in Seq(LineSet)
  OBVIOUS
<1>3. data \in DOMAIN Text => Text[data] \in Seq(LineSet)
  BY WorldsAssumption DEF LineSet
<1>. QED BY <1>1, <1>2, <1>3 DEF Lines

LEMMA FrontIs ==
  ASSUME NEW path, IsSeq(path)
  PROVE  IsSeq(Front(path))
<1>1. path \in Seq(ToSet(path)) /\ Len(path) \in Nat
  BY IsSeqDomain DEF IsSeq
<1>2. Front(path) \in Seq(ToSet(path))
  BY <1>1 DEF Front
<1>. QED BY <1>2, SeqIs

\* Options as a line of the options file gives them, or none.
Plain(options, v, path) ==
  \/ options = <<>>
  \/ \E l \in ToSet(ReadLinuxOptionsFile(v, path)) : Len(l) > 1 /\ options = Options(l[2])

\* The RAM disk that is added to options is right.
LEMMA RightAdded ==
  ASSUME world \in ToSet(Worlds), NEW v, NEW path, IsSeq(path), NEW options, Plain(options, v, path)
  PROVE  RightInitrd(AddInitrdToOptions(options, FindInitrd(v, path)), v, path)
<1>. DEFINE dir == Front(path)
            files == RamDisks(v, path)
            version == Version(Last(path))
            fits == {f \in ToSet(files) : Fits(f.name, version)}
            right == SameVersion(v, path) \cup NullCompared(v, path)
            matching == Select(files, fits)
            initrd == FindInitrd(v, path)
            added == AddInitrdToOptions(options, initrd)
            Disks(o) == {w \in ToSet(o) : w[1] = "initrd="}
<1>. SUFFICES RightInitrd(added, v, path)
  OBVIOUS
<1>1. IsSeq(options)
  BY OptionsAre, Single DEF Plain
<1>2. initrd = IF matching = <<>> THEN <<>> ELSE Append(dir, matching[1].name)
  BY DEF FindInitrd, Where, RamDisks
<1>3. IsSeq(matching) /\ ToSet(matching) = fits
  <2>1. IsSeq(files)
    BY FilesInIs DEF RamDisks
  <2>2. ToSet(files) \cap fits = fits
    OBVIOUS
  <2>. HIDE DEF files, fits
  <2>. QED BY <2>1, <2>2, Chosen
<1>4. IsSeq(dir)
  BY FrontIs
<1>5. \A o : InitrdWords(o) = Select(o, Disks(o))
  BY DEF InitrdWords, Where
<1>6. RightInitrd(added, v, path) <=>
        \/ InitrdWords(added) # <<>> /\ \E l \in ToSet(ReadLinuxOptionsFile(v, path)) :
             Len(l) > 1 /\ InitrdWords(added) = InitrdWords(Options(l[2]))
        \/ \E n \in right : InitrdWords(added) = << <<"initrd=">> \o Append(dir, files[n].name) >>
        \/ InitrdWords(added) = <<>> /\ SameVersion(v, path) = {}
  BY DEF RightInitrd, WithDisk
<1>7. added = AddInitrdToOptions(options, initrd)
  OBVIOUS
<1>10. IsSeq(files) /\ DOMAIN files = 1 .. Len(files) /\ Len(files) \in Nat
  BY FilesInIs, IsSeqDomain DEF RamDisks
<1>11. \A n \in DOMAIN files : files[n] \in fits <=> Fits(files[n].name, version)
  BY DEF ToSet
<1>12. /\ SameVersion(v, path) = {n \in DOMAIN files : Version(files[n].name) = version}
       /\ NullCompared(v, path) = {n \in DOMAIN files :
                                    /\ Version(files[n].name) = NULL /\ version # NULL
                                    /\ \A k \in SameVersion(v, path) : n < k}
  BY DEF SameVersion, NullCompared
<1>13. \A n \in SameVersion(v, path) : files[n] \in fits
  BY <1>11, <1>12 DEF Fits
<1>14. ASSUME matching # <<>> PROVE \E n \in right : matching[1] = files[n]
  <2>1. FirstKept(Len(files), matching, files, fits)
    <3>. HIDE DEF files, fits
    <3>. QED BY <1>10, SelectIs DEF IsSeq
  <2>2. PICK n \in 1 .. Len(files) : /\ files[n] \in fits /\ matching[1] = files[n]
                                     /\ \A j \in 1 .. n - 1 : files[j] \notin fits
    BY <1>14, <2>1 DEF FirstKept
  <2>. HIDE DEF files, fits, matching, version
  <2>3. CASE Version(files[n].name) = version
    BY <1>10, <1>12, <2>2, <2>3
  <2>4. CASE Version(files[n].name) # version
    <3>1. Version(files[n].name) = NULL /\ version # NULL
      BY <1>10, <1>11, <2>2, <2>4 DEF Fits
    <3>2. ASSUME NEW k \in SameVersion(v, path) PROVE n < k
      <4>1. k \in 1 .. Len(files) /\ k # n /\ files[k] \in fits
        BY <1>10, <1>12, <1>13, <2>4
      <4>. QED BY <1>10, <2>2, <4>1
    <3>. QED BY <1>10, <1>12, <2>2, <3>1, <3>2
  <2>. QED BY <2>2, <2>3, <2>4
<1>. HIDE DEF added, initrd, fits, matching, dir, files, version, right
<1>8. CASE \E i \in DOMAIN options : options[i][1] = "initrd="
  <2>1. added = options
    BY <1>8, <1>7 DEF AddInitrdToOptions
  <2>2. Disks(options) # {}
    BY <1>8 DEF ToSet
  <2>3. InitrdWords(options) # <<>>
    <3>. HIDE DEF Disks
    <3>1. ToSet(Select(options, Disks(options))) = ToSet(options) \cap Disks(options)
      BY <1>1, Chosen
    <3>2. ToSet(options) \cap Disks(options) = Disks(options)
      BY DEF Disks
    <3>. QED BY <1>5, <2>2, <3>1, <3>2, Single
  <2>4. options # <<>>
    <3>1. DOMAIN <<>> = {}
      OBVIOUS
    <3>. QED BY <1>8, <3>1
  <2>5. PICK l \in ToSet(ReadLinuxOptionsFile(v, path)) : Len(l) > 1 /\ options = Options(l[2])
    BY <2>4 DEF Plain
  <2>. QED BY <1>6, <2>1, <2>3, <2>5
<1>9. CASE ~ \E i \in DOMAIN options : options[i][1] = "initrd="
  <2>1. \A w \in ToSet(options) : w[1] # "initrd="
    BY <1>9 DEF ToSet
  <2>2. CASE matching = <<>>
    <3>1. added = options
      BY <1>2, <1>7, <2>2 DEF AddInitrdToOptions
    <3>2. SameVersion(v, path) = {}
      BY <1>3, <1>13, <2>2, Single
    <3>3. InitrdWords(options) = <<>>
      <4>1. ToSet(options) \cap Disks(options) = {}
        BY <2>1
      <4>. HIDE DEF Disks
      <4>2. /\ Select(options, Disks(options)) \in Seq(ToSet(options))
            /\ ToSet(Select(options, Disks(options))) = {}
        BY <1>1, <4>1, SelectIs DEF IsSeq
      <4>3. Select(options, Disks(options)) = <<>>
        BY <4>2, EmptyIs
      <4>. QED BY <1>5, <4>3
    <3>. QED BY <1>6, <3>1, <3>2, <3>3
  <2>3. CASE matching # <<>>
    <3>. DEFINE f == matching[1]
                w == <<"initrd=">> \o initrd
    <3>1. \E n \in right : f = files[n]
      BY <1>14, <2>3
    <3>2. initrd = Append(dir, f.name)
      BY <1>2, <2>3
    <3>3. IsSeq(initrd) /\ initrd # <<>>
      <4>. HIDE DEF f
      <4>1. IsSeq(initrd) /\ ToSet(initrd) = ToSet(dir) \cup {f.name}
        BY <1>4, <3>2, Appended
      <4>. QED BY <4>1, Single
    <3>4. w[1] = "initrd="
      <4>. DEFINE X == {"initrd="} \cup ToSet(initrd)
      <4>1. <<"initrd=">> \in Seq(X) /\ initrd \in Seq(X)
        <5>1. initrd \in Seq(X)
          BY <3>3, SeqIn
        <5>. QED BY <5>1
      <4>. HIDE DEF X
      <4>. QED BY <4>1
    <3>5. added = Append(options, w)
      BY <1>9, <1>7, <3>3 DEF AddInitrdToOptions, WithInitrd
    <3>. HIDE DEF f, w
    <3>6. InitrdWords(added) = <<w>>
      <4>1. ToSet(added) = ToSet(options) \cup {w}
        BY <1>1, <3>5, Appended
      <4>2. ToSet(options) \cap Disks(added) = {} /\ w \in Disks(added)
        BY <2>1, <3>4, <4>1
      <4>. HIDE DEF Disks
      <4>3. Select(Append(options, w), Disks(added)) = <<w>>
        BY <1>1, <4>2, LastChosen
      <4>. QED BY <1>5, <3>5, <4>3
    <3>. QED BY <1>6, <3>1, <3>2, <3>6 DEF w
  <2>. QED BY <2>2, <2>3
<1>. QED BY <1>8, <1>9

LEMMA MainRight ==
  ASSUME world \in ToSet(Worlds), NEW v, NEW path, IsSeq(path)
  PROVE  RightInitrd(GetMainLinuxOptions(v, path), v, path)
<1>. DEFINE lines == ReadLinuxOptionsFile(v, path)
            options == GetFirstOptionsFromFile(v, path)
<1>1. options = IF lines # <<>> /\ Len(lines[1]) > 1 THEN Options(lines[1][2]) ELSE <<>>
  BY DEF GetFirstOptionsFromFile
<1>2. lines # <<>> => lines[1] \in ToSet(lines)
  <2>1. lines \in Seq(LineSet)
    BY OptionsFileIs
  <2>. HIDE DEF lines
  <2>2. lines # <<>> => 1 \in DOMAIN lines
    BY <2>1
  <2>. QED BY <2>2 DEF ToSet
<1>3. Plain(options, v, path)
  <2>. HIDE DEF options
  <2>. QED BY <1>1, <1>2 DEF Plain
<1>. QED BY <1>3, RightAdded DEF GetMainLinuxOptions

\* The lines of an options file end somewhere.
LEMMA LastOfIs ==
  ASSUME NEW lines \in Seq(LineSet), lines # <<>>
  PROVE  LET P(n) == /\ \A i \in 2 .. n : Len(lines[i]) > 1
                     /\ n = Len(lines) \/ Len(lines[n + 1]) <= 1
         IN  \E n \in 1 .. Len(lines) : P(n)
<1>. DEFINE P(n) == /\ \A i \in 2 .. n : Len(lines[i]) > 1
                    /\ n = Len(lines) \/ Len(lines[n + 1]) <= 1
            B == {k \in 2 .. Len(lines) : Len(lines[k]) <= 1}
<1>1. /\ Len(lines) \in Nat /\ Len(lines) >= 1
      /\ \A k \in 1 .. Len(lines) : Len(lines[k]) \in Nat
  <2>1. \A k \in 1 .. Len(lines) : lines[k] \in Seq(STRING)
    BY DEF LineSet
  <2>. QED BY <2>1
<1>2. CASE B = {}
  <2>1. \A i \in 2 .. Len(lines) : Len(lines[i]) > 1
    BY <1>1, <1>2
  <2>. QED BY <1>1, <2>1
<1>3. CASE B # {}
  <2>1. PICK m \in B : \A y \in B : m <= y
    <3>1. B \in SUBSET Nat
      OBVIOUS
    <3>. HIDE DEF B
    <3>. QED BY <1>3, <3>1, LeastOf
  <2>2. m - 1 \in 1 .. Len(lines) /\ (m - 1) + 1 = m /\ Len(lines[m]) <= 1
    BY <1>1
  <2>3. ASSUME NEW i \in 2 .. m - 1 PROVE Len(lines[i]) > 1
    <3>1. i \in 2 .. Len(lines) /\ ~ (m <= i) /\ Len(lines[i]) \in Nat
      BY <1>1, <2>2
    <3>2. i \notin B
      BY <2>1, <3>1
    <3>. QED BY <3>1, <3>2
  <2>. QED BY <2>2, <2>3
<1>. QED BY <1>2, <1>3

\* What the entries of a submenu boot.
Boots(list, v, path) ==
  \A x \in ToSet(list) : x.Tag = "loader" => RightInitrd(x.LoadOptions, v, path)

LEMMA SubEntryIs ==
  ASSUME NEW e, NEW title, NEW options, NEW graphics
  PROVE  LET x == SubEntry(e, title, options, graphics) IN IsEntry(x) /\ x.LoadOptions = options
<1>. DEFINE e0 == InitializeLoaderEntry(e)
            x == SubEntry(e, title, options, graphics)
<1>1. IsEntry(e0)
  BY DEF InitializeLoaderEntry, IsEntry
<1>2. x = [e0 EXCEPT !.Title = <<title>>, !.LoadOptions = options, !.UseGraphicsMode = graphics]
  BY DEF SubEntry
<1>. HIDE DEF e0, x
<1>3. IsEntry(x) /\ x.LoadOptions = options
  BY <1>1, <1>2, EntryFields DEF IsEntry
<1>. QED BY <1>3 DEF x

LEMMA LinuxRight ==
  ASSUME world \in ToSet(Worlds), NEW v, NEW e, NEW sub, IsSeq(e.LoaderPath), IsSeq(sub),
         \A x \in ToSet(sub) : IsEntry(x), Boots(sub, v, e.LoaderPath)
  PROVE  IsSeq(LinuxEntries(e, sub, v)) /\ Boots(LinuxEntries(e, sub, v), v, e.LoaderPath)
<1>. DEFINE path == e.LoaderPath
            initrd == FindInitrd(v, path)
            lines == ReadLinuxOptionsFile(v, path)
            P(n) == /\ \A i \in 2 .. n : Len(lines[i]) > 1
                    /\ n = Len(lines) \/ Len(lines[n + 1]) <= 1
            last == CHOOSE n \in 1 .. Len(lines) : P(n)
            named == [sub EXCEPT ![1].Title = <<lines[1][1]>>]
            more == [i \in 1 .. last - 1 |->
                       SubEntry(e, lines[i + 1][1],
                                AddInitrdToOptions(Options(lines[i + 1][2]), initrd), For("linux"))]
<1>1. LinuxEntries(e, sub, v) = IF lines = <<>> THEN sub ELSE named \o more
  BY ZenonT(60) DEF LinuxEntries
<1>2. lines \in Seq(LineSet)
  BY OptionsFileIs
<1>3. CASE lines = <<>>
  BY <1>1, <1>3
<1>4. CASE lines # <<>>
  <2>1. last \in 1 .. Len(lines) /\ P(last)
    <3>1. \E n \in 1 .. Len(lines) : P(n)
      BY <1>2, <1>4, LastOfIs
    <3>. HIDE DEF P
    <3>. QED BY <3>1
  <2>. HIDE DEF last
  <2>2. /\ last - 1 \in Nat
        /\ \A i \in 1 .. last - 1 : Len(lines[i + 1]) > 1 /\ lines[i + 1] \in ToSet(lines)
    <3>1. Len(lines) \in Nat /\ DOMAIN lines = 1 .. Len(lines)
      BY <1>2
    <3>2. \A i \in 1 .. last - 1 : i + 1 \in 2 .. last /\ i + 1 \in 1 .. Len(lines)
      BY <2>1, <3>1
    <3>. QED BY <2>1, <3>1, <3>2 DEF ToSet
  <2>3. /\ DOMAIN named = DOMAIN sub /\ named = [k \in DOMAIN sub |-> named[k]]
        /\ \A k \in DOMAIN sub : named[k] \in {sub[k], [sub[k] EXCEPT !.Title = <<lines[1][1]>>]}
    OBVIOUS
  <2>4. /\ DOMAIN more = 1 .. last - 1 /\ more = [i \in 1 .. last - 1 |-> more[i]]
        /\ \A i \in 1 .. last - 1 :
             more[i].LoadOptions = AddInitrdToOptions(Options(lines[i + 1][2]), initrd)
    BY SubEntryIs
  <2>. HIDE DEF named, more
  <2>5. IsSeq(named) /\ Boots(named, v, path)
    <3>1. IsSeq(named) /\ ToSet(named) = {named[k] : k \in DOMAIN sub}
      BY <2>3, MappedIs
    <3>2. ASSUME NEW k \in DOMAIN sub, named[k].Tag = "loader"
          PROVE  RightInitrd(named[k].LoadOptions, v, path)
      <4>1. sub[k] \in ToSet(sub)
        BY DEF ToSet
      <4>2. named[k].Tag = sub[k].Tag /\ named[k].LoadOptions = sub[k].LoadOptions
        BY <2>3, <4>1, EntryFields DEF IsEntry
      <4>. QED BY <3>2, <4>1, <4>2 DEF Boots
    <3>. QED BY <3>1, <3>2 DEF Boots
  <2>6. IsSeq(more) /\ Boots(more, v, path)
    <3>1. IsSeq(more)
      BY <2>2, <2>4, FunctionIsSeq
    <3>2. ToSet(more) = {more[i] : i \in 1 .. last - 1}
      BY <2>4 DEF ToSet
    <3>3. ASSUME NEW i \in 1 .. last - 1 PROVE RightInitrd(more[i].LoadOptions, v, path)
      <4>1. Plain(Options(lines[i + 1][2]), v, path)
        BY <2>2 DEF Plain
      <4>2. RightInitrd(AddInitrdToOptions(Options(lines[i + 1][2]), initrd), v, path)
        BY <4>1, RightAdded
      <4>. QED BY <2>4, <4>2
    <3>. QED BY <3>1, <3>2, <3>3 DEF Boots
  <2>7. IsSeq(named \o more) /\ ToSet(named \o more) = ToSet(named) \cup ToSet(more)
    BY <2>5, <2>6, Concatenated
  <2>8. Boots(named \o more, v, path)
    BY <2>5, <2>6, <2>7 DEF Boots
  <2>. QED BY <1>1, <1>4, <2>7, <2>8
<1>. QED BY <1>3, <1>4

\* The options of a kernel and those in its submenu.
LEMMA SubmenuRight ==
  ASSUME world \in ToSet(Worlds), NEW v, NEW e, IsEntry(e), e.OSType = "L", e.SubScreen = <<>>,
         e.InitrdPath = <<>>, IsSeq(e.LoaderPath), RightInitrd(e.LoadOptions, v, e.LoaderPath)
  PROVE  LET d == GenerateSubScreen(e, v)
         IN  /\ d.LoadOptions = e.LoadOptions
             /\ IsSeq(d.SubScreen) /\ Boots(d.SubScreen, v, e.LoaderPath)
<1>. DEFINE d == GenerateSubScreen(e, v)
            path == e.LoaderPath
            first == SubEntry(e, "Boot using default options", e.LoadOptions, e.UseGraphicsMode)
            all == IF path # NULL THEN LinuxEntries(e, <<first>>, v) ELSE <<first>>
<1>1. AddInitrdToOptions(e.LoadOptions, e.InitrdPath) = e.LoadOptions
  BY DEF AddInitrdToOptions
<1>2. InitializeSubScreen(e) = <<first>>
  BY <1>1 DEF InitializeSubScreen
<1>3. d = [e EXCEPT !.SubScreen = Append(all, MenuEntryReturn), !.LoadOptions = e.LoadOptions]
  BY <1>2 DEF GenerateSubScreen
<1>4. IsSeq(<<first>>) /\ ToSet(<<first>>) = {first}
  BY Single
<1>5. IsEntry(first) /\ first.LoadOptions = e.LoadOptions
  <2>. DEFINE title == "Boot using default options"
              graphics == e.UseGraphicsMode
  <2>1. first = SubEntry(e, title, e.LoadOptions, graphics)
    OBVIOUS
  <2>. HIDE DEF first, title, graphics
  <2>. QED BY <2>1, SubEntryIs
<1>6. IsSeq(all) /\ Boots(all, v, path)
  <2>. HIDE DEF first
  <2>1. Boots(<<first>>, v, path)
    BY <1>4, <1>5 DEF Boots
  <2>2. \A x \in ToSet(<<first>>) : IsEntry(x)
    BY <1>4, <1>5
  <2>3. IsSeq(LinuxEntries(e, <<first>>, v)) /\ Boots(LinuxEntries(e, <<first>>, v), v, path)
    BY <1>4, <2>1, <2>2, LinuxRight
  <2>. QED BY <1>4, <2>1, <2>3
<1>. HIDE DEF all, first, d
<1>7. MenuEntryReturn.Tag = "return"
  BY EntryFields DEF MenuEntryReturn
<1>8. /\ IsSeq(Append(all, MenuEntryReturn))
      /\ ToSet(Append(all, MenuEntryReturn)) = ToSet(all) \cup {MenuEntryReturn}
  BY <1>6, Appended
<1>9. d.LoadOptions = e.LoadOptions /\ d.SubScreen = Append(all, MenuEntryReturn)
  BY <1>3, EntryFields DEF IsEntry
<1>10. IsSeq(d.SubScreen) /\ Boots(d.SubScreen, v, path)
  BY <1>6, <1>7, <1>8, <1>9 DEF Boots
<1>. QED BY <1>9, <1>10 DEF d

LEMMA SubScreenType ==
  ASSUME NEW e, NEW v, IsEntry(e)
  PROVE  GenerateSubScreen(e, v).OSType = e.OSType
<1>1. PICK shown, options :
        GenerateSubScreen(e, v) = [e EXCEPT !.SubScreen = shown, !.LoadOptions = options]
  BY Zenon DEF GenerateSubScreen
<1>. QED BY <1>1, EntryFields DEF IsEntry

\* Volumes on one device have the same files.
LEMMA RightOnDevice ==
  ASSUME NEW v, NEW w, w.DeviceHandle = v.DeviceHandle, NEW path, NEW options
  PROVE  RightInitrd(options, w, path) <=> RightInitrd(options, v, path)
<1>1. Directories(w) = Directories(v)
  BY DEF Directories
<1>2. \A p : Dir(w, p) = Dir(v, p)
  BY <1>1 DEF Dir
<1>3. \A p : Found(w, p) = Found(v, p)
  BY <1>2 DEF Found
<1>4. ASSUME NEW p PROVE (FileExists(w, p) <=> FileExists(v, p)) /\ Data(w, p) = Data(v, p)
  <2>1. Found(w, p) = Found(v, p)
    BY <1>3
  <2>2. Data(w, p) = Data(v, p)
    BY <2>1, Zenon DEF Data
  <2>. QED BY <2>1, <2>2 DEF FileExists
<1>5. \A p, traits : FilesIn(w, p, traits) = FilesIn(v, p, traits)
  BY <1>2 DEF FilesIn, Where
<1>6. ReadLinuxOptionsFile(w, path) = ReadLinuxOptionsFile(v, path)
  BY <1>4 DEF ReadLinuxOptionsFile, Where
<1>7. RamDisks(w, path) = RamDisks(v, path)
  BY <1>5 DEF RamDisks
<1>8. SameVersion(w, path) = SameVersion(v, path) /\ NullCompared(w, path) = NullCompared(v, path)
  BY <1>7 DEF SameVersion, NullCompared
<1>. QED BY <1>6, <1>7, <1>8 DEF RightInitrd, WithDisk

\* The titles of the entries that refind.conf describes.
Titles == {<<l[2]>> : l \in {x \in ToSet(Conf) : x[1] = "menuentry" /\ Len(x) > 1}}

\* An entry that rEFInd found: if it is a kernel, all it boots has the right RAM disks.
KernelRight(e) ==
  e.Tag = "loader" /\ e.Title \notin Titles /\ e.OSType = "L" =>
    \A v : v.DeviceHandle = e.DevicePath.device =>
      \A x \in Booting(e) : RightInitrd(x.LoadOptions, v, e.LoaderPath)

LEMMA LoaderEntryRight ==
  ASSUME world \in ToSet(Worlds), NEW path, IsSeq(path), NEW title, NEW v
  PROVE  KernelRight(LoaderEntry(path, title, v))
<1>. DEFINE e == [NewEntry EXCEPT !.Title = IF title = NULL THEN path ELSE <<title>>,
                                  !.VolTitle = v.VolName, !.VolName = v.VolName,
                                  !.LoaderPath = path, !.DevicePath = FileDevicePath(v, path)]
            d == SetLoaderDefaults(e, path, FALSE, v)
            g == LoaderEntry(path, title, v)
<1>1. /\ IsEntry(e) /\ e.LoaderPath = path /\ e.SubScreen = <<>> /\ e.InitrdPath = <<>>
      /\ e.OSType = NULL
  BY EntryFields DEF IsEntry, NewEntry
<1>2. g = GenerateSubScreen(d, v)
  BY DEF LoaderEntry
<1>3. g.LoaderPath = path /\ g.DevicePath.device = v.DeviceHandle
  <2>1. g.LoaderPath = path /\ g.DevicePath = FileDevicePath(v, path)
    BY LoaderEntryIs, Zenon
  <2>. HIDE DEF g
  <2>. QED BY <2>1 DEF FileDevicePath
<1>. HIDE DEF e, g
<1>4. /\ IsEntry(d) /\ d.LoaderPath = path /\ d.SubScreen = <<>> /\ d.InitrdPath = <<>>
      /\ d.OSType = "L" => d.LoadOptions = GetMainLinuxOptions(v, path)
  <2>1. PICK letter, graphics :
          d = [e EXCEPT !.OSType = IF OSOf(path, FALSE).type = NULL THEN e.OSType
                                   ELSE OSOf(path, FALSE).type,
                        !.ShortcutLetter = letter,
                        !.LoadOptions = IF OSOf(path, FALSE).type = "L"
                                        THEN GetMainLinuxOptions(v, path) ELSE e.LoadOptions,
                        !.UseGraphicsMode = graphics]
    BY ZenonT(60) DEF SetLoaderDefaults
  <2>2. Same(d, e)
    BY <1>1, DefaultsKeep
  <2>. HIDE DEF d
  <2>3. d.SubScreen = <<>> /\ d.InitrdPath = <<>>
    BY <1>1, <2>1, EntryFields DEF IsEntry
  <2>4. d.OSType = "L" => OSOf(path, FALSE).type = "L"
    BY <1>1, <2>1, EntryFields, WorldsAssumption DEF IsEntry
  <2>5. d.OSType = "L" => d.LoadOptions = GetMainLinuxOptions(v, path)
    BY <1>1, <2>1, <2>4, EntryFields DEF IsEntry
  <2>. QED BY <1>1, <2>2, <2>3, <2>5 DEF Same
<1>. HIDE DEF d
<1>5. g.OSType = d.OSType
  BY <1>2, <1>4, SubScreenType
<1>6. ASSUME g.OSType = "L", NEW w, w.DeviceHandle = v.DeviceHandle, NEW x \in Booting(g)
      PROVE  RightInitrd(x.LoadOptions, w, path)
  <2>1. RightInitrd(d.LoadOptions, v, path)
    BY <1>4, <1>5, <1>6, MainRight
  <2>2. g.LoadOptions = d.LoadOptions /\ IsSeq(g.SubScreen) /\ Boots(g.SubScreen, v, path)
    BY <1>2, <1>4, <1>5, <1>6, <2>1, SubmenuRight
  <2>3. x = g \/ (x \in ToSet(g.SubScreen) /\ x.Tag = "loader")
    <3>. DEFINE A == {y \in ToSet(g.SubScreen) : y.Tag = "loader"}
    <3>1. Booting(g) = {g} \cup ToSet(Select(g.SubScreen, A))
      BY DEF Booting, Where
    <3>. HIDE DEF A
    <3>2. ToSet(Select(g.SubScreen, A)) = ToSet(g.SubScreen) \cap A
      BY <2>2, Chosen
    <3>. QED BY <3>1, <3>2 DEF A
  <2>4. RightInitrd(x.LoadOptions, v, path)
    BY <2>1, <2>2, <2>3 DEF Boots
  <2>. QED BY <1>6, <2>4, RightOnDevice
<1>. QED BY <1>3, <1>6 DEF KernelRight, g

-----------------------------------------------------------------------------
(* Volumes.                                                                *)

LEMMA NodeKeeps ==
  ASSUME NEW a, NEW s, NEW k, Kept("path", s, k - 1, a)
  PROVE  Kept("path", Turn("path", s, k, a), k, a)
<1>. DEFINE node == a.d.path[k]
            t == Turn("path", s, k, a)
<1>1. DOMAIN s = {"kind", "whole", "legacy", "bootable"} /\ s.kind \in Kinds
  BY DEF Kept
<1>2. t = V!Node(a.d, a.blocksize, s, node)
  BY DEF Turn
<1>. HIDE DEF t, node
<1>3. DOMAIN t = {"kind", "whole", "legacy", "bootable"} /\ t.kind \in Kinds
  <2>1. CASE node \in V!Messaging
    BY <1>1, <1>2, <2>1 DEF V!Node, Kinds
  <2>2. CASE node \notin V!Messaging /\ node = "cdrom"
    BY <1>1, <1>2, <2>2, ZenonT(60) DEF V!Node, Kinds
  <2>3. CASE node \notin V!Messaging /\ node # "cdrom"
    BY <1>1, <1>2, <2>3 DEF V!Node, Kinds
  <2>. QED BY <2>1, <2>2, <2>3
<1>. QED BY <1>3 DEF Kept, t

LEMMA ScanVolumeIs ==
  ASSUME NEW d, NEW blocksize, IsSeq(d.path)
  PROVE  V!ScanVolume(d, blocksize).DiskKind \in Kinds
<1>. DEFINE code == IF d.blocksize = 0 THEN V!Bootcode({}) ELSE V!Bootcode(d.sector)
            s0 == [kind |-> V!Kind0(d), whole |-> NULL, legacy |-> FALSE, bootable |-> code.Bootable]
            n == Len(d.path)
            a == [d |-> d, blocksize |-> blocksize]
            L(f) == [k \in 0 .. n |-> IF k = 0 THEN s0 ELSE V!Node(d, blocksize, f[k - 1], d.path[k])]
            g == CHOOSE f : Turns("path", n, f, s0, a)
            told == CHOOSE f : f = L(f)
<1>1. a.d = d /\ a.blocksize = blocksize /\ n \in Nat
  BY IsSeqDomain
<1>2. V!ScanVolume(d, blocksize).DiskKind = told[n].kind
  BY DEF V!ScanVolume
<1>3. DOMAIN s0 = {"kind", "whole", "legacy", "bootable"} /\ s0.kind \in Kinds
  BY DEF V!Kind0, Kinds
<1>. HIDE DEF a, n, s0
<1>4. told = g
  <2>1. \A f, k : Turn("path", f, k, a) = V!Node(d, blocksize, f, d.path[k])
    BY <1>1 DEF Turn
  <2>2. \A f : Turns("path", n, f, s0, a) <=> f = L(f)
    <3>1. ASSUME NEW f
          PROVE  [k \in 0 .. n |-> IF k = 0 THEN s0 ELSE Turn("path", f[k - 1], k, a)] = L(f)
      BY <2>1
    <3>. HIDE DEF L
    <3>. QED BY <3>1 DEF Turns
  <2>. HIDE DEF L
  <2>. QED BY <2>2
<1>5. Kept("path", s0, 0, a)
  BY <1>3 DEF Kept
<1>. HIDE DEF told
<1>6. Kept("path", g[n], n, a)
  BY <1>1, <1>5, NodeKeeps, LoopEnds
<1>. HIDE DEF g
<1>7. g[n].kind \in Kinds
  BY <1>6 DEF Kept
<1>. QED BY <1>2, <1>4, <1>7

LEMMA ScanVolumesIs ==
  ASSUME NEW devices, IsSeq(devices),
         \A d \in ToSet(devices) : IsSeq(d.path) /\ IsSeq(d.logical)
  PROVE  /\ IsSeq(V!ScanVolumes(devices))
         /\ \A v \in ToSet(V!ScanVolumes(devices)) : v.DiskKind \in Kinds
<1>. DEFINE blocksize == [h \in {devices[i].handle : i \in DOMAIN devices} \cup {NULL} |->
                            IF h = NULL THEN 0
                            ELSE LET i == CHOOSE i \in DOMAIN devices : devices[i].handle = h
                                 IN  devices[i].blocksize]
            scanned == [i \in DOMAIN devices |-> V!ScanVolume(devices[i], blocksize)]
            vs == V!Numbered(scanned)
            named == V!InTable(devices, vs)
            logicals == V!Logicals(devices, vs)
<1>1. V!ScanVolumes(devices) = named \o logicals
  BY DEF V!ScanVolumes
<1>. HIDE DEF blocksize
<1>2. \A i \in DOMAIN devices : scanned[i].DiskKind \in Kinds
  BY ScanVolumeIs, IsSeqDomain
<1>3. DOMAIN scanned = DOMAIN devices
  OBVIOUS
<1>4. \A i \in DOMAIN devices : "DiskKind" \in DOMAIN scanned[i]
  BY DEF V!ScanVolume
<1>. HIDE DEF scanned
<1>5. /\ DOMAIN vs = DOMAIN devices
      /\ \A i \in DOMAIN devices : vs[i].DiskKind \in Kinds /\ "DiskKind" \in DOMAIN vs[i]
  BY <1>2, <1>3, <1>4 DEF V!Numbered
<1>. HIDE DEF vs
<1>6. /\ DOMAIN named = DOMAIN devices /\ named = [i \in DOMAIN devices |-> named[i]]
      /\ \A i \in DOMAIN devices : named[i].DiskKind \in Kinds
  BY <1>5 DEF V!InTable
<1>. HIDE DEF named
<1>7. IsSeq(named) /\ \A v \in ToSet(named) : v.DiskKind \in Kinds
  <2>1. IsSeq(named) /\ ToSet(named) = {named[i] : i \in DOMAIN devices}
    BY <1>6, MappedIs
  <2>. QED BY <1>6, <2>1
<1>. DEFINE Of(i) == [j \in DOMAIN devices[i].logical |->
                        V!LogicalVolume(vs[i], devices[i].logical[j], j)]
            lists == [i \in DOMAIN vs |->
                        IF vs[i].BlockIO # NULL /\ vs[i].BlockIO = vs[i].WholeDiskBlockIO
                           /\ "table" \in devices[i].sector
                        THEN Of(i) ELSE <<>>]
<1>8. logicals = FlattenSeq(lists)
  BY DEF V!Logicals, V!FlattenSeq, FlattenSeq
<1>9. ASSUME NEW i \in DOMAIN devices
      PROVE  IsSeq(Of(i)) /\ \A v \in ToSet(Of(i)) : v.DiskKind \in Kinds
  <2>. DEFINE list == devices[i].logical
              of == Of(i)
  <2>1. IsSeq(list)
    BY IsSeqDomain
  <2>2. /\ DOMAIN of = DOMAIN list /\ of = [j \in DOMAIN list |-> of[j]]
        /\ \A j \in DOMAIN list : of[j] = V!LogicalVolume(vs[i], list[j], j)
    OBVIOUS
  <2>3. \A disk, sector, j : V!LogicalVolume(disk, sector, j).DiskKind = disk.DiskKind
    BY DEF V!LogicalVolume
  <2>4. \A j \in DOMAIN list : of[j].DiskKind \in Kinds
    BY <1>5, <2>2, <2>3
  <2>. HIDE DEF list, of
  <2>5. IsSeq(of) /\ ToSet(of) = {of[j] : j \in DOMAIN list}
    BY <2>1, <2>2, MappedIs
  <2>6. IsSeq(of) /\ \A v \in ToSet(of) : v.DiskKind \in Kinds
    BY <2>4, <2>5
  <2>. QED BY <2>6 DEF of
<1>. HIDE DEF Of
<1>10. /\ DOMAIN lists = DOMAIN devices /\ lists = [i \in DOMAIN devices |-> lists[i]]
       /\ \A i \in DOMAIN devices :
            IsSeq(lists[i]) /\ \A v \in ToSet(lists[i]) : v.DiskKind \in Kinds
  BY <1>5, <1>9, Single
<1>. HIDE DEF lists
<1>11. IsSeq(lists) /\ ToSet(lists) = {lists[i] : i \in DOMAIN devices}
  BY <1>10, MappedIs
<1>12. IsSeq(logicals) /\ \A v \in ToSet(logicals) : v.DiskKind \in Kinds
  <2>1. \A s \in ToSet(lists) : IsSeq(s) /\ \A v \in ToSet(s) : v.DiskKind \in Kinds
    BY <1>10, <1>11
  <2>2. IsSeq(FlattenSeq(lists)) /\ ToSet(FlattenSeq(lists)) = UNION {ToSet(s) : s \in ToSet(lists)}
    BY <1>11, <2>1, Flattened
  <2>. HIDE DEF logicals
  <2>. QED BY <1>8, <2>1, <2>2
<1>. HIDE DEF logicals
<1>13. IsSeq(named \o logicals) /\ ToSet(named \o logicals) = ToSet(named) \cup ToSet(logicals)
  BY <1>7, <1>12, Concatenated
<1>. QED BY <1>1, <1>7, <1>12, <1>13

-----------------------------------------------------------------------------
(* What refind.conf describes.                                             *)

LEMMA ConfHas ==
  ASSUME world \in ToSet(Worlds), NEW i \in DOMAIN Lines(world.conf, CONFIG_FILE_NAME)
  PROVE  LET line == Lines(world.conf, CONFIG_FILE_NAME)[i]
         IN  /\ Includes(line) => ToSet(Lines(world.conf, line[2])) \subseteq ToSet(Conf)
             /\ ~ Includes(line) => line \in ToSet(Conf)
<1>. DEFINE main == Lines(world.conf, CONFIG_FILE_NAME)
            line == main[i]
            parts == [k \in DOMAIN main |->
                        IF Includes(main[k]) THEN Lines(world.conf, main[k][2]) ELSE <<main[k]>>]
<1>1. Conf = FlattenSeq(parts)
  BY DEF Conf, AllLines
<1>2. IsSeq(main)
  BY LinesAre, SeqIs
<1>. HIDE DEF main
<1>3. /\ DOMAIN parts = DOMAIN main /\ parts = [k \in DOMAIN main |-> parts[k]]
      /\ \A k \in DOMAIN main :
           parts[k] = IF Includes(main[k]) THEN Lines(world.conf, main[k][2]) ELSE <<main[k]>>
  OBVIOUS
<1>. HIDE DEF parts
<1>4. IsSeq(parts) /\ ToSet(parts) = {parts[k] : k \in DOMAIN main}
  BY <1>2, <1>3, MappedIs
<1>5. \A k \in DOMAIN main : IsSeq(parts[k])
  BY <1>3, LinesAre, SeqIs, Single
<1>6. \A part \in ToSet(parts) : IsSeq(part)
  BY <1>4, <1>5
<1>7. ToSet(Conf) = UNION {ToSet(part) : part \in ToSet(parts)}
  BY <1>1, <1>4, <1>6, Flattened
<1>8. i \in DOMAIN main
  BY DEF main
<1>9. parts[i] \in ToSet(parts)
  BY <1>4, <1>8
<1>10. ToSet(parts[i]) \subseteq ToSet(Conf)
  BY <1>7, <1>9
<1>11. Includes(line) => ToSet(Lines(world.conf, line[2])) \subseteq ToSet(Conf)
  BY <1>3, <1>8, <1>10
<1>12. ~ Includes(line) => line \in ToSet(Conf)
  <2>1. ~ Includes(line) => parts[i] = <<line>>
    BY <1>3, <1>8
  <2>2. ToSet(<<line>>) = {line}
    BY Single
  <2>. QED BY <1>10, <2>1, <2>2
<1>. QED BY <1>11, <1>12 DEF main

LEMMA StanzaFields ==
  DOMAIN NoStanza = {"mode", "entries", "entry", "title", "vol", "added", "defaults", "sub",
                     "subvol", "subtitle"}
BY DEF NoStanza

\* A line that ends no stanza changes neither the entries nor what its entry is.
SameStanza(t, s) ==
  /\ DOMAIN t = DOMAIN s /\ t.entries = s.entries /\ t.title = s.title
  /\ Same(t.entry, s.entry) \/ (IsEntry(t.entry) /\ t.entry.Tag = s.entry.Tag
                                /\ t.entry.Title \in {s.entry.Title, <<s.title>>})
  /\ {s.mode, t.mode} \subseteq {"stanza", "submenu"}

LEMMA SameStanzaKept ==
  ASSUME NEW s, NEW t, NEW titles, StanzaKept(s, titles), SameStanza(t, s)
  PROVE  StanzaKept(t, titles)
<1>1. IsEntry(t.entry) /\ t.entry.Tag = s.entry.Tag /\ t.entry.Title \in {s.entry.Title, <<s.title>>}
  BY DEF SameStanza, Same
<1>. QED BY <1>1 DEF StanzaKept, SameStanza

LEMMA SameSelf ==
  ASSUME NEW e, IsEntry(e)
  PROVE  Same(e, e)
BY DEF Same

LEMMA SettingKeeps ==
  ASSUME NEW e, NEW line, IsEntry(e)
  PROVE  Same(Setting(e, line), e)
<1>. DEFINE d == Setting(e, line)
<1>1. {"Tag", "Title", "LoaderPath", "DevicePath"} \subseteq DOMAIN e
  BY EntryFields DEF IsEntry
<1>2. \E x : d \in {e, [e EXCEPT !.Enabled = x], [e EXCEPT !.UseGraphicsMode = x],
                    [e EXCEPT !.InitrdPath = x], [e EXCEPT !.LoadOptions = x]}
  <2>1. CASE line[1] = "disabled"
    BY <2>1 DEF Setting
  <2>2. CASE line[1] = "graphics"
    BY <2>2 DEF Setting
  <2>3. CASE line[1] = "initrd"
    BY <2>3 DEF Setting
  <2>4. CASE line[1] = "options"
    BY <2>4 DEF Setting
  <2>5. CASE line[1] \notin {"disabled", "graphics", "initrd", "options"}
    BY <2>5 DEF Setting
  <2>. QED BY <2>1, <2>2, <2>3, <2>4, <2>5
<1>. HIDE DEF d
<1>3. DOMAIN d = DOMAIN e
  BY <1>2
<1>4. d.Tag = e.Tag /\ d.Title = e.Title /\ d.LoaderPath = e.LoaderPath /\ d.DevicePath = e.DevicePath
  BY <1>1, <1>2
<1>5. Same(d, e)
  BY <1>3, <1>4 DEF Same, IsEntry
<1>. QED BY <1>5 DEF d

LEMMA ClosedKeeps ==
  ASSUME NEW e, IsEntry(e)
  PROVE  Same(Closed(e), e)
<1>1. {"Tag", "Title", "LoaderPath", "DevicePath"} \subseteq DOMAIN e
  BY EntryFields DEF IsEntry
<1>. DEFINE d == Closed(e)
<1>2. d = e \/ \E x, y : d = [e EXCEPT !.LoadOptions = x, !.InitrdPath = y]
  BY Zenon DEF Closed
<1>. HIDE DEF d
<1>3. DOMAIN d = DOMAIN e
  BY <1>2
<1>4. d.Tag = e.Tag /\ d.Title = e.Title /\ d.LoaderPath = e.LoaderPath /\ d.DevicePath = e.DevicePath
  BY <1>1, <1>2
<1>5. Same(d, e)
  BY <1>3, <1>4 DEF Same, IsEntry
<1>. QED BY <1>5 DEF d

\* What any line in a stanza is given.
InStanza(s) == DOMAIN s = DOMAIN NoStanza /\ IsEntry(s.entry) /\ s.mode \in {"stanza", "submenu"}

LEMMA EndSubmenuKeeps ==
  ASSUME NEW s, InStanza(s)
  PROVE  SameStanza(EndSubmenu(s), s)
<1>. DEFINE t == EndSubmenu(s)
            shown == IF s.sub.Enabled THEN Append(s.entry.SubScreen, Closed(s.sub)) ELSE s.entry.SubScreen
            d == [s.entry EXCEPT !.SubScreen = shown]
<1>1. {"mode", "entries", "entry", "title"} \subseteq DOMAIN s
  BY StanzaFields DEF InStanza
<1>2. {"Tag", "Title", "LoaderPath", "DevicePath", "SubScreen"} \subseteq DOMAIN s.entry
  BY EntryFields DEF InStanza, IsEntry
<1>3. t = [s EXCEPT !.mode = "stanza", !.entry = d]
  BY <1>1, <1>2 DEF EndSubmenu
<1>. HIDE DEF t, shown
<1>4. Same(d, s.entry)
  <2>1. DOMAIN d = DOMAIN s.entry
    OBVIOUS
  <2>2. d.Tag = s.entry.Tag /\ d.Title = s.entry.Title /\ d.LoaderPath = s.entry.LoaderPath
        /\ d.DevicePath = s.entry.DevicePath
    BY <1>2
  <2>. HIDE DEF d
  <2>. QED BY <2>1, <2>2 DEF Same, IsEntry, InStanza
<1>. HIDE DEF d
<1>5. DOMAIN t = DOMAIN s /\ t.entries = s.entries /\ t.title = s.title /\ t.entry = d /\ t.mode = "stanza"
  BY <1>1, <1>3
<1>6. SameStanza(t, s)
  BY <1>4, <1>5 DEF SameStanza, InStanza
<1>. QED BY <1>6 DEF t

LEMMA SubmenuLineKeeps ==
  ASSUME NEW s, NEW line, NEW volumes, InStanza(s)
  PROVE  SameStanza(SubmenuLine(s, line, volumes), s)
<1>. DEFINE t == SubmenuLine(s, line, volumes)
            v == FindVolume(volumes, line[2], NULL)
            Sub(u) == DOMAIN u = DOMAIN s /\ u.entries = s.entries /\ u.title = s.title
                      /\ u.entry = s.entry /\ u.mode = s.mode
<1>1. {"mode", "entries", "entry", "title", "sub", "subvol"} \subseteq DOMAIN s
  BY StanzaFields DEF InStanza
<1>2. ASSUME Sub(t) PROVE SameStanza(t, s)
  BY <1>2, SameSelf DEF SameStanza, InStanza
<1>3. CASE line[1] = "}"
  <2>1. t = EndSubmenu(s)
    <3>1. line # <<"initrd">> /\ line # <<"options">>
      <4>1. <<"initrd">>[1] # "}" /\ <<"options">>[1] # "}"
        OBVIOUS
      <4>. QED BY <1>3, <4>1, Zenon
    <3>. QED BY <1>3, <3>1 DEF SubmenuLine
  <2>. HIDE DEF t
  <2>2. SameStanza(t, s)
    BY <2>1, EndSubmenuKeeps
  <2>. QED BY <2>2 DEF t
<1>4. CASE line[1] = "loader" /\ Len(line) > 1
  <2>1. t = [s EXCEPT !.sub.LoaderPath = Element(line[2]).path,
                      !.sub.DevicePath = FileDevicePath(s.subvol, Element(line[2]).path)]
    BY <1>4 DEF SubmenuLine
  <2>. HIDE DEF t
  <2>2. Sub(t)
    BY <1>1, <2>1
  <2>. QED BY <1>2, <2>2 DEF t
<1>5. CASE line[1] = "volume" /\ Len(line) > 1
  <2>1. t = IF v = NULL THEN s ELSE [s EXCEPT !.subvol = v, !.sub = OnVolume(@, s.subtitle, v)]
    BY <1>5 DEF SubmenuLine
  <2>. HIDE DEF t, v
  <2>2. Sub(t)
    BY <1>1, <2>1
  <2>. QED BY <1>2, <2>2 DEF t
<1>6. CASE line = <<"initrd">>
  <2>1. t = [s EXCEPT !.sub.InitrdPath = <<>>]
    BY <1>6 DEF SubmenuLine
  <2>. HIDE DEF t
  <2>2. Sub(t)
    BY <1>1, <2>1
  <2>. QED BY <1>2, <2>2 DEF t
<1>7. CASE line = <<"options">>
  <2>1. t = [s EXCEPT !.sub.LoadOptions = <<>>]
    BY <1>7 DEF SubmenuLine
  <2>. HIDE DEF t
  <2>2. Sub(t)
    BY <1>1, <2>1
  <2>. QED BY <1>2, <2>2 DEF t
<1>8. CASE line[1] = "add_options" /\ Len(line) > 1
  <2>1. line # <<"initrd">> /\ line # <<"options">>
    BY <1>8
  <2>2. t = [s EXCEPT !.sub.LoadOptions = @ \o Options(line[2])]
    BY <1>8, <2>1 DEF SubmenuLine
  <2>. HIDE DEF t
  <2>3. Sub(t)
    BY <1>1, <2>2
  <2>. QED BY <1>2, <2>3 DEF t
<1>9. CASE /\ line[1] # "}" /\ ~ (line[1] = "loader" /\ Len(line) > 1)
           /\ ~ (line[1] = "volume" /\ Len(line) > 1) /\ line # <<"initrd">> /\ line # <<"options">>
           /\ ~ (line[1] = "add_options" /\ Len(line) > 1)
  <2>1. t = [s EXCEPT !.sub = Setting(@, line)]
    BY <1>9 DEF SubmenuLine
  <2>. HIDE DEF t
  <2>2. Sub(t)
    BY <1>1, <2>1
  <2>. QED BY <1>2, <2>2 DEF t
<1>. QED BY <1>3, <1>4, <1>5, <1>6, <1>7, <1>8, <1>9

LEMMA OnVolumeIs ==
  ASSUME NEW e, NEW title, NEW v, IsEntry(e)
  PROVE  LET d == OnVolume(e, title, v)
         IN  IsEntry(d) /\ d.Tag = e.Tag /\ d.Title = <<title>>
<1>1. {"Tag", "Title", "LoaderPath", "DevicePath"} \subseteq DOMAIN e
  BY EntryFields DEF IsEntry
<1>2. DOMAIN OnVolume(e, title, v) = DOMAIN e
  BY DEF OnVolume
<1>3. OnVolume(e, title, v).Tag = e.Tag /\ OnVolume(e, title, v).Title = <<title>>
  BY <1>1 DEF OnVolume
<1>. QED BY <1>2, <1>3 DEF IsEntry

LEMMA LoaderLineIs ==
  ASSUME NEW s, NEW token, InStanza(s)
  PROVE  SameStanza(LoaderLine(s, token), s)
<1>. DEFINE t == LoaderLine(s, token)
            path == Element(token).path
            e == [s.entry EXCEPT !.LoaderPath = path, !.DevicePath = FileDevicePath(s.vol, path)]
            d == SetLoaderDefaults(e, path, token \in Rooted, s.vol)
            c == [d EXCEPT !.LoadOptions = <<>>]
<1>1. {"mode", "entries", "entry", "title", "defaults"} \subseteq DOMAIN s
  BY StanzaFields DEF InStanza
<1>2. {"Tag", "Title", "LoadOptions"} \subseteq DOMAIN s.entry
  BY EntryFields DEF InStanza, IsEntry
<1>3. t = [s EXCEPT !.defaults = TRUE, !.entry = c]
  BY DEF LoaderLine
<1>4. IsEntry(e) /\ e.Tag = s.entry.Tag /\ e.Title = s.entry.Title
  <2>1. DOMAIN e = DOMAIN s.entry
    OBVIOUS
  <2>2. e.Tag = s.entry.Tag /\ e.Title = s.entry.Title
    BY <1>2
  <2>. HIDE DEF e
  <2>. QED BY <2>1, <2>2 DEF IsEntry, InStanza
<1>. HIDE DEF t, e
<1>5. Same(d, e)
  BY <1>4, DefaultsKeep
<1>. HIDE DEF d
<1>6. IsEntry(c) /\ c.Tag = d.Tag /\ c.Title = d.Title
  <2>1. {"Tag", "Title", "LoadOptions"} \subseteq DOMAIN d
    BY <1>5, EntryFields DEF Same, IsEntry
  <2>2. DOMAIN c = DOMAIN d /\ c.Tag = d.Tag /\ c.Title = d.Title
    BY <2>1
  <2>. HIDE DEF c
  <2>. QED BY <1>5, <2>2 DEF Same, IsEntry
<1>. HIDE DEF c
<1>7. DOMAIN t = DOMAIN s /\ t.entries = s.entries /\ t.title = s.title /\ t.entry = c /\ t.mode = s.mode
  BY <1>1, <1>3
<1>8. SameStanza(t, s)
  BY <1>4, <1>5, <1>6, <1>7 DEF Same, SameStanza, InStanza
<1>. QED BY <1>8 DEF t

LEMMA StanzaLineKeeps ==
  ASSUME NEW s, NEW line, NEW volumes, InStanza(s)
  PROVE  SameStanza(StanzaLine(s, line, volumes), s)
<1>. DEFINE t == StanzaLine(s, line, volumes)
            v == FindVolume(volumes, line[2], NULL)
            With(u, d) == DOMAIN u = DOMAIN s /\ u.entries = s.entries /\ u.title = s.title
                          /\ u.entry = d /\ u.mode \in {s.mode, "submenu"}
<1>1. {"mode", "entries", "entry", "title", "sub", "subvol", "vol", "subtitle", "added"} \subseteq DOMAIN s
  BY StanzaFields DEF InStanza
<1>2. ASSUME NEW d, With(t, d), Same(d, s.entry) PROVE SameStanza(t, s)
  BY <1>2 DEF SameStanza, InStanza
<1>3. Same(s.entry, s.entry)
  BY SameSelf DEF InStanza
<1>4. {"Tag", "Title", "LoaderPath", "DevicePath", "SubScreen", "OSType"} \subseteq DOMAIN s.entry
  BY EntryFields DEF InStanza, IsEntry
<1>5. CASE line[1] = "loader" /\ Len(line) > 1
  <2>1. t = LoaderLine(s, line[2])
    BY <1>5 DEF StanzaLine
  <2>. HIDE DEF t
  <2>2. SameStanza(t, s)
    BY <2>1, LoaderLineIs
  <2>. QED BY <2>2 DEF t
<1>6. CASE line[1] = "volume" /\ Len(line) > 1
  <2>. DEFINE d == OnVolume(s.entry, s.title, v)
  <2>1. t = IF v = NULL THEN s ELSE [s EXCEPT !.vol = v, !.entry = d]
    BY <1>6 DEF StanzaLine
  <2>2. IsEntry(d) /\ d.Tag = s.entry.Tag /\ d.Title = <<s.title>>
    BY OnVolumeIs DEF InStanza
  <2>. HIDE DEF t, v, d
  <2>3. CASE v = NULL
    <3>1. With(t, s.entry)
      BY <2>1, <2>3
    <3>. QED BY <1>2, <1>3, <3>1 DEF t
  <2>4. CASE v # NULL
    <3>1. With(t, d)
      BY <1>1, <2>1, <2>4
    <3>2. SameStanza(t, s)
      BY <2>2, <3>1 DEF SameStanza, InStanza
    <3>. QED BY <3>2 DEF t
  <2>. QED BY <2>3, <2>4
<1>7. CASE line[1] = "ostype" /\ Len(line) > 1
  <2>. DEFINE d == [s.entry EXCEPT !.OSType = Letter[line[2]]]
  <2>1. t = [s EXCEPT !.entry = d]
    BY <1>7 DEF StanzaLine
  <2>2. Same(d, s.entry)
    <3>1. DOMAIN d = DOMAIN s.entry
      OBVIOUS
    <3>2. d.Tag = s.entry.Tag /\ d.Title = s.entry.Title /\ d.LoaderPath = s.entry.LoaderPath
          /\ d.DevicePath = s.entry.DevicePath
      BY <1>4
    <3>. HIDE DEF d
    <3>. QED BY <3>1, <3>2 DEF Same, IsEntry, InStanza
  <2>. HIDE DEF t, d
  <2>3. With(t, d)
    BY <1>1, <2>1
  <2>. QED BY <1>2, <2>2, <2>3 DEF t
<1>8. CASE line[1] = "submenuentry" /\ Len(line) > 1
  <2>. DEFINE d == [s.entry EXCEPT !.SubScreen = InitializeSubScreen(s.entry)]
              sub == [InitializeLoaderEntry(s.entry) EXCEPT !.Title = <<line[2]>>]
  <2>1. t = BeginSubmenu(s, line[2])
    BY <1>8 DEF StanzaLine
  <2>2. t = [s EXCEPT !.mode = "submenu", !.subvol = s.vol, !.subtitle = line[2], !.added = TRUE,
                      !.entry = d, !.sub = sub]
    BY <1>1, <1>4, <2>1 DEF BeginSubmenu
  <2>3. Same(d, s.entry)
    <3>1. DOMAIN d = DOMAIN s.entry
      OBVIOUS
    <3>2. d.Tag = s.entry.Tag /\ d.Title = s.entry.Title /\ d.LoaderPath = s.entry.LoaderPath
          /\ d.DevicePath = s.entry.DevicePath
      BY <1>4
    <3>. HIDE DEF d
    <3>. QED BY <3>1, <3>2 DEF Same, IsEntry, InStanza
  <2>. HIDE DEF t, d, sub
  <2>4. With(t, d)
    BY <1>1, <2>2
  <2>. QED BY <1>2, <2>3, <2>4 DEF t
<1>9. CASE ~ (line[1] \in {"loader", "volume", "ostype", "submenuentry"} /\ Len(line) > 1)
  <2>. DEFINE d == Setting(s.entry, line)
  <2>1. t = [s EXCEPT !.entry = d]
    BY <1>9 DEF StanzaLine
  <2>2. Same(d, s.entry)
    BY SettingKeeps DEF InStanza
  <2>. HIDE DEF t, d
  <2>3. With(t, d)
    BY <1>1, <2>1
  <2>. QED BY <1>2, <2>2, <2>3 DEF t
<1>. QED BY <1>5, <1>6, <1>7, <1>8, <1>9

LEMMA EndStanzaKeeps ==
  ASSUME NEW s, NEW self, NEW titles, StanzaKept(s, titles), s.mode \in {"stanza", "submenu"}
  PROVE  StanzaKept(EndStanza(s, self), titles) /\ EndStanza(s, self).mode = "file"
<1>. DEFINE t == EndStanza(s, self)
            e1 == IF s.added THEN [s.entry EXCEPT !.SubScreen = Append(@, MenuEntryReturn)] ELSE s.entry
            e2 == Closed(e1)
            e3 == IF s.defaults THEN e2 ELSE SetLoaderDefaults(e2, NEMO, TRUE, s.vol)
            e4 == IF e3.SubScreen = <<>> THEN GenerateSubScreen(e3, self) ELSE e3
            entries == IF e3.Enabled THEN Append(s.entries, e4) ELSE s.entries
<1>1. {"mode", "entries", "entry", "title"} \subseteq DOMAIN s
  BY StanzaFields DEF StanzaKept
<1>2. IsEntry(s.entry) /\ s.entry.Tag = "loader" /\ s.entry.Title \in titles
  BY DEF StanzaKept
<1>3. t = [s EXCEPT !.mode = "file", !.entries = entries]
  BY DEF EndStanza
<1>4. Same(e1, s.entry)
  <2>. DEFINE d == [s.entry EXCEPT !.SubScreen = Append(@, MenuEntryReturn)]
  <2>1. {"Tag", "Title", "LoaderPath", "DevicePath"} \subseteq DOMAIN s.entry
    BY <1>2, EntryFields DEF IsEntry
  <2>2. DOMAIN d = DOMAIN s.entry
    OBVIOUS
  <2>3. d.Tag = s.entry.Tag /\ d.Title = s.entry.Title /\ d.LoaderPath = s.entry.LoaderPath
        /\ d.DevicePath = s.entry.DevicePath
    BY <2>1
  <2>. HIDE DEF d
  <2>4. Same(d, s.entry)
    BY <1>2, <2>2, <2>3 DEF Same, IsEntry
  <2>5. e1 = d \/ e1 = s.entry
    BY DEF d
  <2>. HIDE DEF e1
  <2>. QED BY <1>2, <2>4, <2>5, SameSelf
<1>. HIDE DEF e1
<1>5. Same(e2, e1)
  BY <1>4, ClosedKeeps DEF Same
<1>. HIDE DEF e2
<1>6. Same(e3, e2)
  <2>1. IsEntry(e2)
    BY <1>5 DEF Same
  <2>2. Same(SetLoaderDefaults(e2, NEMO, TRUE, s.vol), e2) /\ Same(e2, e2)
    BY <2>1, DefaultsKeep, SameSelf
  <2>. QED BY <2>2
<1>. HIDE DEF e3
<1>7. Same(e4, e3)
  BY <1>6, SubScreenKeeps, SameSelf DEF Same
<1>. HIDE DEF e4
<1>8. Described(e4, titles)
  BY <1>2, <1>4, <1>5, <1>6, <1>7 DEF Same, Described
<1>9. IsSeq(s.entries) /\ \A e \in ToSet(s.entries) : Described(e, titles)
  BY DEF StanzaKept
<1>10. IsSeq(entries) /\ \A e \in ToSet(entries) : Described(e, titles)
  <2>1. IsSeq(Append(s.entries, e4)) /\ ToSet(Append(s.entries, e4)) = ToSet(s.entries) \cup {e4}
    BY <1>9, Appended
  <2>. QED BY <1>8, <1>9, <2>1
<1>. HIDE DEF t, entries
<1>11. DOMAIN t = DOMAIN s /\ t.entries = entries /\ t.entry = s.entry /\ t.mode = "file"
  BY <1>1, <1>3
<1>12. StanzaKept(t, titles)
  BY <1>2, <1>10, <1>11 DEF StanzaKept
<1>. QED BY <1>11, <1>12 DEF t

LEMMA BeginStanzaKeeps ==
  ASSUME NEW s, NEW title, NEW self, NEW titles, StanzaKept(s, titles), <<title>> \in titles
  PROVE  StanzaKept(BeginStanza(s, title, self), titles)
<1>. DEFINE t == BeginStanza(s, title, self)
            e == OnVolume(NewEntry, title, self)
<1>1. {"mode", "entries", "entry", "title"} \subseteq DOMAIN s
  BY StanzaFields DEF StanzaKept
<1>2. IsEntry(e) /\ e.Tag = "loader" /\ e.Title = <<title>>
  BY OnVolumeIs, EntryFields DEF IsEntry
<1>3. t = [s EXCEPT !.mode = "stanza", !.vol = self, !.title = title, !.added = FALSE,
                    !.defaults = FALSE, !.entry = e]
  BY DEF BeginStanza
<1>. HIDE DEF t, e
<1>4. DOMAIN t = DOMAIN s /\ t.entries = s.entries /\ t.entry = e /\ t.title = title
  BY <1>1, <1>3
<1>5. StanzaKept(t, titles)
  BY <1>2, <1>4 DEF StanzaKept
<1>. QED BY <1>5 DEF t

\* What is asked of a line: its title is among them, if it begins a stanza.
TitleIn(line, titles) == line[1] = "menuentry" /\ Len(line) > 1 => <<line[2]>> \in titles

LEMMA LineKeeps ==
  ASSUME NEW s, NEW line, NEW volumes, NEW self, NEW titles, StanzaKept(s, titles), TitleIn(line, titles)
  PROVE  StanzaKept(Line(s, line, volumes, self), titles)
<1>1. CASE s.mode = "submenu"
  <2>1. InStanza(s)
    BY <1>1 DEF InStanza, StanzaKept
  <2>2. Line(s, line, volumes, self) = SubmenuLine(s, line, volumes)
    BY <1>1 DEF Line
  <2>. QED BY <2>1, <2>2, SubmenuLineKeeps, SameStanzaKept
<1>2. CASE s.mode = "stanza"
  <2>1. InStanza(s)
    BY <1>2 DEF InStanza, StanzaKept
  <2>2. Line(s, line, volumes, self) = IF line[1] = "}" THEN EndStanza(s, self)
                                       ELSE StanzaLine(s, line, volumes)
    BY <1>2 DEF Line
  <2>. QED BY <1>2, <2>1, <2>2, StanzaLineKeeps, EndStanzaKeeps, SameStanzaKept
<1>3. CASE s.mode \notin {"submenu", "stanza"}
  <2>1. Line(s, line, volumes, self) =
          IF line[1] = "menuentry" /\ Len(line) > 1 THEN BeginStanza(s, line[2], self) ELSE s
    BY <1>3 DEF Line
  <2>. QED BY <2>1, BeginStanzaKeeps DEF TitleIn
<1>. QED BY <1>1, <1>2, <1>3

LEMMA AtEOFKeeps ==
  ASSUME NEW s, NEW self, NEW titles, StanzaKept(s, titles)
  PROVE  StanzaKept(AtEOF(s, self), titles)
<1>. DEFINE t == IF s.mode = "submenu" THEN EndSubmenu(s) ELSE s
<1>1. AtEOF(s, self) = IF t.mode = "stanza" THEN EndStanza(t, self) ELSE t
  BY DEF AtEOF
<1>2. StanzaKept(t, titles)
  <2>1. CASE s.mode = "submenu"
    <3>1. InStanza(s)
      BY <2>1 DEF InStanza, StanzaKept
    <3>. QED BY <2>1, <3>1, EndSubmenuKeeps, SameStanzaKept
  <2>. QED BY <2>1
<1>. HIDE DEF t
<1>. QED BY <1>1, <1>2, EndStanzaKeeps

LEMMA NoStanzaKept ==
  ASSUME NEW titles
  PROVE  StanzaKept(NoStanza, titles)
<1>1. NoStanza.entries = <<>> /\ NoStanza.entry = NewEntry /\ NoStanza.mode = "file"
  BY DEF NoStanza
<1>. QED BY <1>1, Single, EntryFields DEF StanzaKept, IsEntry

LEMMA IncludedAre ==
  ASSUME NEW lines, NEW volumes, NEW self, NEW titles, IsSeq(lines),
         \A line \in ToSet(lines) : TitleIn(line, titles)
  PROVE  LET entries == IncludedEntries(lines, volumes, self)
         IN  IsSeq(entries) /\ \A e \in ToSet(entries) : Described(e, titles)
<1>. DEFINE n == Len(lines)
            a == [list |-> lines, volumes |-> volumes, self |-> self, titles |-> titles]
            L(f) == [k \in 0 .. n |-> IF k = 0 THEN NoStanza ELSE Line(f[k - 1], lines[k], volumes, self)]
            g == CHOOSE f : Turns("file", n, f, NoStanza, a)
<1>1. /\ a.list = lines /\ a.volumes = volumes /\ a.self = self /\ a.titles = titles
      /\ n \in Nat /\ \A k \in 1 .. n : lines[k] \in ToSet(lines)
  BY IsSeqDomain
<1>. HIDE DEF a, n
<1>2. \A f, k : Turn("file", f, k, a) = Line(f, lines[k], volumes, self)
  BY <1>1 DEF Turn
<1>3. IncludedEntries(lines, volumes, self) = AtEOF(g[n], self).entries
  <2>1. \A f : Turns("file", n, f, NoStanza, a) <=> f = L(f)
    <3>1. ASSUME NEW f
          PROVE  [k \in 0 .. n |-> IF k = 0 THEN NoStanza ELSE Turn("file", f[k - 1], k, a)] = L(f)
      BY <1>2
    <3>. HIDE DEF L
    <3>. QED BY <3>1 DEF Turns
  <2>. QED BY <2>1, ZenonT(60) DEF IncludedEntries, n
<1>4. Kept("file", NoStanza, 0, a)
  BY NoStanzaKept DEF Kept
<1>5. ASSUME NEW k \in 1 .. n, NEW s, Kept("file", s, k - 1, a)
      PROVE  Kept("file", Turn("file", s, k, a), k, a)
  <2>1. StanzaKept(s, titles)
    BY <1>1, <1>5 DEF Kept
  <2>2. TitleIn(lines[k], titles)
    BY <1>1
  <2>3. StanzaKept(Line(s, lines[k], volumes, self), titles)
    BY <2>1, <2>2, LineKeeps
  <2>. QED BY <1>1, <1>2, <2>3 DEF Kept
<1>6. Kept("file", g[n], n, a)
  BY <1>1, <1>4, <1>5, LoopEnds
<1>. HIDE DEF g
<1>7. StanzaKept(AtEOF(g[n], self), titles)
  <2>1. StanzaKept(g[n], titles)
    BY <1>1, <1>6 DEF Kept
  <2>. QED BY <2>1, AtEOFKeeps
<1>. QED BY <1>3, <1>7 DEF StanzaKept

LEMMA MainLineKeeps ==
  ASSUME NEW s, NEW line, NEW files, NEW volumes, NEW self, NEW titles, StanzaKept(s, titles),
         ~ Includes(line) => TitleIn(line, titles),
         Includes(line) => /\ IsSeq(Lines(files, line[2]))
                           /\ \A l \in ToSet(Lines(files, line[2])) : TitleIn(l, titles)
  PROVE  StanzaKept(MainLine(s, line, files, volumes, self), titles)
<1>1. CASE s.mode = "file" /\ Includes(line)
  <2>. DEFINE more == IncludedEntries(Lines(files, line[2]), volumes, self)
              t == MainLine(s, line, files, volumes, self)
  <2>1. t = [s EXCEPT !.entries = @ \o more]
    BY <1>1 DEF MainLine
  <2>2. IsSeq(more) /\ \A e \in ToSet(more) : Described(e, titles)
    BY <1>1, IncludedAre
  <2>. HIDE DEF more, t
  <2>3. {"mode", "entries", "entry", "title"} \subseteq DOMAIN s
    BY StanzaFields DEF StanzaKept
  <2>4. DOMAIN t = DOMAIN s /\ t.entries = s.entries \o more /\ t.entry = s.entry /\ t.mode = s.mode
        /\ t.title = s.title
    BY <2>1, <2>3
  <2>5. IsSeq(s.entries) /\ \A e \in ToSet(s.entries) : Described(e, titles)
    BY DEF StanzaKept
  <2>6. IsSeq(s.entries \o more) /\ ToSet(s.entries \o more) = ToSet(s.entries) \cup ToSet(more)
    BY <2>2, <2>5, Concatenated
  <2>7. IsSeq(t.entries) /\ \A e \in ToSet(t.entries) : Described(e, titles)
    BY <2>2, <2>4, <2>5, <2>6
  <2>8. StanzaKept(t, titles)
    BY <2>4, <2>7 DEF StanzaKept
  <2>. QED BY <2>8 DEF t
<1>2. CASE ~ (s.mode = "file" /\ Includes(line))
  <2>1. TitleIn(line, titles)
    <3>1. CASE Includes(line)
      BY <3>1 DEF Includes, TitleIn
    <3>. QED BY <3>1
  <2>2. MainLine(s, line, files, volumes, self) = Line(s, line, volumes, self)
    BY <1>2 DEF MainLine
  <2>. QED BY <2>1, <2>2, LineKeeps
<1>. QED BY <1>1, <1>2

LEMMA ConfiguredIs ==
  ASSUME world \in ToSet(Worlds), NEW volumes, NEW self
  PROVE  LET entries == ScanUserConfigured(world.conf, volumes, self)
         IN  IsSeq(entries) /\ \A e \in ToSet(entries) : Described(e, Titles)
<1>. DEFINE lines == Lines(world.conf, CONFIG_FILE_NAME)
            n == Len(lines)
            a == [list |-> lines, files |-> world.conf, volumes |-> volumes, self |-> self,
                  titles |-> Titles]
            L(f) == [k \in 0 .. n |-> IF k = 0 THEN NoStanza
                                      ELSE MainLine(f[k - 1], lines[k], world.conf, volumes, self)]
            g == CHOOSE f : Turns("main", n, f, NoStanza, a)
<1>1. IsSeq(lines)
  BY LinesAre, SeqIs
<1>2. \A k \in DOMAIN lines :
        /\ Includes(lines[k]) => ToSet(Lines(world.conf, lines[k][2])) \subseteq ToSet(Conf)
        /\ ~ Includes(lines[k]) => lines[k] \in ToSet(Conf)
  BY ConfHas
<1>. HIDE DEF lines
<1>3. /\ a.list = lines /\ a.volumes = volumes /\ a.self = self /\ a.titles = Titles
      /\ a.files = world.conf /\ n \in Nat /\ DOMAIN lines = 1 .. n
  BY <1>1, IsSeqDomain
<1>. HIDE DEF a, n
<1>4. \A f, k : Turn("main", f, k, a) = MainLine(f, lines[k], world.conf, volumes, self)
  BY <1>3 DEF Turn
<1>5. ScanUserConfigured(world.conf, volumes, self) = AtEOF(g[n], self).entries
  <2>1. \A f : Turns("main", n, f, NoStanza, a) <=> f = L(f)
    <3>1. ASSUME NEW f
          PROVE  [k \in 0 .. n |-> IF k = 0 THEN NoStanza ELSE Turn("main", f[k - 1], k, a)] = L(f)
      BY <1>4
    <3>. HIDE DEF L
    <3>. QED BY <3>1 DEF Turns
  <2>. QED BY <2>1, ZenonT(60) DEF ScanUserConfigured, n, lines
<1>6. Kept("main", NoStanza, 0, a)
  BY NoStanzaKept DEF Kept
<1>7. \A line \in ToSet(Conf) : TitleIn(line, Titles)
  BY DEF TitleIn, Titles
<1>8. ASSUME NEW k \in 1 .. n, NEW s, Kept("main", s, k - 1, a)
      PROVE  Kept("main", Turn("main", s, k, a), k, a)
  <2>1. StanzaKept(s, Titles)
    BY <1>3, <1>8 DEF Kept
  <2>2. ~ Includes(lines[k]) => TitleIn(lines[k], Titles)
    BY <1>2, <1>3, <1>7
  <2>3. Includes(lines[k]) => \A l \in ToSet(Lines(world.conf, lines[k][2])) : TitleIn(l, Titles)
    BY <1>2, <1>3, <1>7
  <2>4. IsSeq(Lines(world.conf, lines[k][2]))
    BY LinesAre, SeqIs
  <2>5. StanzaKept(MainLine(s, lines[k], world.conf, volumes, self), Titles)
    BY <2>1, <2>2, <2>3, <2>4, MainLineKeeps
  <2>. QED BY <1>3, <1>4, <2>5 DEF Kept
<1>9. Kept("main", g[n], n, a)
  BY <1>3, <1>6, <1>8, LoopEnds
<1>. HIDE DEF g
<1>10. StanzaKept(AtEOF(g[n], self), Titles)
  <2>1. StanzaKept(g[n], Titles)
    BY <1>3, <1>9 DEF Kept
  <2>. QED BY <2>1, AtEOFKeeps
<1>. QED BY <1>5, <1>10 DEF StanzaKept

-----------------------------------------------------------------------------
(* The entries that are no loaders.                                        *)

NoLoaders(list) == IsSeq(list) /\ \A e \in ToSet(list) : IsEntry(e) /\ e.Tag # "loader"

LEMMA NoLoadersMapped ==
  ASSUME NEW s, NEW f, IsSeq(s), DOMAIN f = DOMAIN s, f = [n \in DOMAIN s |-> f[n]],
         \A n \in DOMAIN s : IsEntry(f[n]) /\ f[n].Tag # "loader"
  PROVE  NoLoaders(f)
<1>1. IsSeq(f) /\ ToSet(f) = {f[n] : n \in DOMAIN s}
  BY MappedIs
<1>. QED BY <1>1 DEF NoLoaders

LEMMA NoLoadersFlattened ==
  ASSUME NEW seqs, IsSeq(seqs), \A n \in DOMAIN seqs : NoLoaders(seqs[n])
  PROVE  NoLoaders(FlattenSeq(seqs))
<1>1. \A s \in ToSet(seqs) : NoLoaders(s)
  BY DEF ToSet
<1>2. IsSeq(FlattenSeq(seqs)) /\ ToSet(FlattenSeq(seqs)) = UNION {ToSet(s) : s \in ToSet(seqs)}
  BY <1>1, Flattened DEF NoLoaders
<1>. QED BY <1>1, <1>2 DEF NoLoaders

LEMMA NoLoadersOne ==
  ASSUME NEW e, IsEntry(e), e.Tag # "loader"
  PROVE  NoLoaders(<<e>>) /\ NoLoaders(<<>>)
BY Single DEF NoLoaders

LEMMA LegacyEntryIs ==
  ASSUME NEW v
  PROVE  IsEntry(AddLegacyEntry(v)) /\ AddLegacyEntry(v).Tag = "legacy"
<1>. DEFINE d == AddLegacyEntry(v)
<1>. DEFINE title == IF v.OSName = NULL THEN "Legacy OS" ELSE v.OSName
            desc == IF v.VolName # NULL THEN v.VolName ELSE IF v.DiskKind = "optical" THEN "CD" ELSE "HD"
            letter == IF title \in {"Windows", "Linux"} THEN Initial[title] ELSE NULL
            e == [NewEntry EXCEPT !.Tag = "legacy", !.Title = <<title>>, !.VolTitle = desc,
                                  !.ShortcutLetter = letter,
                                  !.LoadOptions = << W(MediaOption(v.DiskKind)) >>, !.Volume = v]
<1>1. d = [e EXCEPT !.SubScreen = LegacySubScreen(e)]
  BY DEF AddLegacyEntry
<1>. HIDE DEF title, desc, letter
<1>3. DOMAIN e = DOMAIN NewEntry /\ e.Tag = "legacy"
  BY EntryFields
<1>. HIDE DEF e
<1>. HIDE DEF d
<1>2. DOMAIN d = DOMAIN NewEntry /\ d.Tag = "legacy"
  BY <1>1, <1>3, EntryFields
<1>. QED BY <1>2 DEF IsEntry, d

LEMMA LegacyUEFIEntryIs ==
  ASSUME NEW option
  PROVE  IsEntry(AddLegacyEntryUEFI(option)) /\ AddLegacyEntryUEFI(option).Tag = "legacy_uefi"
<1>. DEFINE d == AddLegacyEntryUEFI(option)
<1>1. PICK title, options, shown :
        d = [[NewEntry EXCEPT !.Tag = "legacy_uefi", !.Title = title, !.LoadOptions = options]
               EXCEPT !.SubScreen = shown]
  BY Zenon DEF AddLegacyEntryUEFI
<1>. HIDE DEF d
<1>2. DOMAIN d = DOMAIN NewEntry /\ d.Tag = "legacy_uefi"
  BY <1>1, EntryFields
<1>. QED BY <1>2 DEF IsEntry, d

LEMMA ScanLegacyIs ==
  ASSUME world \in ToSet(Worlds), IsSeq(Volumes), NEW kind
  PROVE  NoLoaders(ScanLegacy(kind))
<1>1. CASE LegacyType = "MAC"
  <2>. DEFINE lists == [n \in DOMAIN Volumes |->
                          IF Volumes[n].DiskKind = kind /\ ShowsVolume(n)
                          THEN <<AddLegacyEntry(Volumes[n])>> ELSE <<>>]
  <2>1. ScanLegacy(kind) = FlattenSeq(lists)
    BY <1>1 DEF ScanLegacy
  <2>2. DOMAIN lists = DOMAIN Volumes /\ lists = [n \in DOMAIN Volumes |-> lists[n]]
    OBVIOUS
  <2>3. ASSUME NEW n \in DOMAIN Volumes
        PROVE  NoLoaders(lists[n])
    BY LegacyEntryIs, NoLoadersOne
  <2>. HIDE DEF lists
  <2>4. IsSeq(lists)
    BY <2>2, MappedIs
  <2>. QED BY <2>1, <2>2, <2>3, <2>4, NoLoadersFlattened
<1>2. CASE LegacyType = "UEFI"
  <2>. DEFINE order == world.bootorder
              A == {o \in ToSet(order) : o.kind = kind /\ o.type = "BIOS"}
              found == Select(order, A)
              entries == [n \in DOMAIN found |-> AddLegacyEntryUEFI(found[n])]
  <2>1. ScanLegacy(kind) = entries
    BY <1>2 DEF ScanLegacy, ScanLegacyUEFI, Where
  <2>2. IsSeq(order)
    BY WorldsAssumption, SeqIs
  <2>. HIDE DEF order, A
  <2>3. IsSeq(found)
    BY <2>2, Chosen
  <2>. HIDE DEF found
  <2>4. /\ DOMAIN entries = DOMAIN found /\ entries = [n \in DOMAIN found |-> entries[n]]
        /\ \A n \in DOMAIN found : entries[n] = AddLegacyEntryUEFI(found[n])
    OBVIOUS
  <2>. HIDE DEF entries
  <2>5. \A n \in DOMAIN found : IsEntry(entries[n]) /\ entries[n].Tag # "loader"
    BY <2>4, LegacyUEFIEntryIs
  <2>. QED BY <2>1, <2>3, <2>4, <2>5, NoLoadersMapped
<1>3. CASE LegacyType \notin {"MAC", "UEFI"}
  <2>1. ScanLegacy(kind) = <<>>
    BY <1>3 DEF ScanLegacy
  <2>. QED BY <2>1, Single DEF NoLoaders
<1>. QED BY <1>1, <1>2, <1>3

LEMMA ToolEntryIs ==
  ASSUME NEW v, NEW path, NEW title, NEW letter, NEW graphics
  PROVE  /\ IsEntry(AddToolEntry(v, path, title, letter, graphics))
         /\ AddToolEntry(v, path, title, letter, graphics).Tag = "tool"
<1>. DEFINE d == AddToolEntry(v, path, title, letter, graphics)
<1>1. d = [NewEntry EXCEPT !.Tag = "tool", !.Title = <<title>>, !.Row = 1, !.ShortcutLetter = letter,
                           !.LoaderPath = path, !.DevicePath = FileDevicePath(v, path),
                           !.UseGraphicsMode = graphics]
  BY DEF AddToolEntry
<1>. HIDE DEF d
<1>2. DOMAIN d = DOMAIN NewEntry /\ d.Tag = "tool"
  BY <1>1, EntryFields
<1>. QED BY <1>2 DEF IsEntry, d

LEMMA OwnToolsAre ==
  ASSUME NEW paths, NEW title, NEW letter, IsSeq(paths)
  PROVE  NoLoaders(OwnTools(paths, title, letter))
<1>. DEFINE A == {p \in ToSet(paths) : FileExists(SelfVolume, p)}
            there == Select(paths, A)
            entries == OwnTools(paths, title, letter)
<1>1. entries = [n \in DOMAIN there |-> AddToolEntry(SelfVolume, there[n], title, letter, FALSE)]
  BY DEF OwnTools, Where
<1>. HIDE DEF A
<1>2. IsSeq(there)
  BY Chosen
<1>. HIDE DEF there, entries
<1>3. /\ DOMAIN entries = DOMAIN there /\ entries = [n \in DOMAIN there |-> entries[n]]
      /\ \A n \in DOMAIN there : entries[n] = AddToolEntry(SelfVolume, there[n], title, letter, FALSE)
  BY <1>1
<1>4. ASSUME NEW n \in DOMAIN there PROVE IsEntry(entries[n]) /\ entries[n].Tag # "loader"
  <2>. DEFINE e == AddToolEntry(SelfVolume, there[n], title, letter, FALSE)
  <2>2. entries[n] = e
    BY <1>3
  <2>3. IsEntry(e) /\ e.Tag = "tool"
    BY ToolEntryIs, Zenon
  <2>. HIDE DEF e
  <2>1. IsEntry(entries[n]) /\ entries[n].Tag = "tool"
    BY <2>2, <2>3
  <2>. QED BY <2>1
<1>5. NoLoaders(entries)
  BY <1>2, <1>3, <1>4, NoLoadersMapped
<1>. QED BY <1>5 DEF entries

LEMMA BuiltInIs ==
  ASSUME NEW tag
  PROVE  IsEntry(BuiltIn(tag)) /\ BuiltIn(tag).Tag = tag
<1>. DEFINE d == BuiltIn(tag)
<1>1. PICK letter : d = [NewEntry EXCEPT !.Tag = tag, !.Title = <<tag>>, !.Row = 1, !.ShortcutLetter = letter]
  BY Zenon DEF BuiltIn
<1>. HIDE DEF d
<1>2. DOMAIN d = DOMAIN NewEntry /\ d.Tag = tag
  BY <1>1, EntryFields
<1>. QED BY <1>2 DEF IsEntry, d

LEMMA ToolEntriesAre ==
  ASSUME NEW tool, IsSeq(Volumes)
  PROVE  NoLoaders(ToolEntries(tool))
<1>1. IsSeq(SHELL_NAMES) /\ IsSeq(<<GPTSYNC>>) /\ IsSeq(MOK_NAMES)
  <2>1. SHELL_NAMES = [n \in 1 .. 3 |-> SHELL_NAMES[n]]
    BY DEF SHELL_NAMES
  <2>. QED BY <2>1, FunctionIsSeq, Single, PairIs DEF MOK_NAMES
<1>2. CASE tool \in {"about", "exit", "reboot", "shutdown"}
  <2>1. ToolEntries(tool) = <<BuiltIn(tool)>>
    BY <1>2 DEF ToolEntries
  <2>. QED BY <1>2, <2>1, BuiltInIs, NoLoadersOne
<1>3. CASE tool = "shell"
  <2>1. ToolEntries(tool) = OwnTools(SHELL_NAMES, "EFI Shell", "s")
    BY <1>3 DEF ToolEntries
  <2>. QED BY <1>1, <2>1, OwnToolsAre
<1>4. CASE tool = "gptsync"
  <2>1. ToolEntries(tool) = OwnTools(<<GPTSYNC>>, "Make Hybrid MBR", "p")
    BY <1>4 DEF ToolEntries
  <2>. QED BY <1>1, <2>1, OwnToolsAre
<1>5. CASE tool = "mok_tool"
  <2>. DEFINE names == Append(MOK_NAMES, Append(SelfDirPath, "MokManager.efi"))
  <2>1. ToolEntries(tool) = OwnTools(names, "MOK Key Manager", "s")
    BY <1>5 DEF ToolEntries
  <2>2. IsSeq(names)
    BY <1>1, Appended
  <2>. HIDE DEF names
  <2>. QED BY <2>1, <2>2, OwnToolsAre
<1>6. CASE tool = "apple_recovery"
  <2>. DEFINE A == {v \in ToSet(Volumes) : v.IsReadable /\ FileExists(v, RECOVERY)}
              bootable == Select(Volumes, A)
              entries == [n \in DOMAIN bootable |->
                            AddToolEntry(bootable[n], RECOVERY, "Apple Recovery", "r", TRUE)]
  <2>1. ToolEntries(tool) = entries
    BY <1>6 DEF ToolEntries, Where
  <2>. HIDE DEF A
  <2>2. IsSeq(bootable)
    BY Chosen
  <2>. HIDE DEF bootable
  <2>3. /\ DOMAIN entries = DOMAIN bootable /\ entries = [n \in DOMAIN bootable |-> entries[n]]
        /\ \A n \in DOMAIN bootable :
             entries[n] = AddToolEntry(bootable[n], RECOVERY, "Apple Recovery", "r", TRUE)
    OBVIOUS
  <2>. HIDE DEF entries
  <2>4. ASSUME NEW n \in DOMAIN bootable PROVE IsEntry(entries[n]) /\ entries[n].Tag # "loader"
    <3>. DEFINE e == AddToolEntry(bootable[n], RECOVERY, "Apple Recovery", "r", TRUE)
    <3>2. entries[n] = e
      BY <2>3
    <3>3. IsEntry(e) /\ e.Tag = "tool"
      BY ToolEntryIs, Zenon
    <3>. HIDE DEF e
    <3>1. IsEntry(entries[n]) /\ entries[n].Tag = "tool"
      BY <3>2, <3>3
    <3>. QED BY <3>1
  <2>. QED BY <2>1, <2>2, <2>3, <2>4, NoLoadersMapped
<1>7. CASE tool \notin {"about", "exit", "reboot", "shutdown", "shell", "gptsync", "mok_tool",
                        "apple_recovery"}
  <2>1. ToolEntries(tool) = <<>>
    BY <1>7 DEF ToolEntries
  <2>. QED BY <2>1, Single DEF NoLoaders
<1>. QED BY <1>2, <1>3, <1>4, <1>5, <1>6, <1>7

-----------------------------------------------------------------------------
(* What is found of a volume: every loader that is not excluded, and       *)
(* nothing of rEFInd's own directory.                                      *)

LEMMA ItIsFound ==
  ASSUME world \in ToSet(Worlds), NEW v, NEW dir, NEW f \in ToSet(Dir(v, dir)), IsSeq(dir)
  PROVE  /\ FileExists(v, Append(dir, f.name))
         /\ Data(v, Append(dir, f.name)) = f.data
<1>. DEFINE path == Append(dir, f.name)
<1>1. Front(path) = dir /\ Last(path) = f.name
  BY PathIs, Zenon
<1>. HIDE DEF path
<1>2. \A e, g \in ToSet(Dir(v, dir)) : e.name = g.name => e = g
  BY DirIs DEF Listing
<1>3. Found(v, path) = {f}
  BY <1>1, <1>2 DEF Found
<1>. QED BY <1>3 DEF FileExists, Data, path

LEMMA FallbackPath ==
  /\ FALLBACK_FULLNAME = Append(<<"EFI", "boot">>, "bootx64.efi")
  /\ Front(FALLBACK_FULLNAME) = <<"EFI", "boot">>
<1>1. FALLBACK_FULLNAME = Append(<<"EFI", "boot">>, "bootx64.efi")
  BY DEF FALLBACK_FULLNAME
<1>2. IsSeq(<<"EFI", "boot">>)
  BY PairIs
<1>. QED BY <1>1, <1>2, PathIs, Zenon

\* The entries in menu offer every loader of a volume that is not excluded.
OffersAll(menu, v) ==
  \A dir \in LoaderDirs(v) : \A f \in ToSet(FilesIn(v, dir, MatchPatterns)) :
    ~ Excluded(v, dir, f.name) => \E e \in ToSet(menu) : Offers(e, v, f.data)

LEMMA AllOffered ==
  ASSUME world \in ToSet(Worlds), NEW v, AlsoScanTyped(GlobalConfig.AlsoScan), v.IsReadable
  PROVE  OffersAll(ScanEfiFiles(v), v)
<1>. SUFFICES ASSUME NEW dir \in LoaderDirs(v), NEW f \in ToSet(FilesIn(v, dir, MatchPatterns)),
                     ~ Excluded(v, dir, f.name)
              PROVE  \E e \in ToSet(ScanEfiFiles(v)) : Offers(e, v, f.data)
  BY DEF OffersAll
<1>. DEFINE path == Append(dir, f.name)
<1>1. IsSeq(dir)
  BY InOrderIs DEF ArePaths
<1>2. Front(path) = dir /\ Last(path) = f.name
  BY <1>1, PathIs, Zenon
<1>3. f \in ToSet(Dir(v, dir))
  BY FilesInIs
<1>4. FileExists(v, path) /\ Data(v, path) = f.data
  BY <1>1, <1>3, ItIsFound
<1>5. ASSUME NEW p \in Paths(v), FileExists(v, p), Data(v, p) = f.data
      PROVE  \E e \in ToSet(ScanEfiFiles(v)) : Offers(e, v, f.data)
  <2>1. PICK title : LoaderEntry(p, title, v) \in ToSet(ScanEfiFiles(v))
    BY ScanEfiFilesIs, Zenon
  <2>2. Offers(LoaderEntry(p, title, v), v, f.data)
    BY <1>5, LoaderEntryIs DEF Offers
  <2>. QED BY <2>1, <2>2
<1>. HIDE DEF path
<1>6. CASE path = FALLBACK_FULLNAME
  <2>1. ~ IsSelfFallback(v)
    BY <1>2, <1>6, FallbackPath DEF IsSelfFallback, Excluded, OwnDirectory
  <2>2. CASE \E p \in Paths(v) : DuplicatesFallback(v, p)
    BY <1>4, <1>5, <1>6, <2>2 DEF DuplicatesFallback
  <2>3. ASSUME NEW title, LoaderEntry(path, title, v) \in ToSet(ScanEfiFiles(v))
        PROVE  \E e \in ToSet(ScanEfiFiles(v)) : Offers(e, v, f.data)
    <3>1. Offers(LoaderEntry(path, title, v), v, f.data)
      BY <1>4, LoaderEntryIs DEF Offers
    <3>. QED BY <2>3, <3>1
  <2>4. \/ \E p \in Paths(v) : DuplicatesFallback(v, p)
        \/ \E title : LoaderEntry(path, title, v) \in ToSet(ScanEfiFiles(v))
    BY <1>4, <1>6, <2>1, ScanEfiFilesIs, Zenon
  <2>. QED BY <2>2, <2>3, <2>4
<1>7. CASE path # FALLBACK_FULLNAME
  <2>1. ShouldScan(v, dir)
    BY DEF ShouldScan, Excluded
  <2>2. ~ Skipped(path)
    BY <1>2, <1>7 DEF Skipped, Excluded
  <2>3. path \in ToSet(ScanLoaderDir(v, dir))
    BY <1>1, <2>1, <2>2, ScanLoaderDirIs DEF path
  <2>4. path \in Paths(v)
    BY <2>3 DEF Paths
  <2>. QED BY <1>4, <1>5, <2>4
<1>. QED BY <1>6, <1>7

\* rEFInd is in a directory, and not where the loaders of OS X and of Windows are.
Elsewhere == SelfDirPath \notin {<<>>, CORE_SERVICES, MICROSOFT}

OfSelf(e) == e.DevicePath.device = SelfHandle /\ Front(e.LoaderPath) = SelfDirPath

LEMMA NoneOfSelf ==
  ASSUME world \in ToSet(Worlds), NEW v, AlsoScanTyped(GlobalConfig.AlsoScan), v.IsReadable,
         Elsewhere, NEW e \in ToSet(ScanEfiFiles(v))
  PROVE  IsEntry(e) /\ ~ OfSelf(e)
<1>1. PICK path, title : /\ e = LoaderEntry(path, title, v)
                         /\ path \in Paths(v) \/ (path = FALLBACK_FULLNAME /\ ~ IsSelfFallback(v))
  BY ScanEfiFilesIs, Zenon
<1>2. IsEntry(e) /\ e.LoaderPath = path /\ e.DevicePath = FileDevicePath(v, path)
  BY <1>1, LoaderEntryIs
<1>. SUFFICES ASSUME OfSelf(e) PROVE FALSE
  BY <1>2
<1>3. OnSelf(v) /\ Front(path) = SelfDirPath
  BY <1>2 DEF OfSelf, OnSelf, FileDevicePath
<1>4. CASE path = FALLBACK_FULLNAME /\ ~ IsSelfFallback(v)
  BY <1>3, <1>4, FallbackPath DEF IsSelfFallback
<1>5. ASSUME NEW k \in ToSet(KnownLoaders(v)), path = Append(k.dir, k.file) PROVE FALSE
  <2>1. k.dir \in {CORE_SERVICES, MICROSOFT}
    BY KnownLoadersIs
  <2>2. CORE_SERVICES = [n \in 1 .. 3 |-> CORE_SERVICES[n]]
    BY DEF CORE_SERVICES
  <2>3. MICROSOFT = [n \in 1 .. 3 |-> MICROSOFT[n]]
    BY DEF MICROSOFT
  <2>4. IsSeq(k.dir)
    BY <2>1, <2>2, <2>3, FunctionIsSeq
  <2>5. Front(path) = k.dir
    BY <1>5, <2>4, PathIs, Zenon
  <2>. QED BY <1>3, <2>1, <2>5 DEF Elsewhere
<1>6. ASSUME NEW dir \in LoaderDirs(v), path \in ToSet(ScanLoaderDir(v, dir)) PROVE FALSE
  <2>1. IsSeq(dir)
    BY InOrderIs DEF ArePaths
  <2>2. ShouldScan(v, dir)
    BY <1>6, <2>1, ScanLoaderDirIs
  <2>3. PICK name : path = Append(dir, name)
    BY <1>6, <2>1, <2>2, ScanLoaderDirIs
  <2>4. Front(path) = dir
    BY <2>1, <2>3, PathIs, Zenon
  <2>. QED BY <1>3, <2>2, <2>4 DEF ShouldScan, OwnDirectory, Elsewhere
<1>. QED BY <1>1, <1>4, <1>5, <1>6 DEF Paths

-----------------------------------------------------------------------------
(* What only the disks and the configuration decide stays as it is.        *)

SameInput == world' = world /\ GlobalConfig' = GlobalConfig

LEMMA DirSame ==
  ASSUME SameInput, NEW v, NEW path
  PROVE  Dir(v, path)' = Dir(v, path)
<1>1. Directories(v)' = Directories(v)
  BY DEF SameInput, Directories
<1>. QED BY <1>1 DEF Dir

LEMMA FilesSame ==
  ASSUME SameInput, NEW v, NEW path
  PROVE  /\ \A traits : FilesIn(v, path, traits)' = FilesIn(v, path, traits)
         /\ DirsIn(v, path)' = DirsIn(v, path)
         /\ FileExists(v, path)' = FileExists(v, path)
         /\ Data(v, path)' = Data(v, path)
<1>1. Dir(v, path)' = Dir(v, path) /\ Dir(v, Front(path))' = Dir(v, Front(path))
  BY DirSame
<1>2. Found(v, path)' = Found(v, path)
  BY <1>1 DEF Found
<1>3. ASSUME NEW traits PROVE FilesIn(v, path, traits)' = FilesIn(v, path, traits)
  BY <1>1 DEF FilesIn, Where
<1>4. DirsIn(v, path)' = DirsIn(v, path)
  BY <1>1 DEF DirsIn, Where
<1>5. FileExists(v, path)' = FileExists(v, path)
  BY <1>2 DEF FileExists
<1>6. Data(v, path)' = Data(v, path)
  BY <1>2 DEF Data
<1>. QED BY <1>3, <1>4, <1>5, <1>6

LoadersIn(v, dir) == FilesIn(v, dir, MatchPatterns)

LEMMA LoadersSame ==
  ASSUME SameInput, NEW v
  PROVE  /\ LoaderDirs(v)' = LoaderDirs(v)
         /\ \A dir : LoadersIn(v, dir)' = LoadersIn(v, dir)
         /\ \A dir, name : Excluded(v, dir, name)' = Excluded(v, dir, name)
         /\ \A e, data : Offers(e, v, data)' = Offers(e, v, data)
<1>1. MatchPatterns' = MatchPatterns
  BY DEF SameInput, MatchPatterns
<1>2. EfiDirs(v)' = EfiDirs(v)
  <2>1. DirsIn(v, <<"EFI">>)' = DirsIn(v, <<"EFI">>)
    BY FilesSame
  <2>. QED BY <2>1 DEF EfiDirs, Where
<1>3. AlsoDirs(v)' = AlsoDirs(v)
  <2>1. GlobalConfig.AlsoScan' = GlobalConfig.AlsoScan
    BY DEF SameInput
  <2>. QED BY <2>1 DEF AlsoDirs, Where
<1>4. LoaderDirs(v)' = LoaderDirs(v)
  BY <1>2, <1>3 DEF LoaderDirs
<1>7. ASSUME NEW dir PROVE LoadersIn(v, dir)' = LoadersIn(v, dir)
  BY <1>1, DirSame DEF LoadersIn, FilesIn, Where
<1>5. \A dir, name : Excluded(v, dir, name)' = Excluded(v, dir, name)
  BY DEF SameInput, Excluded, OwnDirectory
<1>6. \A e, data : Offers(e, v, data)' = Offers(e, v, data)
  BY FilesSame DEF Offers
<1>. QED BY <1>4, <1>5, <1>6, <1>7

LEMMA RightSame ==
  ASSUME SameInput, NEW v, NEW path, NEW options
  PROVE  RightInitrd(options, v, path)' <=> RightInitrd(options, v, path)
<1>1. \A p, traits : FilesIn(v, p, traits)' = FilesIn(v, p, traits)
  BY FilesSame
<1>2. \A p : FileExists(v, p)' = FileExists(v, p) /\ Data(v, p)' = Data(v, p)
  BY FilesSame
<1>3. ReadLinuxOptionsFile(v, path)' = ReadLinuxOptionsFile(v, path)
  BY <1>2 DEF ReadLinuxOptionsFile, Where
<1>4. RamDisks(v, path)' = RamDisks(v, path)
  BY <1>1 DEF RamDisks
<1>5. SameVersion(v, path)' = SameVersion(v, path) /\ NullCompared(v, path)' = NullCompared(v, path)
  BY <1>4 DEF SameVersion, NullCompared
<1>. QED BY <1>3, <1>4, <1>5 DEF RightInitrd, WithDisk

-----------------------------------------------------------------------------
(* The invariant.                                                          *)

\* An entry that rEFInd found is not of its own directory.
NotSelf(e) == e.Tag = "loader" /\ e.Title \notin Titles => ~ OfSelf(e)

EntryOK(e) == IsEntry(e) /\ (Elsewhere => NotSelf(e)) /\ KernelRight(e)

\* The letters of ScanFor that have been followed ask for this kind of disk.
Followed(kind) == \E k \in LettersOf(kind) : phase = "loaders" => k < turn

Read == phase \in {"loaders", "tools", "ready"}

ScanInv ==
  /\ world \in ToSet(Worlds)
  /\ phase \in {"off", "config", "loaders", "tools", "ready"} /\ turn \in Nat
  /\ DOMAIN GlobalConfig = DOMAIN GlobalConfig0
  /\ IsSeq(Volumes) /\ \A v \in ToSet(Volumes) : v.DiskKind \in Kinds
  /\ IsSeq(MainMenu) /\ \A e \in ToSet(MainMenu) : EntryOK(e)
  /\ ~ Read => MainMenu = <<>>
  /\ Read => AlsoScanTyped(GlobalConfig.AlsoScan)
  /\ Read => \A v \in ToSet(Volumes) : v.IsReadable /\ Followed(v.DiskKind) => OffersAll(MainMenu, v)


\* What Offers() and EntryOK() see of an entry.
Like(d, e) == /\ d.Tag = e.Tag /\ d.Title = e.Title /\ d.OSType = e.OSType
              /\ d.LoaderPath = e.LoaderPath /\ d.DevicePath = e.DevicePath
              /\ d.LoadOptions = e.LoadOptions /\ d.SubScreen = e.SubScreen

Covers(menu) == \A e \in ToSet(menu) : \E d \in ToSet(MainMenu') : Like(d, e)

LEMMA StillOffered ==
  ASSUME SameInput, NEW v, NEW menu, OffersAll(menu, v), Covers(menu)
  PROVE  OffersAll(MainMenu, v)'
<1>1. LoaderDirs(v)' = LoaderDirs(v)
  BY LoadersSame
<1>2. \A dir, name : Excluded(v, dir, name)' = Excluded(v, dir, name)
  BY LoadersSame
<1>3. \A dir : LoadersIn(v, dir)' = LoadersIn(v, dir)
  BY LoadersSame
<1>4. \A e, data : Offers(e, v, data)' = Offers(e, v, data)
  BY LoadersSame
<1>5. ASSUME NEW dir \in LoaderDirs(v), NEW f \in ToSet(LoadersIn(v, dir)), ~ Excluded(v, dir, f.name)
      PROVE  \E d \in ToSet(MainMenu') : Offers(d, v, f.data)'
  <2>1. PICK e \in ToSet(menu) : Offers(e, v, f.data)
    BY <1>5 DEF OffersAll, LoadersIn
  <2>2. PICK d \in ToSet(MainMenu') : Like(d, e)
    BY DEF Covers
  <2>3. Offers(d, v, f.data)
    BY <2>1, <2>2 DEF Offers, Like
  <2>. QED BY <1>4, <2>3
<1>. QED BY <1>1, <1>2, <1>3, <1>5 DEF OffersAll, LoadersIn

LEMMA LettersSame ==
  ASSUME SameInput
  PROVE  Conf' = Conf /\ Titles' = Titles /\ \A kind : LettersOf(kind)' = LettersOf(kind)
<1>1. Conf' = Conf
  BY DEF SameInput, Conf
<1>. QED BY <1>1 DEF Titles, LettersOf, SameInput

LEMMA StillKept ==
  ASSUME ScanInv, SameInput, Volumes' = Volumes, Read, Read', turn' \in Nat, IsSeq(MainMenu'),
         \A e \in ToSet(MainMenu') : EntryOK(e),
         \A v \in ToSet(Volumes) :
           v.IsReadable /\ Followed(v.DiskKind)' => \E menu : OffersAll(menu, v) /\ Covers(menu)
  PROVE  ScanInv'
<1>1. world' \in ToSet(Worlds) /\ DOMAIN GlobalConfig' = DOMAIN GlobalConfig0
  BY DEF ScanInv, SameInput
<1>2. phase' \in {"off", "config", "loaders", "tools", "ready"}
  BY DEF Read
<1>3. IsSeq(Volumes') /\ \A v \in ToSet(Volumes') : v.DiskKind \in Kinds
  BY DEF ScanInv
<1>4. Titles' = Titles /\ Conf' = Conf
  BY LettersSame
<1>5. ASSUME NEW e \in ToSet(MainMenu') PROVE EntryOK(e)'
  <2>1. NotSelf(e)' <=> NotSelf(e)
    BY <1>4 DEF NotSelf
  <2>2. \A v, options : RightInitrd(options, v, e.LoaderPath)' <=> RightInitrd(options, v, e.LoaderPath)
    BY RightSame
  <2>3. KernelRight(e)' <=> KernelRight(e)
    BY <1>4, <2>2 DEF KernelRight
  <2>. QED BY <2>1, <2>3 DEF EntryOK, Elsewhere
<1>6. AlsoScanTyped(GlobalConfig'.AlsoScan)
  BY DEF ScanInv, SameInput
<1>7. ASSUME NEW v \in ToSet(Volumes'), v.IsReadable, Followed(v.DiskKind)'
      PROVE  OffersAll(MainMenu, v)'
  BY <1>7, StillOffered
<1>. QED BY <1>1, <1>2, <1>3, <1>5, <1>6, <1>7 DEF ScanInv, Elsewhere

LetterOf(kind) == CASE kind = "internal" -> "i" [] kind = "external" -> "e" [] OTHER -> "o"

LEMMA KindLetters ==
  ASSUME NEW kind \in Kinds, NEW other \in Kinds
  PROVE  /\ LetterOf(kind) \in {"i", "e", "o"}
         /\ LetterOf(kind) = LetterOf(other) => kind = other
BY DEF Kinds, LetterOf

\* One more letter asks for at most one more kind of disk.
LEMMA DoneNext ==
  ASSUME SameInput, phase = "loaders", phase' = "loaders", turn \in Nat, turn' = turn + 1,
         NEW kind, Followed(kind)'
  PROVE  Followed(kind) \/ ThisLetter = LetterOf(kind)
<1>1. LettersOf(kind)' = LettersOf(kind)
  BY LettersSame
<1>2. PICK k \in LettersOf(kind) : k < turn + 1
  BY <1>1 DEF Followed
<1>3. k \in Nat /\ GlobalConfig.ScanFor[k] = LetterOf(kind)
  BY DEF LettersOf, LetterOf, NUM_SCAN_OPTIONS
<1>4. CASE k < turn
  BY <1>4 DEF Followed
<1>5. CASE k = turn
  BY <1>3, <1>5 DEF ThisLetter
<1>. QED BY <1>2, <1>3, <1>4, <1>5

LEMMA MoreCovers ==
  ASSUME NEW menu, NEW more, IsSeq(menu), IsSeq(more), MainMenu' = menu \o more
  PROVE  IsSeq(MainMenu') /\ ToSet(MainMenu') = ToSet(menu) \cup ToSet(more)
         /\ Covers(menu) /\ Covers(more)
<1>1. IsSeq(MainMenu') /\ ToSet(MainMenu') = ToSet(menu) \cup ToSet(more)
  BY Concatenated
<1>2. \A e : Like(e, e)
  BY DEF Like
<1>. QED BY <1>1, <1>2 DEF Covers

\* A letter of ScanFor. kinds: the disks whose loaders it adds.
LEMMA LetterKeeps ==
  ASSUME ScanInv, NEW letters, NEW entries, ScanOption(letters, entries), IsSeq(entries),
         \A e \in ToSet(entries) : EntryOK(e),
         \A v \in ToSet(Volumes) :
           v.IsReadable /\ LetterOf(v.DiskKind) \in letters => OffersAll(entries, v)
  PROVE  ScanInv'
<1>1. /\ SameInput /\ Volumes' = Volumes /\ phase = "loaders" /\ phase' = "loaders"
      /\ turn \in Nat /\ turn' = turn + 1 /\ ThisLetter \in letters
      /\ MainMenu' = MainMenu \o entries
  BY DEF ScanOption, SameInput, ScanInv
<1>2. /\ IsSeq(MainMenu') /\ ToSet(MainMenu') = ToSet(MainMenu) \cup ToSet(entries)
      /\ Covers(MainMenu) /\ Covers(entries)
  BY <1>1, MoreCovers DEF ScanInv
<1>3. ASSUME NEW v \in ToSet(Volumes), v.IsReadable, Followed(v.DiskKind)'
      PROVE  \E menu : OffersAll(menu, v) /\ Covers(menu)
  <2>1. CASE Followed(v.DiskKind)
    BY <1>1, <1>2, <1>3, <2>1 DEF ScanInv, Read
  <2>2. CASE ThisLetter = LetterOf(v.DiskKind)
    BY <1>1, <1>2, <1>3, <2>2
  <2>. QED BY <1>1, <1>3, <2>1, <2>2, DoneNext
<1>4. Read /\ Read' /\ turn' \in Nat
  BY <1>1 DEF Read
<1>5. \A e \in ToSet(MainMenu') : EntryOK(e)
  BY <1>2 DEF ScanInv
<1>. QED BY <1>1, <1>2, <1>3, <1>4, <1>5, StillKept

LEMMA NoLoadersKeep ==
  ASSUME ScanInv, NEW letters, NEW entries, ScanOption(letters, entries), NoLoaders(entries),
         letters \cap {"i", "e", "o"} = {}
  PROVE  ScanInv'
<1>1. \A e \in ToSet(entries) : EntryOK(e)
  BY DEF NoLoaders, EntryOK, NotSelf, KernelRight
<1>2. \A v \in ToSet(Volumes) : LetterOf(v.DiskKind) \notin letters
  BY KindLetters DEF ScanInv
<1>. QED BY <1>1, <1>2, LetterKeeps DEF NoLoaders

LEMMA KindKeeps ==
  ASSUME ScanInv, NEW kind \in Kinds, ScanOption({LetterOf(kind)}, ScanKind(kind))
  PROVE  ScanInv'
<1>1. /\ world \in ToSet(Worlds) /\ AlsoScanTyped(GlobalConfig.AlsoScan)
      /\ IsSeq(Volumes) /\ \A v \in ToSet(Volumes) : v.DiskKind \in Kinds
  BY DEF ScanInv, ScanOption, Read
<1>2. IsSeq(ScanKind(kind))
  BY <1>1, ScanKindIs
<1>3. \A e : e \in ToSet(ScanKind(kind)) <=>
               \E v \in ToSet(Volumes) :
                 v.DiskKind = kind /\ v.IsReadable /\ e \in ToSet(ScanEfiFiles(v))
  BY <1>1, ScanKindIs
<1>4. ASSUME NEW e \in ToSet(ScanKind(kind)) PROVE EntryOK(e)
  <2>1. PICK v \in ToSet(Volumes) : v.IsReadable /\ e \in ToSet(ScanEfiFiles(v))
    BY <1>3
  <2>2. IsEntry(e) /\ KernelRight(e)
    <3>1. PICK path, title : e = LoaderEntry(path, title, v)
                             /\ (path \in Paths(v) \/ path = FALLBACK_FULLNAME)
      BY <1>1, <2>1, ScanEfiFilesIs, Zenon
    <3>2. IsSeq(path)
      <4>1. IsSeq(FALLBACK_FULLNAME)
        BY FallbackPath, PairIs, Appended
      <4>. QED BY <1>1, <3>1, <4>1, PathsAre
    <3>. QED BY <1>1, <3>1, <3>2, LoaderEntryIs, LoaderEntryRight
  <2>. QED BY <1>1, <2>1, <2>2, NoneOfSelf DEF EntryOK, NotSelf
<1>5. ASSUME NEW v \in ToSet(Volumes), v.IsReadable, LetterOf(v.DiskKind) \in {LetterOf(kind)}
      PROVE  OffersAll(ScanKind(kind), v)
  <2>1. v.DiskKind = kind
    BY <1>1, <1>5, KindLetters
  <2>2. ToSet(ScanEfiFiles(v)) \subseteq ToSet(ScanKind(kind))
    BY <1>3, <1>5, <2>1
  <2>3. OffersAll(ScanEfiFiles(v), v)
    BY <1>1, <1>5, AllOffered
  <2>. QED BY <2>2, <2>3 DEF OffersAll
<1>. QED BY <1>2, <1>4, <1>5, LetterKeeps

LEMMA ConfiguredKeeps ==
  ASSUME ScanInv, ScanConfigured
  PROVE  ScanInv'
<1>. DEFINE entries == ScanUserConfigured(world.conf, Volumes, SelfVolume)
<1>1. IsSeq(entries) /\ \A e \in ToSet(entries) : Described(e, Titles)
  BY ConfiguredIs DEF ScanInv
<1>2. ScanOption({"m"}, entries)
  BY DEF ScanConfigured
<1>. HIDE DEF entries
<1>3. \A e \in ToSet(entries) : EntryOK(e)
  BY <1>1 DEF Described, EntryOK, NotSelf, KernelRight
<1>4. \A v \in ToSet(Volumes) : LetterOf(v.DiskKind) \notin {"m"}
  BY KindLetters DEF ScanInv
<1>. QED BY <1>1, <1>2, <1>3, <1>4, LetterKeeps

\* ScanVolumes() finds volumes of the three kinds.
LEMMA VolumesKept ==
  ASSUME world \in ToSet(Worlds), ScanVolumes
  PROVE  IsSeq(Volumes') /\ \A v \in ToSet(Volumes') : v.DiskKind \in Kinds
<1>1. Volumes' = V!ScanVolumes(world.devices)
  BY DEF ScanVolumes
<1>2. IsSeq(world.devices)
  BY WorldsAssumption, SeqIs
<1>3. ASSUME NEW d \in ToSet(world.devices) PROVE IsSeq(d.path) /\ IsSeq(d.logical)
  <2>1. d.path \in Seq(STRING) /\ d.logical \in Seq(SUBSET STRING)
    BY WorldsAssumption
  <2>. QED BY <2>1, SeqIs
<1>. QED BY <1>1, <1>2, <1>3, ScanVolumesIs

LEMMA StartKeeps ==
  ASSUME ScanInv, NEW apple, NEW csm, Start(apple, csm)
  PROVE  ScanInv'
<1>1. /\ world' = world /\ turn' = turn /\ MainMenu' = MainMenu /\ phase' = "config"
      /\ phase = "off" /\ ScanVolumes
  BY DEF Start
<1>2. DOMAIN GlobalConfig' = DOMAIN GlobalConfig
  BY DEF Start
<1>3. IsSeq(Volumes') /\ \A v \in ToSet(Volumes') : v.DiskKind \in Kinds
  BY <1>1, VolumesKept DEF ScanInv
<1>4. MainMenu' = <<>>
  BY <1>1 DEF ScanInv, Read
<1>. QED BY <1>1, <1>2, <1>3, <1>4, Single DEF ScanInv, Read

LEMMA ConfigureKeeps ==
  ASSUME ScanInv, Configure
  PROVE  ScanInv'
<1>1. /\ world' = world /\ turn' = 1 /\ MainMenu' = MainMenu /\ phase' = "loaders"
      /\ phase = "config" /\ ScanVolumes
      /\ GlobalConfig' = ReadConfig(GlobalConfig, world.conf, SelfElement)
  BY DEF Configure
<1>2. IsSeq(Volumes') /\ \A v \in ToSet(Volumes') : v.DiskKind \in Kinds
  BY <1>1, VolumesKept DEF ScanInv
<1>3. DOMAIN GlobalConfig' = DOMAIN GlobalConfig0 /\ AlsoScanTyped(GlobalConfig'.AlsoScan)
  BY <1>1, ReadIsFresh DEF ScanInv
<1>5. MainMenu' = <<>>
  BY <1>1 DEF ScanInv, Read
<1>6. \A kind : ~ Followed(kind)'
  BY <1>1 DEF Followed, LettersOf, NUM_SCAN_OPTIONS
<1>. QED BY <1>1, <1>2, <1>3, <1>5, <1>6, Single DEF ScanInv, Read

LEMMA ShortcutsKeep ==
  ASSUME ScanInv, AssignShortcuts
  PROVE  ScanInv'
<1>1. /\ SameInput /\ Volumes' = Volumes /\ turn' = turn /\ phase = "loaders" /\ phase' = "tools"
      /\ turn \in Nat /\ turn > NUM_SCAN_OPTIONS
  BY DEF AssignShortcuts, SameInput, ScanInv
<1>2. IsSeq(MainMenu) /\ \A e \in ToSet(MainMenu) : EntryOK(e)
  BY DEF ScanInv
<1>3. DOMAIN MainMenu' = DOMAIN MainMenu /\ MainMenu' = [n \in DOMAIN MainMenu |-> MainMenu'[n]]
  BY DEF AssignShortcuts
<1>4. ASSUME NEW n \in DOMAIN MainMenu
      PROVE  IsEntry(MainMenu'[n]) /\ Like(MainMenu'[n], MainMenu[n]) /\ MainMenu[n] \in ToSet(MainMenu)
  <2>1. MainMenu[n] \in ToSet(MainMenu)
    BY <1>2, IsSeqDomain
  <2>2. MainMenu'[n] = MainMenu[n] \/ MainMenu'[n] = [MainMenu[n] EXCEPT !.ShortcutDigit = n]
    BY DEF AssignShortcuts
  <2>3. IsEntry(MainMenu[n])
    BY <1>2, <2>1 DEF EntryOK
  <2>. QED BY <2>1, <2>2, <2>3, EntryFields DEF IsEntry, Like
<1>5. IsSeq(MainMenu') /\ ToSet(MainMenu') = {MainMenu'[n] : n \in DOMAIN MainMenu}
  BY <1>2, <1>3, MappedIs
<1>6. \A e \in ToSet(MainMenu') : EntryOK(e)
  <2>1. ASSUME NEW n \in DOMAIN MainMenu PROVE EntryOK(MainMenu'[n])
    <3>. DEFINE d == MainMenu'[n]
                e == MainMenu[n]
    <3>1. IsEntry(d) /\ Like(d, e) /\ EntryOK(e)
      BY <1>2, <1>4
    <3>. HIDE DEF d, e
    <3>2. Elsewhere => NotSelf(d)
      BY <3>1 DEF EntryOK, NotSelf, OfSelf, Like
    <3>3. KernelRight(d)
      <4>1. \A x \in Booting(d) : x = d \/ x \in Booting(e)
        BY <3>1 DEF Booting, Like
      <4>2. e \in Booting(e)
        BY DEF Booting
      <4>. QED BY <3>1, <4>1, <4>2 DEF EntryOK, KernelRight, Like
    <3>. QED BY <3>1, <3>2, <3>3 DEF EntryOK, d
  <2>. QED BY <1>5, <2>1
<1>7. Covers(MainMenu)
  <2>1. ToSet(MainMenu) = {MainMenu[n] : n \in DOMAIN MainMenu}
    BY DEF ToSet
  <2>2. \A n \in DOMAIN MainMenu : Like(MainMenu'[n], MainMenu[n])
    BY <1>4
  <2>. QED BY <1>5, <2>1, <2>2 DEF Covers
<1>8. ASSUME NEW v \in ToSet(Volumes), v.IsReadable, Followed(v.DiskKind)'
      PROVE  OffersAll(MainMenu, v)
  <2>1. LettersOf(v.DiskKind)' = LettersOf(v.DiskKind)
    BY <1>1, LettersSame
  <2>2. PICK k \in LettersOf(v.DiskKind) : TRUE
    BY <1>8, <2>1 DEF Followed
  <2>3. k < turn
    BY <1>1 DEF LettersOf, NUM_SCAN_OPTIONS
  <2>4. Followed(v.DiskKind)
    BY <2>2, <2>3 DEF Followed
  <2>. QED BY <1>1, <1>8, <2>4 DEF ScanInv, Read
<1>9. Read /\ Read' /\ turn' \in Nat
  BY <1>1 DEF Read
<1>. QED BY <1>1, <1>5, <1>6, <1>7, <1>8, <1>9, StillKept

LEMMA ToolsKeep ==
  ASSUME ScanInv, ScanForTools
  PROVE  ScanInv'
<1>. DEFINE lists == [n \in 1 .. NUM_TOOLS |-> ToolEntries(GlobalConfig.ShowTools[n])]
            tools == FlattenSeq(lists)
<1>1. /\ SameInput /\ Volumes' = Volumes /\ turn' = turn /\ phase = "tools" /\ phase' = "ready"
      /\ turn \in Nat /\ MainMenu' = MainMenu \o tools
  BY DEF ScanForTools, SameInput, ScanInv
<1>2. IsSeq(Volumes) /\ IsSeq(MainMenu)
      /\ \A e \in ToSet(MainMenu) : EntryOK(e)
  BY DEF ScanInv
<1>3. NoLoaders(tools)
  <2>1. DOMAIN lists = 1 .. NUM_TOOLS /\ lists = [n \in 1 .. NUM_TOOLS |-> lists[n]]
        /\ \A n \in DOMAIN lists : lists[n] = ToolEntries(GlobalConfig.ShowTools[n])
    OBVIOUS
  <2>. HIDE DEF lists
  <2>2. NUM_TOOLS \in Nat
    BY DEF NUM_TOOLS
  <2>3. IsSeq(lists)
    BY <2>1, <2>2, FunctionIsSeq
  <2>4. \A n \in DOMAIN lists : NoLoaders(lists[n])
    BY <1>2, <2>1, ToolEntriesAre
  <2>. QED BY <2>3, <2>4, NoLoadersFlattened
<1>. HIDE DEF tools
<1>4. IsSeq(MainMenu') /\ ToSet(MainMenu') = ToSet(MainMenu) \cup ToSet(tools) /\ Covers(MainMenu)
  BY <1>1, <1>2, <1>3, MoreCovers DEF NoLoaders
<1>5. \A e \in ToSet(MainMenu') : EntryOK(e)
  BY <1>2, <1>3, <1>4 DEF NoLoaders, EntryOK, NotSelf, KernelRight
<1>6. ASSUME NEW v \in ToSet(Volumes), v.IsReadable, Followed(v.DiskKind)'
      PROVE  OffersAll(MainMenu, v)
  <2>1. LettersOf(v.DiskKind)' = LettersOf(v.DiskKind)
    BY <1>1, LettersSame
  <2>2. Followed(v.DiskKind)
    BY <1>1, <1>6, <2>1 DEF Followed
  <2>. QED BY <1>1, <1>6, <2>2 DEF ScanInv, Read
<1>7. Read /\ Read' /\ turn' \in Nat
  BY <1>1 DEF Read
<1>. QED BY <1>1, <1>4, <1>5, <1>6, <1>7, StillKept

LEMMA RescanKeeps ==
  ASSUME ScanInv, RescanAll
  PROVE  ScanInv'
<1>1. /\ world' \in ToSet(Worlds) /\ MainMenu' = <<>> /\ phase' = "config" /\ turn' = 0
      /\ GlobalConfig' = GlobalConfig /\ Volumes' = Volumes
  BY DEF RescanAll
<1>. QED BY <1>1, Single DEF ScanInv, Read

LEMMA StutterKeeps ==
  ASSUME ScanInv, UNCHANGED scanVars
  PROVE  ScanInv'
<1>1. /\ world' = world /\ GlobalConfig' = GlobalConfig /\ phase' = phase /\ turn' = turn
      /\ Volumes' = Volumes /\ MainMenu' = MainMenu
  BY DEF scanVars
<1>2. SameInput
  BY <1>1 DEF SameInput
<1>3. \A e : Like(e, e)
  BY DEF Like
<1>4. CASE Read
  <2>1. Covers(MainMenu)
    BY <1>1, <1>3 DEF Covers
  <2>2. \A kind : Followed(kind)' <=> Followed(kind)
    BY <1>1, <1>2, LettersSame DEF Followed
  <2>3. Read' /\ turn' \in Nat /\ IsSeq(MainMenu')
        /\ \A e \in ToSet(MainMenu') : EntryOK(e)
    BY <1>1, <1>4 DEF Read, ScanInv
  <2>4. \A v \in ToSet(Volumes) : v.IsReadable /\ Followed(v.DiskKind)' => OffersAll(MainMenu, v)
    BY <1>4, <2>2 DEF ScanInv
  <2>. QED BY <1>1, <1>2, <1>4, <2>1, <2>3, <2>4, StillKept
<1>5. CASE ~ Read
  BY <1>1, <1>5, Single DEF ScanInv, Read
<1>. QED BY <1>4, <1>5

LEMMA ScanInvKept ==
  ASSUME ScanInv, [ScanNext]_scanVars
  PROVE  ScanInv'
<1>0. world \in ToSet(Worlds) /\ IsSeq(Volumes)
  BY DEF ScanInv
<1>1. ASSUME NEW apple \in BOOLEAN, NEW csm \in BOOLEAN, Start(apple, csm) PROVE ScanInv'
  BY <1>1, StartKeeps
<1>2. CASE Configure
  BY <1>2, ConfigureKeeps
<1>3. CASE ScanLegacyDisc
  BY <1>0, <1>3, ScanLegacyIs, NoLoadersKeep DEF ScanLegacyDisc
<1>4. CASE ScanLegacyInternal
  BY <1>0, <1>4, ScanLegacyIs, NoLoadersKeep DEF ScanLegacyInternal
<1>5. CASE ScanLegacyExternal
  BY <1>0, <1>5, ScanLegacyIs, NoLoadersKeep DEF ScanLegacyExternal
<1>6. CASE ScanConfigured
  BY <1>6, ConfiguredKeeps
<1>7. CASE ScanExternal
  <2>1. LetterOf("external") = "e" /\ "external" \in Kinds
    BY DEF LetterOf, Kinds
  <2>. QED BY <1>7, <2>1, KindKeeps DEF ScanExternal
<1>8. CASE ScanInternal
  <2>1. LetterOf("internal") = "i" /\ "internal" \in Kinds
    BY DEF LetterOf, Kinds
  <2>. QED BY <1>8, <2>1, KindKeeps DEF ScanInternal
<1>9. CASE ScanOptical
  <2>1. LetterOf("optical") = "o" /\ "optical" \in Kinds
    BY DEF LetterOf, Kinds
  <2>. QED BY <1>9, <2>1, KindKeeps DEF ScanOptical
<1>10. CASE ScanNothing
  <2>1. NoLoaders(<<>>)
    BY Single DEF NoLoaders
  <2>. DEFINE letters == {ThisLetter} \ {"c", "h", "b", "m", "e", "i", "o"}
  <2>2. letters \cap {"i", "e", "o"} = {} /\ ScanOption(letters, <<>>)
    BY <1>10 DEF ScanNothing
  <2>. HIDE DEF letters
  <2>. QED BY <2>1, <2>2, NoLoadersKeep
<1>11. CASE AssignShortcuts
  BY <1>11, ShortcutsKeep
<1>12. CASE ScanForTools
  BY <1>12, ToolsKeep
<1>13. CASE RescanAll
  BY <1>13, RescanKeeps
<1>14. CASE UNCHANGED scanVars
  BY <1>14, StutterKeeps
<1>. QED BY <1>1, <1>2, <1>3, <1>4, <1>5, <1>6, <1>7, <1>8, <1>9, <1>10, <1>11, <1>12, <1>13, <1>14
         DEF ScanNext

LEMMA ScanInvStarts ==
  ASSUME ScanInit
  PROVE  ScanInv
<1>1. /\ world \in ToSet(Worlds) /\ GlobalConfig = GlobalConfig0 /\ phase = "off" /\ turn = 0
      /\ Volumes = <<>> /\ MainMenu = <<>>
  BY DEF ScanInit
<1>2. IsSeq(<<>>) /\ ToSet(<<>>) = {}
  BY Single, Zenon
<1>3. ~ Read
  BY <1>1 DEF Read
<1>. QED BY <1>1, <1>2, <1>3 DEF ScanInv

LEMMA ScanInvHolds ==
  ScanSpec => []ScanInv
BY ScanInvStarts, ScanInvKept, PTL DEF ScanSpec

LEMMA DescribedInConf ==
  ASSUME NEW n \in Automatic
  PROVE  n \in DOMAIN MainMenu /\ MainMenu[n].Tag = "loader" /\ MainMenu[n].Title \notin Titles
<1>1. ASSUME NEW line \in ToSet(Conf), line[1] = "menuentry", Len(line) > 1,
             MainMenu[n].Title = <<line[2]>>
      PROVE  FALSE
  <2>1. PICK k \in DOMAIN Conf : Conf[k] = line
    BY DEF ToSet
  <2>. QED BY <1>1, <2>1 DEF Automatic
<1>. QED BY <1>1 DEF Automatic, Titles

\* Whatever the disks and refind.conf are, and however they change between two
\* scans, every loader of a disk that ScanFor asks for, in a directory that is
\* scanned, is offered by the menu unless it is excluded (ScanLoaderDir(),
\* ScanEfiFiles(), DuplicatesFallback()).
THEOREM LoadersListed ==
  ScanSpec => []NoLoaderMissed
<1>1. ScanInv => NoLoaderMissed
  <2>. SUFFICES ASSUME ScanInv, phase = "ready", NEW v \in ToSet(Volumes), v.IsReadable,
                       LettersOf(v.DiskKind) # {}, NEW dir \in LoaderDirs(v),
                       NEW f \in ToSet(FilesIn(v, dir, MatchPatterns)), ~ Excluded(v, dir, f.name)
                PROVE  \E n \in DOMAIN MainMenu : Offers(MainMenu[n], v, f.data)
    BY DEF NoLoaderMissed
  <2>1. Followed(v.DiskKind)
    BY DEF Followed
  <2>2. OffersAll(MainMenu, v)
    BY <2>1 DEF ScanInv, Read
  <2>3. PICK e \in ToSet(MainMenu) : Offers(e, v, f.data)
    BY <2>2 DEF OffersAll
  <2>4. \E n \in DOMAIN MainMenu : MainMenu[n] = e
    BY DEF ToSet
  <2>. QED BY <2>3, <2>4
<1>. QED BY <1>1, ScanInvHolds, PTL

\* rEFInd lists no program of its own directory, whatever dont_scan_dirs and
\* also_scan_dirs say - unless it was put where OS X or Windows has its loader,
\* which is added without ShouldScan() (ScanEfiFiles(), main.c:1077), or in the
\* root of its volume, which ScanLoaderDir() does not recognise (main.c:1012).
THEOREM ItselfNotListed ==
  ASSUME SelfDirPath \notin {<<>>, CORE_SERVICES, MICROSOFT}
  PROVE  ScanSpec => []NeverListsItself
<1>1. ScanInv => NeverListsItself
  <2>. SUFFICES ASSUME ScanInv, NEW n \in Automatic, OfSelf(MainMenu[n])
                PROVE  FALSE
    BY DEF NeverListsItself, OfSelf
  <2>1. n \in DOMAIN MainMenu /\ MainMenu[n].Tag = "loader" /\ MainMenu[n].Title \notin Titles
    BY DescribedInConf
  <2>2. MainMenu[n] \in ToSet(MainMenu)
    BY <2>1, IsSeqDomain DEF ScanInv
  <2>3. NotSelf(MainMenu[n])
    BY <2>2 DEF ScanInv, EntryOK, Elsewhere
  <2>. QED BY <2>1, <2>3 DEF NotSelf
<1>. QED BY <1>1, ScanInvHolds, PTL

\* Every kernel that is found, and all that its submenu boots, gets the RAM disks
\* that its options file names or one of its own version, and none only if there
\* is none; or, where FindInitrd() compares with a null pointer, a disk without a
\* version that comes before all those with the kernel's (FindInitrd(),
\* AddInitrdToOptions(), GenerateSubScreen()), whatever is read at address 0.
THEOREM DisksMatch ==
  ScanSpec => []InitrdMatches
<1>1. ScanInv => InitrdMatches
  <2>. SUFFICES ASSUME ScanInv, NEW n \in Automatic, NEW v \in ToSet(Volumes),
                       MainMenu[n].OSType = "L", v.DeviceHandle = MainMenu[n].DevicePath.device,
                       NEW x \in Booting(MainMenu[n])
                PROVE  RightInitrd(x.LoadOptions, v, MainMenu[n].LoaderPath)
    BY DEF InitrdMatches
  <2>1. n \in DOMAIN MainMenu /\ MainMenu[n].Tag = "loader" /\ MainMenu[n].Title \notin Titles
    BY DescribedInConf
  <2>2. KernelRight(MainMenu[n])
    BY <2>1, IsSeqDomain DEF ScanInv, EntryOK
  <2>. QED BY <2>1, <2>2 DEF KernelRight
<1>. QED BY <1>1, ScanInvHolds, PTL

\* Whenever refind.conf is read, the lists become what its last lines about them
\* say or, without such lines, the defaults - the drivers' directories and the
\* volumes, what they were - but for an also_scan_dirs line that a
\* dont_scan_volumes line follows; nothing else changes them (ReadConfig() as
\* efi_main() and RescanAll() call it).
THEOREM ListsFresh ==
  ScanSpec => SettingsFresh
<1>1. ScanInv /\ [ScanNext]_scanVars => [ReadsLists]_scanVars
  <2>. SUFFICES ASSUME ScanInv, ScanNext PROVE ReadsLists
    OBVIOUS
  <2>1. CASE Configure
    <3>1. /\ phase = "config" /\ world \in ToSet(Worlds)
          /\ GlobalConfig' = ReadConfig(GlobalConfig, world.conf, SelfElement)
          /\ DOMAIN GlobalConfig = DOMAIN GlobalConfig0
      BY <2>1 DEF Configure, ScanInv
    <3>2. ASSUME NEW key \in ListKeys
          PROVE  List(Reset(GlobalConfig, SelfElement), key) = Unsaid(key)
      <4>. DEFINE gc1 == Reset(GlobalConfig, SelfElement)
      <4>1. /\ gc1.AlsoScan = ALSO_SCAN_DIRS /\ gc1.DontScanDirs = <<SelfElement>>
            /\ gc1.DontScanFiles = DONT_SCAN_FILES
            /\ gc1.DriverDirs = GlobalConfig.DriverDirs
            /\ gc1.DontScanVolumes = GlobalConfig.DontScanVolumes
        BY <3>1, ResetIs
      <4>. HIDE DEF gc1
      <4>2. ASSUME key = "also_scan_dirs" \/ key = "dont_scan_dirs" \/ key = "dont_scan_files"
            PROVE  List(gc1, key) = Unsaid(key)
        BY <4>1, <4>2, ListsAre DEF Unsaid
      <4>3. ASSUME key = "scan_driver_dirs" \/ key = "dont_scan_volumes"
            PROVE  List(gc1, key) = Unsaid(key)
        <5>1. Unsaid(key) = List(GlobalConfig, key)
          BY <4>3 DEF Unsaid
        <5>. QED BY <4>1, <4>3, <5>1, ListsAre
      <4>4. List(gc1, key) = Unsaid(key)
        BY <4>2, <4>3, ListsAre
      <4>. QED BY <4>4 DEF gc1
    <3>3. ASSUME NEW key \in ListKeys, ~ Overridden(key)
          PROVE  List(GlobalConfig', key) =
                   IF SaidOf(key) # {} THEN Given(key, Conf[Max(SaidOf(key))]) ELSE Unsaid(key)
      BY <3>1, <3>2, <3>3, ReadIsFresh
    <3>. QED BY <3>1, <3>3 DEF ReadsLists
  <2>2. CASE \E apple, csm \in BOOLEAN : Start(apple, csm)
    <3>1. PICK letters : phase = "off" /\ GlobalConfig' = [GlobalConfig EXCEPT !.ScanFor = letters]
      BY <2>2 DEF Start
    <3>2. ASSUME NEW key \in ListKeys PROVE List(GlobalConfig', key) = List(GlobalConfig, key)
      <4>1. /\ GlobalConfig'.AlsoScan = GlobalConfig.AlsoScan
            /\ GlobalConfig'.DontScanDirs = GlobalConfig.DontScanDirs
            /\ GlobalConfig'.DontScanFiles = GlobalConfig.DontScanFiles
            /\ GlobalConfig'.DriverDirs = GlobalConfig.DriverDirs
            /\ GlobalConfig'.DontScanVolumes = GlobalConfig.DontScanVolumes
        BY <3>1, ConfigFields DEF ScanInv
      <4>. QED BY <4>1, ListsAre, SMTT(40)
    <3>. QED BY <3>1, <3>2 DEF ReadsLists
  <2>3. CASE GlobalConfig' = GlobalConfig /\ phase # "config"
    BY <2>3 DEF ReadsLists
  <2>4. \/ Configure \/ \E apple, csm \in BOOLEAN : Start(apple, csm)
        \/ GlobalConfig' = GlobalConfig /\ phase # "config"
    BY DEF ScanNext, ScanLegacyDisc, ScanLegacyInternal, ScanLegacyExternal, ScanConfigured,
           ScanExternal, ScanInternal, ScanOptical, ScanNothing, ScanOption, AssignShortcuts,
           ScanForTools, RescanAll
  <2>. QED BY <2>1, <2>2, <2>3, <2>4
<1>. QED BY <1>1, ScanInvHolds, PTL DEF ScanSpec, SettingsFresh
=============================================================================
