-------------------------------- MODULE Menu --------------------------------
(***************************************************************************)
(* RunGenericMenu() of refind/menu.c: the loop that paints one menu screen,*)
(* reads one key, moves the selection and scrolls, counts the automatic    *)
(* boot timeout down, and returns an exit code with the chosen entry.      *)
(*                                                                         *)
(* Three painting styles share the loop: TextMenuStyle ("text"),           *)
(* GraphicsMenuStyle ("graphics", submenus) and MainMenuStyle ("icons").   *)
(* A screen has row0 + row1 entries, the row-0 entries (boot loaders)      *)
(* before the row-1 entries (tools), numbered from 0 as in the source.     *)
(***************************************************************************)
EXTENDS Integers, FiniteSets

CONSTANTS
  Screens,    \* the menu screens explored: see ScreenType
  Word,       \* 2^w for the width w of UINTN
  ROW0_TILESIZE, TILE_XSPACING    \* 144 and 8 pixels

(***************************************************************************)
(* What a call of RunGenericMenu() is given: the painting style, the       *)
(* entries of each row, the screen geometry (UGAWidth pixels, ConHeight    *)
(* text rows), the max_tags setting, the information lines, the timeout in *)
(* seconds, and *DefaultEntryIndex.                                        *)
(***************************************************************************)
ScreenType ==
  [ style   : {"text", "graphics", "icons"},
    row0    : Nat,  row1      : Nat,
    UGAWidth : Nat, ConHeight : Nat,
    MaxTags : Nat,  InfoLineCount : Nat,
    TimeoutSeconds : Nat,
    default : Int ]

TileWidth == ROW0_TILESIZE + TILE_XSPACING

ASSUME TileAssumption == ROW0_TILESIZE \in Nat \ {0} /\ TILE_XSPACING \in Nat

\* At least one entry, and room for one: a 304 pixel wide screen or five rows.
ASSUME ScreensAssumption ==
  /\ Screens \subseteq ScreenType
  /\ \A s \in Screens : /\ s.row0 + s.row1 > 0
                        /\ s.UGAWidth \div TileWidth > 1
                        /\ s.ConHeight > 4
ASSUME WordAssumption == Word \in Nat \ {0}

VARIABLES
  pc,         \* "init", "paint", "read", "done"
  screen,     \* the arguments of the call
  st,         \* SCROLL_STATE
  timeout,    \* [have |-> HaveTimeout, left |-> TimeoutCountdown]
  painted,    \* what the display shows: position -> [entry, lit]
  exit,       \* MenuExit, 0 until the loop is left
  chosen      \* index of *ChosenEntry

vars == <<pc, screen, st, timeout, painted, exit, chosen>>

Count(s)   == s.row0 + s.row1
Entries(s) == 0 .. Count(s) - 1
Row(s, i)  == IF i < s.row0 THEN 0 ELSE 1
Icons(s)   == s.style = "icons"

\* An exit code of the loop: MENU_EXIT_*.
Exits == {"ENTER", "ESCAPE", "DETAILS", "TIMEOUT"}
Movements == {"LINE_UP", "LINE_DOWN", "LINE_LEFT", "LINE_RIGHT",
              "PAGE_UP", "PAGE_DOWN", "FIRST", "LAST", "NONE"}

-----------------------------------------------------------------------------
(* Scrolling arithmetic.                                                   *)

\* VisibleSpace as each style passes it: UINTN arithmetic for the text style.
VisibleSpace(s) ==
  CASE s.style = "icons"    -> s.MaxTags
    [] s.style = "graphics" -> 0
    [] s.style = "text"     ->
         LET MenuPosY == 4 + (IF s.InfoLineCount > 0 THEN s.InfoLineCount + 1 ELSE 0)
             hint     == IF s.TimeoutSeconds > 0 THEN 2 ELSE 0
         IN  (s.ConHeight - MenuPosY - 3 - hint) % Word

ScreenSpace(s) ==
  IF s.style = "text" THEN s.ConHeight - 4 ELSE s.UGAWidth \div TileWidth - 1

InitScroll(s) ==
  LET space == VisibleSpace(s)
      mv == IF space > 0 /\ space < ScreenSpace(s) THEN space ELSE ScreenSpace(s)
  IN  [ CurrentSelection |-> 0, PreviousSelection |-> 0,
        MaxIndex |-> Count(s) - 1,
        FirstVisible |-> 0, LastVisible |-> mv - 1, MaxVisible |-> mv,
        FinalRow0 |-> 0, InitialRow1 |-> 0,
        PaintAll |-> TRUE, PaintSelection |-> FALSE ]

\* The rows are found by a scan that stops before the last entry.
FinalRow0(s) ==
  LET last == Count(s) - 2
  IN  IF s.row0 = 0 \/ last < 0 THEN 0
      ELSE IF s.row0 - 1 < last THEN s.row0 - 1 ELSE last
InitialRow1(s) ==
  IF s.row1 > 0 /\ s.row0 < Count(s) - 1 THEN s.row0 ELSE Count(s) - 1

IdentifyRows(s, r) ==
  [r EXCEPT !.FinalRow0 = FinalRow0(s), !.InitialRow1 = InitialRow1(s),
            !.MaxVisible = IF Icons(s) /\ @ > FinalRow0(s) + 1
                           THEN FinalRow0(s) + 1 ELSE @]

\* (faulty variant: the window moves without a repaint)
ScrollForwardNoRepaint(r) ==
  IF r.CurrentSelection > r.LastVisible
  THEN [r EXCEPT !.LastVisible  = r.CurrentSelection,
                 !.FirstVisible = 1 + r.CurrentSelection - r.MaxVisible]
  ELSE r

ScrollForward(r) ==
  IF r.CurrentSelection > r.LastVisible
  THEN [r EXCEPT !.LastVisible  = r.CurrentSelection,
                 !.FirstVisible = IF 1 + r.CurrentSelection < r.MaxVisible THEN 0
                                  ELSE 1 + r.CurrentSelection - r.MaxVisible,
                 !.PaintAll     = TRUE]
  ELSE r

ScrollBackward(r) ==
  IF r.CurrentSelection < r.FirstVisible
  THEN [r EXCEPT !.FirstVisible = r.CurrentSelection,
                 !.LastVisible  = r.CurrentSelection + r.MaxVisible - 1,
                 !.PaintAll     = TRUE]
  ELSE r

AdjustScrollState(r) == ScrollBackward(ScrollForward(r))

\* The selection is kept at the same relative place when it changes rows.
UpInIcons(r) ==
  IF r.CurrentSelection < r.InitialRow1 THEN r.CurrentSelection
  ELSE IF r.MaxIndex > r.InitialRow1
  THEN r.FirstVisible + ((r.LastVisible - r.FirstVisible)
                         * (r.CurrentSelection - r.InitialRow1))
                        \div (r.MaxIndex - r.InitialRow1)
  ELSE r.FirstVisible

DownInIcons(r) ==
  IF r.CurrentSelection > r.FinalRow0 THEN r.CurrentSelection
  ELSE IF r.LastVisible > r.FirstVisible
  THEN r.InitialRow1 + ((r.MaxIndex - r.InitialRow1)
                        * (r.CurrentSelection - r.FirstVisible))
                       \div (r.LastVisible - r.FirstVisible)
  ELSE r.InitialRow1

Previous(r) == IF r.CurrentSelection > 0 THEN r.CurrentSelection - 1
               ELSE r.CurrentSelection
Following(r) == IF r.CurrentSelection < r.MaxIndex THEN r.CurrentSelection + 1
                ELSE r.CurrentSelection

AtLeast0(n)   == IF n < 0 THEN 0 ELSE n
AtMost(n, m)  == IF n > m THEN m ELSE n

PageUp(r) ==
  AtLeast0(IF r.CurrentSelection <= r.FinalRow0
           THEN r.CurrentSelection - r.MaxVisible
           ELSE IF r.CurrentSelection = r.InitialRow1 THEN r.FinalRow0
           ELSE r.InitialRow1)

PageDown(r) ==
  AtMost(IF r.CurrentSelection < r.FinalRow0
         THEN AtMost(r.CurrentSelection + r.MaxVisible, r.FinalRow0)
         ELSE IF r.CurrentSelection = r.FinalRow0 THEN r.CurrentSelection + 1
         ELSE r.MaxIndex,
         r.MaxIndex)

\* The selection a movement leads to.
Moved(s, r, m) ==
  CASE m = "LINE_LEFT"  -> Previous(r)
    [] m = "LINE_RIGHT" -> Following(r)
    [] m = "LINE_UP"    -> IF Icons(s) THEN UpInIcons(r) ELSE Previous(r)
    [] m = "LINE_DOWN"  -> IF Icons(s) THEN DownInIcons(r) ELSE Following(r)
    [] m = "PAGE_UP"    -> PageUp(r)
    [] m = "PAGE_DOWN"  -> PageDown(r)
    [] m = "FIRST"      -> 0
    [] m = "LAST"       -> r.MaxIndex
    [] m = "NONE"       -> r.CurrentSelection

UpdateScroll(s, r, m) ==
  LET sel   == Moved(s, r, m)
      moved == sel # r.CurrentSelection
      r1 == [r EXCEPT !.PreviousSelection = r.CurrentSelection,
                      !.CurrentSelection  = sel,
                      !.PaintAll = @ \/ (m \in {"FIRST", "LAST"} /\ moved)]
      r2 == IF Icons(s) THEN r1 ELSE AdjustScrollState(r1)
  IN  [r2 EXCEPT !.PaintSelection = @ \/ (~r2.PaintAll /\ moved),
                 !.LastVisible = r2.FirstVisible + r2.MaxVisible - 1]

-----------------------------------------------------------------------------
(* Painting.                                                               *)

\* Where entry i is drawn: text and icon rows are relative to FirstVisible.
Position(s, r, i) ==
  CASE s.style = "graphics"               -> <<0, i>>
    [] Icons(s) /\ Row(s, i) = 1          -> <<1, i>>
    [] OTHER                              -> <<0, i - r.FirstVisible>>

Cell(r, i) == [entry |-> i, lit |-> i = r.CurrentSelection]

\* The entries a full repaint draws.
Drawn(s, r) ==
  { i \in Entries(s) :
      \/ s.style = "graphics"
      \/ Icons(s) /\ Row(s, i) = 1 /\ i >= r.FirstVisible
      \/ i \in r.FirstVisible .. r.LastVisible }

PaintEntries(s, r, screenful) ==
  LET places == { Position(s, r, i) : i \in Drawn(s, r) }
  IN  [ p \in places \cup DOMAIN screenful |->
          IF p \in places THEN Cell(r, CHOOSE i \in Drawn(s, r) : Position(s, r, i) = p)
          ELSE screenful[p] ]

\* MENU_FUNCTION_PAINT_ALL: the icon style brings a row-0 selection into view.
PaintAllState(s, r) ==
  IF Icons(s) /\ Row(s, r.CurrentSelection) = 0 THEN AdjustScrollState(r) ELSE r

\* PaintSelection() in icon style repaints everything when it must scroll.
NeedsFullPaint(s, r) ==
  /\ Icons(s)
  /\ r.CurrentSelection \notin r.FirstVisible .. r.LastVisible
  /\ r.CurrentSelection < r.InitialRow1

PaintTwo(s, r, screenful) ==
  LET now    == Position(s, r, r.CurrentSelection)
      before == Position(s, r, r.PreviousSelection)
  IN  [ p \in {now, before} \cup DOMAIN screenful |->
          CASE p = now -> Cell(r, r.CurrentSelection)
            [] p = before /\ p # now -> [entry |-> r.PreviousSelection, lit |-> FALSE]
            [] p \notin {now, before} -> screenful[p] ]

-----------------------------------------------------------------------------
(* The loop.                                                               *)

Init ==
  /\ pc = "init"
  /\ screen \in Screens
  /\ st = InitScroll(screen)
  /\ timeout = [have |-> screen.TimeoutSeconds > 0, left |-> 10 * screen.TimeoutSeconds]
  /\ painted = << >>
  /\ exit = "NONE"
  /\ chosen = -1

\* IdentifyRows, then the caller's default entry if it is a valid index.
Begin ==
  /\ pc = "init"
  /\ LET r == IdentifyRows(screen, st)
         d == IF screen.default \in Entries(screen)
              THEN UpdateScroll(screen, [r EXCEPT !.CurrentSelection = screen.default], "NONE")
              ELSE r
     IN  st' = [d EXCEPT !.PaintAll = TRUE]
  /\ pc' = "paint"
  /\ UNCHANGED <<screen, timeout, painted, exit, chosen>>

PaintAll ==
  /\ pc = "paint" /\ st.PaintAll
  /\ LET r == PaintAllState(screen, st)
     IN  /\ st' = [r EXCEPT !.PaintAll = FALSE]
         /\ painted' = PaintEntries(screen, r, painted)
  /\ pc' = "read"
  /\ UNCHANGED <<screen, timeout, exit, chosen>>

PaintSelection ==
  /\ pc = "paint" /\ ~st.PaintAll /\ st.PaintSelection
  /\ LET r == IF NeedsFullPaint(screen, st) THEN PaintAllState(screen, st) ELSE st
     IN  /\ st' = [r EXCEPT !.PaintSelection = FALSE]
         /\ painted' = IF NeedsFullPaint(screen, st) THEN PaintEntries(screen, r, painted)
                       ELSE PaintTwo(screen, r, painted)
  /\ pc' = "read"
  /\ UNCHANGED <<screen, timeout, exit, chosen>>

PaintNothing ==
  /\ pc = "paint" /\ ~st.PaintAll /\ ~st.PaintSelection
  /\ pc' = "read"
  /\ UNCHANGED <<screen, st, timeout, painted, exit, chosen>>

\* No key and no timeout: WaitForEvent, and the loop goes round.
Wait ==
  /\ pc = "read" /\ ~timeout.have
  /\ pc' = "paint"
  /\ UNCHANGED <<screen, st, timeout, painted, exit, chosen>>

\* (faulty variant: the countdown is never decremented)
TickStuck ==
  /\ pc = "read" /\ timeout.have /\ timeout.left > 0
  /\ pc' = "paint"
  /\ UNCHANGED <<screen, st, timeout, painted, exit, chosen>>

\* No key: 100 ms pass.
Tick ==
  /\ pc = "read" /\ timeout.have /\ timeout.left > 0
  /\ timeout' = [timeout EXCEPT !.left = @ - 1]
  /\ pc' = "paint"
  /\ UNCHANGED <<screen, st, painted, exit, chosen>>

Leave(code, selection) ==
  /\ exit' = code
  /\ chosen' = selection
  /\ st' = [st EXCEPT !.CurrentSelection = selection]
  /\ pc' = "done"
  /\ UNCHANGED <<screen, painted>>

\* No key and the countdown is over.
Expire ==
  /\ pc = "read" /\ timeout.have /\ timeout.left = 0
  /\ Leave("TIMEOUT", st.CurrentSelection)
  /\ UNCHANGED timeout

\* (faulty variant: a key does not cancel the countdown)
CancelTimeoutForgotten == UNCHANGED timeout

CancelTimeout == timeout' = [timeout EXCEPT !.have = FALSE]

\* An arrow, page, Home or End key.
KeyMove(m) ==
  /\ pc = "read"
  /\ CancelTimeout
  /\ st' = UpdateScroll(screen, st, m)
  /\ pc' = "paint"
  /\ UNCHANGED <<screen, painted, exit, chosen>>

\* A key the menu does not know, a screen shot, or a failed eject.
KeyIgnored ==
  /\ pc = "read"
  /\ CancelTimeout
  /\ pc' = "paint"
  /\ UNCHANGED <<screen, st, painted, exit, chosen>>

\* Enter or space; Esc or a successful F12 eject; Insert, F2 or '+'.
KeyExit(code) ==
  /\ pc = "read"
  /\ CancelTimeout
  /\ Leave(code, st.CurrentSelection)

\* A character FindMenuShortcutEntry() finds on entry i.
KeyShortcut(i) ==
  /\ pc = "read"
  /\ CancelTimeout
  /\ Leave("ENTER", i)

Program == Begin \/ PaintAll \/ PaintSelection \/ PaintNothing \/ Tick \/ Expire

User ==
  \/ \E m \in Movements \ {"NONE"} : KeyMove(m)
  \/ KeyIgnored
  \/ \E code \in {"ENTER", "ESCAPE", "DETAILS"} : KeyExit(code)
  \/ \E i \in Entries(screen) : KeyShortcut(i)

Done == pc = "done" /\ UNCHANGED vars

Next == Program \/ Wait \/ User \/ Done

\* The loop itself never stops; nothing is assumed of the user.
Spec == Init /\ [][Next]_vars /\ WF_vars(Program)

-----------------------------------------------------------------------------
ScrollState ==
  [ CurrentSelection : Int, PreviousSelection : Int, MaxIndex : Int,
    FirstVisible : Int, LastVisible : Int, MaxVisible : Int,
    FinalRow0 : Int, InitialRow1 : Int,
    PaintAll : BOOLEAN, PaintSelection : BOOLEAN ]

TypeOK ==
  /\ pc \in {"init", "paint", "read", "done"}
  /\ screen \in Screens
  /\ st \in ScrollState
  /\ timeout \in [have : BOOLEAN, left : Nat]
  /\ exit \in Exits \cup {"NONE"}
  /\ chosen \in Int

(* menu.c indexes Screen->Entries[] with CurrentSelection and              *)
(* PreviousSelection unchecked: whatever mixture of arrow, page and        *)
(* shortcut keys led there, both are indices of entries.                   *)
SelectionInRange ==
  /\ st.CurrentSelection \in Entries(screen)
  /\ st.PreviousSelection \in Entries(screen)

(* Whenever the loop reads a key the display shows exactly one entry as    *)
(* selected, it is the one Enter would choose, it is drawn where a full    *)
(* repaint would draw it, and no drawn cell shows a wrong entry: partial   *)
(* repaints never leave a stale highlight or stale scroll position.        *)
DisplayInSync ==
  pc = "read" =>
    /\ { p \in DOMAIN painted : painted[p].lit }
         = {Position(screen, st, st.CurrentSelection)}
    /\ \A i \in Drawn(screen, st) :
         /\ Position(screen, st, i) \in DOMAIN painted
         /\ painted[Position(screen, st, i)].entry = i

\* What the callers of RunGenericMenu() are told of the call.
Request(s) == [ count |-> Count(s), default |-> s.default, timed |-> s.TimeoutSeconds > 0 ]

Contract == INSTANCE MenuContract
              WITH Requests <- {Request(s) : s \in Screens}, request <- Request(screen)

(* RunGenericMenu() keeps the contract its callers rely on: it returns once*)
(* with an entry of the screen, and an automatic boot takes the default    *)
(* entry of a screen with a timeout: a key pressed before cancelled it.    *)
KeepsContract == Contract!Spec

(* A menu with a timeout is left, or a key is pressed: the countdown       *)
(* cannot hang.                                                            *)
TimeoutEnds == timeout.have ~> (exit # "NONE" \/ ~timeout.have)
=============================================================================
