------------------------------- MODULE Display ------------------------------
(***************************************************************************)
(* What the user sees: the loop of Menu together with what its painting    *)
(* styles draw (refind/menu.c) on the display of Screen, between the text  *)
(* screens, programs and rescans that use the display too.                 *)
(***************************************************************************)
EXTENDS Screen

CONSTANTS
  Configs,        \* settings and machines: see MCDisplay
  Screens, Word, TILE_XSPACING, TILE_YSPACING, ROW1_TILESIZE, TITLEICON_SPACING,
  MinLine,        \* 20 characters
  Icon, Badge,    \* of the entries of each row
  EntryTitle,
  MenuTitle, TitleImage, InfoLine, Hint1, Hint2,
  Seconds,        \* the timeout message for a number of seconds
  SmallSelection, Arrow                 \* images

VARIABLES pc, screen, st, timeout, painted, exit, chosen,   \* of Menu
          scr             \* the display

menuVars == <<pc, screen, st, timeout, painted, exit, chosen>>
vars == <<menuVars, scr>>

M == INSTANCE Menu

ASSUME ScreensAssumption == Screens \subseteq M!ScreenType

\* Screens have a size, in pixels, whatever the requested one.
ASSUME ModesAssumption ==
  /\ \A i \in DOMAIN Modes : Modes[i] \in (Nat \ {0}) \X (Nat \ {0})
  /\ \A m \in DOMAIN TextModes : TextModes[m] \in (Nat \ {0}) \X (Nat \ {0})

ASSUME ConfigsAssumption ==
  \A cfg \in Configs : /\ cfg.graphics \in BOOLEAN /\ cfg.textOnly \in BOOLEAN
                      /\ cfg.firmware \in Nat \X Nat /\ cfg.requested \in Nat \X Nat

-----------------------------------------------------------------------------
(* The selection bars: the big one is the small one stretched.             *)

SelectionSmall == egEnsureImageSize(SmallSelection, ROW1_TILESIZE, ROW1_TILESIZE, "grey")

Stretched(k) ==
  IF k < ROW1_TILESIZE \div 2 THEN k
  ELSE IF k < ROW0_TILESIZE - ROW1_TILESIZE \div 2 THEN ROW1_TILESIZE \div 2
  ELSE k - (ROW0_TILESIZE - ROW1_TILESIZE)

SelectionBig ==
  [w |-> ROW0_TILESIZE, h |-> ROW0_TILESIZE, alpha |-> TRUE,
   px |-> [p \in Area(ROW0_TILESIZE, ROW0_TILESIZE) |->
             SelectionSmall.px[Stretched(p[1]), Stretched(p[2])]]]

SelectionImages == <<SelectionBig, SelectionSmall>>
Selection(s, i) == SelectionImages[1 + M!Row(s, i)]

-----------------------------------------------------------------------------
(* Text on the screen.                                                     *)

\* On a bar of its own colour, one character in.
DrawText(d, text, selected, width, x, y) ==
  LET bar == egCreateFilledImage(width, TextLineHeight, FALSE,
                                 IF selected THEN "white" ELSE d.menuColor)
  IN  egDrawImageWithTransparency(d, egRenderText(text, bar, FontCellWidth, TEXT_YMARGIN),
                                  None, x, y, width, TextLineHeight)

\* On the background; no text clears the line.
DrawTextWithTransparency(d, text, x, y) ==
  LET w   == IF text = << >> THEN d.UGA[1] ELSE egComputeTextWidth(text)
      x0  == IF text = << >> THEN 0 ELSE x
      bar == egCropImage(d.background, x0, y, w, TextLineHeight)
  IN  IF bar = None THEN Printed(d)
      ELSE egDrawImageWithTransparency(d, egRenderText(text, bar, 0, 0), None,
                                       x0, y, w, TextLineHeight)

Centred(d, text) == (d.UGA[1] - egComputeTextWidth(text)) \div 2

\* (faulty variant: the line is not cleared first)
LabelOver(d, text, y) ==
  IF "label" \in d.cfg.hide THEN d
  ELSE DrawTextWithTransparency(d, text, Centred(d, text), y)

Label(d, text, y) ==
  IF "label" \in d.cfg.hide THEN d
  ELSE DrawTextWithTransparency(DrawTextWithTransparency(d, << >>, 0, y),
                                text, Centred(d, text), y)

Hints(d) ==
  IF "hints" \in d.cfg.hide THEN d
  ELSE DrawTextWithTransparency(
         DrawTextWithTransparency(d, Hint1, Centred(d, Hint1), d.UGA[2] - 3 * FontHeight),
         Hint2, Centred(d, Hint2), d.UGA[2] - 2 * FontHeight)

-----------------------------------------------------------------------------
(* MainMenuStyle(): two rows of icons.                                     *)

RowWidth(tile, n) == (tile + TILE_XSPACING) * n
RowX(d, tile, n) == (d.UGA[1] + TILE_XSPACING - RowWidth(tile, n)) \div 2

\* The window of row 0 as MENU_FUNCTION_INIT has it.
MaxVisible(s) == M!InitScroll(s).MaxVisible
row0PosX(d, s) == RowX(d, ROW0_TILESIZE, Least(s.row0, MaxVisible(s)))
row0PosY(d) == ComputeRow0PosY(d)
row1PosY(d) == row0PosY(d) + ROW0_TILESIZE + TILE_YSPACING
textPosY(d, s) == IF s.row1 > 0 THEN row1PosY(d) + ROW1_TILESIZE + TILE_YSPACING
                  ELSE row1PosY(d)

ItemX(d, s, r, i) ==
  IF M!Row(s, i) = 0
  THEN row0PosX(d, s) + (i - r.FirstVisible) * (ROW0_TILESIZE + TILE_XSPACING)
  ELSE RowX(d, ROW1_TILESIZE, s.row1) + (i - s.row0) * (ROW1_TILESIZE + TILE_XSPACING)
ItemY(d, s, i) == IF M!Row(s, i) = 0 THEN row0PosY(d) ELSE row1PosY(d)

DrawMainMenuEntry(d, s, r, i, selected) ==
  LET x   == ItemX(d, s, r, i)
      y   == ItemY(d, s, i)
      sel == Selection(s, i)
  IN  IF selected
      THEN BltImageCompositeBadge(d,
             egComposeImage(egCropImage(d.background, x, y, sel.w, sel.h), sel, 0, 0),
             Icon[M!Row(s, i), i], Badge[M!Row(s, i), i], x, y)
      ELSE egDrawImageWithTransparency(d, Icon[M!Row(s, i), i], Badge[M!Row(s, i), i], x, y, sel.w, sel.h)

\* The icons of a full repaint, from left to right.
DrawIcons(d, s, r) ==
  LET f[k \in 0 .. M!Count(s)] ==
        IF k = 0 THEN d
        ELSE IF (k - 1) \in M!Drawn(s, r)
        THEN DrawMainMenuEntry(f[k - 1], s, r, k - 1, k - 1 = r.CurrentSelection)
        ELSE f[k - 1]
  IN  f[M!Count(s)]

\* The left edge of an arrow, and its top.
LeftX(d, s)  == row0PosX(d, s) - TILE_XSPACING - Arrow.w
RightX(d, r) == (d.UGA[1] + RowWidth(ROW0_TILESIZE, r.MaxVisible)) \div 2 + TILE_XSPACING
ArrowY(d)    == row0PosY(d) + ROW0_TILESIZE \div 2 - Arrow.h \div 2

PaintArrow(d, shown, x) ==
  IF shown /\ "arrows" \notin d.cfg.hide
  THEN egDrawImageWithTransparency(d, Arrow, None, x, ArrowY(d), Arrow.w, Arrow.h)
  ELSE BltImage(d, egCropImage(d.background, x, ArrowY(d), Arrow.w, Arrow.h), x, ArrowY(d))

PaintArrows(d, s, r) ==
  PaintArrow(PaintArrow(d, r.FirstVisible > 0, LeftX(d, s)),
             r.LastVisible < s.row0 - 1, RightX(d, r))

\* With hidden labels the title is drawn all the same, over what was there.
PaintAllIcons(d, s, r) ==
  LET title == EntryTitle[r.CurrentSelection]
      y     == textPosY(d, s)
      over  == IF "label" \in d.cfg.hide
               THEN DrawTextWithTransparency(DrawIcons(d, s, r), title, Centred(d, title), y)
               ELSE Label(DrawIcons(d, s, r), title, y)
  IN  PaintArrows(Hints(over), s, r)

PaintSelectionIcons(d, s, r) ==
  Label(DrawMainMenuEntry(DrawMainMenuEntry(d, s, r, r.PreviousSelection, FALSE),
                          s, r, r.CurrentSelection, TRUE),
        EntryTitle[r.CurrentSelection], textPosY(d, s))

-----------------------------------------------------------------------------
(* GraphicsMenuStyle(): a submenu in a window.                             *)

Longest(s) ==
  LET lengths == {MinLine} \cup {Len(EntryTitle[i]) : i \in M!Entries(s)}
                 \cup (IF s.InfoLineCount > 0 THEN {Len(InfoLine)} ELSE {})
  IN  CHOOSE n \in lengths : \A m \in lengths : n >= m

LineWidth(s) == (Longest(s) + 2) * FontCellWidth

\* ComputeSubScreenWindowSize(): x, y, width and height. A window that is too
\* high under the banner may cover it.
Window(d, s) ==
  LET full == LineWidth(s) + FontCellWidth
              + (IF TitleImage = None THEN 0 ELSE TitleImage.w + 2 * TITLEICON_SPACING)
      titled == IF full < egComputeTextWidth(MenuTitle)
                THEN egComputeTextWidth(MenuTitle) + 2 * FontCellWidth ELSE full
      w     == Least(titled, d.UGA[1])
      lines == (5 + s.InfoLineCount + M!Count(s)) * TextLineHeight
      iconic == IF TitleImage = None THEN 0 ELSE TitleImage.h + 4 * TextLineHeight
      need  == IF lines < iconic THEN iconic ELSE lines
      hints == d.UGA[2] - 3 * FontHeight
      edge0 == IF d.edge >= hints THEN 0 ELSE d.edge
      edge  == IF need > hints - edge0 - 2 * FontHeight THEN 0 ELSE edge0
      h     == Least(need, hints - edge - 2 * FontHeight)
      mid   == (d.UGA[2] - h) \div 2
  IN  << (d.UGA[1] - w) \div 2,
         IF mid < edge THEN edge + FontHeight + (hints - edge - h) \div 2 ELSE mid,
         w, h >>

\* (Titles are narrower than the window.)
TitleX(w) == w[1] + (w[3] - egComputeTextWidth(MenuTitle)) \div 2 - FontCellWidth
TitleY(w) == w[2] + TextLineHeight
EntriesX(w) == w[1] + (IF TitleImage = None THEN 0 ELSE TitleImage.w + 2 * TITLEICON_SPACING)
InfoY(w) == w[2] + 3 * TextLineHeight
EntriesY(s, w) ==
  InfoY(w) + (IF s.InfoLineCount > 0 THEN (s.InfoLineCount + 1) * TextLineHeight ELSE 0)

OpenWindow(d, s) ==
  LET w == Window(d, s)
      e == SwitchToGraphicsAndClear(d)
      c == d.background.px[0, 0][1]
      b == egDrawImage(e, egCreateFilledImage(w[3], w[4], FALSE, c), w[1], w[2])
      t == DrawText(b, MenuTitle, FALSE, (Len(MenuTitle) + 2) * FontCellWidth,
                    TitleX(w), TitleY(w))
      i == IF TitleImage = None THEN t
           ELSE BltImageAlpha(t, TitleImage, w[1] + TITLEICON_SPACING,
                              w[2] + 3 * TextLineHeight, c)
      f[k \in 0 .. s.InfoLineCount] ==
        IF k = 0 THEN i
        ELSE DrawText(f[k - 1], InfoLine, FALSE, LineWidth(s), EntriesX(w),
                      InfoY(w) + (k - 1) * TextLineHeight)
  IN  f[s.InfoLineCount]

DrawEntry(d, s, i, selected) ==
  LET w == Window(d, s)
  IN  DrawText(d, EntryTitle[i], selected, LineWidth(s), EntriesX(w),
               EntriesY(s, w) + i * TextLineHeight)

PaintAllWindow(d, s, r) ==
  LET f[k \in 0 .. M!Count(s)] ==
        IF k = 0 THEN d ELSE DrawEntry(f[k - 1], s, k - 1, k - 1 = r.CurrentSelection)
  IN  Hints(f[M!Count(s)])

PaintSelectionWindow(d, s, r) ==
  DrawEntry(DrawEntry(d, s, r.PreviousSelection, FALSE), s, r.CurrentSelection, TRUE)

-----------------------------------------------------------------------------
(* The functions of a style. A text menu fills the screen with text.       *)

InitStyle(d, s) ==
  CASE s.style = "text"     -> Printed(BeginTextScreen(d))
    [] s.style = "icons"    -> SwitchToGraphicsAndClear(d)
    [] s.style = "graphics" -> OpenWindow(d, s)

PaintAllStyle(d, s, r) ==
  CASE s.style = "text"     -> Printed(d)
    [] s.style = "icons"    -> PaintAllIcons(d, s, r)
    [] s.style = "graphics" -> PaintAllWindow(d, s, r)

PaintSelectionStyle(d, s, r) ==
  CASE s.style = "text"     -> Printed(d)
    [] s.style = "icons"    -> PaintSelectionIcons(d, s, r)
    [] s.style = "graphics" -> PaintSelectionWindow(d, s, r)

\* Only the main menu has a timeout. The message is repainted when the seconds
\* change; repainting the same is no change.
PaintTimeout(d, s, text) ==
  CASE s.style = "text"     -> Printed(d)
    [] s.style = "icons"    -> Label(d, text, textPosY(d, s) + TextLineHeight)
    [] s.style = "graphics" -> d

Countdown(d, s, t) ==
  IF t.have THEN PaintTimeout(d, s, Seconds[(t.left + 5) \div 10]) ELSE d

-----------------------------------------------------------------------------
(* One session of rEFInd.                                                  *)

PowerOn(cfg) ==
  [ cfg |-> cfg, gop |-> cfg.firmware, console |-> cfg.console, textMode |-> 0,
    eg |-> <<0, 0>>, UGA |-> <<0, 0>>, req |-> cfg.requested, allow |-> FALSE,
    dirty |-> FALSE, haveError |-> FALSE, background |-> None, banner |-> None,
    menuColor |-> "grey", edge |-> 0, unread |-> FALSE, spoiled |-> FALSE,
    video |-> [p \in Area(cfg.firmware[1], cfg.firmware[2]) |-> <<"firmware">>] ]

\* Not after a screen shot that failed, in a resolution that a program left
\* behind and nobody asked to change, or with a banner lost to a larger one.
AsItShouldBe == ~scr.spoiled /\ scr.gop = scr.eg

Usable(s) == IF scr.allow THEN s.style # "text" /\ s.UGAWidth = scr.UGA[1]
             ELSE s.style = "text"

\* No menu is open.
NoMenu(next) ==
  /\ screen' = CHOOSE s \in Screens : TRUE
  /\ st' = M!InitScroll(screen')
  /\ timeout' = [have |-> FALSE, left |-> 0]
  /\ painted' = << >> /\ exit' = "NONE" /\ chosen' = -1
  /\ pc' = next

Init ==
  /\ \E cfg \in Configs : scr = SetupScreen(WarnIfLegacyProblems(InitScreen(PowerOn(cfg))))
  /\ screen = CHOOSE s \in Screens : TRUE
  /\ pc = "done" /\ st = M!InitScroll(screen)
  /\ timeout = [have |-> FALSE, left |-> 0]
  /\ painted = << >> /\ exit = "NONE" /\ chosen = -1

OpenMenu(s) ==
  /\ pc = "done" /\ Usable(s)
  /\ screen' = s /\ st' = M!InitScroll(s)
  /\ timeout' = [have |-> s.TimeoutSeconds > 0, left |-> 10 * s.TimeoutSeconds]
  /\ painted' = << >> /\ exit' = "NONE" /\ chosen' = -1
  /\ pc' = "init"
  /\ scr' = [InitStyle(scr, s) EXCEPT !.spoiled = @ /\ ~scr.dirty]

Begin == M!Begin /\ UNCHANGED scr

PaintAll ==
  /\ M!PaintAll
  /\ scr' = Countdown(PaintAllStyle(scr, screen, M!PaintAllState(screen, st)), screen, timeout)

PaintSelection ==
  /\ M!PaintSelection
  /\ scr' = Countdown(IF M!NeedsFullPaint(screen, st)
                      THEN PaintAllStyle(scr, screen, M!PaintAllState(screen, st))
                      ELSE PaintSelectionStyle(scr, screen, st), screen, timeout)

PaintNothing == M!PaintNothing /\ scr' = Countdown(scr, screen, timeout)

Wait == (M!Wait \/ M!Tick \/ M!Expire) /\ UNCHANGED scr

\* Any key first takes the timeout message away.
Cancelled == IF timeout.have THEN PaintTimeout(scr, screen, << >>) ELSE scr

\* (Bound: nobody moves about on a screen that is not as it should be.)
KeyMove(m) == M!KeyMove(m) /\ AsItShouldBe /\ scr' = Cancelled

KeyIgnored == M!KeyIgnored /\ scr' = Cancelled

\* A screen shot that cannot be saved leaves the graphics screen.
ScreenShotFails ==
  /\ M!KeyIgnored
  /\ scr' = [egSetGraphicsModeEnabled(Printed(Cancelled), FALSE) EXCEPT !.spoiled = TRUE]

\* (A shortcut leaves the screen as Enter does.)
KeyExit(code) == M!KeyExit(code) /\ scr' = Cancelled

\* EditOptions(): the line editor on a text screen.
EditOptions ==
  /\ pc = "done" /\ exit = "DETAILS" /\ "editor" \notin scr.cfg.hide
  /\ LET e == DrawScreenHeader(IF scr.cfg.textOnly THEN scr ELSE SwitchToText(scr))
     IN  scr' = IF scr.cfg.textOnly THEN e ELSE SwitchToGraphics(e)
  /\ NoMenu("done")

StartProgram(useGraphics) ==
  /\ pc = "done" /\ exit = "ENTER"
  /\ scr' = BeginExternalScreen(scr, useGraphics)
  /\ NoMenu("program")

\* What a program may do to the display, in any resolution it can set.
ProgramDraws(mode) ==
  /\ pc = "program" /\ scr.cfg.graphics
  /\ scr' = [SetVideoMode(scr, mode) EXCEPT !.video = [p \in DOMAIN @ |-> <<"program">>]]
  /\ UNCHANGED menuVars

\* It returns, or it could not be started. The banner may be lost on a screen
\* that has grown: it is drawn through the background of the old size.
ProgramEnds(failed) ==
  /\ pc = "program"
  /\ NoMenu("done")
  /\ LET d == FinishExternalScreen(IF failed THEN CheckError(scr) ELSE scr)
     IN  scr' = [d EXCEPT !.spoiled = d.eg # scr.eg]

\* RescanAll(): a message while it lasts.
Rescan ==
  /\ pc = "done" /\ exit = "ESCAPE"
  /\ scr' = egDisplayMessage(scr, <<"S", "c", "a", "n">>)
  /\ NoMenu("rescan")

Rescanned ==
  /\ pc = "rescan"
  /\ scr' = SetupScreen(scr)
  /\ NoMenu("done")

Next ==
  \/ \E s \in Screens : OpenMenu(s)
  \/ Begin \/ PaintAll \/ PaintSelection \/ PaintNothing \/ Wait
  \/ \E m \in M!Movements \ {"NONE"} : KeyMove(m)
  \/ KeyIgnored \/ ScreenShotFails
  \/ \E code \in {"ENTER", "ESCAPE", "DETAILS"} : KeyExit(code)
  \/ EditOptions
  \/ \E useGraphics \in BOOLEAN : StartProgram(useGraphics)
  \/ \E i \in DOMAIN Modes : ProgramDraws(Modes[i])
  \/ \E failed \in BOOLEAN : ProgramEnds(failed)
  \/ Rescan \/ Rescanned

Spec == Init /\ [][Next]_vars

-----------------------------------------------------------------------------
(* The picture of a menu: images laid over each other at their places.     *)

At(image, x, y) == [image |-> image, x |-> x, y |-> y]
Bar(color, w, h) == egCreateFilledImage(w, h, FALSE, color)
Written(text) ==
  [w |-> egComputeTextWidth(text), h |-> FontHeight, alpha |-> TRUE,
   px |-> [p \in Area(egComputeTextWidth(text), FontHeight) |->
             <<text[1 + p[1] \div FontCellWidth]>>]]
Line(text, y) == At(Written(text), Centred(scr, text), y)

OnTile(s, i, image, x, y) ==
  At(image, x + (Selection(s, i).w - image.w) \div 2, y + (Selection(s, i).h - image.h) \div 2)

EntrySprites(s, r, i) ==
  LET x == ItemX(scr, s, r, i)
      y == ItemY(scr, s, i)
      o == OnTile(s, i, Icon[M!Row(s, i), i], x, y)
      b == Badge[M!Row(s, i), i]
  IN  (IF i = r.CurrentSelection THEN <<At(Selection(s, i), x, y)>> ELSE << >>)
      \o <<o>>
      \o (IF b = None THEN << >>
          ELSE <<At(b, o.x + Icon[M!Row(s, i), i].w - BadgeMargin - b.w, o.y + Icon[M!Row(s, i), i].h - BadgeMargin - b.h)>>)

Joined(F) ==
  LET f[k \in 0 .. Len(F)] == IF k = 0 THEN << >> ELSE f[k - 1] \o F[k] IN f[Len(F)]

HintSprites ==
  IF "hints" \in scr.cfg.hide THEN << >>
  ELSE <<Line(Hint1, scr.UGA[2] - 3 * FontHeight), Line(Hint2, scr.UGA[2] - 2 * FontHeight)>>

IconScene(s, r, t) ==
  Joined([k \in 1 .. M!Count(s) |->
            IF M!Row(s, k - 1) = 1 \/ k - 1 \in r.FirstVisible .. r.LastVisible
            THEN EntrySprites(s, r, k - 1) ELSE << >>])
  \o (IF "arrows" \in scr.cfg.hide THEN << >>
      ELSE (IF r.FirstVisible > 0 THEN <<At(Arrow, LeftX(scr, s), ArrowY(scr))>> ELSE << >>)
           \o (IF r.LastVisible < s.row0 - 1 THEN <<At(Arrow, RightX(scr, r), ArrowY(scr))>>
               ELSE << >>))
  \o <<Line(EntryTitle[r.CurrentSelection], textPosY(scr, s))>>
  \o (IF t.have THEN <<Line(Seconds[(t.left + 5) \div 10], textPosY(scr, s) + TextLineHeight)>>
      ELSE << >>)
  \o HintSprites

WindowScene(s, r) ==
  LET w == Window(scr, s)
      Row(text, color, x, y, width) ==
        <<At(Bar(color, width, TextLineHeight), x, y),
          At(Written(text), x + FontCellWidth, y + TEXT_YMARGIN)>>
  IN  <<At(Bar(scr.background.px[0, 0][1], w[3], w[4]), w[1], w[2])>>
      \o Row(MenuTitle, scr.menuColor, TitleX(w), TitleY(w), (Len(MenuTitle) + 2) * FontCellWidth)
      \o (IF TitleImage = None THEN << >>
          ELSE <<At(TitleImage, w[1] + TITLEICON_SPACING, InfoY(w))>>)
      \o Joined([k \in 1 .. s.InfoLineCount |->
                   Row(InfoLine, scr.menuColor, EntriesX(w), InfoY(w) + (k - 1) * TextLineHeight,
                       LineWidth(s))])
      \o Joined([k \in 1 .. M!Count(s) |->
                   Row(EntryTitle[k - 1],
                       IF k - 1 = r.CurrentSelection THEN "white" ELSE scr.menuColor,
                       EntriesX(w), EntriesY(s, w) + (k - 1) * TextLineHeight, LineWidth(s))])
      \o HintSprites

Backdrop ==
  <<At(Bar(IF "banner" \in scr.cfg.hide THEN "grey" ELSE scr.menuColor,
           scr.UGA[1], scr.UGA[2]), 0, 0)>>
  \o (IF "banner" \in scr.cfg.hide THEN << >>
      ELSE <<At(scr.banner, BannerPos(scr)[1], BannerPos(scr)[2])>>)

PixelOf(scene, p) ==
  LET f[k \in 0 .. Len(scene)] ==
        IF k = 0 THEN << >>
        ELSE LET a == scene[k]
             IN  IF Inside(p, a.x, a.y, a.image.w, a.image.h)
                 THEN Over(a.image.px[p[1] - a.x, p[2] - a.y], f[k - 1]) ELSE f[k - 1]
  IN  f[Len(scene)]

(* Whenever a menu waits for a key, every pixel of the screen is the one   *)
(* the menu should show there, selection, scroll position, arrows, label   *)
(* and countdown included: no remains of another menu, of a program, of a  *)
(* message or of an earlier selection, however partial the repaints were.  *)
(* Beyond it: a screen shot that failed, labels that are hidden (the title *)
(* is drawn over the old one), a resolution left changed by a program or   *)
(* grown under it (the banner is not drawn).                               *)
MenuOnScreen ==
  pc = "read" /\ AsItShouldBe =>
    IF screen.style = "text" THEN scr.video = [p \in DOMAIN scr.video |-> <<"text">>]
    ELSE "label" \notin scr.cfg.hide =>
         LET scene == Backdrop \o (IF screen.style = "icons" THEN IconScene(screen, st, timeout)
                                   ELSE WindowScene(screen, st))
         IN  \A p \in Area(scr.UGA[1], scr.UGA[2]) : scr.video[p] = PixelOf(scene, p)

(* A menu is never painted on the screen that is not shown, nor for a size *)
(* the screen does not have: libeg, the menus and, when a resolution was   *)
(* requested, the hardware agree on the size after every program, whatever *)
(* it did to the display.                                                  *)
ScreenAgrees ==
  pc = "read" /\ ~scr.spoiled =>
    /\ scr.console = (IF scr.cfg.console = "none" THEN "none"
                      ELSE IF screen.style = "text" THEN "text" ELSE "graphics")
    /\ scr.allow => scr.UGA = scr.eg
    /\ scr.allow /\ scr.req[1] > 0 => scr.gop = scr.eg

(* The message of a program that could not be started stays until a key is *)
(* pressed: no menu wipes it away unread.                                  *)
ErrorsAreRead == pc \in {"init", "paint", "read"} => ~scr.unread
=============================================================================
