--------------------------- MODULE Display_proofs ---------------------------
(***************************************************************************)
(* Proofs about Display, for every menu, configuration and screen. What a  *)
(* function of Screen does to a display is either drawing (OnlyDraws), or  *)
(* a change of modes after which libeg read the size of the screen         *)
(* (Ready), or the start of a program, after which FinishExternalScreen()  *)
(* reads it again. With that and what is known at each place of the        *)
(* program (Decided), the two properties proved here are inductive: a menu *)
(* has the size of the screen, and no error is wiped away before it is     *)
(* read.                                                                   *)
(***************************************************************************)
EXTENDS Display, FiniteSetTheorems, WellFoundedInduction, TLAPS

\* What a display has.
Fields == { "cfg", "gop", "console", "textMode", "eg", "UGA", "req", "allow", "dirty", "haveError",
            "background", "banner", "menuColor", "edge", "unread", "spoiled", "video" }
IsDisplay(d) == DOMAIN d = Fields

\* e shows something else than d, on the same screen of the same size.
OnlyDraws(d, e) ==
  /\ IsDisplay(e)
  /\ e.cfg = d.cfg /\ e.gop = d.gop /\ e.console = d.console /\ e.textMode = d.textMode
  /\ e.eg = d.eg /\ e.UGA = d.UGA /\ e.req = d.req /\ e.allow = d.allow
  /\ e.haveError = d.haveError /\ e.unread = d.unread /\ e.spoiled = d.spoiled

LEMMA DrawsSame ==
  ASSUME NEW d, IsDisplay(d)
  PROVE  OnlyDraws(d, d)
BY DEF OnlyDraws

LEMMA DrawsTwice ==
  ASSUME NEW d, NEW e, NEW f, OnlyDraws(d, e), OnlyDraws(e, f)
  PROVE  OnlyDraws(d, f)
BY DEF OnlyDraws

LEMMA DrawsIsDisplay ==
  ASSUME NEW d, NEW e, OnlyDraws(d, e)
  PROVE  IsDisplay(e)
BY DEF OnlyDraws

LEMMA BltDraws ==
  ASSUME NEW d, NEW image, NEW x, NEW y, IsDisplay(d)
  PROVE  OnlyDraws(d, Blt(d, image, x, y))
BY DEF OnlyDraws, IsDisplay, Fields, Blt

LEMMA PrintedDraws ==
  ASSUME NEW d, IsDisplay(d)
  PROVE  OnlyDraws(d, Printed(d))
BY DEF OnlyDraws, IsDisplay, Fields, Printed

LEMMA ClearDraws ==
  ASSUME NEW d, NEW color, IsDisplay(d)
  PROVE  OnlyDraws(d, egClearScreen(d, color))
BY DrawsSame, BltDraws DEF egClearScreen

LEMMA DrawImageDraws ==
  ASSUME NEW d, NEW image, NEW x, NEW y, IsDisplay(d)
  PROVE  OnlyDraws(d, egDrawImage(d, image, x, y))
BY DrawsSame, BltDraws, PrintedDraws DEF egDrawImage

LEMMA BltImageDraws ==
  ASSUME NEW d, NEW image, NEW x, NEW y, IsDisplay(d)
  PROVE  OnlyDraws(d, BltImage(d, image, x, y))
<1>. DEFINE e == egDrawImage(d, image, x, y)
<1>1. OnlyDraws(d, e)
  BY DrawImageDraws
<1>. HIDE DEF e
<1>2. OnlyDraws(d, [e EXCEPT !.dirty = TRUE])
  BY <1>1 DEF OnlyDraws, IsDisplay, Fields
<1>. QED BY <1>2 DEF BltImage, e

LEMMA BltAlphaDraws ==
  ASSUME NEW d, NEW image, NEW x, NEW y, NEW color, IsDisplay(d)
  PROVE  OnlyDraws(d, BltImageAlpha(d, image, x, y, color))
BY BltImageDraws DEF BltImageAlpha

LEMMA CompositeDraws ==
  ASSUME NEW d, NEW base, NEW top, NEW badge, NEW x, NEW y, IsDisplay(d)
  PROVE  OnlyDraws(d, BltImageCompositeBadge(d, base, top, badge, x, y))
BY BltImageDraws DEF BltImageCompositeBadge

LEMMA TransparentDraws ==
  ASSUME NEW d, NEW image, NEW badge, NEW x, NEW y, NEW w, NEW h, IsDisplay(d)
  PROVE  OnlyDraws(d, egDrawImageWithTransparency(d, image, badge, x, y, w, h))
BY DrawsSame, CompositeDraws DEF egDrawImageWithTransparency

LEMMA MessageDraws ==
  ASSUME NEW d, NEW text, IsDisplay(d)
  PROVE  OnlyDraws(d, egDisplayMessage(d, text))
BY DrawImageDraws DEF egDisplayMessage

LEMMA HeaderDraws ==
  ASSUME NEW d, IsDisplay(d)
  PROVE  OnlyDraws(d, DrawScreenHeader(d))
BY ClearDraws, PrintedDraws, DrawsTwice, DrawsIsDisplay DEF DrawScreenHeader

LEMMA BannerDraws ==
  ASSUME NEW d, IsDisplay(d)
  PROVE  OnlyDraws(d, LoadBanner(d))
BY DEF LoadBanner, OnlyDraws, IsDisplay, Fields

LEMMA ClearedDraws ==
  ASSUME NEW d, NEW showBanner, IsDisplay(d)
  PROVE  OnlyDraws(d, BltClearScreen(d, showBanner))
<1>. DEFINE e == LoadBanner(d)
            b == BannerPos(e)
            c == egClearScreen(e, e.menuColor)
            c1 == [c EXCEPT !.edge = b[2] + e.banner.h]
            cleared == IF showBanner /\ "banner" \notin d.cfg.hide
                       THEN BltImage(c1, e.banner, b[1], b[2])
                       ELSE egClearScreen(d, "grey")
            copy == egCopyScreen(cleared)
<1>1. OnlyDraws(d, e)
  BY BannerDraws
<1>2. OnlyDraws(e, c)
  BY <1>1, ClearDraws, DrawsIsDisplay
<1>3. OnlyDraws(c, c1)
  <2>. DEFINE bottom == b[2] + e.banner.h
  <2>1. c1 = [c EXCEPT !.edge = bottom]
    OBVIOUS
  <2>. HIDE DEF c, c1, e, b, bottom
  <2>. QED BY <1>2, <2>1 DEF OnlyDraws, IsDisplay, Fields
<1>4. OnlyDraws(d, cleared)
  <2>1. OnlyDraws(d, c1)
    <3>. HIDE DEF c1, c, e
    <3>. QED BY <1>1, <1>2, <1>3, DrawsTwice
  <2>2. OnlyDraws(c1, BltImage(c1, e.banner, b[1], b[2]))
    BY <1>3, DrawsIsDisplay, BltImageDraws
  <2>3. OnlyDraws(d, BltImage(c1, e.banner, b[1], b[2]))
    <3>. HIDE DEF c1, e, b
    <3>. QED BY <2>1, <2>2, DrawsTwice
  <2>4. OnlyDraws(d, egClearScreen(d, "grey"))
    BY ClearDraws
  <2>. HIDE DEF c1, e, b
  <2>. QED BY <2>3, <2>4
<1>5. BltClearScreen(d, showBanner) = [cleared EXCEPT !.dirty = FALSE, !.background = copy]
  BY DEF BltClearScreen
<1>6. OnlyDraws(d, [cleared EXCEPT !.dirty = FALSE, !.background = copy])
  <2>. HIDE DEF cleared, copy
  <2>. QED BY <1>4 DEF OnlyDraws, IsDisplay, Fields
<1>. QED BY <1>5, <1>6

-----------------------------------------------------------------------------
(* The drawing of the menus.                                               *)

LEMMA TextDraws ==
  ASSUME NEW d, NEW text, NEW selected, NEW width, NEW x, NEW y, IsDisplay(d)
  PROVE  /\ OnlyDraws(d, DrawText(d, text, selected, width, x, y))
         /\ OnlyDraws(d, DrawTextWithTransparency(d, text, x, y))
BY TransparentDraws, PrintedDraws DEF DrawText, DrawTextWithTransparency

LEMMA LabelDraws ==
  ASSUME NEW d, NEW text, NEW y, IsDisplay(d)
  PROVE  OnlyDraws(d, Label(d, text, y))
BY TextDraws, DrawsSame, DrawsTwice, DrawsIsDisplay DEF Label

LEMMA HintsDraws ==
  ASSUME NEW d, IsDisplay(d)
  PROVE  OnlyDraws(d, Hints(d))
BY TextDraws, DrawsSame, DrawsTwice, DrawsIsDisplay DEF Hints

LEMMA EntryDraws ==
  ASSUME NEW d, NEW s, NEW r, NEW i, NEW selected, IsDisplay(d)
  PROVE  /\ OnlyDraws(d, DrawMainMenuEntry(d, s, r, i, selected))
         /\ OnlyDraws(d, DrawEntry(d, s, i, selected))
<1>1. OnlyDraws(d, DrawMainMenuEntry(d, s, r, i, selected))
  BY CompositeDraws, TransparentDraws DEF DrawMainMenuEntry
<1>2. OnlyDraws(d, DrawEntry(d, s, i, selected))
  BY TextDraws DEF DrawEntry
<1>. QED BY <1>1, <1>2

LEMMA ArrowsDraws ==
  ASSUME NEW d, NEW s, NEW r, IsDisplay(d)
  PROVE  OnlyDraws(d, PaintArrows(d, s, r))
<1>1. ASSUME NEW e, IsDisplay(e), NEW shown, NEW x
      PROVE  OnlyDraws(e, PaintArrow(e, shown, x))
  BY <1>1, TransparentDraws, BltImageDraws DEF PaintArrow
<1>. DEFINE left == PaintArrow(d, r.FirstVisible > 0, LeftX(d, s))
<1>2. OnlyDraws(d, left)
  BY <1>1
<1>. HIDE DEF left
<1>3. OnlyDraws(left, PaintArrow(left, r.LastVisible < s.row0 - 1, RightX(d, r)))
  BY <1>1, <1>2, DrawsIsDisplay
<1>4. PaintArrows(d, s, r) = PaintArrow(left, r.LastVisible < s.row0 - 1, RightX(d, r))
  BY DEF PaintArrows, left
<1>. QED BY <1>2, <1>3, <1>4, DrawsTwice

LEMMA LeastNumber ==
  ASSUME NEW S \in SUBSET Nat, S # {}
  PROVE  \E x \in S : \A y \in S : x <= y
<1>. DEFINE below(x) == 0 .. x
            T == { below(x) : x \in S }
<1>1. T \subseteq FiniteSubsetsOf(Nat)
  <2>1. \A x \in S : below(x) \in SUBSET Nat /\ IsFiniteSet(below(x))
    BY FS_Interval
  <2>. QED BY <2>1 DEF FiniteSubsetsOf
<1>. HIDE DEF below
<1>2. \E u \in T : \A v \in T : ~(<<v, u>> \in StrictSubsetOrdering(Nat))
  <2>1. IsWellFoundedOn(StrictSubsetOrdering(Nat), FiniteSubsetsOf(Nat))
    BY FS_StrictSubsetOrderingWellFounded
  <2>2. T # {}
    OBVIOUS
  <2>. HIDE DEF T
  <2>. QED BY <1>1, <2>1, <2>2, WFMin
<1>3. PICK x \in S : \A y \in S : ~(<<below(y), below(x)>> \in StrictSubsetOrdering(Nat))
  BY <1>2
<1>4. ASSUME NEW y \in S, y < x PROVE FALSE
  <2>1. below(y) \subseteq below(x) /\ x \in below(x) /\ x \notin below(y)
    BY <1>4 DEF below
  <2>2. below(x) \subseteq Nat
    BY DEF below
  <2>3. <<below(y), below(x)>> \in StrictSubsetOrdering(Nat)
    BY <2>1, <2>2, Zenon DEF StrictSubsetOrdering
  <2>. QED BY <1>3, <2>3
<1>5. \A y \in S : x <= y
  BY <1>4
<1>. QED BY <1>5

(* The three loops of the painting: the icons of the main menu, the        *)
(* information lines of a submenu and its entries. One round of each, on   *)
(* the display the round before left.                                      *)
Round(loop, e, k, s, r, w) ==
  CASE loop = "icons"   -> IF (k - 1) \in M!Drawn(s, r)
                           THEN DrawMainMenuEntry(e, s, r, k - 1, k - 1 = r.CurrentSelection)
                           ELSE e
    [] loop = "lines"   -> DrawText(e, InfoLine, FALSE, LineWidth(s), EntriesX(w),
                                    InfoY(w) + (k - 1) * TextLineHeight)
    [] loop = "entries" -> DrawEntry(e, s, k - 1, k - 1 = r.CurrentSelection)

Rounds(loop, n, f, d, s, r, w) ==
  f = [k \in 0 .. n |-> IF k = 0 THEN d ELSE Round(loop, f[k - 1], k, s, r, w)]

LEMMA RoundDraws ==
  ASSUME NEW loop \in {"icons", "lines", "entries"}, NEW e, NEW k, NEW s, NEW r, NEW w, IsDisplay(e)
  PROVE  OnlyDraws(e, Round(loop, e, k, s, r, w))
<1>1. CASE loop = "icons"
  BY <1>1, EntryDraws, DrawsSame DEF Round
<1>2. CASE loop = "lines"
  BY <1>2, TextDraws DEF Round
<1>3. CASE loop = "entries"
  BY <1>3, EntryDraws DEF Round
<1>. QED BY <1>1, <1>2, <1>3

LEMMA RoundsExist ==
  ASSUME NEW loop, NEW d, NEW s, NEW r, NEW w
  PROVE  \A n \in Nat : \E f : Rounds(loop, n, f, d, s, r, w)
<1>. DEFINE S == { n \in Nat : ~ \E f : Rounds(loop, n, f, d, s, r, w) }
<1>. SUFFICES ASSUME S # {} PROVE FALSE
  OBVIOUS
<1>1. PICK n \in S : \A y \in S : n <= y
  BY LeastNumber
<1>2. n # 0
  <2>. DEFINE f == [k \in 0 .. 0 |-> d]
  <2>1. \A k \in 0 .. 0 : k = 0
    OBVIOUS
  <2>2. Rounds(loop, 0, f, d, s, r, w)
    BY <2>1 DEF Rounds
  <2>. QED BY <2>2
<1>3. PICK f : Rounds(loop, n - 1, f, d, s, r, w)
  <2>1. n - 1 \in Nat /\ ~(n <= n - 1)
    BY <1>2
  <2>. QED BY <1>1, <2>1
<1>. DEFINE g == [k \in 0 .. n |-> IF k = n THEN Round(loop, f[n - 1], n, s, r, w) ELSE f[k]]
<1>4. Rounds(loop, n, g, d, s, r, w)
  <2>1. \A k \in 0 .. n - 1 : g[k] = f[k]
    OBVIOUS
  <2>2. g[n] = Round(loop, f[n - 1], n, s, r, w)
    OBVIOUS
  <2>3. f = [k \in 0 .. n - 1 |-> IF k = 0 THEN d ELSE Round(loop, f[k - 1], k, s, r, w)]
    BY <1>3 DEF Rounds
  <2>4. ASSUME NEW k \in 0 .. n
        PROVE  g[k] = IF k = 0 THEN d ELSE Round(loop, g[k - 1], k, s, r, w)
    <3>. HIDE DEF g
    <3>1. CASE k = n
      <4>1. n - 1 \in 0 .. n - 1
        BY <1>2
      <4>. QED BY <1>2, <2>1, <2>2, <3>1, <4>1
    <3>2. CASE k # n
      <4>1. k \in 0 .. n - 1 /\ (k # 0 => k - 1 \in 0 .. n - 1)
        BY <3>2
      <4>2. g[k] = f[k]
        BY <2>1, <4>1
      <4>3. f[k] = IF k = 0 THEN d ELSE Round(loop, f[k - 1], k, s, r, w)
        BY <2>3, <4>1
      <4>. QED BY <2>1, <4>1, <4>2, <4>3
    <3>. QED BY <3>1, <3>2
  <2>5. g = [k \in 0 .. n |-> g[k]]
    OBVIOUS
  <2>. HIDE DEF g
  <2>. QED BY <2>4, <2>5 DEF Rounds
<1>. QED BY <1>4

LEMMA RoundsDraw ==
  ASSUME NEW loop \in {"icons", "lines", "entries"}, NEW n \in Nat, NEW f, NEW d, NEW s, NEW r, NEW w,
         IsDisplay(d), Rounds(loop, n, f, d, s, r, w)
  PROVE  OnlyDraws(d, f[n])
<1>. DEFINE S == { k \in 0 .. n : ~ OnlyDraws(d, f[k]) }
<1>1. \A k \in 0 .. n : f[k] = IF k = 0 THEN d ELSE Round(loop, f[k - 1], k, s, r, w)
  <2>1. f = [k \in 0 .. n |-> IF k = 0 THEN d ELSE Round(loop, f[k - 1], k, s, r, w)]
    BY DEF Rounds
  <2>. QED BY <2>1
<1>. SUFFICES ASSUME S # {} PROVE FALSE
  OBVIOUS
<1>2. PICK k \in S : \A y \in S : k <= y
  <2>1. S \in SUBSET Nat
    OBVIOUS
  <2>. HIDE DEF S
  <2>. QED BY <2>1, LeastNumber
<1>3. k # 0
  BY <1>1, DrawsSame
<1>4. k - 1 \in 0 .. n /\ ~(k <= k - 1)
  BY <1>3
<1>5. OnlyDraws(d, f[k - 1])
  BY <1>2, <1>4
<1>6. OnlyDraws(f[k - 1], f[k])
  BY <1>1, <1>3, <1>5, RoundDraws, DrawsIsDisplay
<1>. QED BY <1>5, <1>6, DrawsTwice

LEMMA IconsDraw ==
  ASSUME NEW d, NEW s, NEW r, IsDisplay(d), M!Count(s) \in Nat
  PROVE  OnlyDraws(d, DrawIcons(d, s, r))
<1>. DEFINE n == M!Count(s)
            L(f) == [k \in 0 .. n |->
                      IF k = 0 THEN d
                      ELSE IF (k - 1) \in M!Drawn(s, r)
                      THEN DrawMainMenuEntry(f[k - 1], s, r, k - 1, k - 1 = r.CurrentSelection)
                      ELSE f[k - 1]]
            g == CHOOSE f : f = L(f)
<1>1. \A f : Rounds("icons", n, f, d, s, r, << >>) <=> f = L(f)
  BY Zenon DEF Rounds, Round
<1>2. \E f : f = L(f)
  BY <1>1, RoundsExist
<1>3. g = L(g)
  <2>. HIDE DEF L
  <2>. QED BY <1>2, Zenon
<1>4. OnlyDraws(d, g[n])
  <2>1. Rounds("icons", n, g, d, s, r, << >>)
    <3>. HIDE DEF g, L
    <3>. QED BY <1>1, <1>3
  <2>. HIDE DEF g
  <2>. QED BY <2>1, RoundsDraw
<1>. QED BY <1>4 DEF DrawIcons

-----------------------------------------------------------------------------
(* What the styles paint.                                                  *)

LEMMA AllIconsDraw ==
  ASSUME NEW d, NEW s, NEW r, IsDisplay(d), M!Count(s) \in Nat
  PROVE  OnlyDraws(d, PaintAllIcons(d, s, r))
<1>. DEFINE e == DrawIcons(d, s, r)
            title == EntryTitle[r.CurrentSelection]
            y == textPosY(d, s)
            over == IF "label" \in d.cfg.hide
                    THEN DrawTextWithTransparency(e, title, Centred(d, title), y)
                    ELSE Label(e, title, y)
<1>1. OnlyDraws(d, e)
  BY IconsDraw
<1>. HIDE DEF e
<1>2. OnlyDraws(d, over)
  BY <1>1, TextDraws, LabelDraws, DrawsTwice, DrawsIsDisplay
<1>3. PaintAllIcons(d, s, r) = PaintArrows(Hints(over), s, r)
  BY DEF PaintAllIcons, e
<1>. HIDE DEF over
<1>. QED BY <1>2, <1>3, HintsDraws, ArrowsDraws, DrawsTwice, DrawsIsDisplay

LEMMA SelectionDraws ==
  ASSUME NEW d, NEW s, NEW r, IsDisplay(d)
  PROVE  /\ OnlyDraws(d, PaintSelectionIcons(d, s, r))
         /\ OnlyDraws(d, PaintSelectionWindow(d, s, r))
<1>. DEFINE e == DrawMainMenuEntry(d, s, r, r.PreviousSelection, FALSE)
            f == DrawMainMenuEntry(e, s, r, r.CurrentSelection, TRUE)
            title == EntryTitle[r.CurrentSelection]
            y == textPosY(d, s)
            g == DrawEntry(d, s, r.PreviousSelection, FALSE)
<1>1. OnlyDraws(d, e) /\ OnlyDraws(d, g)
  BY EntryDraws
<1>2. OnlyDraws(d, f)
  <2>. HIDE DEF e
  <2>. QED BY <1>1, EntryDraws, DrawsTwice, DrawsIsDisplay
<1>3. OnlyDraws(d, Label(f, title, y))
  <2>. HIDE DEF f, title, y
  <2>. QED BY <1>2, LabelDraws, DrawsTwice, DrawsIsDisplay
<1>4. OnlyDraws(d, DrawEntry(g, s, r.CurrentSelection, TRUE))
  <2>. HIDE DEF g
  <2>. QED BY <1>1, EntryDraws, DrawsTwice, DrawsIsDisplay
<1>. QED BY <1>3, <1>4 DEF PaintSelectionIcons, PaintSelectionWindow

LEMMA AllWindowDraws ==
  ASSUME NEW d, NEW s, NEW r, IsDisplay(d), M!Count(s) \in Nat
  PROVE  OnlyDraws(d, PaintAllWindow(d, s, r))
<1>. DEFINE n == M!Count(s)
            L(f) == [k \in 0 .. n |->
                      IF k = 0 THEN d
                      ELSE DrawEntry(f[k - 1], s, k - 1, k - 1 = r.CurrentSelection)]
            g == CHOOSE f : f = L(f)
<1>1. \A f : Rounds("entries", n, f, d, s, r, << >>) <=> f = L(f)
  BY DEF Rounds, Round
<1>2. \E f : f = L(f)
  BY <1>1, RoundsExist
<1>3. g = L(g)
  <2>. HIDE DEF L
  <2>. QED BY <1>2, Zenon
<1>4. OnlyDraws(d, g[n])
  <2>1. Rounds("entries", n, g, d, s, r, << >>)
    <3>. HIDE DEF g, L
    <3>. QED BY <1>1, <1>3
  <2>. HIDE DEF g
  <2>. QED BY <2>1, RoundsDraw
<1>5. PaintAllWindow(d, s, r) = Hints(g[n])
  BY DEF PaintAllWindow
<1>. HIDE DEF g
<1>. QED BY <1>4, <1>5, HintsDraws, DrawsTwice, DrawsIsDisplay

(* Switching the screen: the console shows the other kind of screen, if    *)
(* there are two. Nothing else that matters changes.                       *)
Switches(d, e, console) ==
  /\ IsDisplay(e)
  /\ e.console = IF d.console = "none" THEN "none" ELSE console
  /\ e.cfg = d.cfg /\ e.gop = d.gop /\ e.textMode = d.textMode
  /\ e.eg = d.eg /\ e.UGA = d.UGA /\ e.req = d.req /\ e.allow = d.allow
  /\ e.haveError = d.haveError /\ e.unread = d.unread /\ e.spoiled = d.spoiled

LEMMA SwitchToTextSwitches ==
  ASSUME NEW d, IsDisplay(d)
  PROVE  Switches(d, SwitchToText(d), "text")
BY DEF Switches, IsDisplay, Fields, SwitchToText, egSetGraphicsModeEnabled

LEMMA SwitchToGraphicsSwitches ==
  ASSUME NEW d, IsDisplay(d)
  PROVE  Switches(d, SwitchToGraphics(d), IF d.allow THEN "graphics" ELSE d.console)
<1>1. Switches(d, egSetGraphicsModeEnabled(d, TRUE), "graphics")
  BY DEF Switches, IsDisplay, Fields, egSetGraphicsModeEnabled
<1>. DEFINE e == egSetGraphicsModeEnabled(d, TRUE)
<1>2. Switches(d, [e EXCEPT !.dirty = TRUE], "graphics")
  <2>. HIDE DEF e
  <2>1. Switches(d, e, "graphics")
    BY <1>1 DEF e
  <2>. QED BY <2>1 DEF Switches, IsDisplay, Fields
<1>3. Switches(d, d, d.console)
  BY DEF Switches
<1>4. d.console = "graphics" => Switches(d, d, "graphics")
  BY <1>3
<1>. QED BY <1>2, <1>3, <1>4 DEF SwitchToGraphics

LEMMA GraphicsAndClearSwitches ==
  ASSUME NEW d, IsDisplay(d)
  PROVE  Switches(d, SwitchToGraphicsAndClear(d), IF d.allow THEN "graphics" ELSE d.console)
<1>. DEFINE e == SwitchToGraphics(d)
<1>1. Switches(d, e, IF d.allow THEN "graphics" ELSE d.console)
  BY SwitchToGraphicsSwitches
<1>2. OnlyDraws(e, BltClearScreen(e, TRUE)) /\ OnlyDraws(e, e)
  BY <1>1, ClearedDraws, DrawsSame DEF Switches
<1>3. OnlyDraws(e, SwitchToGraphicsAndClear(d))
  BY <1>2 DEF SwitchToGraphicsAndClear
<1>. HIDE DEF e
<1>. QED BY <1>1, <1>3 DEF Switches, OnlyDraws

LEMMA WindowSwitches ==
  ASSUME NEW d, NEW s, IsDisplay(d), s.InfoLineCount \in Nat
  PROVE  Switches(d, OpenWindow(d, s), IF d.allow THEN "graphics" ELSE d.console)
<1>. DEFINE w == Window(d, s)
            e == SwitchToGraphicsAndClear(d)
            c == d.background.px[0, 0][1]
            b == egDrawImage(e, egCreateFilledImage(w[3], w[4], FALSE, c), w[1], w[2])
            t == DrawText(b, MenuTitle, FALSE, (Len(MenuTitle) + 2) * FontCellWidth,
                          TitleX(w), TitleY(w))
            i == IF TitleImage = None THEN t
                 ELSE BltImageAlpha(t, TitleImage, w[1] + TITLEICON_SPACING,
                                    w[2] + 3 * TextLineHeight, c)
            n == s.InfoLineCount
            L(f) == [k \in 0 .. n |->
                      IF k = 0 THEN i
                      ELSE DrawText(f[k - 1], InfoLine, FALSE, LineWidth(s), EntriesX(w),
                                    InfoY(w) + (k - 1) * TextLineHeight)]
            g == CHOOSE f : f = L(f)
<1>1. Switches(d, e, IF d.allow THEN "graphics" ELSE d.console)
  BY GraphicsAndClearSwitches
<1>. HIDE DEF w, c
<1>2. OnlyDraws(e, b)
  <2>. HIDE DEF e
  <2>. QED BY <1>1, DrawImageDraws DEF Switches
<1>3. OnlyDraws(b, t)
  <2>. HIDE DEF b
  <2>. QED BY <1>2, TextDraws, DrawsIsDisplay
<1>4. OnlyDraws(t, i)
  <2>1. IsDisplay(t)
    <3>. HIDE DEF t
    <3>. QED BY <1>3, DrawsIsDisplay
  <2>. HIDE DEF t
  <2>. QED BY <2>1, DrawsSame, BltAlphaDraws
<1>5. OnlyDraws(e, i)
  <2>. HIDE DEF i, t, b, e
  <2>. QED BY <1>2, <1>3, <1>4, DrawsTwice
<1>. HIDE DEF i
<1>6. \A f : Rounds("lines", n, f, i, s, << >>, w) <=> f = L(f)
  BY DEF Rounds, Round
<1>7. \E f : f = L(f)
  BY <1>6, RoundsExist
<1>8. g = L(g)
  <2>. HIDE DEF L
  <2>. QED BY <1>7, Zenon
<1>9. OnlyDraws(i, g[n])
  <2>1. Rounds("lines", n, g, i, s, << >>, w)
    <3>. HIDE DEF g, L
    <3>. QED BY <1>6, <1>8
  <2>. HIDE DEF g, e
  <2>. QED BY <1>5, <2>1, RoundsDraw, DrawsIsDisplay
<1>10. OpenWindow(d, s) = g[n]
  BY DEF OpenWindow, i, w, c
<1>11. OnlyDraws(e, OpenWindow(d, s))
  <2>. HIDE DEF g, e
  <2>. QED BY <1>5, <1>9, <1>10, DrawsTwice
<1>. HIDE DEF e
<1>. QED BY <1>1, <1>11 DEF Switches, OnlyDraws

-----------------------------------------------------------------------------
(* Sizes and modes.                                                        *)

Size == Nat \X Nat

\* A display of a session that was set up: graphics only on hardware that has
\* it and unless the user wants text, two screens or one for ever, and no error
\* that waits to be read.
Typed(d) ==
  /\ IsDisplay(d) /\ d.cfg \in Configs
  /\ d.allow \in BOOLEAN
  /\ d.allow => d.cfg.graphics
  /\ d.cfg.graphics /\ ~d.cfg.textOnly => d.allow
  /\ d.gop \in Size /\ d.eg \in Size /\ d.UGA \in Size /\ d.req \in Size
  /\ d.console = "none" <=> d.cfg.console = "none"
  /\ ~d.unread

\* The menus and libeg know the same size.
Ready(d) == Typed(d) /\ (d.allow => d.UGA = d.eg)

\* So does the hardware, if a resolution was requested.
Agreed(d) == d.allow /\ d.req[1] > 0 => d.gop = d.eg

LEMMA DrawingKeeps ==
  ASSUME NEW d, NEW e, OnlyDraws(d, e)
  PROVE  /\ Typed(d) => Typed(e)
         /\ Ready(d) => Ready(e)
         /\ Agreed(d) => Agreed(e)
BY DEF OnlyDraws, Typed, Ready, Agreed

LEMMA SwitchingKeeps ==
  ASSUME NEW d, NEW e, NEW console, Switches(d, e, console), console # "none" \/ d.console = "none"
  PROVE  /\ Typed(d) => Typed(e)
         /\ Ready(d) => Ready(e)
         /\ Agreed(d) => Agreed(e)
BY DEF Switches, Typed, Ready, Agreed

LEMMA PausedFacts ==
  ASSUME NEW d, Typed(d)
  PROVE  LET e == SwitchToGraphics(PauseForKey(SwitchToText(d)))
         IN  /\ Typed(e)
             /\ e.gop = d.gop /\ e.eg = d.eg /\ e.UGA = d.UGA /\ e.req = d.req
             /\ e.allow = d.allow /\ e.cfg = d.cfg /\ e.textMode = d.textMode
<1>. DEFINE t == SwitchToText(d)
            p == Printed(t)
            q == [p EXCEPT !.unread = FALSE]
            g == SwitchToGraphics(q)
<1>1. Switches(d, t, "text")
  BY SwitchToTextSwitches DEF Typed
<1>2. Typed(t)
  BY <1>1, SwitchingKeeps
<1>3. OnlyDraws(t, p)
  <2>. HIDE DEF t
  <2>. QED BY <1>2, PrintedDraws DEF Typed
<1>4. Typed(p)
  <2>. HIDE DEF p, t
  <2>. QED BY <1>2, <1>3, DrawingKeeps
<1>5. /\ Typed(q)
      /\ q.gop = p.gop /\ q.eg = p.eg /\ q.UGA = p.UGA /\ q.req = p.req
      /\ q.allow = p.allow /\ q.cfg = p.cfg /\ q.textMode = p.textMode
  <2>. HIDE DEF p
  <2>. QED BY <1>4 DEF Typed, IsDisplay, Fields
<1>6. Switches(q, g, IF q.allow THEN "graphics" ELSE q.console)
  <2>. HIDE DEF q
  <2>. QED BY <1>5, SwitchToGraphicsSwitches DEF Typed
<1>7. Typed(g)
  <2>. HIDE DEF q, g
  <2>1. CASE q.allow
    BY <1>5, <1>6, <2>1, SwitchingKeeps
  <2>2. CASE ~q.allow
    BY <1>5, <1>6, <2>2 DEF Switches, Typed
  <2>. QED BY <2>1, <2>2
<1>8. SwitchToGraphics(PauseForKey(SwitchToText(d))) = g
  BY DEF PauseForKey
<1>9. /\ g.gop = d.gop /\ g.eg = d.eg /\ g.UGA = d.UGA /\ g.req = d.req
      /\ g.allow = d.allow /\ g.cfg = d.cfg /\ g.textMode = d.textMode
  <2>. HIDE DEF g, q, p, t
  <2>. QED BY <1>1, <1>3, <1>5, <1>6 DEF Switches, OnlyDraws
<1>. HIDE DEF g
<1>. QED BY <1>7, <1>8, <1>9

LEMMA TextModeFacts ==
  ASSUME NEW d, Typed(d)
  PROVE  LET t == egSetTextMode(d)
         IN  /\ Typed(t)
             /\ t.eg = d.eg /\ t.UGA = d.UGA /\ t.req = d.req
             /\ t.allow = d.allow /\ t.cfg = d.cfg
             /\ t.textMode = d.textMode => t.gop = d.gop
             /\ t.textMode # d.textMode => t.gop[1] > 0
<1>. DEFINE mode == d.cfg.textMode
            v == [SetVideoMode(d, TextModes[mode]) EXCEPT !.textMode = mode]
<1>1. ASSUME mode \in DOMAIN TextModes, mode # d.textMode
      PROVE  /\ Typed(v) /\ v.eg = d.eg /\ v.UGA = d.UGA /\ v.req = d.req
             /\ v.allow = d.allow /\ v.cfg = d.cfg
             /\ v.textMode # d.textMode /\ v.gop[1] > 0
  <2>1. TextModes[mode] \in Size /\ TextModes[mode][1] > 0
    BY <1>1, ModesAssumption DEF Size
  <2>. DEFINE u == SetVideoMode(d, TextModes[mode])
              size == TextModes[mode]
  <2>2. /\ DOMAIN u = DOMAIN d /\ u.gop = size /\ u.eg = d.eg /\ u.UGA = d.UGA /\ u.req = d.req
        /\ u.allow = d.allow /\ u.cfg = d.cfg /\ u.console = d.console /\ u.unread = d.unread
    <3>. HIDE DEF size
    <3>1. u = SetVideoMode(d, size)
      BY DEF size
    <3>. QED BY <3>1 DEF Typed, IsDisplay, Fields, SetVideoMode
  <2>. HIDE DEF u, mode
  <2>3. v = [u EXCEPT !.textMode = mode]
    BY DEF u
  <2>. HIDE DEF v
  <2>. QED BY <1>1, <2>1, <2>2, <2>3 DEF Typed, IsDisplay, Fields
<1>. HIDE DEF v
<1>2. egSetTextMode(d) = IF mode = None \/ mode = d.textMode THEN d
                         ELSE IF mode \in DOMAIN TextModes THEN v
                         ELSE SwitchToGraphics(PauseForKey(SwitchToText(d)))
  BY DEF egSetTextMode, v
<1>3. CASE mode = None \/ mode = d.textMode
  BY <1>2, <1>3
<1>4. CASE mode # None /\ mode # d.textMode /\ mode \in DOMAIN TextModes
  BY <1>1, <1>2, <1>4
<1>5. CASE mode # None /\ mode # d.textMode /\ mode \notin DOMAIN TextModes
  BY <1>2, <1>5, PausedFacts
<1>. QED BY <1>3, <1>4, <1>5

LEMMA DetermineFacts ==
  ASSUME NEW d, Typed(d)
  PROVE  LET e == egDetermineScreenSize(d)
         IN  /\ Typed(e)
             /\ e.gop = d.gop /\ e.UGA = d.UGA /\ e.req = d.req
             /\ e.allow = d.allow /\ e.cfg = d.cfg /\ e.textMode = d.textMode
             /\ e.allow => e.eg = e.gop
BY DEF Typed, IsDisplay, Fields, egDetermineScreenSize

LEMMA ScreenSizeFacts ==
  ASSUME NEW d, Typed(d), NEW size
  PROVE  LET e == egSetScreenSize(d, size)
         IN  /\ Typed(e) /\ e.UGA = d.UGA /\ e.req = d.req /\ e.allow = d.allow /\ e.cfg = d.cfg
<1>1. CASE \E i \in DOMAIN Modes : Modes[i] = size
  <2>1. size \in Size
    BY <1>1, ModesAssumption DEF Size
  <2>. DEFINE u == SetVideoMode(d, size)
  <2>2. /\ DOMAIN u = DOMAIN d /\ u.gop = size /\ u.UGA = d.UGA /\ u.req = d.req
        /\ u.allow = d.allow /\ u.cfg = d.cfg /\ u.console = d.console /\ u.unread = d.unread
    BY DEF Typed, IsDisplay, Fields, SetVideoMode
  <2>. HIDE DEF u
  <2>3. egSetScreenSize(d, size) = [u EXCEPT !.eg = size]
    BY <1>1 DEF egSetScreenSize, u
  <2>. QED BY <2>1, <2>2, <2>3 DEF Typed, IsDisplay, Fields
<1>2. CASE ~ \E i \in DOMAIN Modes : Modes[i] = size
  <2>1. egSetScreenSize(d, size) = SwitchToGraphics(PauseForKey(SwitchToText(d)))
    BY <1>2, Zenon DEF egSetScreenSize
  <2>. QED BY <2>1, PausedFacts
<1>. QED BY <1>1, <1>2

LEMMA ResolutionFacts ==
  ASSUME NEW req \in Size, req[1] > 0
  PROVE  Resolution(req) \in Size /\ Resolution(req)[1] > 0
<1>1. CASE req[2] = 0 /\ req[1] + 1 \in DOMAIN Modes
  BY <1>1, ModesAssumption DEF Resolution, Size
<1>2. CASE ~(req[2] = 0 /\ req[1] + 1 \in DOMAIN Modes)
  BY <1>2 DEF Resolution
<1>. QED BY <1>1, <1>2

\* After a resolution is set up everybody knows it. Without a request, nothing
\* changed, or a text mode asked for one.
LEMMA SetupResolutionFacts ==
  ASSUME NEW d, Ready(d)
  PROVE  LET s == SetupResolution(d)
         IN  Ready(s) /\ Agreed(s) /\ s.cfg = d.cfg /\ s.allow = d.allow
<1>. DEFINE req == IF d.req[1] > 0 THEN Resolution(d.req) ELSE d.req
            UGA == IF req[1] > 0 /\ req[2] > 0
                   THEN <<Least(d.UGA[1], req[1]), Least(d.UGA[2], req[2])>> ELSE d.UGA
            c   == [d EXCEPT !.req = req, !.UGA = UGA]
            t   == egSetTextMode(c)
            g   == egDetermineScreenSize(t)
            U   == IF Exceeds(g.eg, UGA) THEN g.eg ELSE UGA
            r   == IF Exceeds(U, req) THEN U ELSE req
            v   == [g EXCEPT !.UGA = U, !.req = r]
            u   == IF t.textMode = d.textMode THEN t ELSE v
            s   == egDetermineScreenSize(egSetScreenSize(u, u.req))
            z   == [s EXCEPT !.UGA = s.eg]
<1>1. SetupResolution(d) = IF u.req[1] = 0 THEN u ELSE z
  BY DEF SetupResolution
<1>2. req \in Size /\ UGA \in Size
  <2>1. d.req \in Size /\ d.UGA \in Size
    BY DEF Ready, Typed
  <2>2. req \in Size
    BY <2>1, ResolutionFacts DEF Size
  <2>. HIDE DEF req
  <2>. QED BY <2>1, <2>2 DEF Size, Least
<1>3. req[1] = 0 => UGA = d.UGA /\ req = d.req
  <2>1. d.req \in Size
    BY DEF Ready, Typed
  <2>2. d.req[1] > 0 => req[1] > 0
    BY <2>1, ResolutionFacts
  <2>3. ~(d.req[1] > 0) => req = d.req
    OBVIOUS
  <2>. HIDE DEF req
  <2>. QED BY <2>2, <2>3
<1>. HIDE DEF req, UGA
<1>4. /\ Typed(c) /\ c.req = req /\ c.UGA = UGA /\ c.gop = d.gop /\ c.eg = d.eg
      /\ c.allow = d.allow /\ c.cfg = d.cfg /\ c.textMode = d.textMode
  BY <1>2 DEF Ready, Typed, IsDisplay, Fields
<1>. HIDE DEF c
<1>5. /\ Typed(t) /\ t.eg = d.eg /\ t.UGA = UGA /\ t.req = req
      /\ t.allow = d.allow /\ t.cfg = d.cfg
      /\ t.textMode # d.textMode => t.gop[1] > 0
  BY <1>4, TextModeFacts
<1>. HIDE DEF t
<1>6. /\ Typed(g) /\ g.gop = t.gop /\ g.req = req /\ g.allow = d.allow /\ g.cfg = d.cfg
      /\ g.allow => g.eg = g.gop
  BY <1>5, DetermineFacts
<1>. HIDE DEF g
<1>7. U \in Size /\ r \in Size
  BY <1>2, <1>6 DEF Typed
<1>8. ASSUME t.textMode # d.textMode, d.allow
      PROVE  r[1] # 0
  <2>1. g.eg \in Size /\ g.eg[1] > 0
    BY <1>5, <1>6, <1>8 DEF Typed
  <2>2. U[1] > 0
    BY <1>2, <2>1 DEF Exceeds, Size
  <2>. HIDE DEF U
  <2>3. U[1] > req[1] => r = U
    BY DEF Exceeds
  <2>. QED BY <1>2, <1>7, <2>2, <2>3 DEF Size
<1>. HIDE DEF U, r
<1>9. Typed(v) /\ v.req = r /\ v.allow = d.allow /\ v.cfg = d.cfg
  BY <1>6, <1>7 DEF Typed, IsDisplay, Fields
<1>10. Typed(u) /\ u.allow = d.allow /\ u.cfg = d.cfg
  BY <1>5, <1>9
<1>11. ASSUME u.req[1] = 0
       PROVE  Ready(u) /\ Agreed(u)
  <2>1. d.allow => t.textMode = d.textMode
    BY <1>8, <1>9, <1>11
  <2>2. d.allow => u.UGA = u.eg
    BY <1>3, <1>5, <1>11, <2>1 DEF Ready
  <2>3. ~(u.req[1] > 0)
    BY <1>11
  <2>. HIDE DEF u
  <2>. QED BY <1>10, <2>2, <2>3 DEF Ready, Agreed
<1>. HIDE DEF u
<1>12. /\ Typed(s) /\ s.allow = d.allow /\ s.cfg = d.cfg
       /\ s.allow => s.eg = s.gop
  <2>. DEFINE q == egSetScreenSize(u, u.req)
  <2>1. Typed(q) /\ q.allow = d.allow /\ q.cfg = d.cfg
    BY <1>10, ScreenSizeFacts
  <2>. HIDE DEF q
  <2>2. LET e == egDetermineScreenSize(q)
        IN  Typed(e) /\ e.allow = q.allow /\ e.cfg = q.cfg /\ (e.allow => e.eg = e.gop)
    BY <2>1, DetermineFacts
  <2>. QED BY <2>1, <2>2 DEF q
<1>. HIDE DEF s
<1>13. Ready(z) /\ Agreed(z) /\ z.allow = d.allow /\ z.cfg = d.cfg
  BY <1>12 DEF Ready, Agreed, Typed, IsDisplay, Fields
<1>. HIDE DEF z
<1>14. LET e == IF u.req[1] = 0 THEN u ELSE z
       IN  Ready(e) /\ Agreed(e) /\ e.cfg = d.cfg /\ e.allow = d.allow
  BY <1>10, <1>11, <1>13
<1>. QED BY <1>1, <1>14

\* The session shows menus on graphics exactly if it may.
Decided(d) == d.allow = (d.cfg.graphics /\ ~d.cfg.textOnly)

LEMMA SetupScreenFacts ==
  ASSUME NEW d, Ready(d)
  PROVE  LET e == SetupScreen(d)
         IN  Ready(e) /\ Agreed(e) /\ Decided(e) /\ e.cfg = d.cfg
<1>. DEFINE s == SetupResolution(d)
            n == [s EXCEPT !.allow = FALSE]
            t == SwitchToText(n)
            g == SwitchToGraphics(s)
            b == BltClearScreen(g, TRUE)
<1>1. Ready(s) /\ Agreed(s) /\ s.cfg = d.cfg /\ s.allow = d.allow
  BY SetupResolutionFacts
<1>2. SetupScreen(d) = IF d.cfg.textOnly THEN t ELSE IF s.allow THEN b ELSE s
  BY DEF SetupScreen
<1>. HIDE DEF s
<1>3. CASE d.cfg.textOnly
  <2>1. Ready(n) /\ Agreed(n) /\ n.cfg = d.cfg /\ n.allow = FALSE
    BY <1>1, <1>3 DEF Ready, Agreed, Typed, IsDisplay, Fields
  <2>. HIDE DEF n
  <2>2. Switches(n, t, "text")
    BY <2>1, SwitchToTextSwitches DEF Ready, Typed
  <2>3. Ready(t) /\ Agreed(t)
    BY <2>1, <2>2, SwitchingKeeps
  <2>. QED BY <1>2, <1>3, <2>1, <2>2, <2>3 DEF Decided, Switches
<1>4. CASE ~d.cfg.textOnly /\ s.allow
  <2>1. Switches(s, g, "graphics")
    BY <1>1, <1>4, SwitchToGraphicsSwitches DEF Ready, Typed
  <2>2. Ready(g) /\ Agreed(g)
    BY <1>1, <2>1, SwitchingKeeps
  <2>. HIDE DEF g
  <2>3. OnlyDraws(g, b)
    BY <2>2, ClearedDraws DEF Ready, Typed
  <2>. HIDE DEF b
  <2>4. Ready(b) /\ Agreed(b)
    BY <2>2, <2>3, DrawingKeeps
  <2>5. b.allow = s.allow /\ b.cfg = d.cfg
    BY <1>1, <2>1, <2>3 DEF Switches, OnlyDraws
  <2>. QED BY <1>2, <1>4, <2>4, <2>5 DEF Decided, Ready, Typed
<1>5. CASE ~d.cfg.textOnly /\ ~s.allow
  BY <1>1, <1>2, <1>5 DEF Decided, Ready, Typed
<1>. QED BY <1>3, <1>4, <1>5

LEMMA InitScreenFacts ==
  ASSUME NEW cfg \in Configs
  PROVE  Ready(InitScreen(PowerOn(cfg))) /\ InitScreen(PowerOn(cfg)).cfg = cfg
<1>. DEFINE d == PowerOn(cfg)
            e == egDetermineScreenSize(d)
            a == [e EXCEPT !.UGA = e.eg, !.allow = TRUE]
            n == [e EXCEPT !.allow = FALSE]
            t == egSetTextMode(n)
            x == egSetGraphicsModeEnabled(t, FALSE)
            g == IF cfg.graphics THEN a ELSE x
            y == [g EXCEPT !.dirty = TRUE]
<1>1. /\ IsDisplay(d) /\ d.cfg = cfg /\ d.gop = cfg.firmware /\ d.eg = <<0, 0>> /\ d.UGA = <<0, 0>>
      /\ d.req = cfg.requested /\ d.console = cfg.console /\ d.unread = FALSE
  BY DEF IsDisplay, Fields, PowerOn
<1>. HIDE DEF d
<1>2. /\ IsDisplay(e) /\ e.cfg = cfg /\ e.gop \in Size /\ e.eg \in Size /\ e.UGA \in Size
      /\ e.req \in Size /\ e.console = cfg.console /\ e.unread = FALSE
  BY <1>1, ConfigsAssumption DEF IsDisplay, Fields, Size, egDetermineScreenSize
<1>. HIDE DEF e
<1>3. cfg.graphics => Ready(a) /\ a.cfg = cfg
  BY <1>2, ConfigsAssumption DEF IsDisplay, Fields, Ready, Typed
<1>4. ~cfg.graphics => Typed(n) /\ n.allow = FALSE /\ n.cfg = cfg
  BY <1>2, ConfigsAssumption DEF IsDisplay, Fields, Typed
<1>. HIDE DEF n
<1>5. ~cfg.graphics => Typed(t) /\ t.allow = FALSE /\ t.cfg = cfg
  BY <1>4, TextModeFacts
<1>. HIDE DEF t
<1>6. ~cfg.graphics => Ready(x) /\ x.cfg = cfg
  <2>1. SUFFICES ASSUME ~cfg.graphics PROVE Ready(x) /\ x.cfg = cfg
    OBVIOUS
  <2>2. Switches(t, x, "text")
    BY <1>5, <2>1, SwitchToTextSwitches DEF SwitchToText, Typed
  <2>. QED BY <1>5, <2>1, <2>2, SwitchingKeeps DEF Switches, Ready
<1>. HIDE DEF a, x
<1>7. Ready(g) /\ g.cfg = cfg
  BY <1>3, <1>6
<1>8. InitScreen(d) = IF cfg.textOnly THEN DrawScreenHeader(y) ELSE y
  BY <1>1 DEF InitScreen, e, a, n, t, x
<1>. HIDE DEF g
<1>9. Ready(y) /\ y.cfg = cfg
  BY <1>7 DEF IsDisplay, Fields, Ready, Typed
<1>. HIDE DEF y
<1>10. OnlyDraws(y, DrawScreenHeader(y))
  BY <1>9, HeaderDraws DEF Ready, Typed
<1>11. Ready(DrawScreenHeader(y)) /\ DrawScreenHeader(y).cfg = cfg
  BY <1>9, <1>10, DrawingKeeps DEF OnlyDraws
<1>. QED BY <1>8, <1>9, <1>11 DEF d

-----------------------------------------------------------------------------
(* The session.                                                            *)

Good(d) == Ready(d) /\ Decided(d)

\* A menu is open on the kind of screen of its style.
MenuScreen ==
  pc \in {"init", "paint", "read"} =>
    /\ screen \in Screens
    /\ scr.allow <=> screen.style # "text"
    /\ ~scr.spoiled => scr.console = (IF scr.cfg.console = "none" THEN "none"
                                     ELSE IF screen.style = "text" THEN "text" ELSE "graphics")

DisplayInv == Good(scr) /\ (pc # "program" => Agreed(scr)) /\ MenuScreen

LEMMA DrawingIsGood ==
  ASSUME NEW d, NEW e, OnlyDraws(d, e), Good(d)
  PROVE  Good(e) /\ (Agreed(d) => Agreed(e))
BY DrawingKeeps DEF Good, Decided, OnlyDraws

LEMMA SwitchingIsGood ==
  ASSUME NEW d, NEW e, NEW console, Switches(d, e, console), console # "none" \/ d.console = "none",
         Good(d)
  PROVE  Good(e) /\ (Agreed(d) => Agreed(e))
BY SwitchingKeeps DEF Good, Decided, Switches

LEMMA GoodIsDisplay ==
  ASSUME NEW d, Good(d)
  PROVE  IsDisplay(d)
BY DEF Good, Ready, Typed

\* The flags that only steer later screens.
LEMMA FlagsAreGood ==
  ASSUME NEW d, Good(d), NEW v
  PROVE  /\ LET e == [d EXCEPT !.dirty = v] IN Good(e) /\ (Agreed(d) => Agreed(e))
         /\ LET e == [d EXCEPT !.spoiled = v] IN Good(e) /\ (Agreed(d) => Agreed(e))
         /\ LET e == [d EXCEPT !.haveError = v] IN Good(e) /\ (Agreed(d) => Agreed(e))
BY DEF Good, Ready, Typed, Decided, Agreed, IsDisplay, Fields

LEMMA ToGraphicsIsGood ==
  ASSUME NEW d, Good(d)
  PROVE  Good(SwitchToGraphics(d)) /\ (Agreed(d) => Agreed(SwitchToGraphics(d)))
<1>1. Switches(d, SwitchToGraphics(d), IF d.allow THEN "graphics" ELSE d.console)
  BY SwitchToGraphicsSwitches, GoodIsDisplay
<1>2. CASE d.allow
  BY <1>1, <1>2, SwitchingIsGood
<1>3. CASE ~d.allow
  <2>1. Switches(d, SwitchToGraphics(d), d.console)
    BY <1>1, <1>3
  <2>. QED BY <2>1, SwitchingIsGood
<1>. QED BY <1>2, <1>3

LEMMA ToTextIsGood ==
  ASSUME NEW d, Good(d)
  PROVE  Good(SwitchToText(d)) /\ (Agreed(d) => Agreed(SwitchToText(d)))
BY SwitchToTextSwitches, SwitchingIsGood, GoodIsDisplay

\* The functions of a style.
LEMMA InitStyleFacts ==
  ASSUME NEW d, Good(d), NEW s \in Screens, d.allow <=> s.style # "text"
  PROVE  LET e == InitStyle(d, s)
         IN  /\ Good(e) /\ (Agreed(d) => Agreed(e)) /\ e.allow = d.allow /\ e.cfg = d.cfg
             /\ e.console = (IF d.cfg.console = "none" THEN "none"
                             ELSE IF s.style = "text" THEN "text" ELSE "graphics")
<1>1. s.style \in {"text", "icons", "graphics"} /\ s.InfoLineCount \in Nat
  BY ScreensAssumption DEF M!ScreenType
<1>2. d.console = "none" <=> d.cfg.console = "none"
  BY DEF Good, Ready, Typed
<1>3. CASE s.style = "text"
  <2>. DEFINE h == DrawScreenHeader(d)
              t == SwitchToText(h)
              n == [t EXCEPT !.haveError = FALSE]
              q == Printed(n)
  <2>1. OnlyDraws(d, h)
    BY HeaderDraws, GoodIsDisplay
  <2>. HIDE DEF h
  <2>2. Good(h) /\ (Agreed(d) => Agreed(h))
    BY <2>1, DrawingIsGood
  <2>3. Switches(h, t, "text")
    BY <2>2, SwitchToTextSwitches, GoodIsDisplay
  <2>. HIDE DEF t
  <2>4. Good(t) /\ (Agreed(d) => Agreed(t))
    BY <2>2, <2>3, SwitchingIsGood
  <2>5. Good(n) /\ (Agreed(d) => Agreed(n))
    BY <2>4, FlagsAreGood
  <2>6. n.console = t.console /\ n.allow = t.allow /\ n.cfg = t.cfg
    BY <2>4 DEF Good, Ready, Typed, IsDisplay, Fields
  <2>. HIDE DEF n
  <2>7. OnlyDraws(n, q)
    BY <2>5, PrintedDraws, GoodIsDisplay
  <2>8. Good(q) /\ (Agreed(d) => Agreed(q))
    BY <2>5, <2>7, DrawingIsGood
  <2>9. q.console = (IF d.cfg.console = "none" THEN "none" ELSE "text")
        /\ q.allow = d.allow /\ q.cfg = d.cfg
    BY <1>2, <2>1, <2>3, <2>6, <2>7 DEF OnlyDraws, Switches
  <2>10. InitStyle(d, s) = q
    BY <1>3 DEF InitStyle, BeginTextScreen, n, t, h
  <2>. HIDE DEF q
  <2>. QED BY <1>3, <2>8, <2>9, <2>10
<1>4. CASE s.style # "text"
  <2>. DEFINE e == InitStyle(d, s)
  <2>1. Switches(d, e, "graphics")
    <3>1. CASE s.style = "icons"
      BY <1>4, <3>1, GraphicsAndClearSwitches, GoodIsDisplay DEF InitStyle
    <3>2. CASE s.style = "graphics"
      BY <1>1, <1>4, <3>2, WindowSwitches, GoodIsDisplay DEF InitStyle
    <3>. QED BY <1>1, <1>4, <3>1, <3>2
  <2>. HIDE DEF e
  <2>2. Good(e) /\ (Agreed(d) => Agreed(e))
    BY <2>1, SwitchingIsGood
  <2>3. e.console = (IF d.cfg.console = "none" THEN "none" ELSE "graphics")
        /\ e.allow = d.allow /\ e.cfg = d.cfg
    BY <1>2, <2>1 DEF Switches
  <2>. QED BY <1>4, <2>2, <2>3 DEF e
<1>. QED BY <1>3, <1>4

LEMMA PaintingDraws ==
  ASSUME NEW d, IsDisplay(d), NEW s \in Screens, NEW r, NEW text
  PROVE  /\ OnlyDraws(d, PaintAllStyle(d, s, r))
         /\ OnlyDraws(d, PaintSelectionStyle(d, s, r))
         /\ OnlyDraws(d, PaintTimeout(d, s, text))
<1>1. s.style \in {"text", "icons", "graphics"} /\ M!Count(s) \in Nat
  BY ScreensAssumption DEF M!ScreenType, M!Count
<1>2. CASE s.style = "text"
  BY <1>2, PrintedDraws DEF PaintAllStyle, PaintSelectionStyle, PaintTimeout
<1>3. CASE s.style = "icons"
  BY <1>1, <1>3, AllIconsDraw, SelectionDraws, LabelDraws
     DEF PaintAllStyle, PaintSelectionStyle, PaintTimeout
<1>4. CASE s.style = "graphics"
  BY <1>1, <1>4, AllWindowDraws, SelectionDraws, DrawsSame
     DEF PaintAllStyle, PaintSelectionStyle, PaintTimeout
<1>. QED BY <1>1, <1>2, <1>3, <1>4

LEMMA CountdownDraws ==
  ASSUME NEW d, IsDisplay(d), NEW s \in Screens, NEW t
  PROVE  OnlyDraws(d, Countdown(d, s, t))
BY PaintingDraws, DrawsSame DEF Countdown

LEMMA InitDisplay == Init => DisplayInv
<1>. SUFFICES ASSUME Init PROVE DisplayInv
  OBVIOUS
<1>1. PICK cfg \in Configs : scr = SetupScreen(WarnIfLegacyProblems(InitScreen(PowerOn(cfg))))
  BY DEF Init
<1>. DEFINE d == InitScreen(PowerOn(cfg))
            w == WarnIfLegacyProblems(d)
<1>2. Ready(d)
  BY InitScreenFacts
<1>. HIDE DEF d
<1>3. Ready(w)
  <2>. DEFINE p1 == Printed(d)
              p2 == [p1 EXCEPT !.unread = TRUE]
              p3 == Printed(p2)
              p4 == [p3 EXCEPT !.unread = FALSE]
  <2>1. OnlyDraws(d, p1)
    BY <1>2, PrintedDraws DEF Ready, Typed
  <2>2. Ready(p1)
    BY <1>2, <2>1, DrawingKeeps
  <2>. HIDE DEF p1
  <2>3. IsDisplay(p2)
    BY <2>2 DEF Ready, Typed, IsDisplay
  <2>4. OnlyDraws(p2, p3)
    <3>. HIDE DEF p2
    <3>. QED BY <2>3, PrintedDraws
  <2>. HIDE DEF p3
  <2>5. Ready(p4)
    BY <2>2, <2>4 DEF OnlyDraws, Ready, Typed, IsDisplay, Fields
  <2>6. w = IF d.cfg.lacksLegacy THEN p4 ELSE d
    BY DEF WarnIfLegacyProblems, PauseForKey, p1, p3
  <2>. HIDE DEF p4, w
  <2>. QED BY <1>2, <2>5, <2>6
<1>. HIDE DEF w
<1>4. Good(scr) /\ Agreed(scr)
  BY <1>1, <1>3, SetupScreenFacts DEF Good, w, d
<1>. QED BY <1>4 DEF Init, DisplayInv, MenuScreen

\* What the loop of the menu draws, whatever key it was.
LEMMA DrawnStep ==
  ASSUME DisplayInv, OnlyDraws(scr, scr'), pc \in {"init", "paint", "read"},
         pc' \in {"paint", "read", "done"}, screen' = screen
  PROVE  DisplayInv'
<1>1. Good(scr') /\ Agreed(scr')
  BY DrawingIsGood DEF DisplayInv
<1>2. scr'.allow = scr.allow /\ scr'.spoiled = scr.spoiled /\ scr'.console = scr.console
      /\ scr'.cfg = scr.cfg
  BY DEF OnlyDraws
<1>. QED BY <1>1, <1>2 DEF DisplayInv, MenuScreen

LEMMA DisplayStep == DisplayInv /\ [Next]_vars => DisplayInv'
<1>. SUFFICES ASSUME DisplayInv, [Next]_vars PROVE DisplayInv'
  OBVIOUS
<1>1. IsDisplay(scr) /\ Good(scr)
  BY GoodIsDisplay DEF DisplayInv
<1>2. OnlyDraws(scr, scr)
  BY <1>1, DrawsSame
<1>3. ASSUME NEW s \in Screens, OpenMenu(s) PROVE DisplayInv'
  <2>1. Agreed(scr) /\ (scr.allow <=> s.style # "text")
    BY <1>1, <1>3 DEF OpenMenu, Usable, DisplayInv, Good, Ready, Typed
  <2>. DEFINE e == InitStyle(scr, s)
              v == e.spoiled /\ ~scr.dirty
  <2>2. /\ Good(e) /\ Agreed(e) /\ e.allow = scr.allow /\ e.cfg = scr.cfg
        /\ e.console = (IF scr.cfg.console = "none" THEN "none"
                        ELSE IF s.style = "text" THEN "text" ELSE "graphics")
    BY <1>1, <2>1, InitStyleFacts
  <2>3. pc' = "init" /\ screen' = s /\ scr' = [e EXCEPT !.spoiled = v]
    BY <1>3 DEF OpenMenu
  <2>. HIDE DEF e, v
  <2>4. Good(scr') /\ Agreed(scr')
    BY <2>2, <2>3, FlagsAreGood
  <2>5. scr'.allow = e.allow /\ scr'.console = e.console /\ scr'.cfg = e.cfg
    BY <2>2, <2>3 DEF Good, Ready, Typed, IsDisplay, Fields
  <2>. QED BY <2>1, <2>2, <2>3, <2>4, <2>5 DEF DisplayInv, MenuScreen
<1>4. CASE Begin
  BY <1>2, <1>4, DrawnStep DEF Begin, M!Begin
<1>5. ASSUME pc = "paint", NEW e, OnlyDraws(scr, e), scr' = Countdown(e, screen, timeout),
             pc' = "read", screen' = screen
      PROVE  DisplayInv'
  <2>1. screen \in Screens
    BY <1>5 DEF DisplayInv, MenuScreen
  <2>2. OnlyDraws(e, scr')
    BY <1>5, <2>1, CountdownDraws, DrawsIsDisplay
  <2>3. OnlyDraws(scr, scr')
    BY <1>5, <2>2, DrawsTwice
  <2>. QED BY <1>5, <2>3, DrawnStep
<1>6. CASE PaintAll
  <2>1. pc = "paint" /\ pc' = "read" /\ screen' = screen
    BY <1>6 DEF PaintAll, M!PaintAll
  <2>2. screen \in Screens
    BY <2>1 DEF DisplayInv, MenuScreen
  <2>. DEFINE e == PaintAllStyle(scr, screen, M!PaintAllState(screen, st))
  <2>3. OnlyDraws(scr, e)
    BY <1>1, <2>2, PaintingDraws
  <2>4. scr' = Countdown(e, screen, timeout)
    BY <1>6 DEF PaintAll
  <2>. HIDE DEF e
  <2>. QED BY <1>5, <2>1, <2>3, <2>4
<1>7. CASE PaintSelection
  <2>1. pc = "paint" /\ pc' = "read" /\ screen' = screen
    BY <1>7 DEF PaintSelection, M!PaintSelection
  <2>2. screen \in Screens
    BY <2>1 DEF DisplayInv, MenuScreen
  <2>. DEFINE e == IF M!NeedsFullPaint(screen, st)
                   THEN PaintAllStyle(scr, screen, M!PaintAllState(screen, st))
                   ELSE PaintSelectionStyle(scr, screen, st)
  <2>3. OnlyDraws(scr, e)
    BY <1>1, <2>2, PaintingDraws
  <2>4. scr' = Countdown(e, screen, timeout)
    BY <1>7 DEF PaintSelection
  <2>. HIDE DEF e
  <2>. QED BY <1>5, <2>1, <2>3, <2>4
<1>8. CASE PaintNothing
  BY <1>2, <1>5, <1>8 DEF PaintNothing, M!PaintNothing
<1>9. CASE Wait
  BY <1>2, <1>9, DrawnStep DEF Wait, M!Wait, M!Tick, M!Expire, M!Leave
<1>10. pc = "read" => OnlyDraws(scr, Cancelled)
  <2>1. SUFFICES ASSUME pc = "read" PROVE OnlyDraws(scr, Cancelled)
    OBVIOUS
  <2>2. screen \in Screens
    BY <2>1 DEF DisplayInv, MenuScreen
  <2>. QED BY <1>1, <1>2, <2>2, PaintingDraws DEF Cancelled
<1>11. ASSUME NEW m \in M!Movements \ {"NONE"}, KeyMove(m) PROVE DisplayInv'
  BY <1>10, <1>11, DrawnStep DEF KeyMove, M!KeyMove
<1>12. CASE KeyIgnored
  BY <1>10, <1>12, DrawnStep DEF KeyIgnored, M!KeyIgnored
<1>13. ASSUME NEW code, KeyExit(code) PROVE DisplayInv'
  BY <1>10, <1>13, DrawnStep DEF KeyExit, M!KeyExit, M!Leave
<1>14. CASE ScreenShotFails
  <2>1. pc = "read" /\ pc' = "paint" /\ screen' = screen
    BY <1>14 DEF ScreenShotFails, M!KeyIgnored
  <2>. DEFINE p == Printed(Cancelled)
              g == SwitchToText(p)
  <2>2. Good(Cancelled) /\ Agreed(Cancelled)
    BY <1>10, <2>1, DrawingIsGood DEF DisplayInv
  <2>3. OnlyDraws(Cancelled, p)
    BY <2>2, PrintedDraws, GoodIsDisplay
  <2>4. Good(p) /\ Agreed(p)
    BY <2>2, <2>3, DrawingIsGood
  <2>5. OnlyDraws(scr, p)
    BY <1>10, <2>1, <2>3, DrawsTwice
  <2>. HIDE DEF p
  <2>6. Good(g) /\ Agreed(g) /\ Switches(p, g, "text")
    BY <2>4, ToTextIsGood, SwitchToTextSwitches, GoodIsDisplay
  <2>7. scr' = [g EXCEPT !.spoiled = TRUE]
    BY <1>14 DEF ScreenShotFails, SwitchToText, p
  <2>. HIDE DEF g
  <2>8. Good(scr') /\ Agreed(scr')
    BY <2>6, <2>7, FlagsAreGood
  <2>9. scr'.spoiled = TRUE /\ scr'.allow = scr.allow
    BY <2>5, <2>6, <2>7 DEF OnlyDraws, Switches, IsDisplay, Fields
  <2>. QED BY <2>1, <2>8, <2>9 DEF DisplayInv, MenuScreen
<1>15. ASSUME Good(scr'), Agreed(scr'), pc' \in {"done", "rescan"} PROVE DisplayInv'
  BY <1>15 DEF DisplayInv, MenuScreen
<1>16. CASE EditOptions
  <2>. DEFINE a == IF scr.cfg.textOnly THEN scr ELSE SwitchToText(scr)
              e == DrawScreenHeader(a)
  <2>1. Agreed(scr) /\ pc' = "done" /\ scr' = IF scr.cfg.textOnly THEN e ELSE SwitchToGraphics(e)
    BY <1>16 DEF EditOptions, NoMenu, DisplayInv
  <2>2. Good(a) /\ Agreed(a)
    BY <1>1, <2>1, ToTextIsGood
  <2>. HIDE DEF a
  <2>3. Good(e) /\ Agreed(e)
    BY <2>2, HeaderDraws, DrawingIsGood, GoodIsDisplay
  <2>. HIDE DEF e
  <2>4. Good(scr') /\ Agreed(scr')
    BY <2>1, <2>3, ToGraphicsIsGood
  <2>. QED BY <1>15, <2>1, <2>4
<1>17. ASSUME NEW useGraphics \in BOOLEAN, StartProgram(useGraphics) PROVE DisplayInv'
  <2>1. pc' = "program" /\ scr' = BeginExternalScreen(scr, useGraphics)
    BY <1>17 DEF StartProgram, NoMenu
  <2>. DEFINE g == SwitchToGraphics(scr)
              b == BltClearScreen(g, FALSE)
              c == egClearScreen(scr, "black")
              h == DrawScreenHeader(c)
              t == SwitchToText(h)
              e == IF useGraphics /\ scr.allow THEN b ELSE t
  <2>2. Good(b)
    <3>1. Good(g)
      BY <1>1, ToGraphicsIsGood
    <3>. HIDE DEF g
    <3>. QED BY <3>1, ClearedDraws, DrawingIsGood, GoodIsDisplay
  <2>3. Good(t)
    <3>1. Good(c)
      BY <1>1, ClearDraws, DrawingIsGood
    <3>. HIDE DEF c
    <3>2. Good(h)
      BY <3>1, HeaderDraws, DrawingIsGood, GoodIsDisplay
    <3>. HIDE DEF h
    <3>. QED BY <3>2, ToTextIsGood
  <2>4. scr' = [e EXCEPT !.haveError = FALSE]
    BY <2>1 DEF BeginExternalScreen
  <2>5. Good(e)
    BY <2>2, <2>3
  <2>. HIDE DEF e
  <2>6. Good(scr')
    BY <2>4, <2>5, FlagsAreGood
  <2>. QED BY <2>1, <2>6 DEF DisplayInv, MenuScreen
<1>18. ASSUME NEW i \in DOMAIN Modes, ProgramDraws(Modes[i]) PROVE DisplayInv'
  <2>1. pc = "program" /\ pc' = pc
    BY <1>18 DEF ProgramDraws, menuVars
  <2>. DEFINE mode == Modes[i]
              u == SetVideoMode(scr, mode)
  <2>2. mode \in Size
    BY ModesAssumption DEF Size
  <2>3. PICK v : scr' = [u EXCEPT !.video = v]
    BY <1>18 DEF ProgramDraws
  <2>. HIDE DEF mode
  <2>4. /\ DOMAIN scr' = DOMAIN scr /\ scr'.gop = mode /\ scr'.eg = scr.eg /\ scr'.UGA = scr.UGA
        /\ scr'.req = scr.req /\ scr'.allow = scr.allow /\ scr'.cfg = scr.cfg
        /\ scr'.console = scr.console /\ scr'.unread = scr.unread
    BY <1>1, <2>3 DEF IsDisplay, Fields, SetVideoMode
  <2>5. Good(scr')
    BY <1>1, <2>2, <2>4 DEF Good, Ready, Typed, Decided, IsDisplay
  <2>. QED BY <2>1, <2>5 DEF DisplayInv, MenuScreen
<1>19. ASSUME NEW failed \in BOOLEAN, ProgramEnds(failed) PROVE DisplayInv'
  <2>. DEFINE p == Printed(scr)
              c == [p EXCEPT !.haveError = TRUE, !.unread = TRUE]
              a == IF failed THEN CheckError(scr) ELSE scr
              e == [a EXCEPT !.dirty = TRUE]
              k == PauseForKey(SwitchToText(e))
              x == IF e.haveError THEN k ELSE e
              s == SetupScreen(x)
              d == [s EXCEPT !.haveError = FALSE]
              v == d.eg # scr.eg
  <2>1. pc' = "done" /\ scr' = [d EXCEPT !.spoiled = v]
    BY <1>19 DEF ProgramEnds, NoMenu, FinishExternalScreen
  <2>2. \* Ready, but for an error that is not read yet
        /\ IsDisplay(a) /\ Ready([a EXCEPT !.unread = FALSE]) /\ (a.haveError \/ ~a.unread)
    <3>1. CASE ~failed
      BY <1>1, <3>1 DEF Good, Ready, Typed, IsDisplay, Fields
    <3>2. CASE failed
      <4>1. OnlyDraws(scr, p)
        BY <1>1, PrintedDraws
      <4>2. Good(p)
        BY <1>1, <4>1, DrawingIsGood
      <4>3. a = c
        BY <3>2 DEF CheckError
      <4>. HIDE DEF p, a
      <4>. QED BY <4>2, <4>3 DEF Good, Ready, Typed, IsDisplay, Fields
    <3>. QED BY <3>1, <3>2
  <2>. HIDE DEF a
  <2>3. /\ IsDisplay(e) /\ Ready([e EXCEPT !.unread = FALSE]) /\ (e.haveError \/ ~e.unread)
    BY <2>2 DEF Ready, Typed, IsDisplay, Fields
  <2>. HIDE DEF e
  <2>4. Ready(k)
    <3>. DEFINE t == SwitchToText(e)
                q == Printed(t)
    <3>1. Switches(e, t, "text")
      BY <2>3, SwitchToTextSwitches
    <3>. HIDE DEF t
    <3>2. OnlyDraws(t, q)
      BY <3>1, PrintedDraws DEF Switches
    <3>3. k = [q EXCEPT !.unread = FALSE]
      BY DEF PauseForKey, t
    <3>. HIDE DEF q, k
    <3>. QED BY <2>3, <3>1, <3>2, <3>3 DEF Switches, OnlyDraws, Ready, Typed, IsDisplay, Fields
  <2>. HIDE DEF k
  <2>5. Ready(x)
    BY <2>3, <2>4 DEF Ready, Typed, IsDisplay, Fields
  <2>. HIDE DEF x
  <2>6. Good(s) /\ Agreed(s)
    BY <2>5, SetupScreenFacts DEF Good
  <2>. HIDE DEF s
  <2>7. Good(d) /\ Agreed(d)
    BY <2>6, FlagsAreGood
  <2>. HIDE DEF d, v
  <2>8. Good(scr') /\ Agreed(scr')
    BY <2>1, <2>7, FlagsAreGood
  <2>. QED BY <1>15, <2>1, <2>8
<1>20. CASE Rescan
  <2>1. Agreed(scr) /\ pc' = "rescan"
    BY <1>20 DEF Rescan, NoMenu, DisplayInv
  <2>2. OnlyDraws(scr, scr')
    BY <1>1, <1>20, MessageDraws DEF Rescan
  <2>. QED BY <1>1, <1>15, <2>1, <2>2, DrawingIsGood
<1>21. CASE Rescanned
  <2>1. Good(scr') /\ Agreed(scr') /\ pc' = "done"
    BY <1>1, <1>21, SetupScreenFacts DEF Rescanned, NoMenu, Good
  <2>. QED BY <1>15, <2>1
<1>22. CASE UNCHANGED vars
  BY <1>22 DEF vars, menuVars, DisplayInv, MenuScreen
<1>. QED
  BY <1>3, <1>4, <1>6, <1>7, <1>8, <1>9, <1>11, <1>12, <1>13, <1>14, <1>16, <1>17, <1>18, <1>19,
     <1>20, <1>21, <1>22 DEF Next

(* A menu is never painted on the screen that is not shown, nor for a size *)
(* the screen does not have, whatever the modes of the hardware and the    *)
(* programs that set them (refind/screen.c:94-173, 220-253).               *)
THEOREM ScreenAlwaysAgrees == Spec => []ScreenAgrees
<1>1. DisplayInv => ScreenAgrees
  BY DEF DisplayInv, MenuScreen, Good, Ready, Agreed, ScreenAgrees
<1>. QED BY InitDisplay, DisplayStep, <1>1, PTL DEF Spec

(* No menu wipes away the message of a program that could not be started   *)
(* before it was read.                                                     *)
THEOREM ErrorsAlwaysRead == Spec => []ErrorsAreRead
<1>1. DisplayInv => ErrorsAreRead
  BY DEF DisplayInv, Good, Ready, Typed, ErrorsAreRead
<1>. QED BY InitDisplay, DisplayStep, <1>1, PTL DEF Spec
=============================================================================
