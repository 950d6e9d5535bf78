------------------------------- MODULE Screen -------------------------------
(***************************************************************************)
(* The display under the menus: images and their composition (libeg/       *)
(* image.c), text (libeg/text.c), video modes and drawing (libeg/screen.c),*)
(* and the screen changes around menus, tools and programs (refind/        *)
(* screen.c). The state of the display is one record, d: see Display.      *)
(*                                                                         *)
(* A pixel is the sequence of strokes made on it. A stroke of Paints covers*)
(* what is under it, any other (a glyph, a translucent bar) lets it show   *)
(* through; << >> is transparent. Memory is never exhausted.               *)
(***************************************************************************)
EXTENDS Integers, Sequences, FiniteSets

CONSTANTS
  Paints,         \* the opaque strokes
  Modes,          \* the resolutions the video hardware has, in order
  TextModes,      \* text mode -> the resolution the firmware shows it in
  FontCellWidth, FontHeight, TEXT_YMARGIN,
  BadgeMargin,    \* 8 pixels from the corner of the icon
  ROW0_TILESIZE,
  None

-----------------------------------------------------------------------------
(* Images.                                                                 *)

Area(w, h) == (0 .. w - 1) \X (0 .. h - 1)

Over(top, bottom) ==
  IF top # << >> /\ top[1] \in Paints THEN top ELSE bottom \o top

\* The colours images are filled with have an alpha of 0.
egCreateFilledImage(w, h, alpha, color) ==
  [w |-> w, h |-> h, alpha |-> alpha,
   px |-> [p \in Area(w, h) |-> IF alpha THEN << >> ELSE <<color>>]]

egCropImage(image, x, y, w, h) ==
  IF x < 0 \/ y < 0 \/ x + w > image.w \/ y + h > image.h THEN None
  ELSE [w |-> w, h |-> h, alpha |-> image.alpha,
        px |-> [p \in Area(w, h) |-> image.px[p[1] + x, p[2] + y]]]

\* The part of a w x h area at (x, y) that lies on the image.
egRestrictImageArea(image, x, y, w, h) ==
  IF x >= image.w \/ y >= image.h THEN <<0, 0>>
  ELSE << IF w > image.w - x THEN image.w - x ELSE w,
          IF h > image.h - y THEN image.h - y ELSE h >>

Inside(p, x, y, w, h) == p[1] \in x .. x + w - 1 /\ p[2] \in y .. y + h - 1

egComposeImage(comp, top, x, y) ==
  LET a == egRestrictImageArea(comp, x, y, top.w, top.h)
      New(p, q) == IF top.alpha THEN Over(top.px[q], comp.px[p]) ELSE top.px[q]
  IN  [comp EXCEPT !.px = [p \in DOMAIN @ |->
         IF Inside(p, x, y, a[1], a[2]) THEN New(p, <<p[1] - x, p[2] - y>>) ELSE @[p]]]

egEnsureImageSize(image, w, h, color) ==
  IF image = None \/ (image.w = w /\ image.h = h) THEN image
  ELSE egComposeImage(egCreateFilledImage(w, h, image.alpha, color),
                      [image EXCEPT !.alpha = FALSE], 0, 0)

-----------------------------------------------------------------------------
(* Text.                                                                   *)

TextLineHeight == FontHeight + 2 * TEXT_YMARGIN
egComputeTextWidth(text) == FontCellWidth * Len(text)

\* The text is cut at the right edge of the image. A font cell is full of its
\* character, light or dark.
egRenderText(text, image, x, y) ==
  LET n == IF Len(text) * FontCellWidth + x > image.w
           THEN (image.w - x) \div FontCellWidth ELSE Len(text)
  IN  [image EXCEPT !.px = [p \in DOMAIN @ |->
         IF Inside(p, x, y, n * FontCellWidth, FontHeight)
         THEN @[p] \o <<text[1 + (p[1] - x) \div FontCellWidth]>> ELSE @[p]]]

-----------------------------------------------------------------------------
(* The video hardware and the text console.                                *)

\* The firmware refuses an area that is not on the screen.
Blt(d, image, x, y) ==
  IF x + image.w > d.gop[1] \/ y + image.h > d.gop[2] THEN d
  ELSE [d EXCEPT !.video = [p \in DOMAIN @ |->
          IF Inside(p, x, y, image.w, image.h) THEN image.px[p[1] - x, p[2] - y] ELSE @[p]]]

SetVideoMode(d, mode) ==
  [d EXCEPT !.gop = mode, !.video = [p \in Area(mode[1], mode[2]) |-> <<"black">>]]

\* Text goes over the picture, unless the two have screens of their own and
\* the graphics one is shown.
Printed(d) ==
  IF d.console = "graphics" THEN d
  ELSE [d EXCEPT !.video = [p \in DOMAIN @ |-> <<"text">>]]

egSetGraphicsModeEnabled(d, enable) ==
  IF d.console = "none" THEN d
  ELSE [d EXCEPT !.console = IF enable THEN "graphics" ELSE "text"]

\* (faulty variant: the size is determined once)
egDetermineScreenSizeOnce(d) ==
  IF d.cfg.graphics /\ d.eg = <<0, 0>> THEN [d EXCEPT !.eg = d.gop] ELSE d

egDetermineScreenSize(d) == IF d.cfg.graphics THEN [d EXCEPT !.eg = d.gop] ELSE d

egClearScreen(d, color) ==
  IF ~d.cfg.graphics THEN d
  ELSE Blt(d, egCreateFilledImage(d.eg[1], d.eg[2], FALSE, color), 0, 0)

\* The firmware fills the copy only if it has the size of the screen or less.
egCopyScreen(d) ==
  IF ~d.cfg.graphics THEN None
  ELSE [w |-> d.eg[1], h |-> d.eg[2], alpha |-> FALSE,
        px |-> [p \in Area(d.eg[1], d.eg[2]) |->
                  IF d.eg[1] <= d.gop[1] /\ d.eg[2] <= d.gop[2] THEN d.video[p] ELSE <<"junk">>]]

\* The image shows the background through its transparent parts.
egDrawImage(d, image, x, y) ==
  IF \/ ~d.cfg.graphics \/ x < 0 \/ y < 0
     \/ x + image.w > d.eg[1] \/ y + image.h > d.eg[2] THEN d
  ELSE IF d.background = None \/ (image.w = d.eg[1] /\ image.h = d.eg[2])
  THEN Blt(d, image, x, y)
  ELSE LET below == egCropImage(d.background, x, y, image.w, image.h)
       IN  IF below = None THEN Printed(d)
           ELSE Blt(d, egComposeImage(below, image, 0, 0), x, y)

\* A message in a box at the centre.
egDisplayMessage(d, text) ==
  LET w    == IF egComputeTextWidth(text) + 14 > d.eg[1] THEN d.eg[1]
              ELSE egComputeTextWidth(text) + 14
      h    == 2 * FontHeight
      box  == egCreateFilledImage(w, h, FALSE, "blue")
  IN  egDrawImage(d, egRenderText(text, box, 7, h \div 4),
                  (d.eg[1] - w) \div 2, (d.eg[2] - h) \div 2)

-----------------------------------------------------------------------------
(* Drawing for the menus. Each call marks the screen as dirty.             *)

BltImage(d, image, x, y) == [egDrawImage(d, image, x, y) EXCEPT !.dirty = TRUE]

BltImageAlpha(d, image, x, y, color) ==
  BltImage(d, egComposeImage(egCreateFilledImage(image.w, image.h, FALSE, color), image, 0, 0),
           x, y)

Least(a, b) == IF a < b THEN a ELSE b

\* Icon and badge over the base: the icon at its centre, the badge at the lower
\* right corner of the icon if it is larger by more than the margin.
BltImageCompositeBadge(d, base, top, badge, x, y) ==
  LET cw == Least(top.w, base.w)
      ch == Least(top.h, base.h)
      ox == (base.w - cw) \div 2
      oy == (base.h - ch) \div 2
      on == egComposeImage(base, top, ox, oy)
      fits == badge # None /\ badge.w + BadgeMargin < cw /\ badge.h + BadgeMargin < ch
  IN  BltImage(d, IF ~fits THEN on
                  ELSE egComposeImage(on, badge, ox + cw - BadgeMargin - badge.w,
                                                 oy + ch - BadgeMargin - badge.h), x, y)

\* Nothing is drawn where the background does not reach.
egDrawImageWithTransparency(d, image, badge, x, y, w, h) ==
  LET below == egCropImage(d.background, x, y, w, h)
  IN  IF below = None THEN d ELSE BltImageCompositeBadge(d, below, image, badge, x, y)

-----------------------------------------------------------------------------
(* Changing between menus, text screens and programs.                      *)

SwitchToText(d) == egSetGraphicsModeEnabled(d, FALSE)

SwitchToGraphics(d) ==
  IF d.allow /\ d.console # "graphics"
  THEN [egSetGraphicsModeEnabled(d, TRUE) EXCEPT !.dirty = TRUE]
  ELSE d

PauseForKey(d) == [Printed(d) EXCEPT !.unread = FALSE]

CheckError(d) == [Printed(d) EXCEPT !.haveError = TRUE, !.unread = TRUE]

DrawScreenHeader(d) == Printed(egClearScreen(d, "black"))

ComputeRow0PosY(d) == d.UGA[2] \div 2 - ROW0_TILESIZE \div 2

\* Loaded once, and cut to the screen of that moment. Its first pixel becomes
\* the colour of the menus.
LoadBanner(d) ==
  LET file == d.cfg.banner
      image == IF file.w > d.UGA[1] \/ file.h > d.UGA[2]
               THEN egCropImage(file, 0, 0, Least(file.w, d.UGA[1]), Least(file.h, d.UGA[2]))
               ELSE file
  IN  IF d.banner # None THEN d
      ELSE [d EXCEPT !.banner = image, !.menuColor = image.px[0, 0][1]]

BannerPos(d) ==
  << IF d.banner.w < d.UGA[1] THEN (d.UGA[1] - d.banner.w) \div 2 ELSE 0,
     IF ComputeRow0PosY(d) \div 2 > d.banner.h THEN ComputeRow0PosY(d) \div 2 - d.banner.h ELSE 0 >>

BltClearScreen(d, showBanner) ==
  LET e == LoadBanner(d)
      b == BannerPos(e)
      cleared ==
        IF showBanner /\ "banner" \notin d.cfg.hide
        THEN BltImage([egClearScreen(e, e.menuColor) EXCEPT !.edge = b[2] + e.banner.h],
                      e.banner, b[1], b[2])
        ELSE egClearScreen(d, "grey")
  IN  [cleared EXCEPT !.dirty = FALSE, !.background = egCopyScreen(cleared)]

SwitchToGraphicsAndClear(d) ==
  LET e == SwitchToGraphics(d) IN IF e.dirty THEN BltClearScreen(e, TRUE) ELSE e

\* A height of 0 means that the width is the number of a mode.
Resolution(req) ==
  IF req[2] # 0 THEN req
  ELSE IF req[1] + 1 \in DOMAIN Modes THEN Modes[req[1] + 1] ELSE req

egSetScreenSize(d, size) ==
  IF \E i \in DOMAIN Modes : Modes[i] = size
  THEN [SetVideoMode(d, size) EXCEPT !.eg = size]
  ELSE SwitchToGraphics(PauseForKey(SwitchToText(d)))

\* Setting a text mode may change the resolution.
egSetTextMode(d) ==
  LET mode == d.cfg.textMode
  IN  IF mode = None \/ mode = d.textMode THEN d
      ELSE IF mode \in DOMAIN TextModes
      THEN [SetVideoMode(d, TextModes[mode]) EXCEPT !.textMode = mode]
      ELSE SwitchToGraphics(PauseForKey(SwitchToText(d)))

Exceeds(a, b) == a[1] > b[1] \/ a[2] > b[2]

\* The text mode first: a resolution it needs replaces a smaller request.
SetupResolution(d) ==
  LET req == IF d.req[1] > 0 THEN Resolution(d.req) ELSE d.req
      UGA == IF req[1] > 0 /\ req[2] > 0
             THEN <<Least(d.UGA[1], req[1]), Least(d.UGA[2], req[2])>> ELSE d.UGA
      t   == egSetTextMode([d EXCEPT !.req = req, !.UGA = UGA])
      u   == IF t.textMode = d.textMode THEN t
             ELSE LET g == egDetermineScreenSize(t)
                      U == IF Exceeds(g.eg, UGA) THEN g.eg ELSE UGA
                  IN  [g EXCEPT !.UGA = U, !.req = IF Exceeds(U, req) THEN U ELSE req]
  IN  IF u.req[1] = 0 THEN u
      ELSE LET s == egDetermineScreenSize(egSetScreenSize(u, u.req))
           IN  [s EXCEPT !.UGA = s.eg]

SetupScreen(d) ==
  LET s == SetupResolution(d)
  IN  IF d.cfg.textOnly THEN SwitchToText([s EXCEPT !.allow = FALSE])
      ELSE IF s.allow THEN BltClearScreen(SwitchToGraphics(s), TRUE)
      ELSE s

InitScreen(d) ==
  LET e == egDetermineScreenSize(d)
      g == IF d.cfg.graphics THEN [e EXCEPT !.UGA = e.eg, !.allow = TRUE]
           ELSE egSetGraphicsModeEnabled(egSetTextMode([e EXCEPT !.allow = FALSE]), FALSE)
  IN  IF d.cfg.textOnly THEN DrawScreenHeader([g EXCEPT !.dirty = TRUE])
      ELSE [g EXCEPT !.dirty = TRUE]

BeginTextScreen(d) == [SwitchToText(DrawScreenHeader(d)) EXCEPT !.haveError = FALSE]

BeginExternalScreen(d, useGraphics) ==
  LET e == IF useGraphics /\ d.allow THEN BltClearScreen(SwitchToGraphics(d), FALSE)
           ELSE SwitchToText(DrawScreenHeader(egClearScreen(d, "black")))
  IN  [e EXCEPT !.haveError = FALSE]

\* (faulty variant: an error is not waited for)
FinishExternalScreenBlind(d) ==
  [SetupScreen([d EXCEPT !.dirty = TRUE]) EXCEPT !.haveError = FALSE]

FinishExternalScreen(d) ==
  LET e == [d EXCEPT !.dirty = TRUE]
  IN  [SetupScreen(IF e.haveError THEN PauseForKey(SwitchToText(e)) ELSE e)
         EXCEPT !.haveError = FALSE]

\* WarnIfLegacyProblems() of main.c: legacy loaders are asked for, where the
\* firmware or the build cannot start one.
WarnIfLegacyProblems(d) ==
  IF d.cfg.lacksLegacy THEN PauseForKey([Printed(d) EXCEPT !.unread = TRUE]) ELSE d
=============================================================================
