------------------------------ MODULE MCDisplay -----------------------------
(* Display on screens of 16 x 22 and 20 x 24 pixels: tiles of 3 and 2, a   *)
(* font of one pixel, three or four icons to a row.                        *)
EXTENDS Display, TLC

Plain(w, h, alpha, stroke) ==
  [w |-> w, h |-> h, alpha |-> alpha, px |-> [p \in Area(w, h) |-> <<stroke>>]]

\* Icons with transparent corners.
Rounded(w, stroke) ==
  [w |-> w, h |-> w, alpha |-> TRUE,
   px |-> [p \in Area(w, w) |->
             IF w > 1 /\ p[1] \in {0, w - 1} /\ p[2] \in {0, w - 1} THEN << >> ELSE <<stroke>>]]

Names == <<"os0", "os1", "os2", "os3", "os4", "os5", "os6">>
Glyphs == <<"a", "b", "c", "d", "e", "f", "g">>
MCPaints == {"black", "grey", "white", "blue", "sky", "logo", "junk", "badge", "arrow",
             "text", "program", "firmware"} \cup {Names[i] : i \in DOMAIN Names}

MCModes == << <<16, 22>>, <<20, 24>> >>
MCTextModes == (0 :> <<16, 22>>) @@ (1 :> <<20, 24>>)

\* Five loaders and two tools on the main menu.
MCIcon == [e \in {0, 1} \X (0 .. 6) |-> Rounded(IF e[1] = 0 THEN 3 ELSE 1, Names[e[2] + 1])]
MCBadge == [e \in {0, 1} \X (0 .. 6) |->
              IF e[1] = 0 /\ e[2] \in {1, 3} THEN Plain(1, 1, TRUE, "badge") ELSE None]
MCEntryTitle == [i \in 0 .. 6 |-> [k \in 1 .. 1 + ((3 * i) % 5) |-> Glyphs[i + 1]]]
MCSeconds == [n \in 0 .. 1 |-> <<"i", "n", IF n = 0 THEN "0" ELSE "1">>]
MCMenuTitle == <<"t", "i">>
MCTitleImage == Rounded(3, "logo")
MCInfoLine == <<"v", "o", "l">>
MCHint1 == <<"h", "1">>
MCHint2 == <<"h", "h", "2">>
MCSmallSelection == [w |-> 1, h |-> 2, alpha |-> TRUE, px |-> [p \in Area(1, 2) |-> <<"bar">>]]
MCArrow == Plain(1, 1, TRUE, "arrow")

\* A banner of two colours.
Logo(w, h) ==
  [w |-> w, h |-> h, alpha |-> FALSE,
   px |-> [p \in Area(w, h) |-> IF p[1] = 0 THEN <<"sky">> ELSE <<"logo">>]]

Machine ==
  [ graphics |-> TRUE, console |-> "none", firmware |-> <<16, 22>>, textOnly |-> FALSE,
    textMode |-> None, requested |-> <<0, 0>>, hide |-> {}, banner |-> Logo(4, 2),
    lacksLegacy |-> FALSE ]

\* Machines with and without a graphics screen of its own; a mode by its number
\* and by its size; one that does not exist; a text mode that needs a larger
\* screen; a banner as large as the screen; hidden parts; text only.
MCConfigs ==
  { [Machine EXCEPT !.hide = {"editor"}, !.textMode = 7, !.lacksLegacy = TRUE],
    [Machine EXCEPT !.console = "text", !.requested = <<1, 0>>, !.hide = {"banner", "hints"}],
    [Machine EXCEPT !.console = "text", !.requested = <<17, 17>>, !.banner = Logo(30, 30)],
    [Machine EXCEPT !.requested = <<16, 22>>, !.textMode = 1],
    [Machine EXCEPT !.console = "text", !.textOnly = TRUE],
    [Machine EXCEPT !.graphics = FALSE, !.console = "text"] }

Blank == [ style |-> "icons", row0 |-> 5, row1 |-> 2, UGAWidth |-> 16, ConHeight |-> 25,
           MaxTags |-> 0, InfoLineCount |-> 0, TimeoutSeconds |-> 0, default |-> -1 ]

\* One row-0 entry more than there is room for, or a single one.
MCScreens ==
  { [Blank EXCEPT !.row0 = 4, !.TimeoutSeconds = 1],
    [Blank EXCEPT !.UGAWidth = 20, !.row0 = 5] }
  \cup { [Blank EXCEPT !.UGAWidth = w, !.row0 = 1, !.row1 = 1] : w \in {16, 20} }
  \cup { [Blank EXCEPT !.style = "graphics", !.UGAWidth = w, !.row0 = 2, !.row1 = 0,
                       !.InfoLineCount = 1] : w \in {16, 20} }
  \cup { [Blank EXCEPT !.style = "text", !.row0 = 2, !.row1 = 1] }
=============================================================================
