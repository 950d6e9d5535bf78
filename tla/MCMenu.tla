------------------------------- MODULE MCMenu -------------------------------
(* Screens for Menu: up to five boot loaders and three tools on a 640 or   *)
(* 800 pixel display, and text menus of a 25 row console.                  *)
EXTENDS Menu

Blank == [ style |-> "icons", row0 |-> 0, row1 |-> 0, UGAWidth |-> 640,
           ConHeight |-> 25, MaxTags |-> 0, InfoLineCount |-> 0,
           TimeoutSeconds |-> 0, default |-> -1 ]

\* The main menu in icons: a display of three or four tiles, max_tags 0 or 2.
IconScreens ==
  { [Blank EXCEPT !.row0 = a, !.row1 = b, !.UGAWidth = w, !.MaxTags = t,
                  !.TimeoutSeconds = IF d = 1 THEN 1 ELSE 0, !.default = d] :
      a \in {0, 1, 2, 5}, b \in {1, 3}, w \in {640, 800}, t \in {0, 2}, d \in {-1, 1, 4} }

\* Submenus in graphics.
GraphicsScreens ==
  { [Blank EXCEPT !.style = "graphics", !.row0 = a, !.default = d] :
      a \in {1, 2, 5}, d \in {-1, 1} }

\* Text menus: a submenu with 14 information lines has room for 3 entries, a
\* main menu for 18, for 16 with a timeout.
TextScreens ==
  { [Blank EXCEPT !.style = "text", !.row0 = a, !.InfoLineCount = 14, !.default = d] :
      a \in {1, 3, 6}, d \in {-1, 4} }
  \cup
  { [Blank EXCEPT !.style = "text", !.row0 = 15, !.row1 = 5, !.TimeoutSeconds = t,
                  !.default = d] :
      t \in {0, 1}, d \in {-1, 17} }

MCScreens == IconScreens \cup GraphicsScreens \cup TextScreens
=============================================================================
