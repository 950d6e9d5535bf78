----------------------------- MODULE MCMainLoop -----------------------------
(* Menus of two scans: the second has lost a loader and moved the others.  *)
EXTENDS MainLoop

Plain(title, tag) == [title |-> title, tag |-> tag, sub |-> <<>>]
Keyed(title, keys, tag, sub) ==
  [title |-> title, keys |-> keys, tag |-> tag, sub |-> sub]

Sub(title, tag) == << Plain(title, tag), Plain("Return to Main Menu", "RETURN") >>
Linux   == Keyed("Boot Linux", {"L"}, "LOADER",
             << Plain("Boot with default options", "LOADER"),
                Plain("Boot to single user", "LOADER"),
                Plain("Return to Main Menu", "RETURN") >>)
Windows == Keyed("Boot Windows from HD", {"W"}, "LEGACY", Sub("Boot Windows", "LEGACY"))
Shell   == Keyed("EFI Shell", {"S"}, "TOOL", <<>>)
About   == Keyed("About rEFInd", {"A"}, "ABOUT", <<>>)
Off     == Keyed("Shut Down", {"U"}, "SHUTDOWN", <<>>)
Again   == Keyed("Reboot", {"R"}, "REBOOT", <<>>)
Leave   == Keyed("Exit rEFInd", {}, "EXIT", <<>>)

MCTitles == {"Boot Linux", "Boot Windows from HD", "EFI Shell",
             "About rEFInd", "Shut Down", "Reboot", "Exit rEFInd", "Return to Main Menu",
             "Boot with default options", "Boot to single user",
             "Boot Windows"}

Same == { <<t, t>> : t \in MCTitles }

MCKeys == {"1", "2", "L", "W", "S", "A", "U", "R"}
Digits == <<"1", "2">>

\* The digits that a scan gives the entries of the first row, after the letters.
Numbered(list) ==
  [ i \in DOMAIN list |->
      IF list[i].tag \in {"LOADER", "LEGACY"}
      THEN [list[i] EXCEPT !.keys = @ \cup {Digits[i]}]
      ELSE list[i] ]

\* Titles none of which is part of another one in the menus below.
MCMenus == { Numbered(<< Linux, Windows, Shell, About, Off, Again, Leave >>),
             Numbered(<< Windows, Linux, Leave >>) }
MCContains == Same \cup {<<"Boot Windows", "Boot Windows from HD">>}
=============================================================================
