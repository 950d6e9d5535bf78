---------------------------- MODULE MenuContract ----------------------------
(***************************************************************************)
(* What one call of RunGenericMenu() (refind/menu.c) promises its callers, *)
(* whatever the painting style: it returns once, with an exit code and the *)
(* index of an entry of the screen; it times out only on a screen that has *)
(* a timeout, and then with the entry the caller named as the default.     *)
(* Menu implements this contract and MainLoop is built on it.              *)
(***************************************************************************)
EXTENDS Integers

CONSTANT Requests   \* the calls: [count, default, timed]

VARIABLES request, exit, chosen

\* The default entry: *DefaultEntryIndex when it is an index, else the first.
Default(r) == IF r.default \in 0 .. r.count - 1 THEN r.default ELSE 0

Outcomes(r) ==
  ({"ENTER", "ESCAPE", "DETAILS"} \X (0 .. r.count - 1))
  \cup (IF r.timed THEN {<<"TIMEOUT", Default(r)>>} ELSE {})

Init == request \in Requests /\ exit = "NONE" /\ chosen = -1

Return ==
  /\ exit = "NONE"
  /\ \E o \in Outcomes(request) : exit' = o[1] /\ chosen' = o[2]
  /\ UNCHANGED request

Spec == Init /\ [][Return]_<<request, exit, chosen>>
=============================================================================
