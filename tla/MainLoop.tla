------------------------------ MODULE MainLoop ------------------------------
(***************************************************************************)
(* efi_main() of refind/main.c after the first scan, with RunMainMenu() of *)
(* refind/menu.c and the Secure Boot hooks of mok/security_policy.c: boot, *)
(* run the main menu and its submenus, dispatch the chosen entry, remember *)
(* its title as the next selection, re-scan on Esc, and remove the hooks   *)
(* before control returns to the firmware.                                 *)
(*                                                                         *)
(* A menu screen is a call of RunGenericMenu(), taken from its contract.   *)
(* What a scan finds, what the user answers, what a started program does   *)
(* to the Secure Boot state, and whether ResetSystem() returns are choices.*)
(***************************************************************************)
EXTENDS Integers, Sequences, TLAPS, FiniteSetTheorems, WellFoundedInduction

CONSTANTS
  Menus,          \* what a scan may put into MainMenu: sequences of EntryType
  Titles,         \* titles, and the default_selection settings, of two characters or more
  Keys,           \* shortcut letters and digits, upper-case: settings of one character
  NoTitle,        \* a NULL title
  Contains,       \* <<a, b>>: StriSubCmp(a, b) finds title a inside title b
  SecureStable,   \* started programs leave the Secure Boot state alone
  MaxRounds       \* bound: calls of RunMainMenu

Tags == {"LOADER", "LEGACY", "TOOL", "ABOUT", "REBOOT", "SHUTDOWN", "EXIT", "RETURN"}
SubEntryType == [title : Titles, tag : {"LOADER", "LEGACY", "RETURN"}, sub : {<<>>}]
EntryType    == [title : Titles, keys : SUBSET Keys, tag : Tags \ {"RETURN"},
                 sub : Seq(SubEntryType)]
Settings     == Titles \cup Keys \cup {NoTitle}

ASSUME MainLoopAssumption ==
  /\ Keys \cap Titles = {} /\ NoTitle \notin Titles \cup Keys
  /\ Menus \subseteq Seq(EntryType) \ {<<>>}
  /\ Contains \subseteq Titles \X Titles
  /\ SecureStable \in BOOLEAN
  /\ MaxRounds \in Nat

VARIABLES
  pc,               \* the point of efi_main or RunMainMenu reached
  entries,          \* MainMenu.Entries
  timed,            \* MainMenu.TimeoutSeconds > 0
  selection,        \* Selection: the title to select in the next menu
  index,            \* [main |-> DefaultEntryIndex, sub |-> DefaultSubmenuIndex]
  exit, chosen,     \* MenuExit and the chosen entry
  opened,           \* the main-menu entry whose submenu is open, or chosen
  mok,              \* MokProtocol
  policy,           \* the handlers in the firmware's SECURITY and SECURITY2
  saved,            \* esfas and es2fa: the handlers that were replaced
  secure,           \* secure_mode(): Secure Boot in user mode
  rounds,           \* calls of RunMainMenu so far
  last              \* [from, entry] of the last dispatch: for the properties

menu == <<timed, index, exit, chosen, opened>>
hooks == <<mok, policy, saved, secure>>
vars == <<pc, entries, selection, menu, hooks, rounds, last>>

NoEntry == [title |-> NoTitle, tag |-> "RETURN", sub |-> <<>>]

\* RunGenericMenu() on a list of entries, by the contract Menu implements.
Contract(request, e, c) == INSTANCE MenuContract
                             WITH Requests <- {}, exit <- e, chosen <- c
Outcomes(list, default, timeout) ==
  LET request == [count |-> Len(list), default |-> default, timed |-> timeout]
  IN  Contract(request, 0, 0)!Outcomes(request)

-----------------------------------------------------------------------------
(* Secure Boot: mok/security_policy.c and its callers in main.c.           *)

security_policy_install ==
  /\ policy' = [sec |-> "rEFInd", sec2 |-> IF policy.sec2 = "absent" THEN "absent" ELSE "rEFInd"]
  /\ saved' = [esfas |-> policy.sec,
               es2fa |-> IF policy.sec2 = "absent" THEN saved.es2fa ELSE policy.sec2]

\* The mandatory SECURITY protocol is looked for before anything is replaced.
SecureBootSetup ==
  \E ShimLoaded \in BOOLEAN :
    LET installs == secure /\ ShimLoaded /\ saved.esfas = "NULL" /\ policy.sec # "absent"
    IN  /\ mok' = installs
        /\ IF installs THEN security_policy_install ELSE UNCHANGED <<policy, saved>>

\* (faulty variant: SECURITY2 is forgotten)
security_policy_uninstall_one(ok) ==
  /\ saved.esfas # "NULL"
  /\ policy' = [policy EXCEPT !.sec = saved.esfas]
  /\ saved' = [saved EXCEPT !.esfas = "NULL"]
  /\ ok = TRUE

\* Restores SECURITY, then SECURITY2; a failing LocateProtocol stops it there.
security_policy_uninstall(ok) ==
  \/ /\ UNCHANGED <<policy, saved>>
     /\ ok = FALSE
  \/ /\ saved.esfas # "NULL" /\ saved.es2fa # "NULL"
     /\ policy' = [policy EXCEPT !.sec = saved.esfas]
     /\ saved' = [saved EXCEPT !.esfas = "NULL"]
     /\ ok = FALSE
  \/ /\ saved.esfas # "NULL"
     /\ policy' = [sec  |-> saved.esfas,
                   sec2 |-> IF saved.es2fa = "NULL" THEN policy.sec2 ELSE saved.es2fa]
     /\ saved' = [esfas |-> "NULL", es2fa |-> "NULL"]
     /\ ok = TRUE

\* ok is the result; nothing is removed unless secure_mode() says so now.
SecureBootUninstall(ok) ==
  IF secure THEN security_policy_uninstall(ok)
  ELSE ok = TRUE /\ UNCHANGED <<policy, saved>>

-----------------------------------------------------------------------------
(* RunMainMenu().                                                          *)

\* A shortcut of one character is a letter or digit, a longer one part of a title.
Names(shortcut, e) ==
  \/ shortcut \in Keys /\ shortcut \in e.keys
  \/ shortcut \notin Keys /\ <<shortcut, e.title>> \in Contains

\* The first entry the shortcut names, from 0; -1 without one.
FindMenuShortcutEntry(list, shortcut) ==
  LET hits == { i \in DOMAIN list : Names(shortcut, list[i]) }
  IN  IF hits = {} THEN -1
      ELSE (CHOOSE i \in hits : \A j \in hits : i <= j) - 1

Init ==
  /\ pc = "boot"
  /\ entries \in Menus
  /\ timed \in BOOLEAN
  /\ selection \in Settings
  /\ index = [main |-> -1, sub |-> -1]
  /\ exit = "NONE" /\ chosen = NoEntry /\ opened = NoEntry
  /\ mok = FALSE
  /\ policy \in [sec : {"absent", "firmware"}, sec2 : {"absent", "firmware"}]
  /\ saved = [esfas |-> "NULL", es2fa |-> "NULL"]
  /\ secure \in BOOLEAN
  /\ rounds = 0
  /\ last = [from |-> NoEntry, entry |-> NoEntry]

Boot ==
  /\ pc = "boot"
  /\ SecureBootSetup
  /\ pc' = "loop"
  /\ UNCHANGED <<entries, selection, menu, secure, rounds, last>>

OpenMenu ==
  /\ pc = "loop" /\ rounds < MaxRounds
  /\ index' = [main |-> IF selection = NoTitle THEN -1
                        ELSE FindMenuShortcutEntry(entries, selection),
               sub |-> -1]
  /\ pc' = "menu"
  /\ exit' = "NONE"
  /\ rounds' = rounds + 1
  /\ UNCHANGED <<entries, timed, selection, chosen, opened, hooks, last>>

\* (faulty variant: the timeout is kept for later menus)
TimeoutKept == UNCHANGED timed

TimeoutUsed == timed' = FALSE

\* What RunMainMenu does with an exit code of the main menu for entry e.
AfterMain(code, e) ==
  IF code = "ESCAPE" THEN "rescan"
  ELSE IF code = "DETAILS" THEN IF e.sub # <<>> THEN "submenu" ELSE "menu"
  ELSE "dispatch"

MainMenuReturns ==
  /\ pc = "menu"
  /\ \E o \in Outcomes(entries, index.main, timed) :
       LET e == entries[o[2] + 1]
       IN  /\ exit' = o[1]
           /\ chosen' = e /\ opened' = e
           /\ index' = [index EXCEPT !.main = o[2]]
           /\ pc' = AfterMain(o[1], e)
  /\ TimeoutUsed
  /\ UNCHANGED <<entries, selection, hooks, rounds, last>>

AfterSub(code, e) ==
  IF code = "ESCAPE" \/ e.tag = "RETURN" THEN "menu"
  ELSE IF code = "DETAILS" THEN "edit" ELSE "dispatch"

\* DefaultSubmenuIndex lives as long as the main menu: the next submenu
\* opens at the position the previous one was left at.
SubmenuReturns ==
  /\ pc = "submenu"
  /\ \E o \in Outcomes(opened.sub, index.sub, FALSE) :
       LET e == opened.sub[o[2] + 1]
       IN  /\ exit' = o[1]
           /\ chosen' = e
           /\ index' = [index EXCEPT !.sub = o[2]]
           /\ pc' = AfterSub(o[1], e)
  /\ UNCHANGED <<entries, timed, selection, opened, hooks, rounds, last>>

\* EditOptions: Enter keeps the edited line; Esc, or a hidden editor, does not.
EditOptions ==
  /\ pc = "edit"
  /\ pc' \in {"dispatch", "menu"}
  /\ UNCHANGED <<entries, selection, menu, hooks, rounds, last>>

-----------------------------------------------------------------------------
(* The switch of efi_main().                                               *)

Remember ==
  /\ selection' = chosen.title
  /\ last' = [from |-> opened, entry |-> chosen]

\* Esc: `continue', so the selection stays.
RescanAll ==
  /\ pc = "rescan"
  /\ entries' \in Menus
  /\ pc' = "loop"
  /\ UNCHANGED <<selection, menu, hooks, rounds, last>>

ResetReturns == "stuck"

\* Reboot or shut down: TerminateScreen, ResetSystem; it may come back.
Reset ==
  /\ pc = "dispatch" /\ chosen.tag \in {"REBOOT", "SHUTDOWN"}
  /\ \/ pc' = "off" /\ UNCHANGED <<selection, last>>
     \/ pc' = ResetReturns /\ Remember
  /\ UNCHANGED <<entries, menu, hooks, rounds>>

AboutrEFInd ==
  /\ pc = "dispatch" /\ chosen.tag = "ABOUT"
  /\ pc' = "loop"
  /\ Remember
  /\ UNCHANGED <<entries, menu, hooks, rounds>>

\* StartLoader, StartLegacy or StartTool: the program gets control ...
Start ==
  /\ pc = "dispatch" /\ chosen.tag \in {"LOADER", "LEGACY", "TOOL"}
  /\ pc' = "running"
  /\ UNCHANGED <<entries, selection, menu, hooks, rounds, last>>

\* ... and may come back.
ProgramReturns ==
  /\ pc = "running"
  /\ secure' \in IF SecureStable THEN {secure} ELSE BOOLEAN
  /\ pc' = "loop"
  /\ Remember
  /\ UNCHANGED <<entries, menu, mok, policy, saved, rounds>>

ExitFailed == "pause"

Exit ==
  /\ pc = "dispatch" /\ chosen.tag = "EXIT"
  /\ IF mok
     THEN \E ok \in BOOLEAN :
            /\ SecureBootUninstall(ok)
            /\ pc' = IF ok THEN "returned" ELSE ExitFailed
     ELSE pc' = "returned" /\ UNCHANGED <<policy, saved>>
  /\ UNCHANGED <<entries, selection, menu, mok, secure, rounds, last>>

\* The user confirms the failure; ResetSystem may come back here too.
PauseForKey ==
  /\ pc = "pause"
  /\ \/ pc' = "off" /\ UNCHANGED <<selection, last>>
     \/ pc' = "stuck" /\ Remember
  /\ UNCHANGED <<entries, menu, hooks, rounds>>

\* After the loop: one more ResetSystem, then EndlessIdleLoop.
AfterLoop ==
  /\ pc = "stuck"
  /\ pc' \in {"off", "idle"}
  /\ UNCHANGED <<entries, selection, menu, hooks, rounds, last>>

Program == Boot \/ OpenMenu \/ RescanAll \/ Reset \/ AboutrEFInd \/ Start \/ Exit \/ AfterLoop
Others == MainMenuReturns \/ SubmenuReturns \/ EditOptions \/ ProgramReturns \/ PauseForKey
Next == Program \/ Others

\* Nothing is assumed of the user or of started programs.
Spec == Init /\ [][Next]_vars /\ WF_vars(Program)

-----------------------------------------------------------------------------
TypeOK ==
  /\ pc \in {"boot", "loop", "menu", "submenu", "edit", "dispatch", "running", "rescan",
             "pause", "stuck", "returned", "off", "idle"}
  /\ entries \in Menus
  /\ timed \in BOOLEAN
  /\ selection \in Settings
  /\ index.main \in -1 .. Len(entries) - 1 \/ pc # "menu"
  /\ exit \in {"NONE", "ENTER", "ESCAPE", "DETAILS", "TIMEOUT"}
  /\ mok \in BOOLEAN /\ secure \in BOOLEAN
  /\ policy \in [sec : {"absent", "firmware", "rEFInd"}, sec2 : {"absent", "firmware", "rEFInd"}]
  /\ saved \in [esfas : {"NULL", "firmware", "rEFInd"}, es2fa : {"NULL", "firmware", "rEFInd"}]
  /\ rounds \in 0 .. MaxRounds

Elements(list) == { list[i] : i \in DOMAIN list }

(* What reaches the switch of efi_main() is an entry of the menu scanned   *)
(* last, or of its submenu, that the user or the timeout chose: never the  *)
(* "Return" entry, never an Esc, never a tag the switch has no case for,   *)
(* and Insert alone starts nothing in the main menu.                       *)
DispatchesAChoice ==
  pc \in {"dispatch", "running"} =>
    /\ exit \in {"ENTER", "DETAILS", "TIMEOUT"}
    /\ chosen.tag # "RETURN"
    /\ opened \in Elements(entries)
    /\ chosen = opened \/ chosen \in Elements(opened.sub)
    /\ exit = "DETAILS" => chosen \in Elements(opened.sub)

(* Automatic boot happens in the first main menu only, and starts what     *)
(* default_selection names, by a letter, a digit or a part of its title    *)
(* (or the first entry if it names none): no menu shown after a            *)
(* re-scan, a submenu or a program that came back can time out.            *)
AutobootOnce ==
  pc \in {"dispatch", "running"} /\ exit = "TIMEOUT" =>
    /\ rounds = 1
    /\ IF \E e \in Elements(entries) : Names(selection, e)
       THEN Names(selection, chosen)
       ELSE chosen = entries[1]

(* Whenever one of rEFInd's handlers is installed, the handler it chains   *)
(* to is the firmware's own: never NULL, never itself, also after an       *)
(* uninstall that stopped half way.                                        *)
HandlersChain ==
  /\ policy.sec = "rEFInd" => saved.esfas = "firmware"
  /\ policy.sec2 = "rEFInd" => saved.es2fa = "firmware"

(* While rEFInd shows menus or a program it started runs, MokProtocol says *)
(* truly whether shim verifies programs: a half-removed hook never returns *)
(* to the menu.                                                            *)
ShimVerifies ==
  pc \in {"loop", "menu", "submenu", "edit", "dispatch", "running", "rescan"} =>
    /\ mok <=> policy.sec = "rEFInd"
    /\ policy.sec2 # "absent" => (mok <=> policy.sec2 = "rEFInd")

(* The hooks are sound however installing and removing them failed.        *)
HandlersSound == HandlersChain /\ ShimVerifies

(* When efi_main returns, and the firmware unloads rEFInd's image, none of *)
(* the firmware's authentication pointers leads into that image.           *)
HooksRemoved ==
  pc = "returned" => policy.sec # "rEFInd" /\ policy.sec2 # "rEFInd"

-----------------------------------------------------------------------------
(* Proofs about MainLoop: for every set of menus and titles and any number *)
(* of rounds, what is dispatched is a choice of the user or the automatic  *)
(* boot of the default, and the Secure Boot handlers are either all        *)
(* firmware's, all rEFInd's, or half removed on the way to a reset.        *)

\* The three states of the handlers and their saved originals.
Clean ==
  /\ policy.sec # "rEFInd" /\ policy.sec2 # "rEFInd"
  /\ saved.esfas = "NULL" /\ saved.es2fa = "NULL"
Hooked ==
  /\ policy.sec = "rEFInd" /\ saved.esfas = "firmware"
  /\ \/ policy.sec2 = "absent" /\ saved.es2fa = "NULL"
     \/ policy.sec2 = "rEFInd" /\ saved.es2fa = "firmware"
Half ==
  /\ policy.sec = "firmware" /\ saved.esfas = "NULL"
  /\ policy.sec2 = "rEFInd" /\ saved.es2fa = "firmware"

InUse == {"loop", "menu", "submenu", "edit", "dispatch", "running", "rescan"}

HandlersInv ==
  /\ Clean \/ Hooked \/ Half
  /\ pc = "boot" => Clean
  /\ pc \in InUse => (mok /\ Hooked) \/ (~mok /\ Clean)
  /\ SecureStable /\ mok => secure
  /\ SecureStable /\ pc = "returned" => Clean

\* What a menu was opened with.
MenuInv ==
  /\ index \in [main : Int, sub : Int]
  /\ pc \in {"menu", "submenu", "edit"} => index.main \in -1 .. Len(entries) - 1
  /\ timed /\ pc \in {"boot", "loop"} => rounds = 0
  /\ timed /\ pc = "menu" =>
       /\ rounds = 1
       /\ index.main = IF selection = NoTitle THEN -1
                       ELSE FindMenuShortcutEntry(entries, selection)
  /\ timed => pc \in {"boot", "loop", "menu"}

\* What was chosen from it.
ChoiceInv ==
  /\ pc \in {"submenu", "edit", "dispatch", "running", "pause"} =>
       opened \in Elements(entries)
  /\ pc = "submenu" => opened.sub # <<>> /\ exit # "TIMEOUT"
  /\ pc = "edit" => /\ chosen \in Elements(opened.sub) /\ chosen.tag # "RETURN"
                    /\ exit = "DETAILS"
  /\ pc \in {"dispatch", "running", "pause"} =>
       chosen = opened \/ chosen \in Elements(opened.sub)

IInv == TypeOK /\ HandlersInv /\ MenuInv /\ ChoiceInv /\ DispatchesAChoice /\ AutobootOnce

-----------------------------------------------------------------------------
(* An outcome of RunGenericMenu() is an index of the list.                 *)
LEMMA OutcomeFacts ==
  ASSUME NEW list, Len(list) \in Nat, Len(list) > 0, NEW d \in Int, NEW t \in BOOLEAN,
         NEW o \in Outcomes(list, d, t)
  PROVE  /\ o[1] \in {"ENTER", "ESCAPE", "DETAILS", "TIMEOUT"}
         /\ o[2] \in 0 .. Len(list) - 1
         /\ o[1] = "TIMEOUT" => /\ t
                                /\ o[2] = IF d \in 0 .. Len(list) - 1 THEN d ELSE 0
BY DEF Outcomes, Contract!Outcomes, Contract!Default

\* Menus are lists of entries, submenus lists of submenu entries.
LEMMA MenuFacts ==
  ASSUME NEW list \in Menus
  PROVE  /\ list \in Seq(EntryType) /\ Len(list) \in Nat /\ Len(list) > 0
         /\ DOMAIN list = 1 .. Len(list)
         /\ \A i \in 0 .. Len(list) - 1 : list[i + 1] \in EntryType /\ list[i + 1] \in Elements(list)
         /\ Elements(list) \subseteq EntryType
<1>1. list \in Seq(EntryType) /\ list # <<>>
  BY MainLoopAssumption
<1>2. Len(list) \in Nat /\ Len(list) > 0 /\ DOMAIN list = 1 .. Len(list)
  BY <1>1
<1>3. \A j \in 1 .. Len(list) : list[j] \in EntryType
  BY <1>1
<1>. QED BY <1>1, <1>2, <1>3 DEF Elements

LEMMA SubFacts ==
  ASSUME NEW e \in EntryType
  PROVE  /\ e.title \in Titles /\ e.tag \in Tags \ {"RETURN"}
         /\ e.sub \in Seq(SubEntryType)
         /\ Elements(e.sub) \subseteq SubEntryType
         /\ e.sub # <<>> =>
              /\ Len(e.sub) \in Nat /\ Len(e.sub) > 0
              /\ \A i \in 0 .. Len(e.sub) - 1 : e.sub[i + 1] \in Elements(e.sub)
<1>1. e.title \in Titles /\ e.tag \in Tags \ {"RETURN"} /\ e.sub \in Seq(SubEntryType)
  BY DEF EntryType
<1>. DEFINE list == e.sub
<1>2. list \in Seq(SubEntryType)
  BY <1>1
<1>. HIDE DEF list
<1>3. Len(list) \in Nat /\ DOMAIN list = 1 .. Len(list)
      /\ (list # <<>> => Len(list) > 0) /\ \A j \in 1 .. Len(list) : list[j] \in SubEntryType
  BY <1>2
<1>4. Elements(list) \subseteq SubEntryType
  BY <1>3 DEF Elements
<1>5. \A i \in 0 .. Len(list) - 1 : list[i + 1] \in Elements(list)
  BY <1>3 DEF Elements
<1>. QED BY <1>1, <1>3, <1>4, <1>5 DEF list

LEMMA LeastMember ==
  ASSUME NEW S \in SUBSET Nat, S # {}
  PROVE  (CHOOSE i \in S : \A j \in S : i <= j) \in S
<1>. DEFINE below(x) == 0 .. x
            T == { below(x) : x \in S }
<1>1. T \subseteq FiniteSubsetsOf(Nat)
  <2>1. \A x \in S : below(x) \in SUBSET Nat /\ IsFiniteSet(below(x))
    BY FS_Interval
  <2>. QED BY <2>1 DEF FiniteSubsetsOf
<1>. HIDE DEF below
<1>2. \E u \in T : \A v \in T : ~(<<v, u>> \in StrictSubsetOrdering(Nat))
  <2>1. IsWellFoundedOn(StrictSubsetOrdering(Nat), FiniteSubsetsOf(Nat))
    BY FS_StrictSubsetOrderingWellFounded
  <2>2. T # {}
    OBVIOUS
  <2>. HIDE DEF T
  <2>. QED BY <1>1, <2>1, <2>2, WFMin
<1>3. PICK x \in S : \A y \in S : ~(<<below(y), below(x)>> \in StrictSubsetOrdering(Nat))
  BY <1>2
<1>4. ASSUME NEW y \in S, y < x PROVE FALSE
  <2>1. below(y) \subseteq below(x) /\ x \in below(x) /\ x \notin below(y)
    BY <1>4 DEF below
  <2>2. below(x) \subseteq Nat
    BY DEF below
  <2>3. <<below(y), below(x)>> \in StrictSubsetOrdering(Nat)
    BY <2>1, <2>2, Zenon DEF StrictSubsetOrdering
  <2>. QED BY <1>3, <2>3
<1>5. \A y \in S : x <= y
  BY <1>4
<1>. DEFINE least(i) == \A j \in S : i <= j
<1>6. \E i \in S : least(i)
  BY <1>5
<1>. HIDE DEF least
<1>7. (CHOOSE i \in S : least(i)) \in S
  BY <1>6, Zenon
<1>. QED BY <1>7 DEF least

\* The search finds the first match if there is one.
LEMMA FindFacts ==
  ASSUME NEW list \in Menus, NEW t
  PROVE  /\ FindMenuShortcutEntry(list, t) \in -1 .. Len(list) - 1
         /\ (\E e \in Elements(list) : Names(t, e)) =>
              /\ FindMenuShortcutEntry(list, t) \in 0 .. Len(list) - 1
              /\ Names(t, list[FindMenuShortcutEntry(list, t) + 1])
         /\ ~(\E e \in Elements(list) : Names(t, e)) =>
              FindMenuShortcutEntry(list, t) = -1
<1>. DEFINE hits == { i \in DOMAIN list : Names(t, list[i]) }
            first == CHOOSE i \in hits : \A j \in hits : i <= j
<1>1. DOMAIN list = 1 .. Len(list) /\ Len(list) \in Nat
  BY MenuFacts
<1>2. hits \subseteq Nat /\ hits \subseteq 1 .. Len(list)
  BY <1>1
<1>3. hits # {} <=> \E e \in Elements(list) : Names(t, e)
  BY DEF Elements
<1>4. ASSUME hits # {} PROVE first \in hits
  BY <1>2, <1>4, LeastMember
<1>5. FindMenuShortcutEntry(list, t) = IF hits = {} THEN -1 ELSE first - 1
  BY DEF FindMenuShortcutEntry
<1>6. ASSUME hits # {}
      PROVE  /\ FindMenuShortcutEntry(list, t) \in 0 .. Len(list) - 1
             /\ Names(t, list[FindMenuShortcutEntry(list, t) + 1])
  <2>1. first \in 1 .. Len(list) /\ Names(t, list[first])
    BY <1>4, <1>6, <1>2
  <2>2. FindMenuShortcutEntry(list, t) = first - 1
    BY <1>5, <1>6
  <2>. HIDE DEF first
  <2>3. (first - 1) + 1 = first
    BY <2>1
  <2>. QED BY <1>1, <2>1, <2>2, <2>3
<1>. HIDE DEF hits
<1>. QED BY <1>1, <1>3, <1>5, <1>6

-----------------------------------------------------------------------------
\* What is dispatched has a title.
LEMMA ChosenTitle ==
  ASSUME TypeOK, ChoiceInv, pc \in {"dispatch", "running", "pause"}
  PROVE  chosen.title \in Titles
<1>1. entries \in Menus /\ opened \in Elements(entries)
  BY DEF TypeOK, ChoiceInv
<1>2. opened \in EntryType
  BY <1>1, MenuFacts
<1>3. chosen \in EntryType \/ chosen \in SubEntryType
  BY <1>2, SubFacts DEF ChoiceInv
<1>. QED BY <1>3 DEF EntryType, SubEntryType

LEMMA InitIInv == Init => IInv
<1>. SUFFICES ASSUME Init PROVE IInv
  OBVIOUS
<1>1. TypeOK
  <2>1. policy \in [sec : {"absent", "firmware", "rEFInd"}, sec2 : {"absent", "firmware", "rEFInd"}]
    BY DEF Init
  <2>2. rounds \in 0 .. MaxRounds
    BY MainLoopAssumption DEF Init
  <2>3. saved \in [esfas : {"NULL", "firmware", "rEFInd"}, es2fa : {"NULL", "firmware", "rEFInd"}]
    BY DEF Init
  <2>4. pc = "boot" /\ exit = "NONE" /\ mok \in BOOLEAN
    BY DEF Init
  <2>. QED BY <2>1, <2>2, <2>3, <2>4 DEF Init, TypeOK
<1>2. HandlersInv
  BY DEF Init, HandlersInv, Clean, InUse
<1>3. MenuInv /\ ChoiceInv /\ DispatchesAChoice /\ AutobootOnce
  BY DEF Init, MenuInv, ChoiceInv, DispatchesAChoice, AutobootOnce
<1>. QED BY <1>1, <1>2, <1>3 DEF IInv

\* Installing, removing half and removing all of the handlers.
LEMMA HandlersStep == IInv /\ [Next]_vars => HandlersInv'
<1>. SUFFICES ASSUME IInv, [Next]_vars PROVE HandlersInv'
  OBVIOUS
<1>0. HandlersInv /\ TypeOK
  BY DEF IInv
<1>1. CASE Boot
  <2>1. Clean /\ pc = "boot" /\ pc' = "loop" /\ secure' = secure /\ saved.esfas = "NULL"
    BY <1>0, <1>1 DEF Boot, HandlersInv, Clean
  <2>2. \/ mok' = TRUE /\ secure /\ policy.sec # "absent" /\ security_policy_install
        \/ mok' = FALSE /\ UNCHANGED <<policy, saved>>
    BY <1>1 DEF Boot, SecureBootSetup
  <2>3. CASE mok' = TRUE /\ secure /\ policy.sec # "absent" /\ security_policy_install
    <3>1. policy.sec = "firmware" /\ policy.sec2 \in {"absent", "firmware"} /\ saved.es2fa = "NULL"
      BY <1>0, <2>1, <2>3 DEF TypeOK, Clean
    <3>2. Hooked'
      BY <2>3, <3>1 DEF security_policy_install, Hooked
    <3>. QED BY <2>1, <2>3, <3>2 DEF HandlersInv, InUse
  <2>4. CASE mok' = FALSE /\ UNCHANGED <<policy, saved>>
    BY <2>1, <2>4 DEF HandlersInv, Clean, InUse
  <2>. QED BY <2>2, <2>3, <2>4
<1>2. CASE Exit
  <2>1. pc = "dispatch" /\ UNCHANGED <<mok, secure>>
        /\ ((mok /\ Hooked) \/ (~mok /\ Clean)) /\ (SecureStable /\ mok => secure)
    BY <1>0, <1>2 DEF Exit, HandlersInv, InUse
  <2>2. CASE ~mok
    BY <1>2, <2>1, <2>2 DEF Exit, HandlersInv, Clean, InUse
  <2>3. CASE mok
    <3>1. PICK ok \in BOOLEAN : /\ SecureBootUninstall(ok)
                                /\ pc' = IF ok THEN "returned" ELSE "pause"
      BY <1>2, <2>3 DEF Exit, ExitFailed
    <3>2. CASE ~secure
      <4>1. UNCHANGED <<policy, saved>> /\ pc' = "returned" /\ ~SecureStable /\ Hooked
        BY <2>1, <2>3, <3>1, <3>2 DEF SecureBootUninstall
      <4>. QED BY <2>1, <4>1 DEF HandlersInv, Hooked, InUse
    <3>3. CASE secure
      <4>1. security_policy_uninstall(ok) /\ Hooked
        BY <2>1, <2>3, <3>1, <3>3 DEF SecureBootUninstall
      <4>2. CASE UNCHANGED <<policy, saved>> /\ ok = FALSE
        BY <2>1, <3>1, <3>3, <4>1, <4>2 DEF HandlersInv, Hooked, InUse
      <4>3. CASE /\ saved.esfas # "NULL" /\ saved.es2fa # "NULL"
                 /\ policy' = [policy EXCEPT !.sec = saved.esfas]
                 /\ saved' = [saved EXCEPT !.esfas = "NULL"]
                 /\ ok = FALSE
        <5>1. Half' /\ pc' = "pause"
          BY <1>0, <3>1, <4>1, <4>3 DEF Hooked, Half, TypeOK
        <5>. QED BY <2>1, <3>3, <5>1 DEF HandlersInv, InUse
      <4>4. CASE /\ saved.esfas # "NULL"
                 /\ policy' = [sec  |-> saved.esfas,
                               sec2 |-> IF saved.es2fa = "NULL" THEN policy.sec2 ELSE saved.es2fa]
                 /\ saved' = [esfas |-> "NULL", es2fa |-> "NULL"]
                 /\ ok = TRUE
        <5>1. Clean' /\ pc' = "returned"
          BY <1>0, <3>1, <4>1, <4>4 DEF Hooked, Clean, TypeOK
        <5>. QED BY <2>1, <3>3, <5>1 DEF HandlersInv, InUse
      <4>. QED BY <4>1, <4>2, <4>3, <4>4 DEF security_policy_uninstall
    <3>. QED BY <3>2, <3>3
  <2>. QED BY <2>2, <2>3, <1>0 DEF TypeOK
<1>3. CASE ProgramReturns
  BY <1>0, <1>3 DEF ProgramReturns, HandlersInv, Clean, Hooked, Half, InUse
<1>4. CASE \/ OpenMenu \/ MainMenuReturns \/ SubmenuReturns \/ EditOptions \/ RescanAll
           \/ Reset \/ AboutrEFInd \/ Start \/ PauseForKey \/ AfterLoop \/ UNCHANGED vars
  <2>1. UNCHANGED <<mok, policy, saved, secure>>
    BY <1>4 DEF OpenMenu, MainMenuReturns, SubmenuReturns, EditOptions, RescanAll, Reset,
                AboutrEFInd, Start, PauseForKey, AfterLoop, hooks, vars
  <2>2. /\ pc' # "boot" \/ pc' = pc
        /\ pc' \in InUse => pc \in InUse
        /\ pc' = "returned" => pc = "returned"
    BY <1>4 DEF OpenMenu, MainMenuReturns, AfterMain, SubmenuReturns, AfterSub, EditOptions,
                RescanAll, Reset, ResetReturns, AboutrEFInd, Start, PauseForKey, AfterLoop,
                vars, InUse
  <2>. QED BY <1>0, <2>1, <2>2 DEF HandlersInv, Clean, Hooked, Half
<1>. QED BY <1>1, <1>2, <1>3, <1>4 DEF Next, Program, Others

\* A step of the main menu, spelled out.
LEMMA MainMenuFacts ==
  ASSUME IInv, MainMenuReturns
  PROVE  /\ exit' \in {"ENTER", "ESCAPE", "DETAILS", "TIMEOUT"}
         /\ chosen' \in Elements(entries) /\ opened' = chosen'
         /\ chosen' \in EntryType
         /\ index'.main \in 0 .. Len(entries) - 1 /\ index' \in [main : Int, sub : Int]
         /\ chosen' = entries[index'.main + 1]
         /\ pc' = AfterMain(exit', chosen')
         /\ exit' = "TIMEOUT" =>
              /\ timed
              /\ index'.main = IF index.main \in 0 .. Len(entries) - 1 THEN index.main ELSE 0
<1>1. entries \in Menus /\ timed \in BOOLEAN /\ index \in [main : Int, sub : Int]
  <2>1. entries \in Menus /\ timed \in BOOLEAN
    BY DEF IInv, TypeOK
  <2>. QED BY <2>1 DEF IInv, MenuInv
<1>2. PICK o \in Outcomes(entries, index.main, timed) :
        /\ exit' = o[1] /\ chosen' = entries[o[2] + 1] /\ opened' = entries[o[2] + 1]
        /\ index' = [index EXCEPT !.main = o[2]]
        /\ pc' = AfterMain(o[1], entries[o[2] + 1])
  BY DEF MainMenuReturns
<1>3. /\ o[1] \in {"ENTER", "ESCAPE", "DETAILS", "TIMEOUT"}
      /\ o[2] \in 0 .. Len(entries) - 1
      /\ o[1] = "TIMEOUT" => /\ timed
                             /\ o[2] = IF index.main \in 0 .. Len(entries) - 1 THEN index.main ELSE 0
  BY <1>1, MenuFacts, OutcomeFacts
<1>4. entries[o[2] + 1] \in EntryType /\ entries[o[2] + 1] \in Elements(entries)
  BY <1>1, <1>3, MenuFacts
<1>5. index'.main = o[2] /\ index' \in [main : Int, sub : Int]
  BY <1>1, <1>2, <1>3, MenuFacts
<1>. QED BY <1>1, <1>2, <1>3, <1>4, <1>5

\* A step of a submenu, spelled out.
LEMMA SubmenuFacts ==
  ASSUME IInv, SubmenuReturns
  PROVE  /\ exit' \in {"ENTER", "ESCAPE", "DETAILS"}
         /\ chosen' \in Elements(opened.sub) /\ chosen' \in SubEntryType
         /\ opened \in Elements(entries)
         /\ index'.main = index.main /\ index' \in [main : Int, sub : Int]
         /\ pc' = AfterSub(exit', chosen')
<1>1. /\ entries \in Menus /\ opened \in Elements(entries) /\ opened.sub # <<>>
      /\ index \in [main : Int, sub : Int]
  BY DEF IInv, TypeOK, MenuInv, ChoiceInv, SubmenuReturns
<1>2. opened \in EntryType
  BY <1>1, MenuFacts
<1>3. /\ Len(opened.sub) \in Nat /\ Len(opened.sub) > 0
      /\ \A i \in 0 .. Len(opened.sub) - 1 : opened.sub[i + 1] \in Elements(opened.sub)
      /\ Elements(opened.sub) \subseteq SubEntryType
  BY <1>1, <1>2, SubFacts
<1>4. PICK o \in Outcomes(opened.sub, index.sub, FALSE) :
        /\ exit' = o[1] /\ chosen' = opened.sub[o[2] + 1]
        /\ index' = [index EXCEPT !.sub = o[2]]
        /\ pc' = AfterSub(o[1], opened.sub[o[2] + 1])
  BY DEF SubmenuReturns
<1>5. /\ o[1] \in {"ENTER", "ESCAPE", "DETAILS", "TIMEOUT"} /\ o[1] # "TIMEOUT"
      /\ o[2] \in 0 .. Len(opened.sub) - 1
  BY <1>1, <1>3, OutcomeFacts
<1>6. index'.main = index.main /\ index' \in [main : Int, sub : Int]
  BY <1>1, <1>3, <1>4, <1>5
<1>. QED BY <1>1, <1>3, <1>4, <1>5, <1>6

LEMMA MenuStep == IInv /\ [Next]_vars => MenuInv'
<1>. SUFFICES ASSUME IInv, [Next]_vars PROVE MenuInv'
  OBVIOUS
<1>0. MenuInv /\ TypeOK /\ entries \in Menus /\ rounds \in Nat
  BY MainLoopAssumption DEF IInv, TypeOK
<1>1. CASE OpenMenu
  <2>1. FindMenuShortcutEntry(entries, selection) \in -1 .. Len(entries) - 1 /\ Len(entries) \in Nat
    BY <1>0, FindFacts, MenuFacts
  <2>. QED BY <1>0, <1>1, <2>1 DEF OpenMenu, MenuInv
<1>2. CASE MainMenuReturns
  <2>1. /\ index' \in [main : Int, sub : Int] /\ index'.main \in 0 .. Len(entries) - 1
        /\ timed' = FALSE /\ entries' = entries
    BY <1>0, <1>2, MainMenuFacts, MenuFacts DEF MainMenuReturns, TimeoutUsed, MenuInv
  <2>. QED BY <1>0, <2>1, MenuFacts DEF MenuInv
<1>3. CASE SubmenuReturns
  BY <1>0, <1>3, SubmenuFacts DEF SubmenuReturns, MenuInv
<1>4. CASE RescanAll
  BY <1>0, <1>4 DEF RescanAll, MenuInv, menu
<1>5. CASE \/ Boot \/ EditOptions \/ Reset \/ AboutrEFInd \/ Start \/ ProgramReturns \/ Exit
           \/ PauseForKey \/ AfterLoop \/ UNCHANGED vars
  <2>1. UNCHANGED <<index, timed, entries, rounds>>
    BY <1>5 DEF Boot, EditOptions, Reset, AboutrEFInd, Start, ProgramReturns, Exit,
                PauseForKey, AfterLoop, vars, menu
  <2>2. /\ pc' \in {"menu", "submenu", "edit"} =>
             \/ pc' = pc /\ selection' = selection
             \/ pc = "edit"
        /\ pc \in {"boot", "loop", "menu"} =>
             /\ pc' = pc \/ (pc = "boot" /\ pc' = "loop")
             /\ selection' = selection
    BY <1>5 DEF Boot, EditOptions, Reset, ResetReturns, AboutrEFInd, Start, ProgramReturns,
                Exit, ExitFailed, PauseForKey, AfterLoop, vars
  <2>. QED BY <1>0, <2>1, <2>2 DEF MenuInv
<1>. QED BY <1>1, <1>2, <1>3, <1>4, <1>5 DEF Next, Program, Others

LEMMA ChoiceStep == IInv /\ [Next]_vars => ChoiceInv' /\ DispatchesAChoice'
<1>. SUFFICES ASSUME IInv, [Next]_vars PROVE ChoiceInv' /\ DispatchesAChoice'
  OBVIOUS
<1>0. ChoiceInv /\ DispatchesAChoice
  BY DEF IInv
<1>1. CASE MainMenuReturns
  <2>1. /\ exit' \in {"ENTER", "ESCAPE", "DETAILS", "TIMEOUT"}
        /\ opened' = chosen' /\ opened' \in Elements(entries) /\ entries' = entries
        /\ opened'.tag # "RETURN" /\ pc' = AfterMain(exit', chosen')
    BY <1>1, MainMenuFacts, SubFacts DEF MainMenuReturns
  <2>. QED BY <2>1 DEF AfterMain, ChoiceInv, DispatchesAChoice
<1>2. CASE SubmenuReturns
  <2>1. /\ exit' \in {"ENTER", "ESCAPE", "DETAILS"}
        /\ chosen' \in Elements(opened.sub) /\ opened \in Elements(entries)
        /\ pc' = AfterSub(exit', chosen') /\ UNCHANGED <<opened, entries>>
    BY <1>2, SubmenuFacts DEF SubmenuReturns
  <2>. QED BY <2>1 DEF AfterSub, ChoiceInv, DispatchesAChoice
<1>3. CASE EditOptions \/ Start \/ Exit
  BY <1>0, <1>3 DEF EditOptions, Start, Exit, ExitFailed, ChoiceInv, DispatchesAChoice, menu
<1>4. CASE \/ Boot \/ OpenMenu \/ RescanAll \/ Reset \/ AboutrEFInd \/ ProgramReturns
           \/ PauseForKey \/ AfterLoop
  <2>1. pc' \in {"loop", "menu", "off", "stuck", "idle"}
    BY <1>4 DEF Boot, OpenMenu, RescanAll, Reset, ResetReturns, AboutrEFInd, ProgramReturns,
                PauseForKey, AfterLoop
  <2>. QED BY <2>1 DEF ChoiceInv, DispatchesAChoice
<1>5. CASE UNCHANGED vars
  BY <1>0, <1>5 DEF vars, menu, ChoiceInv, DispatchesAChoice
<1>. QED BY <1>1, <1>2, <1>3, <1>4, <1>5 DEF Next, Program, Others

LEMMA AutobootStep == IInv /\ [Next]_vars => AutobootOnce'
<1>. SUFFICES ASSUME IInv, [Next]_vars PROVE AutobootOnce'
  OBVIOUS
<1>0. AutobootOnce /\ entries \in Menus
  BY DEF IInv, TypeOK
<1>1. CASE MainMenuReturns
  <2>. SUFFICES ASSUME exit' = "TIMEOUT"
       PROVE  /\ rounds' = 1
              /\ IF \E e \in Elements(entries') : Names(selection', e)
                 THEN Names(selection', chosen')
                 ELSE chosen' = entries'[1]
    BY DEF AutobootOnce
  <2>. DEFINE find == FindMenuShortcutEntry(entries, selection)
  <2>1. /\ timed /\ chosen' = entries[index'.main + 1]
        /\ index'.main = IF index.main \in 0 .. Len(entries) - 1 THEN index.main ELSE 0
        /\ UNCHANGED <<entries, selection, rounds>> /\ pc = "menu"
    BY <1>1, MainMenuFacts DEF MainMenuReturns
  <2>2. rounds = 1 /\ index.main = IF selection = NoTitle THEN -1 ELSE find
    BY <2>1 DEF IInv, MenuInv
  <2>3. CASE \E e \in Elements(entries) : Names(selection, e)
    <3>1. selection # NoTitle
      BY <2>3, MainLoopAssumption DEF Names
    <3>2. index.main = find /\ find \in 0 .. Len(entries) - 1
          /\ Names(selection, entries[find + 1])
      BY <1>0, <2>2, <2>3, <3>1, FindFacts
    <3>. QED BY <2>1, <2>2, <2>3, <3>2
  <2>4. CASE ~ \E e \in Elements(entries) : Names(selection, e)
    <3>1. find = -1 /\ Len(entries) \in Nat
      BY <1>0, <2>4, FindFacts, MenuFacts
    <3>2. index'.main = 0
      BY <2>1, <2>2, <3>1
    <3>. QED BY <2>1, <2>2, <2>4, <3>2
  <2>. QED BY <2>3, <2>4
<1>2. CASE SubmenuReturns
  BY <1>2, SubmenuFacts DEF AutobootOnce
<1>3. CASE EditOptions
  BY <1>3 DEF EditOptions, IInv, ChoiceInv, AutobootOnce, menu
<1>4. CASE Start \/ UNCHANGED vars
  BY <1>0, <1>4 DEF Start, vars, menu, AutobootOnce
<1>5. CASE \/ Boot \/ OpenMenu \/ RescanAll \/ Reset \/ AboutrEFInd \/ ProgramReturns
           \/ PauseForKey \/ AfterLoop \/ Exit
  <2>1. pc' \in {"loop", "menu", "off", "stuck", "idle", "returned", "pause"}
    BY <1>5 DEF Boot, OpenMenu, RescanAll, Reset, ResetReturns, AboutrEFInd, ProgramReturns,
                PauseForKey, AfterLoop, Exit, ExitFailed
  <2>. QED BY <2>1 DEF AutobootOnce
<1>. QED BY <1>1, <1>2, <1>3, <1>4, <1>5 DEF Next, Program, Others

LEMMA TypeStep == IInv /\ [Next]_vars => TypeOK'
<1>. SUFFICES ASSUME IInv, [Next]_vars PROVE TypeOK'
  OBVIOUS
<1>0. TypeOK /\ MaxRounds \in Nat
  BY MainLoopAssumption DEF IInv
<1>1. index'.main \in -1 .. Len(entries') - 1 \/ pc' # "menu"
  BY MenuStep DEF MenuInv
<1>2. mok' \in BOOLEAN /\ secure' \in BOOLEAN
      /\ policy' \in [sec : {"absent", "firmware", "rEFInd"}, sec2 : {"absent", "firmware", "rEFInd"}]
      /\ saved' \in [esfas : {"NULL", "firmware", "rEFInd"}, es2fa : {"NULL", "firmware", "rEFInd"}]
  <2>1. CASE Boot
    <3>1. mok' \in BOOLEAN /\ secure' = secure
      BY <2>1 DEF Boot, SecureBootSetup
    <3>2. UNCHANGED <<policy, saved>> \/ (security_policy_install /\ policy.sec # "absent")
      BY <2>1 DEF Boot, SecureBootSetup
    <3>. QED BY <1>0, <3>1, <3>2 DEF TypeOK, security_policy_install
  <2>2. CASE Exit
    <3>1. \/ UNCHANGED <<policy, saved>>
          \/ \E ok \in BOOLEAN : security_policy_uninstall(ok)
      BY <2>2 DEF Exit, SecureBootUninstall
    <3>. QED BY <1>0, <2>2, <3>1 DEF TypeOK, Exit, security_policy_uninstall
  <2>3. CASE ProgramReturns
    BY <1>0, <2>3 DEF TypeOK, ProgramReturns
  <2>4. CASE \/ OpenMenu \/ MainMenuReturns \/ SubmenuReturns \/ EditOptions \/ RescanAll
             \/ Reset \/ AboutrEFInd \/ Start \/ PauseForKey \/ AfterLoop \/ UNCHANGED vars
    <3>1. UNCHANGED <<mok, policy, saved, secure>>
      BY <2>4 DEF OpenMenu, MainMenuReturns, SubmenuReturns, EditOptions, RescanAll, Reset,
                  AboutrEFInd, Start, PauseForKey, AfterLoop, hooks, vars
    <3>. QED BY <1>0, <3>1 DEF TypeOK
  <2>. QED BY <2>1, <2>2, <2>3, <2>4 DEF Next, Program, Others
<1>3. pc' \in {"boot", "loop", "menu", "submenu", "edit", "dispatch", "running", "rescan",
               "pause", "stuck", "returned", "off", "idle"}
  BY <1>0 DEF Next, Program, Others, TypeOK, Boot, OpenMenu, MainMenuReturns, AfterMain,
              SubmenuReturns, AfterSub, EditOptions, RescanAll, Reset, ResetReturns, AboutrEFInd,
              Start, ProgramReturns, Exit, ExitFailed, PauseForKey, AfterLoop, vars
<1>4. entries' \in Menus /\ timed' \in BOOLEAN
  BY <1>0 DEF Next, Program, Others, TypeOK, Boot, OpenMenu, MainMenuReturns, TimeoutUsed,
              SubmenuReturns, EditOptions, RescanAll, Reset, AboutrEFInd,
              Start, ProgramReturns, Exit, PauseForKey, AfterLoop, vars, menu
<1>5. selection' \in Settings
  <2>1. selection' = selection \/ (Remember /\ pc \in {"dispatch", "running", "pause"})
    BY DEF Next, Program, Others, Boot, OpenMenu, MainMenuReturns,
           SubmenuReturns, EditOptions, RescanAll, Reset, AboutrEFInd,
           Start, ProgramReturns, Exit, PauseForKey, AfterLoop, vars
  <2>. QED BY <1>0, <2>1, ChosenTitle DEF IInv, TypeOK, Remember, Settings
<1>6. exit' \in {"NONE", "ENTER", "ESCAPE", "DETAILS", "TIMEOUT"} /\ rounds' \in 0 .. MaxRounds
  <2>1. CASE MainMenuReturns
    BY <1>0, <2>1, MainMenuFacts DEF MainMenuReturns, TypeOK
  <2>2. CASE SubmenuReturns
    BY <1>0, <2>2, SubmenuFacts DEF SubmenuReturns, TypeOK
  <2>3. CASE OpenMenu
    BY <1>0, <2>3 DEF OpenMenu, TypeOK
  <2>4. CASE \/ Boot \/ EditOptions \/ RescanAll \/ Reset \/ AboutrEFInd \/ Start
             \/ ProgramReturns \/ Exit \/ PauseForKey \/ AfterLoop \/ UNCHANGED vars
    BY <1>0, <2>4 DEF Boot, EditOptions, RescanAll, Reset, AboutrEFInd, Start,
                      ProgramReturns, Exit, PauseForKey, AfterLoop, vars, menu, TypeOK
  <2>. QED BY <2>1, <2>2, <2>3, <2>4 DEF Next, Program, Others
<1>. QED BY <1>1, <1>2, <1>3, <1>4, <1>5, <1>6 DEF TypeOK

(* The invariant of the main loop, for every set of menus.                 *)
THEOREM MainLoopInvariant == Spec => []IInv
<1>1. Init => IInv
  BY InitIInv
<1>2. IInv /\ [Next]_vars => IInv'
  BY TypeStep, HandlersStep, MenuStep, ChoiceStep, AutobootStep DEF IInv
<1>. QED BY <1>1, <1>2, PTL DEF Spec

(* The variables of the main loop keep their types; the default index of   *)
(* the main menu is an index of the list of the last scan or -1.           *)
THEOREM MainLoopTypeCorrect == Spec => []TypeOK
<1>1. IInv => TypeOK
  BY DEF IInv
<1>. QED BY <1>1, MainLoopInvariant, PTL

(* Only choices of the user or the timeout reach the switch of efi_main(). *)
THEOREM MainLoopDispatchesAChoice == Spec => []DispatchesAChoice
<1>1. IInv => DispatchesAChoice
  BY DEF IInv
<1>. QED BY <1>1, MainLoopInvariant, PTL

(* The automatic boot happens once, and starts the default.                *)
THEOREM MainLoopAutobootOnce == Spec => []AutobootOnce
<1>1. IInv => AutobootOnce
  BY DEF IInv
<1>. QED BY <1>1, MainLoopInvariant, PTL

(* rEFInd's authentication handlers chain to the firmware's, and menus and *)
(* programs never run with half of them.                                   *)
THEOREM MainLoopHandlers == Spec => []HandlersSound
<1>1. IInv => HandlersChain
  BY DEF IInv, HandlersInv, HandlersChain, Clean, Hooked, Half
<1>2. IInv => ShimVerifies
  BY DEF IInv, HandlersInv, ShimVerifies, InUse, Clean, Hooked
<1>3. IInv => HandlersSound
  BY <1>1, <1>2 DEF HandlersSound
<1>. QED BY <1>3, MainLoopInvariant, PTL

(* efi_main returns to the firmware with the firmware's own handlers in    *)
(* place, if started programs leave the Secure Boot state alone: the       *)
(* assumption is needed, the removal is skipped when secure_mode() turned  *)
(* false.                                                                  *)
THEOREM MainLoopHooksRemoved ==
  ASSUME SecureStable PROVE Spec => []HooksRemoved
<1>1. IInv => HooksRemoved
  BY SecureStable DEF IInv, HandlersInv, HooksRemoved, Clean
<1>. QED BY <1>1, MainLoopInvariant, PTL
=============================================================================
