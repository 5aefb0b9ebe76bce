---------------------------- MODULE KernelDesktop ----------------------------
(***************************************************************************)
(* The windows, the menus, the lock and the keyboard of the desktop        *)
(* (kernel/src/desktop.rs), as the main loop drives it: a mouse packet, a  *)
(* key, or one turn that moves the animations.                             *)
(*                                                                         *)
(* Geometry is left out: a click is on one of the things that are drawn,   *)
(* and a motion has its time behind it or not.  What the windows hold is   *)
(* modelled elsewhere (KernelFiles, KernelPages, KernelUpdate), but for    *)
(* the page of Parametres where the password is set.                       *)
(***************************************************************************)
EXTENDS Integers, SequencesExt

CONSTANTS Apps,       \* the windows, in the order of APPS
          Quick,      \* those with a button in the panel
          Items,      \* the menu: [name, does], a name being its letters
          Letters,    \* what may be typed
          MaxTyped    \* bounds the password field and the filter

AppSet == {Apps[i] : i \in DOMAIN Apps}
Nothing == <<>>

ASSUME DesktopAssumption ==
    /\ {"Terminal", "Settings"} \subseteq AppSet /\ Quick \subseteq AppSet
    /\ Items \in Seq([name : Seq(STRING), does : AppSet \cup {"Lock", "Reboot", "Off"}])
    /\ MaxTyped \in Nat

VARIABLES win,       \* windows: open, hidden, motion; asked is history
          order,     \* back to front
          menu,      \* open, filter, choice
          powerMenu,
          section,   \* of Parametres: "other", "account" or "update"
          password, typed, locked, wrong,
          machine    \* "on", "off" after shut_down, "reboot" asked

deskVars == <<win, order, menu, powerMenu, section, password, typed, locked, wrong, machine>>

Closed == [open |-> FALSE, hidden |-> FALSE, motion |-> "none", asked |-> FALSE]
NoMenu == [open |-> FALSE, filter |-> <<>>, choice |-> 1]

Showing(app) == win[app].open /\ ~win[app].hidden
Shown == {app \in AppSet : Showing(app)}
FrontApp == IF Shown = {} THEN "none" ELSE Last(SelectSeq(order, LAMBDA app : app \in Shown))

Raised(app) == Append(SelectSeq(order, LAMBDA other : other # app), app)

\* Mutant: a window that still moves keeps its motion, on the screen or not.
Launched_Moving(app) ==
    [win EXCEPT ![app] = [open |-> TRUE, hidden |-> FALSE,
                          motion |-> IF @.motion = "none" THEN "opening" ELSE @.motion,
                          asked |-> ~(Showing(app) /\ @.motion = "closing")]]

\* launch_window: a window already on the screen keeps the motion it has, even
\* one that closes it.
Launched(app) ==
    [win EXCEPT ![app] = [open |-> TRUE, hidden |-> FALSE,
                          motion |-> IF Showing(app) THEN @.motion ELSE "opening",
                          asked |-> ~(Showing(app) /\ @.motion = "closing")]]
LaunchWindow(app) == win' = Launched(app) /\ order' = Raised(app)

DeskInit ==
    /\ win = [app \in AppSet |-> IF app = "Welcome" THEN [Closed EXCEPT !.open = TRUE, !.asked = TRUE, !.motion = "opening"]
                                 ELSE Closed]
    /\ order = Reverse(Apps)
    /\ menu = NoMenu /\ powerMenu = FALSE /\ section = "other"
    /\ password = Nothing /\ typed = <<>> /\ locked = FALSE /\ wrong = FALSE
    /\ machine = "on"

CanLock == password # Nothing

\* lock: with no password, the page where one is set.
Lock ==
    IF CanLock
    THEN /\ locked' = TRUE /\ typed' = <<>> /\ wrong' = FALSE
         /\ UNCHANGED <<win, order, section>>
    ELSE /\ LaunchWindow("Settings") /\ section' = "account"
         /\ UNCHANGED <<locked, typed, wrong>>

\* launch, and the entries of the power menu.
Does(what) ==
    CASE what = "Lock" -> Lock /\ UNCHANGED <<password, machine>>
      [] what \in {"Reboot", "Off"} ->
            /\ machine' = IF what = "Off" THEN "off" ELSE "reboot"
            /\ UNCHANGED <<win, order, section, password, typed, locked, wrong>>
      [] OTHER -> LaunchWindow(what) /\ UNCHANGED <<section, password, typed, locked, wrong, machine>>

(***************************************************************************)
(* The clock                                                               *)
(***************************************************************************)

\* advance: motions whose time has come end; those that close, close.
AdvanceMotions ==
    /\ machine = "on"
    /\ \E over \in SUBSET {app \in AppSet : win[app].motion # "none"} :
          /\ over # {}
          /\ win' = [app \in AppSet |->
                       IF app \notin over THEN win[app]
                       ELSE [win[app] EXCEPT !.motion = "none", !.open = @ /\ win[app].motion # "closing"]]
    /\ UNCHANGED <<order, menu, powerMenu, section, password, typed, locked, wrong, machine>>

(***************************************************************************)
(* The mouse                                                               *)
(***************************************************************************)
Clickable == machine = "on" /\ ~locked

\* With the power menu open, any click closes it.
ClickPowerMenu ==
    /\ Clickable /\ powerMenu /\ powerMenu' = FALSE /\ UNCHANGED menu
    /\ \/ \E what \in {"Lock", "Reboot", "Off"} : Does(what)
       \/ UNCHANGED <<win, order, section, password, typed, locked, wrong, machine>>

\* matches, filtered: the rows whose name holds what was typed.
IsHeld(part, name) == \E i \in 0..Len(name) : IsPrefix(part, SubSeq(name, i + 1, Len(name)))
Filtered(filter) == {i \in DOMAIN Items : IsHeld(filter, Items[i].name)}
FirstRow(filter) == IF Filtered(filter) = {} THEN 1 ELSE Min(Filtered(filter))

ClickMenuItem ==
    /\ Clickable /\ ~powerMenu /\ menu.open
    /\ menu' = NoMenu
    /\ \E i \in Filtered(menu.filter) : Does(Items[i].does)
    /\ UNCHANGED powerMenu

\* A click beside an open menu closes it and goes on.
Beside == Clickable /\ ~powerMenu /\ menu' = [menu EXCEPT !.open = FALSE]

ClickLogo ==
    /\ Clickable /\ ~powerMenu
    /\ menu' = [NoMenu EXCEPT !.open = TRUE]
    /\ UNCHANGED <<win, order, powerMenu, section, password, typed, locked, wrong, machine>>

ClickPower ==
    /\ Beside /\ powerMenu' = TRUE
    /\ UNCHANGED <<win, order, section, password, typed, locked, wrong, machine>>

ClickQuick(app) ==
    /\ Beside /\ app \in Quick /\ LaunchWindow(app)
    /\ UNCHANGED <<powerMenu, section, password, typed, locked, wrong, machine>>

\* The button of an open window in the panel.
ClickTask(app) ==
    /\ Beside /\ win[app].open
    /\ IF win[app].hidden THEN LaunchWindow(app)
       ELSE IF FrontApp = app THEN win' = [win EXCEPT ![app].hidden = TRUE] /\ UNCHANGED order
       ELSE order' = Raised(app) /\ UNCHANGED win
    /\ UNCHANGED <<powerMenu, section, password, typed, locked, wrong, machine>>

Brought(app) == IF FrontApp = app THEN order ELSE Raised(app)

\* A click in a window brings it to the front, then its buttons.
ClickWindow(app) ==
    /\ Beside /\ Showing(app) /\ order' = Brought(app)
    /\ \/ win' = [win EXCEPT ![app] = [@ EXCEPT !.hidden = FALSE, !.motion = "closing", !.asked = FALSE]]
       \/ win' = [win EXCEPT ![app].hidden = TRUE]
       \/ UNCHANGED win
    /\ UNCHANGED <<powerMenu, section, password, typed, locked, wrong, machine>>

\* click_settings: a section, or the two buttons of the account.
ClickSettings ==
    /\ Beside /\ Showing("Settings") /\ order' = Brought("Settings")
    /\ \/ section' \in {"other", "account", "update"} /\ UNCHANGED <<password, typed>>
       \/ /\ section = "account" /\ UNCHANGED section
          /\ password' \in {typed, Nothing} /\ typed' = <<>>
    /\ UNCHANGED <<win, powerMenu, locked, wrong, machine>>

(***************************************************************************)
(* The keyboard                                                            *)
(***************************************************************************)
Edited(text, key) ==
    IF key \in Letters THEN (IF Len(text) < MaxTyped THEN Append(text, key) ELSE text)
    ELSE IF key = "Backspace" /\ text # <<>> THEN Front(text) ELSE text

\* While the screen is locked, every key goes to the password.
KeyLocked(key) ==
    /\ locked
    /\ IF key = "Enter"
       THEN locked' = (password # typed) /\ wrong' = (password # typed) /\ typed' = <<>>
       ELSE typed' = Edited(typed, key) /\ UNCHANGED <<locked, wrong>>
    /\ UNCHANGED <<win, order, menu, powerMenu, section, password, machine>>

KeyMenu ==
    /\ ~locked
    /\ menu' = [NoMenu EXCEPT !.open = ~menu.open]
    /\ UNCHANGED <<win, order, powerMenu, section, password, typed, locked, wrong, machine>>

KeyPowerMenu(key) ==
    /\ ~locked /\ powerMenu /\ key = "Escape" /\ powerMenu' = FALSE
    /\ UNCHANGED <<win, order, menu, section, password, typed, locked, wrong, machine>>

\* Up and Down in the rows shown: the next one, or stay.
Above(rows, at) == IF \E i \in rows : i < at THEN Max({i \in rows : i < at}) ELSE at
Below(rows, at) == IF \E i \in rows : i > at THEN Min({i \in rows : i > at}) ELSE at

Choosing(filter, old) == FirstRow(filter)

KeyInMenu(key) ==
    /\ ~locked /\ ~powerMenu /\ menu.open
    /\ LET rows == Filtered(menu.filter)
           quiet == UNCHANGED <<win, order, section, password, typed, locked, wrong, machine>>
       IN  \/ key = "Escape" /\ menu' = [menu EXCEPT !.open = FALSE, !.filter = <<>>] /\ quiet
           \/ key = "Up" /\ menu' = [menu EXCEPT !.choice = Above(rows, @)] /\ quiet
           \/ key = "Down" /\ menu' = [menu EXCEPT !.choice = Below(rows, @)] /\ quiet
           \/ /\ key \in Letters \cup {"Backspace"}
              /\ LET filter == Edited(menu.filter, key)
                 IN  menu' = [menu EXCEPT !.filter = filter, !.choice = Choosing(filter, @)]
              /\ quiet
           \/ /\ key = "Enter" /\ menu' = NoMenu
              /\ Does(Items[IF menu.choice \in rows THEN menu.choice ELSE FirstRow(menu.filter)].does)
    /\ UNCHANGED powerMenu

\* Tab: the first other window of APPS that is on the screen.
KeyTab ==
    /\ ~locked /\ ~powerMenu /\ ~menu.open /\ Shown # {}
    /\ LET others == {i \in DOMAIN Apps : Apps[i] \in Shown \ {FrontApp}}
       IN  order' = Raised(IF others = {} THEN FrontApp ELSE Apps[Min(others)])
    /\ UNCHANGED <<win, menu, powerMenu, section, password, typed, locked, wrong, machine>>

\* The window in front takes the key: a command in the terminal, or Parametres.
KeyInTerminal(what) ==
    /\ ~locked /\ ~powerMenu /\ ~menu.open /\ FrontApp = "Terminal"
    /\ Does(what)
    /\ UNCHANGED <<menu, powerMenu>>

Nearby(key) ==
    CASE key = "Up" -> {IF section = "update" THEN "account" ELSE "other"}
      [] key = "Down" -> IF section = "other" THEN {"other", "account"} ELSE {"update"}
      [] OTHER -> {}

KeyInSettings(key) ==
    /\ ~locked /\ ~powerMenu /\ ~menu.open /\ FrontApp = "Settings"
    /\ \/ section' \in Nearby(key) /\ UNCHANGED <<password, typed>>
       \/ /\ section = "account" /\ UNCHANGED section
          /\ \/ key \in Letters \cup {"Backspace"} /\ typed' = Edited(typed, key) /\ UNCHANGED password
             \/ key = "Enter" /\ password' = typed /\ typed' = <<>>
    /\ UNCHANGED <<win, order, menu, powerMenu, locked, wrong, machine>>

Keys == Letters \cup {"Backspace", "Enter", "Escape", "Up", "Down"}
Key == /\ machine = "on"
       /\ \/ \E key \in Keys : KeyLocked(key) \/ KeyPowerMenu(key) \/ KeyInMenu(key) \/ KeyInSettings(key)
          \/ KeyMenu \/ KeyTab
          \/ \E what \in {"Lock", "Reboot", "Off"} : KeyInTerminal(what)

DeskNext ==
    \/ AdvanceMotions
    \/ ClickPowerMenu \/ ClickMenuItem \/ ClickLogo \/ ClickPower \/ ClickSettings
    \/ \E app \in AppSet : ClickQuick(app) \/ ClickTask(app) \/ ClickWindow(app)
    \/ Key

DeskSpec == DeskInit /\ [][DeskNext]_deskVars

(***************************************************************************)
(* Properties                                                              *)
(***************************************************************************)
DeskTypeOK ==
    /\ win \in [AppSet -> [open : BOOLEAN, hidden : BOOLEAN, asked : BOOLEAN,
                            motion : {"none", "opening", "closing"}]]
    /\ Len(order) = Len(Apps) /\ ToSet(order) = AppSet
    /\ menu.open \in BOOLEAN /\ menu.choice \in DOMAIN Items /\ menu.filter \in BoundedSeq(Letters, MaxTyped)
    /\ powerMenu \in BOOLEAN /\ section \in {"other", "account", "update"}
    /\ {password, typed} \subseteq BoundedSeq(Letters, MaxTyped)
    /\ locked \in BOOLEAN /\ wrong \in BOOLEAN /\ machine \in {"on", "off", "reboot"}

\* A window the person opened is there until they close it: no animation that
\* was under way takes it away, unless they opened it while it was closing.
StaysOpen == \A app \in AppSet : win[app].asked => win[app].open

\* "rather than shutting the human out of their own machine" (lock): whatever
\* opens and closes, a locked screen has a password that opens it.
NobodyShutOut == locked => password # Nothing

\* The row Enter starts is one the person sees.
ChosenIsShown ==
    menu.open /\ Filtered(menu.filter) # {} => menu.choice \in Filtered(menu.filter)

\* No menu is left open under the lock: not so, see the README.
LockClosesMenus == locked => ~menu.open /\ ~powerMenu
=============================================================================
