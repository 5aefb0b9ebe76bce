-------------------------- MODULE KernelDesk_proofs --------------------------
(***************************************************************************)
(* Proofs about what the person works with: the windows, the menus and the *)
(* lock of the desktop, for every list of applications, every menu and     *)
(* every alphabet, the notes saved among the files in memory, the pages    *)
(* the browser visits, and the screen that is repainted piece by piece.    *)
(***************************************************************************)
EXTENDS KernelDesktop, KernelFiles, KernelPages, KernelScreen, FiniteSetTheorems, SequenceTheorems, TLAPS

(***************************************************************************)
(* The windows                                                             *)
(***************************************************************************)

Window == [open : BOOLEAN, hidden : BOOLEAN, motion : {"none", "opening", "closing"}, asked : BOOLEAN]

\* What the person asked for is open, and nothing is about to close it.
Asked(w) == w.asked => w.open /\ w.motion # "closing"
WindowsIInv == win \in [AppSet -> Window] /\ \A app \in AppSet : Asked(win[app])

(* A window that is launched is open, and closes only if it was closing.   *)
LEMMA LaunchKeeps ==
  ASSUME WindowsIInv, NEW app, win' = Launched(app)
  PROVE  WindowsIInv'
<1>1. ASSUME NEW a \in AppSet, a # app PROVE win'[a] = win[a]
  BY <1>1 DEF Launched, WindowsIInv
<1>2. ASSUME app \in AppSet PROVE win'[app] \in Window /\ Asked(win'[app])
  <2>1. win'[app] = [open |-> TRUE, hidden |-> FALSE,
                     motion |-> IF Showing(app) THEN win[app].motion ELSE "opening",
                     asked |-> ~(Showing(app) /\ win[app].motion = "closing")]
    BY <1>2 DEF Launched, WindowsIInv
  <2>2. win[app].motion \in {"none", "opening", "closing"} /\ Showing(app) \in BOOLEAN
    BY <1>2 DEF WindowsIInv, Window, Showing
  <2> DEFINE m == IF Showing(app) THEN win[app].motion ELSE "opening"
             k == ~(Showing(app) /\ win[app].motion = "closing")
  <2>3. m \in {"none", "opening", "closing"} /\ k \in BOOLEAN
    BY <2>2
  <2>4. k => m # "closing"
    BY <2>2
  <2>5. win'[app] = [open |-> TRUE, hidden |-> FALSE, motion |-> m, asked |-> k]
    BY <2>1
  <2> HIDE DEF m, k
  <2> QED BY <2>3, <2>4, <2>5 DEF Window, Asked
<1>3. win' = [a \in AppSet |-> win'[a]]
  BY DEF Launched, WindowsIInv
<1>4. \A a \in AppSet : win'[a] \in Window /\ Asked(win'[a])
  BY <1>1, <1>2 DEF WindowsIInv
<1> QED
  BY <1>3, <1>4, Zenon DEF WindowsIInv

(* What the entries of the menus do launches a window or touches none.     *)
LEMMA DoesKeeps ==
  ASSUME WindowsIInv, NEW what, Does(what)
  PROVE  WindowsIInv'
<1>1. UNCHANGED win \/ \E app : win' = Launched(app)
  BY DEF Does, Lock, LaunchWindow
<1> QED
  BY <1>1, LaunchKeeps DEF WindowsIInv

(* A change of one window, to one that keeps what was asked.               *)
LEMMA WindowKeeps ==
  ASSUME WindowsIInv, NEW app \in AppSet, NEW w \in Window, Asked(w), win' = [win EXCEPT ![app] = w]
  PROVE  WindowsIInv'
BY DEF WindowsIInv

(* Each step of the mouse, the keyboard and the clock.                     *)
LEMMA WindowsStep ==
  ASSUME WindowsIInv, [DeskNext]_deskVars
  PROVE  WindowsIInv'
<1>1. CASE AdvanceMotions
  <2>1. PICK over : win' = [app \in AppSet |->
                       IF app \notin over THEN win[app]
                       ELSE [win[app] EXCEPT !.motion = "none", !.open = @ /\ win[app].motion # "closing"]]
    BY <1>1 DEF AdvanceMotions
  <2>2. ASSUME NEW app \in AppSet PROVE win'[app] \in Window /\ Asked(win'[app])
    <3>1. CASE app \notin over
      BY <2>1, <3>1 DEF WindowsIInv
    <3>2. CASE app \in over
      <4>1. win[app] \in Window /\ Asked(win[app])
        BY DEF WindowsIInv
      <4>2. win'[app] = [open |-> win[app].open /\ win[app].motion # "closing", hidden |-> win[app].hidden,
                         motion |-> "none", asked |-> win[app].asked]
        BY <2>1, <3>2, <4>1 DEF Window
      <4> QED BY <4>1, <4>2 DEF Window, Asked
    <3> QED BY <3>1, <3>2
  <2>3. win' = [app \in AppSet |-> win'[app]]
    BY <2>1
  <2> QED BY <2>2, <2>3, Zenon DEF WindowsIInv
<1>2. CASE ClickPowerMenu \/ ClickMenuItem
  <2>1. UNCHANGED win \/ \E what : Does(what)
    BY <1>2 DEF ClickPowerMenu, ClickMenuItem
  <2> QED BY <2>1, DoesKeeps DEF WindowsIInv
<1>3. CASE ClickLogo \/ ClickPower \/ ClickSettings
  BY <1>3 DEF ClickLogo, ClickPower, ClickSettings, WindowsIInv
<1>4. ASSUME NEW app \in AppSet, ClickQuick(app) PROVE WindowsIInv'
  BY <1>4, LaunchKeeps DEF ClickQuick, LaunchWindow
<1>5. ASSUME NEW app \in AppSet, ClickTask(app) PROVE WindowsIInv'
  <2>1. win[app] \in Window /\ Asked(win[app])
    BY DEF WindowsIInv
  <2> DEFINE h == [win[app] EXCEPT !.hidden = TRUE]
  <2>2. h \in Window /\ Asked(h)
    BY <2>1 DEF Window, Asked
  <2>3. \/ win' = Launched(app)
        \/ win' = [win EXCEPT ![app] = h]
        \/ UNCHANGED win
    BY <1>5 DEF ClickTask, LaunchWindow
  <2> HIDE DEF h
  <2> QED BY <2>2, <2>3, LaunchKeeps, WindowKeeps DEF WindowsIInv
<1>6. ASSUME NEW app \in AppSet, ClickWindow(app) PROVE WindowsIInv'
  <2>1. win[app] \in Window /\ Asked(win[app])
    BY DEF WindowsIInv
  <2> DEFINE c == [win[app] EXCEPT !.hidden = FALSE, !.motion = "closing", !.asked = FALSE]
             h == [win[app] EXCEPT !.hidden = TRUE]
  <2>2. c \in Window /\ Asked(c)
    BY <2>1 DEF Window, Asked
  <2>3. h \in Window /\ Asked(h)
    BY <2>1 DEF Window, Asked
  <2>4. \/ win' = [win EXCEPT ![app] = c]
        \/ win' = [win EXCEPT ![app] = h]
        \/ UNCHANGED win
    BY <1>6 DEF ClickWindow
  <2> HIDE DEF c, h
  <2> QED BY <2>2, <2>3, <2>4, WindowKeeps DEF WindowsIInv
<1>7. CASE Key
  <2>1. UNCHANGED win \/ \E what : Does(what)
    BY <1>7 DEF Key, KeyLocked, KeyPowerMenu, KeyInMenu, KeyInSettings, KeyMenu, KeyTab, KeyInTerminal
  <2> QED BY <2>1, DoesKeeps DEF WindowsIInv
<1>8. CASE UNCHANGED deskVars
  BY <1>8 DEF deskVars, WindowsIInv
<1> QED
  BY <1>1, <1>2, <1>3, <1>4, <1>5, <1>6, <1>7, <1>8 DEF DeskNext

(* No animation takes away a window the person opened, whatever they open, *)
(* close or hide while it runs (desktop.rs, launch_window and advance).    *)
THEOREM WindowsStayOpen == DeskSpec => []StaysOpen
<1>1. DeskInit => WindowsIInv
  <2> SUFFICES ASSUME DeskInit, NEW app \in AppSet PROVE win[app] \in Window /\ Asked(win[app])
    BY DEF DeskInit, WindowsIInv
  <2>1. Closed \in Window /\ Asked(Closed)
    BY DEF Closed, Window, Asked
  <2>2. \/ win[app] = Closed
        \/ win[app] = [open |-> TRUE, hidden |-> FALSE, motion |-> "opening", asked |-> TRUE]
    BY DEF DeskInit, Closed
  <2>3. ASSUME win[app] = [open |-> TRUE, hidden |-> FALSE, motion |-> "opening", asked |-> TRUE]
        PROVE  win[app] \in Window /\ Asked(win[app])
    BY <2>3 DEF Window, Asked
  <2>4. ASSUME win[app] = Closed PROVE win[app] \in Window /\ Asked(win[app])
    BY <2>1, <2>4
  <2> QED BY <2>2, <2>3, <2>4
<1>2. WindowsIInv /\ [DeskNext]_deskVars => WindowsIInv'
  BY WindowsStep
<1>3. WindowsIInv => StaysOpen
  BY DEF WindowsIInv, StaysOpen, Asked
<1> QED
  BY <1>1, <1>2, <1>3, PTL DEF DeskSpec
(***************************************************************************)
(* The lock                                                                *)
(***************************************************************************)

LockIInv == locked \in BOOLEAN /\ NobodyShutOut

(* An entry of a menu locks only where a password is set.                  *)
LEMMA LockKeeps ==
  ASSUME LockIInv, NEW what, Does(what)
  PROVE  LockIInv'
<1>1. \/ locked' = TRUE /\ password # Nothing
      \/ UNCHANGED locked
  BY DEF Does, Lock, CanLock, LaunchWindow
<1>2. UNCHANGED password
  BY DEF Does, LaunchWindow
<1>3. ASSUME locked' = TRUE, password # Nothing PROVE LockIInv'
  BY <1>2, <1>3 DEF LockIInv, NobodyShutOut
<1>4. ASSUME UNCHANGED locked PROVE LockIInv'
  BY <1>2, <1>4 DEF LockIInv, NobodyShutOut
<1> QED
  BY <1>1, <1>3, <1>4

(* A locked screen always has a password that opens it: none is taken back *)
(* while it is locked, and none locks it that has no password (lock).      *)
THEOREM NobodyIsShutOut == DeskSpec => []NobodyShutOut
<1>1. DeskInit => LockIInv
  BY DEF DeskInit, LockIInv, NobodyShutOut
<1>2. LockIInv /\ [DeskNext]_deskVars => LockIInv'
  <2> SUFFICES ASSUME LockIInv, [DeskNext]_deskVars PROVE LockIInv'
    OBVIOUS
  <2>1. ASSUME UNCHANGED <<locked, password>> PROVE LockIInv'
    BY <2>1 DEF LockIInv, NobodyShutOut
  <2>2. ASSUME ~locked, UNCHANGED locked PROVE LockIInv'
    BY <2>2 DEF LockIInv, NobodyShutOut
  <2>3. CASE AdvanceMotions \/ ClickLogo \/ ClickPower \/ UNCHANGED deskVars
    BY <2>1, <2>3 DEF AdvanceMotions, ClickLogo, ClickPower, deskVars
  <2>4. CASE ClickPowerMenu \/ ClickMenuItem
    <3>1. UNCHANGED <<locked, password>> \/ \E what : Does(what)
      BY <2>4 DEF ClickPowerMenu, ClickMenuItem
    <3> QED BY <2>1, <3>1, LockKeeps
  <2>5. CASE ClickSettings
    BY <2>2, <2>5 DEF ClickSettings, Beside, Clickable
  <2>6. ASSUME NEW app \in AppSet, ClickQuick(app) \/ ClickTask(app) \/ ClickWindow(app) PROVE LockIInv'
    BY <2>1, <2>6 DEF ClickQuick, ClickTask, ClickWindow
  <2>7. CASE Key
    <3>1. ASSUME NEW key, KeyLocked(key) PROVE LockIInv'
      <4>1. locked /\ locked' \in BOOLEAN /\ UNCHANGED password
        BY <3>1 DEF KeyLocked, LockIInv
      <4> QED BY <4>1 DEF LockIInv, NobodyShutOut
    <3>2. ASSUME NEW key, KeyPowerMenu(key) \/ KeyInSettings(key) PROVE LockIInv'
      BY <2>2, <3>2 DEF KeyPowerMenu, KeyInSettings
    <3>3. ASSUME KeyMenu \/ KeyTab PROVE LockIInv'
      BY <2>1, <3>3 DEF KeyMenu, KeyTab
    <3>4. ASSUME NEW key, KeyInMenu(key) PROVE LockIInv'
      <4>1. UNCHANGED <<locked, password>> \/ \E what : Does(what)
        BY <3>4 DEF KeyInMenu
      <4> QED BY <2>1, <4>1, LockKeeps
    <3>5. ASSUME NEW what, KeyInTerminal(what) PROVE LockIInv'
      BY <3>5, LockKeeps DEF KeyInTerminal
    <3> QED BY <2>7, <3>1, <3>2, <3>3, <3>4, <3>5 DEF Key
  <2> QED BY <2>3, <2>4, <2>5, <2>6, <2>7 DEF DeskNext
<1>3. LockIInv => NobodyShutOut
  BY DEF LockIInv
<1> QED
  BY <1>1, <1>2, <1>3, PTL DEF DeskSpec

(***************************************************************************)
(* The menu                                                                *)
(***************************************************************************)

\* Only the instance's facts about sets of indices are used.
Either(a, b, p) == a
Rows == INSTANCE FoldLemmas WITH Op <- Either

(* The rows a filter leaves are rows of the menu.                          *)
LEMMA RowsAre ==
  /\ Len(Items) \in Nat /\ DOMAIN Items = 1 .. Len(Items)
  /\ \A filter : Filtered(filter) \subseteq 1 .. Len(Items)
BY DesktopAssumption DEF Filtered

(* The first of some rows is one of them; so are the one above and below.  *)
LEMMA RowIn ==
  ASSUME NEW s \in SUBSET (1 .. Len(Items)), s # {}
  PROVE  Min(s) \in s /\ Max(s) \in s
<1>1. Len(Items) \in Nat
  BY RowsAre
<1>2. \E x \in s : \A y \in s : x <= y
  BY <1>1, Rows!LeastExists
<1>3. Rows!Top(s) \in s
  BY <1>1, Rows!TopIs
<1>4. Min(s) \in s
  BY <1>2, Zenon DEF Min
<1>5. Max(s) \in s
  BY <1>3, Zenon DEF Max, Rows!Top
<1> QED BY <1>4, <1>5

(* An empty filter leaves every row.                                       *)
LEMMA NothingHidden ==
  ASSUME Filtered(<<>>) # {}
  PROVE  1 \in Filtered(<<>>)
<1>1. 1 \in DOMAIN Items
  BY RowsAre
<1>2. Items[1].name \in Seq(STRING)
  <2>1. Items \in Seq([name : Seq(STRING), does : AppSet \cup {"Lock", "Reboot", "Off"}])
    BY DesktopAssumption
  <2>2. Items[1] \in [name : Seq(STRING), does : AppSet \cup {"Lock", "Reboot", "Off"}]
    <3>1. \A S : \A q \in Seq(S) : \A i \in DOMAIN q : q[i] \in S
      OBVIOUS
    <3> QED BY <1>1, <2>1, <3>1
  <2> QED BY <2>2
<1>3. IsHeld(<<>>, Items[1].name)
  <2>1. 0 \in 0 .. Len(Items[1].name)
    BY <1>2
  <2>2. SubSeq(Items[1].name, 1, Len(Items[1].name)) = Items[1].name
    BY <1>2
  <2>3. ASSUME NEW t \in Seq(STRING) PROVE IsPrefix(<<>>, t)
    <3>1. Len(<<>>) = 0 /\ Len(t) \in Nat
      OBVIOUS
    <3>2. SubSeq(<<>>, 1, 0) = <<>> /\ SubSeq(t, 1, 0) = <<>>
      OBVIOUS
    <3> QED BY <3>1, <3>2 DEF IsPrefix
  <2>4. IsPrefix(<<>>, SubSeq(Items[1].name, 0 + 1, Len(Items[1].name)))
    <3>1. 0 + 1 = 1
      OBVIOUS
    <3> QED BY <1>2, <2>2, <2>3, <3>1, Zenon
  <2> QED BY <2>1, <2>4 DEF IsHeld
<1> QED BY <1>1, <1>3 DEF Filtered

MenuIInv ==
  /\ menu = [open |-> menu.open, filter |-> menu.filter, choice |-> menu.choice]
  /\ ChosenIsShown

(* A menu that is shut, and one that opens, choose nothing that is hidden. *)
LEMMA MenuShut ==
  ASSUME NEW f, NEW c, menu' = [open |-> FALSE, filter |-> f, choice |-> c]
  PROVE  MenuIInv'
BY DEF MenuIInv, ChosenIsShown

(* A choice among the rows that pass the filter.                           *)
LEMMA MenuChosen ==
  ASSUME NEW o, NEW f, NEW c, menu' = [open |-> o, filter |-> f, choice |-> c],
         Filtered(f) # {} => c \in Filtered(f)
  PROVE  MenuIInv'
BY DEF MenuIInv, ChosenIsShown

(* Each key in the menu.                                                   *)
LEMMA MenuKeeps ==
  ASSUME MenuIInv, NEW key, KeyInMenu(key)
  PROVE  MenuIInv'
<1> DEFINE rows == Filtered(menu.filter)
<1>0. rows # {} => menu.choice \in rows
  BY DEF KeyInMenu, MenuIInv, ChosenIsShown
<1>r. rows \subseteq 1 .. Len(Items)
  BY RowsAre
<1>1. ASSUME menu' = [menu EXCEPT !.open = FALSE, !.filter = <<>>] PROVE MenuIInv'
  BY <1>1, MenuShut DEF MenuIInv
<1>2. ASSUME menu' = [menu EXCEPT !.choice = Above(rows, @)] PROVE MenuIInv'
  <2>1. menu' = [open |-> menu.open, filter |-> menu.filter, choice |-> Above(rows, menu.choice)]
    BY <1>2 DEF MenuIInv
  <2>2. rows # {} => Above(rows, menu.choice) \in rows
    <3> DEFINE s == {i \in rows : i < menu.choice}
    <3>1. s # {} => Max(s) \in s
      BY <1>r, RowIn
    <3>2. Above(rows, menu.choice) = IF s # {} THEN Max(s) ELSE menu.choice
      BY DEF Above
    <3> QED BY <1>0, <3>1, <3>2
  <2> QED BY <2>1, <2>2, MenuChosen
<1>3. ASSUME menu' = [menu EXCEPT !.choice = Below(rows, @)] PROVE MenuIInv'
  <2>1. menu' = [open |-> menu.open, filter |-> menu.filter, choice |-> Below(rows, menu.choice)]
    BY <1>3 DEF MenuIInv
  <2>2. rows # {} => Below(rows, menu.choice) \in rows
    <3> DEFINE s == {i \in rows : i > menu.choice}
    <3>1. s # {} => Min(s) \in s
      BY <1>r, RowIn
    <3>2. Below(rows, menu.choice) = IF s # {} THEN Min(s) ELSE menu.choice
      BY DEF Below
    <3> QED BY <1>0, <3>1, <3>2
  <2> QED BY <2>1, <2>2, MenuChosen
<1>4. ASSUME NEW f, menu' = [menu EXCEPT !.filter = f, !.choice = Choosing(f, @)] PROVE MenuIInv'
  <2>1. menu' = [open |-> menu.open, filter |-> f, choice |-> FirstRow(f)]
    BY <1>4 DEF MenuIInv, Choosing
  <2>2. Filtered(f) # {} => FirstRow(f) \in Filtered(f)
    BY RowsAre, RowIn DEF FirstRow
  <2> QED BY <2>1, <2>2, MenuChosen
<1>5. ASSUME menu' = NoMenu PROVE MenuIInv'
  BY <1>5, MenuShut DEF NoMenu
<1> QED
  BY <1>1, <1>2, <1>3, <1>4, <1>5 DEF KeyInMenu

(* The row Enter starts is one the person sees, whatever they type, move   *)
(* to or take back (desktop.rs, key_menu and filtered).                    *)
THEOREM ChosenRowIsShown == DeskSpec => []ChosenIsShown
<1>1. DeskInit => MenuIInv
  BY DEF DeskInit, MenuIInv, ChosenIsShown, NoMenu
<1>2. MenuIInv /\ [DeskNext]_deskVars => MenuIInv'
  <2> SUFFICES ASSUME MenuIInv, [DeskNext]_deskVars PROVE MenuIInv'
    OBVIOUS
  <2>1. ASSUME UNCHANGED menu PROVE MenuIInv'
    BY <2>1 DEF MenuIInv, ChosenIsShown
  <2>2. ASSUME NEW o, menu' = [NoMenu EXCEPT !.open = o] PROVE MenuIInv'
    <3>1. menu' = [open |-> o, filter |-> <<>>, choice |-> 1]
      BY <2>2 DEF NoMenu
    <3> QED BY <3>1, NothingHidden, MenuChosen
  <2>3. ASSUME Beside PROVE MenuIInv'
    <3>1. menu' = [open |-> FALSE, filter |-> menu.filter, choice |-> menu.choice]
      BY <2>3 DEF Beside, MenuIInv
    <3> QED BY <3>1, MenuShut
  <2>4. ASSUME menu' = NoMenu PROVE MenuIInv'
    BY <2>4, MenuShut DEF NoMenu
  <2>5. CASE AdvanceMotions \/ ClickPowerMenu \/ UNCHANGED deskVars
    BY <2>1, <2>5 DEF AdvanceMotions, ClickPowerMenu, deskVars
  <2>6. CASE ClickMenuItem
    BY <2>4, <2>6 DEF ClickMenuItem
  <2>7. CASE ClickLogo
    BY <2>2, <2>7 DEF ClickLogo
  <2>8. CASE ClickPower \/ ClickSettings
    BY <2>3, <2>8 DEF ClickPower, ClickSettings
  <2>9. ASSUME NEW app \in AppSet, ClickQuick(app) \/ ClickTask(app) \/ ClickWindow(app) PROVE MenuIInv'
    BY <2>3, <2>9 DEF ClickQuick, ClickTask, ClickWindow
  <2>10. CASE Key
    <3>1. ASSUME NEW key, KeyLocked(key) \/ KeyPowerMenu(key) \/ KeyInSettings(key) PROVE MenuIInv'
      BY <2>1, <3>1 DEF KeyLocked, KeyPowerMenu, KeyInSettings
    <3>2. ASSUME KeyMenu PROVE MenuIInv'
      BY <2>2, <3>2 DEF KeyMenu
    <3>3. ASSUME NEW what, KeyTab \/ KeyInTerminal(what) PROVE MenuIInv'
      BY <2>1, <3>3 DEF KeyTab, KeyInTerminal
    <3> QED BY <2>10, <3>1, <3>2, <3>3, MenuKeeps DEF Key
  <2> QED BY <2>5, <2>6, <2>7, <2>8, <2>9, <2>10 DEF DeskNext
<1>3. MenuIInv => ChosenIsShown
  BY DEF MenuIInv
<1> QED
  BY <1>1, <1>2, <1>3, PTL DEF DeskSpec

(***************************************************************************)
(* The notes                                                               *)
(***************************************************************************)

(* A name that is free names nothing, unless every one was taken.          *)
LEMMA FreeNameIsFree ==
  ASSUME NEW E, NEW path, NEW names \in Seq(Names), ~Exists(E, Append(path, Fallback))
  PROVE  ~Exists(E, Append(path, FreeName(E, path, names)))
<1> DEFINE free == {i \in DOMAIN names : ~Exists(E, Append(path, names[i]))}
<1>1. CASE free = {}
  BY <1>1 DEF FreeName
<1>2. CASE free # {}
  <2>1. free \in SUBSET (1 .. Len(names)) /\ Len(names) \in Nat
    OBVIOUS
  <2>2. \E i \in free : \A j \in free : i <= j
    <3> HIDE DEF free
    <3> QED BY <1>2, <2>1, Rows!LeastExists
  <2> DEFINE first == CHOOSE i \in free : \A j \in free : i <= j
  <2>3. first \in free
    <3> HIDE DEF free
    <3> QED BY <2>2
  <2>4. FreeName(E, path, names) = names[first]
    BY <1>2 DEF FreeName
  <2> HIDE DEF first
  <2> QED BY <2>3, <2>4
<1> QED BY <1>1, <1>2

(* A note saved for the first time replaces no file, whatever the shell,   *)
(* the explorer and the scanner have made of the tree (desktop.rs, save).  *)
THEOREM NewNotesAreNew == FilesSpec => NewNoteIsNew
<1> DEFINE A == SaveNote /\ notes.path = <<>> /\ ~Exists(entries, Append(Documents, Fallback)) =>
                  \A e \in entries : e \in entries'
<1>1. A
  <2> SUFFICES ASSUME SaveNote, notes.path = <<>>, ~Exists(entries, Append(Documents, Fallback)),
                      NEW e \in entries
               PROVE  e \in entries'
    OBVIOUS
  <2>1. ~Exists(entries, NoteName(entries))
    BY FreeNameIsFree, FilesAssumption DEF NoteName
  <2>2. entries' = Written(entries, NoteName(entries), notes.text)
    BY DEF SaveNote
  <2>3. entries \subseteq Written(entries, NoteName(entries), notes.text)
    BY <2>1 DEF Written, Put, MakeDir
  <2> QED BY <2>2, <2>3
<1>2. [FilesNext]_filesVars => [A]_filesVars
  BY <1>1
<1> QED
  BY <1>2, PTL DEF FilesSpec, NewNoteIsNew

(***************************************************************************)
(* The scan                                                                *)
(***************************************************************************)

AnyName == Names \cup {"Documents", "System", "Quarantaine"}
AnyText == Texts \cup {NoText}
Node == [path : Seq(AnyName), kind : {"dir", "file"}, text : AnyText, system : BOOLEAN]

\* A tree: finitely many entries, and one of a path.
OnePath(E) == \A d, e \in E : d.path = e.path => d = e
TreeOK(E) == E \in SUBSET Node /\ IsFiniteSet(E) /\ OnePath(E)
FilesIInv == TreeOK(entries) /\ dir \in Seq(AnyName) /\ notes \in [text : AnyText, path : Seq(AnyName)]

(* What a function gives of a finite set is finite.                        *)
LEMMA ImageFinite ==
  ASSUME NEW S, IsFiniteSet(S), NEW f, f \in [S -> {f[x] : x \in S}]
  PROVE  IsFiniteSet({f[x] : x \in S})
<1>1. f \in Surjection(S, {f[x] : x \in S})
  BY DEF Surjection
<1> QED
  BY <1>1, FS_Surjection

(* A part of a tree is a tree.                                             *)
LEMMA PartIs ==
  ASSUME NEW E, TreeOK(E), NEW F \in SUBSET E
  PROVE  TreeOK(F)
<1>1. IsFiniteSet(F)
  BY FS_Subset DEF TreeOK
<1> QED
  BY <1>1 DEF TreeOK, OnePath

(* A directory made adds the missing ones above it, and takes nothing.     *)
LEMMA MadeIs ==
  ASSUME NEW E, TreeOK(E), NEW path \in Seq(AnyName)
  PROVE  /\ TreeOK(MakeDir(E, path)) /\ E \subseteq MakeDir(E, path)
         /\ \A e \in MakeDir(E, path) : e \in E \/ (Len(e.path) \in 1 .. Len(path) /\ e.kind = "dir")
<1> DEFINE cut == [n \in 1 .. Len(path) |-> SubSeq(path, 1, n)]
           above == {SubSeq(path, 1, n) : n \in 1 .. Len(path)}
           made == {p \in above : \A q \in above : IsPrefix(p, q) => ~Exists(E, q)}
           new == [p \in made |-> Dir(p, FALSE)]
           F == {new[p] : p \in made}
<1>1. Len(path) \in Nat /\ \A n \in 1 .. Len(path) : SubSeq(path, 1, n) \in Seq(AnyName) /\ Len(SubSeq(path, 1, n)) = n
  OBVIOUS
<1>2. IsFiniteSet(above)
  <2>1. above = {cut[n] : n \in 1 .. Len(path)}
    OBVIOUS
  <2>2. cut \in [1 .. Len(path) -> {cut[n] : n \in 1 .. Len(path)}]
    OBVIOUS
  <2>3. IsFiniteSet(1 .. Len(path))
    BY <1>1, FS_Interval
  <2> HIDE DEF cut, above
  <2>4. IsFiniteSet({cut[n] : n \in 1 .. Len(path)})
    BY <2>2, <2>3, ImageFinite
  <2> QED BY <2>1, <2>4
<1>3. IsFiniteSet(made)
  <2>1. made \in SUBSET above
    OBVIOUS
  <2> HIDE DEF made, above
  <2> QED BY <1>2, <2>1, FS_Subset
<1>4. \A p \in made : p \in Seq(AnyName) /\ Len(p) \in 1 .. Len(path) /\ ~Exists(E, p)
  <2> SUFFICES ASSUME NEW p \in made PROVE p \in Seq(AnyName) /\ Len(p) \in 1 .. Len(path) /\ ~Exists(E, p)
    OBVIOUS
  <2>1. p \in above /\ (IsPrefix(p, p) => ~Exists(E, p))
    OBVIOUS
  <2>2. p \in Seq(AnyName) /\ Len(p) \in 1 .. Len(path)
    <3> HIDE DEF made
    <3> QED BY <1>1, <2>1
  <2>3. IsPrefix(p, p)
    BY <2>2 DEF IsPrefix
  <2> HIDE DEF made, above
  <2> QED BY <2>1, <2>2, <2>3
<1>5. IsFiniteSet(F)
  <2>1. new \in [made -> {new[p] : p \in made}]
    <3> HIDE DEF made
    <3> QED OBVIOUS
  <2> HIDE DEF made, new
  <2> QED BY <1>3, <2>1, ImageFinite
<1>6. MakeDir(E, path) = E \cup F
  BY DEF MakeDir
<1>7. \A e \in F : e \in Node /\ e.kind = "dir" /\ e.path \in made /\ e = Dir(e.path, FALSE)
  <2> SUFFICES ASSUME NEW p \in made
               PROVE  LET e == Dir(p, FALSE) IN e \in Node /\ e.kind = "dir" /\ e.path \in made /\ e = Dir(e.path, FALSE)
    <3> HIDE DEF made
    <3> QED OBVIOUS
  <2> HIDE DEF made
  <2> QED BY <1>4 DEF Dir, Node, AnyText, NoText
<1> HIDE DEF made, F
<1>8. E \cup F \in SUBSET Node /\ IsFiniteSet(E \cup F)
  BY <1>5, <1>7, FS_Union DEF TreeOK
<1>9. OnePath(E \cup F)
  <2> SUFFICES ASSUME NEW d \in E \cup F, NEW e \in E \cup F, d.path = e.path PROVE d = e
    BY DEF OnePath
  <2>1. CASE d \in E /\ e \in E
    BY <2>1 DEF TreeOK, OnePath
  <2>2. CASE d \in F /\ e \in F
    BY <1>7, <2>2
  <2>3. CASE d \in E /\ e \in F
    BY <1>4, <1>7, <2>3 DEF Exists
  <2>4. CASE d \in F /\ e \in E
    BY <1>4, <1>7, <2>4 DEF Exists
  <2> QED BY <2>1, <2>2, <2>3, <2>4
<1> QED
  BY <1>4, <1>6, <1>7, <1>8, <1>9 DEF TreeOK

(* The entry of a path.                                                    *)
LEMMA AtIs ==
  ASSUME NEW E, TreeOK(E), NEW e \in E
  PROVE  At(E, e.path) = e
BY DEF At, TreeOK, OnePath

(* A text put to a path is there, and nothing else is touched.             *)
LEMMA PutIs ==
  ASSUME NEW E, TreeOK(E), NEW path \in Seq(AnyName), NEW t \in AnyText, NEW s \in BOOLEAN
  PROVE  /\ TreeOK(Put(E, path, t, s))
         /\ \E f \in Put(E, path, t, s) : f.path = path /\ f.text = t
         /\ \A e \in E : e.path # path => e \in Put(E, path, t, s)
<1>1. CASE Exists(E, path)
  <2>1. PICK a \in E : a.path = path
    BY <1>1 DEF Exists
  <2>2. At(E, path) = a /\ a \in Node
    BY <2>1, AtIs DEF TreeOK
  <2> DEFINE b == [a EXCEPT !.text = t]
             F == (E \ {a}) \cup {b}
  <2>3. b \in Node /\ b.path = path /\ b.text = t
    BY <2>1, <2>2 DEF Node
  <2>4. Put(E, path, t, s) = F
    BY <1>1, <2>2 DEF Put
  <2> HIDE DEF b
  <2>5. IsFiniteSet(F)
    BY FS_AddElement, FS_RemoveElement DEF TreeOK
  <2>6. \A e \in E \ {a} : e.path # path
    BY <2>1 DEF TreeOK, OnePath
  <2>7. TreeOK(F)
    BY <2>3, <2>5, <2>6 DEF TreeOK, OnePath
  <2>8. \A e \in E : e.path # path => e \in F
    BY <2>1
  <2>9. b \in F
    OBVIOUS
  <2> HIDE DEF F
  <2> QED BY <2>3, <2>4, <2>7, <2>8, <2>9
<1>2. CASE ~Exists(E, path)
  <2> DEFINE above == ParentOf(path)
             M == MakeDir(E, above)
             b == File(path, t, s)
  <2>1. above \in Seq(AnyName) /\ (Len(above) < Len(path) \/ Len(above) = 0)
    BY DEF ParentOf, Front
  <2>2. TreeOK(M) /\ E \subseteq M /\ \A e \in M : e \in E \/ Len(e.path) \in 1 .. Len(above)
    <3> HIDE DEF above
    <3> QED BY <2>1, MadeIs
  <2>3. b \in Node /\ b.path = path /\ b.text = t
    BY DEF File, Node
  <2>4. Put(E, path, t, s) = M \cup {b}
    BY <1>2 DEF Put
  <2> HIDE DEF b, M, above
  <2>5. Len(above) \in Nat /\ Len(path) \in Nat
    BY <2>1
  <2>6. \A e \in M : e.path # path
    BY <1>2, <2>1, <2>2, <2>5 DEF Exists
  <2>7. IsFiniteSet(M \cup {b})
    BY <2>2, FS_AddElement DEF TreeOK
  <2>8. TreeOK(M \cup {b})
    BY <2>2, <2>3, <2>6, <2>7 DEF TreeOK, OnePath
  <2> QED BY <2>2, <2>3, <2>4, <2>8
<1> QED
  BY <1>1, <1>2

(* A text written is there unless a directory is; nothing else is touched. *)
LEMMA WrittenIs ==
  ASSUME NEW E, TreeOK(E), NEW path \in Seq(AnyName), NEW t \in AnyText
  PROVE  /\ TreeOK(Written(E, path, t))
         /\ CanWrite(E, path) => \E f \in Written(E, path, t) : f.path = path /\ f.text = t
         /\ ~CanWrite(E, path) => Written(E, path, t) = E
         /\ \A e \in E : e.path # path => e \in Written(E, path, t)
<1>1. CASE CanWrite(E, path)
  <2>1. Written(E, path, t) = Put(E, path, t, FALSE)
    BY <1>1 DEF Written
  <2>2. /\ TreeOK(Put(E, path, t, FALSE))
        /\ \E f \in Put(E, path, t, FALSE) : f.path = path /\ f.text = t
        /\ \A e \in E : e.path # path => e \in Put(E, path, t, FALSE)
    BY PutIs
  <2> QED BY <1>1, <2>1, <2>2
<1>2. CASE ~CanWrite(E, path)
  BY <1>2 DEF Written
<1> QED
  BY <1>1, <1>2

(* What is removed is the entry of the path, or nothing.                   *)
LEMMA RemovedIs ==
  ASSUME NEW E, TreeOK(E), NEW path
  PROVE  /\ TreeOK(Removed(E, path))
         /\ \A e \in E : e.path # path => e \in Removed(E, path)
<1>1. CASE ~CanRemove(E, path)
  BY <1>1 DEF Removed
<1>2. CASE CanRemove(E, path)
  <2>1. PICK a \in E : a.path = path
    BY <1>2 DEF CanRemove, Exists
  <2>2. At(E, path) = a
    BY <2>1, AtIs
  <2>3. Removed(E, path) = E \ {a}
    BY <1>2, <2>2 DEF Removed
  <2> QED BY <2>1, <2>3, PartIs
<1> QED
  BY <1>1, <1>2

(* Where what is caught goes is in quarantine, under its own name.         *)
LEMMA KeptIs ==
  ASSUME NEW p \in Seq(AnyName), p # <<>>
  PROVE  Kept(p) \in Seq(AnyName) /\ InQuarantine(Kept(p)) /\ Kept(p)[3] = Last(p)
<1>1. Len(p) \in 1 .. Len(p) /\ Last(p) \in AnyName
  BY DEF Last
<1>2. Quarantine \in Seq(AnyName) /\ Len(Quarantine) = 2
  BY DEF Quarantine, AnyName
<1> DEFINE x == Last(p)
           t == Append(Quarantine, x)
<1>3. Kept(p) = t /\ x \in AnyName
  BY <1>1 DEF Kept
<1> HIDE DEF x
<1>4. t \in Seq(AnyName) /\ Len(t) = 3 /\ t[3] = x /\ t[1] = Quarantine[1] /\ t[2] = Quarantine[2]
  <2>1. ASSUME NEW q \in Seq(AnyName), Len(q) = 2
        PROVE  /\ Append(q, x) \in Seq(AnyName) /\ Len(Append(q, x)) = 3
               /\ Append(q, x)[3] = x /\ Append(q, x)[1] = q[1] /\ Append(q, x)[2] = q[2]
    <3>1. /\ Append(q, x) \in Seq(AnyName) /\ Len(Append(q, x)) = Len(q) + 1
          /\ Append(q, x)[Len(q) + 1] = x /\ \A i \in 1 .. Len(q) : Append(q, x)[i] = q[i]
      BY <1>3
    <3> QED BY <2>1, <3>1
  <2> QED BY <1>2, <2>1
<1> HIDE DEF t
<1>5. t[1] = "System" /\ t[2] = "Quarantaine" /\ "Quarantaine" \in Alike
  BY <1>4, FilesAssumption DEF Quarantine
<1> QED
  BY <1>3, <1>4, <1>5 DEF InQuarantine, x

(* A file caught is in quarantine or where it was, and nothing else moves  *)
(* but what was in quarantine under its name.                              *)
LEMMA MovedIs ==
  ASSUME NEW E, TreeOK(E), NEW g \in E, g.path # <<>>, ~InQuarantine(g.path)
  PROVE  /\ TreeOK(Moved(E, g.path))
         /\ \A e \in E : e.path # g.path /\ e.path # Kept(g.path) => e \in Moved(E, g.path)
         /\ g \in Moved(E, g.path) \/ \E f \in Moved(E, g.path) : f.path = Kept(g.path) /\ f.text = g.text
<1> DEFINE p == g.path
           made == MakeDir(E, Quarantine)
           with == Written(made, Kept(p), g.text)
<1>1. p \in Seq(AnyName) /\ g.text \in AnyText /\ At(E, p) = g
  BY AtIs DEF TreeOK, Node
<1>2. Kept(p) \in Seq(AnyName) /\ Kept(p) # p
  BY <1>1, KeptIs
<1>3. TreeOK(made) /\ E \subseteq made
  <2>1. Quarantine \in Seq(AnyName)
    BY DEF Quarantine, AnyName
  <2> QED BY <2>1, MadeIs
<1>4. Moved(E, p) = IF CanWrite(made, Kept(p)) THEN Removed(with, p) ELSE with
  BY <1>1 DEF Moved
<1> HIDE DEF made
<1>5. /\ TreeOK(with)
      /\ CanWrite(made, Kept(p)) => \E f \in with : f.path = Kept(p) /\ f.text = g.text
      /\ ~CanWrite(made, Kept(p)) => with = made
      /\ \A e \in made : e.path # Kept(p) => e \in with
  <2> HIDE DEF p
  <2> QED BY <1>1, <1>2, <1>3, WrittenIs DEF p
<1> HIDE DEF with
<1>6. TreeOK(Removed(with, p)) /\ \A e \in with : e.path # p => e \in Removed(with, p)
  BY <1>5, RemovedIs
<1> HIDE DEF p
<1>7. CASE CanWrite(made, Kept(p))
  BY <1>2, <1>3, <1>4, <1>5, <1>6, <1>7 DEF p
<1>8. CASE ~CanWrite(made, Kept(p))
  BY <1>3, <1>4, <1>5, <1>8 DEF p
<1> QED
  BY <1>7, <1>8

Alone(e) == ~\E f \in entries : f # e /\ f.kind = "file" /\ Last(f.path) = Last(e.path)
Moving(E, path, x) == Moved(E, path)
Moves == INSTANCE FoldLemmas WITH Op <- Moving

(* The scan, file after file: what was not reached yet is as it was, and   *)
(* the text of a file of its own name is in the tree all along.            *)
LEMMA ScanIs ==
  ASSUME TreeOK(entries), NEW walk \in SetToSeqs({e.path : e \in Caught(entries)})
  PROVE  /\ TreeOK(FoldLeft(Moved, entries, walk))
         /\ \A e \in Caught(entries) : Alone(e) => \E f \in FoldLeft(Moved, entries, walk) : f.text = e.text
<1> DEFINE S == {e.path : e \in Caught(entries)}
           c == Cardinality(S)
<1>1. \A e \in Caught(entries) : /\ e \in entries /\ e.kind = "file" /\ e.path # <<>> /\ ~InQuarantine(e.path)
                                 /\ e.path \in Seq(AnyName)
  BY DEF Caught, Reached, TreeOK, Node
<1>2. IsFiniteSet(S)
  <2> DEFINE paths == [e \in Caught(entries) |-> e.path]
  <2>1. Caught(entries) \in SUBSET entries
    BY <1>1
  <2>2. IsFiniteSet(Caught(entries))
    BY <2>1, FS_Subset DEF TreeOK
  <2>3. S = {paths[e] : e \in Caught(entries)} /\ paths \in [Caught(entries) -> {paths[e] : e \in Caught(entries)}]
    OBVIOUS
  <2> HIDE DEF paths, S
  <2> QED BY <2>2, <2>3, ImageFinite
<1>3. c \in Nat
  BY <1>2, FS_CardinalityType
<1>4. walk \in [1 .. c -> S] /\ \A i, j \in 1 .. c : i # j => walk[i] # walk[j]
  BY DEF SetToSeqs
<1> HIDE DEF c
<1> DEFINE Ahead(E, k) == \A e \in Caught(entries) : (\A j \in 1 .. k : walk[j] # e.path) => e \in E
           Safe(E, e) == e \in E \/ \E f \in E : f.path = Kept(e.path) /\ f.text = e.text
           Held(E) == \A e \in Caught(entries) : Alone(e) => Safe(E, e)
           P == {x \in (0 .. c) \X SUBSET Node : TreeOK(x[2]) /\ Ahead(x[2], x[1]) /\ Held(x[2])}
<1>5. <<0, entries>> \in P
  <2>1. 0 \in 0 .. c /\ entries \in SUBSET Node
    BY <1>3 DEF TreeOK
  <2>2. Ahead(entries, 0) /\ Held(entries)
    BY <1>1
  <2> HIDE DEF Ahead, Held
  <2> QED BY <2>1, <2>2
<1>6. ASSUME NEW k \in 1 .. c, NEW E, <<k - 1, E>> \in P PROVE <<k, Moving(E, walk[k], <<>>)>> \in P
  <2>1. TreeOK(E) /\ Ahead(E, k - 1) /\ Held(E)
    <3> HIDE DEF Ahead, Held
    <3> QED BY <1>6
  <2>2. PICK g \in Caught(entries) : g.path = walk[k]
    BY <1>4
  <2>3. \A j \in 1 .. k - 1 : j \in 1 .. c /\ j # k
    BY <1>3
  <2>4. g \in E
    <3>1. \A j \in 1 .. k - 1 : walk[j] # g.path
      BY <1>4, <2>2, <2>3
    <3> QED BY <2>1, <3>1
  <2> DEFINE F == Moved(E, g.path)
  <2>5. /\ TreeOK(F)
        /\ \A e \in E : e.path # g.path /\ e.path # Kept(g.path) => e \in F
        /\ g \in F \/ \E f \in F : f.path = Kept(g.path) /\ f.text = g.text
    BY <1>1, <2>1, <2>4, MovedIs
  <2> HIDE DEF F
  <2>6. InQuarantine(Kept(g.path))
    BY <1>1, KeptIs
  <2>7. Ahead(F, k)
    <3> SUFFICES ASSUME NEW e \in Caught(entries), \A j \in 1 .. k : walk[j] # e.path PROVE e \in F
      OBVIOUS
    <3>1. k \in 1 .. k /\ \A j \in 1 .. k - 1 : j \in 1 .. k
      BY <1>3
    <3>2. e \in E
      BY <2>1, <3>1
    <3>3. e.path # g.path /\ e.path # Kept(g.path)
      BY <1>1, <2>2, <2>6, <3>1
    <3> QED BY <2>5, <3>2, <3>3
  <2>8. Held(F)
    <3> SUFFICES ASSUME NEW e \in Caught(entries), Alone(e) PROVE Safe(F, e)
      OBVIOUS
    <3>1. CASE e = g
      BY <2>5, <3>1
    <3>2. CASE e # g
      <4>1. e.path # g.path
        BY <1>1, <3>2 DEF TreeOK, OnePath
      <4>2. Last(g.path) # Last(e.path)
        BY <1>1, <3>2 DEF Alone
      <4>3. Kept(e.path) # Kept(g.path) /\ InQuarantine(Kept(e.path))
        BY <1>1, <4>2, KeptIs
      <4>4. Kept(e.path) # g.path /\ e.path # Kept(g.path)
        BY <1>1, <2>6, <4>3
      <4>5. CASE e \in E
        BY <2>5, <4>1, <4>4, <4>5
      <4>6. ASSUME NEW f \in E, f.path = Kept(e.path), f.text = e.text PROVE Safe(F, e)
        BY <2>5, <4>3, <4>4, <4>6
      <4> QED BY <2>1, <4>5, <4>6
    <3> QED BY <3>1, <3>2
  <2>9. k \in 0 .. c /\ F \in SUBSET Node
    BY <1>3, <2>5 DEF TreeOK
  <2>10. Moving(E, walk[k], <<>>) = F
    BY <2>2 DEF Moving, F
  <2> HIDE DEF Ahead, Held
  <2> QED BY <2>5, <2>7, <2>8, <2>9, <2>10
<1> DEFINE end == Moves!Run(entries, walk, <<>>)
<1>7. <<c, end>> \in P
  <2>1. DOMAIN walk = 1 .. c
    BY <1>4
  <2> HIDE DEF P
  <2> QED BY <1>3, <1>5, <1>6, <2>1, Moves!FoldKeeps
<1>8. FoldLeft(Moved, entries, walk) = end
  BY Zenon DEF FoldLeft, MapThenFoldSet, Max, Moves!Run, Moves!Walk, Moves!Top, Moving
<1> HIDE DEF end
<1>9. TreeOK(end) /\ Held(end)
  <2> HIDE DEF Held
  <2> QED BY <1>7
<1>10. ASSUME NEW e \in Caught(entries), Alone(e) PROVE \E f \in end : f.text = e.text
  BY <1>9, <1>10
<1> QED
  BY <1>8, <1>9, <1>10

(* A name that is free is one a file may have.                             *)
LEMMA FreeNameIsName ==
  ASSUME NEW E, NEW path, NEW names \in Seq(Names)
  PROVE  FreeName(E, path, names) \in Names
<1> DEFINE free == {i \in DOMAIN names : ~Exists(E, Append(path, names[i]))}
<1>1. CASE free = {}
  BY <1>1, FilesAssumption DEF FreeName
<1>2. CASE free # {}
  <2>1. free \in SUBSET (1 .. Len(names)) /\ Len(names) \in Nat
    OBVIOUS
  <2>2. \E i \in free : \A j \in free : i <= j
    <3> HIDE DEF free
    <3> QED BY <1>2, <2>1, Rows!LeastExists
  <2> DEFINE first == CHOOSE i \in free : \A j \in free : i <= j
  <2>3. first \in free
    <3> HIDE DEF free
    <3> QED BY <2>2
  <2>4. FreeName(E, path, names) = names[first]
    BY <1>2 DEF FreeName
  <2>5. names[first] \in Names
    BY <2>1, <2>3
  <2> QED BY <2>4, <2>5
<1> QED BY <1>1, <1>2

(* Whatever the four do, the tree is one.                                  *)
LEMMA FilesStep ==
  ASSUME FilesIInv, [FilesNext]_filesVars
  PROVE  FilesIInv'
<1> USE DEF FilesIInv
<1>1. /\ {<<>>, Documents, System, Quarantine} \subseteq Seq(AnyName)
      /\ \A p \in Seq(AnyName) : ParentOf(p) \in Seq(AnyName)
      /\ \A p \in Seq(AnyName), n \in Names : Append(p, n) \in Seq(AnyName)
  <2>1. {<<>>, Documents, System, Quarantine} \subseteq Seq(AnyName)
    BY DEF Documents, System, Quarantine, AnyName
  <2>2. \A p \in Seq(AnyName) : ParentOf(p) \in Seq(AnyName)
    BY DEF ParentOf, Front
  <2>3. Names \subseteq AnyName
    BY DEF AnyName
  <2> QED BY <2>1, <2>2, <2>3
<1>2. DirPaths \cup FilePaths \subseteq Seq(AnyName)
  <2> SUFFICES ASSUME NEW p \in BoundedSeq(Names, Depth) PROVE p \in Seq(AnyName)
    BY FilesAssumption
  <2>1. PICK m \in 0 .. Depth : p \in [1 .. m -> Names]
    BY DEF BoundedSeq, SeqOf
  <2>2. m \in Nat /\ p \in [1 .. m -> AnyName]
    BY <2>1, FilesAssumption DEF AnyName
  <2> QED BY <2>2
<1>3. ASSUME NEW path \in Seq(AnyName), entries' = MakeDir(entries, path), UNCHANGED <<dir, notes>> PROVE FilesIInv'
  BY <1>3, MadeIs
<1>4. ASSUME NEW path, entries' = Removed(entries, path), UNCHANGED <<dir, notes>> PROVE FilesIInv'
  BY <1>4, RemovedIs
<1>5. CASE Shell
  <2>1. ASSUME NEW path \in FilePaths, NEW t \in Texts, Ecrire(path, t) PROVE FilesIInv'
    <3>1. path \in Seq(AnyName) /\ t \in AnyText
      BY <1>2 DEF AnyText
    <3>2. entries' = Written(entries, path, t) /\ UNCHANGED <<dir, notes>>
      BY <2>1 DEF Ecrire
    <3> QED BY <3>1, <3>2, WrittenIs
  <2> QED BY <1>2, <1>3, <1>4, <1>5, <2>1 DEF Shell, Mkdir, Rm
<1>6. CASE Explorer
  <2>1. ASSUME NEW path \in {<<>>, Documents, System, Quarantine, ParentOf(dir)}, GoTo(path) PROVE FilesIInv'
    BY <1>1, <2>1 DEF GoTo
  <2>2. CASE NewFolder
    BY <1>2, <1>3, <2>2 DEF NewFolder
  <2>3. ASSUME NEW e \in entries, Delete(e) PROVE FilesIInv'
    BY <1>4, <2>3 DEF Delete
  <2>4. ASSUME NEW e \in entries, Open(e) PROVE FilesIInv'
    <3>1. e \in Node
      BY DEF TreeOK
    <3>2. e.path \in Seq(AnyName) /\ e.text \in AnyText
      BY <3>1 DEF Node
    <3> QED BY <2>4, <3>2 DEF Open
  <2>5. Inside(entries, dir) \subseteq entries
    BY DEF Inside
  <2> QED BY <1>6, <2>1, <2>2, <2>3, <2>4, <2>5 DEF Explorer
<1>7. ASSUME NEW t \in Texts, TypeNote(t) PROVE FilesIInv'
  BY <1>7 DEF TypeNote, AnyText
<1>8. CASE NewNote
  BY <1>8 DEF NewNote, AnyText
<1>9. CASE SaveNote
  <2> DEFINE path == IF notes.path = <<>> THEN NoteName(entries) ELSE notes.path
  <2>1. path \in Seq(AnyName)
    BY <1>1, FreeNameIsName, FilesAssumption DEF NoteName
  <2>2. entries' = Written(entries, path, notes.text) /\ notes.text \in AnyText /\ dir' = dir
    BY <1>9 DEF SaveNote
  <2>3. notes' = [notes EXCEPT !.path = path] \/ notes' = notes
    BY <1>9 DEF SaveNote
  <2> HIDE DEF path
  <2>4. TreeOK(entries')
    BY <2>1, <2>2, WrittenIs
  <2> QED BY <2>1, <2>2, <2>3, <2>4
<1>10. CASE Scan
  BY <1>10, ScanIs DEF Scan
<1>11. CASE UNCHANGED filesVars
  BY <1>11 DEF filesVars
<1> QED
  BY <1>5, <1>6, <1>7, <1>8, <1>9, <1>10, <1>11 DEF FilesNext

(* The files are a tree: one entry of a path, whoever made it (fs.rs, put, *)
(* make_dir and remove, by the shell, the windows and the scanner).        *)
THEOREM FilesInvariant == FilesSpec => []FilesIInv
<1>1. FilesInit => FilesIInv
  <2> SUFFICES ASSUME FilesInit PROVE FilesIInv
    OBVIOUS
  <2> DEFINE E == {Dir(<<>>, TRUE), Dir(Documents, TRUE), Dir(System, TRUE)}
  <2>1. {<<>>, Documents, System} \subseteq Seq(AnyName)
    BY DEF Documents, System, AnyName
  <2>2. \A p \in Seq(AnyName) : Dir(p, TRUE) \in Node /\ Dir(p, TRUE).path = p
    BY DEF Dir, Node, AnyText
  <2>3. E \in SUBSET Node
    BY <2>1, <2>2
  <2>4. OnePath(E)
    BY <2>1, <2>2 DEF OnePath
  <2>5. IsFiniteSet(E)
    <3>1. ASSUME NEW a, NEW b, NEW d PROVE IsFiniteSet({a, b, d})
      <4>1. IsFiniteSet({a} \cup {b} \cup {d})
        BY FS_Singleton, FS_AddElement
      <4>2. {a, b, d} = {a} \cup {b} \cup {d}
        OBVIOUS
      <4> QED BY <4>1, <4>2
    <3> QED BY <3>1
  <2>6. entries = E /\ dir = <<>> /\ notes = [text |-> NoText, path |-> <<>>]
    BY DEF FilesInit
  <2> HIDE DEF E
  <2> QED BY <2>1, <2>3, <2>4, <2>5, <2>6 DEF FilesIInv, TreeOK, AnyText
<1>2. FilesIInv /\ [FilesNext]_filesVars => FilesIInv'
  BY FilesStep
<1> QED
  BY <1>1, <1>2, PTL DEF FilesSpec

(* A scan destroys no text of a file that shares its name with none, for   *)
(* every tree and every order of the walk: what it takes from the file is  *)
(* in quarantine, or still there (security.rs, scan).                      *)
THEOREM ScansKeepTexts == FilesSpec => ScanKeepsTexts
<1> DEFINE A == Scan => \A e \in Caught(entries) :
                           \/ \E f \in entries' : f.text = e.text
                           \/ \E f \in entries : f # e /\ f.kind = "file" /\ Last(f.path) = Last(e.path)
<1>1. FilesIInv => A
  BY ScanIs DEF FilesIInv, Scan, Alone
<1>2. FilesIInv /\ [FilesNext]_filesVars => [A]_filesVars
  BY <1>1
<1> QED
  BY <1>2, FilesInvariant, PTL DEF FilesSpec, ScanKeepsTexts

-----------------------------------------------------------------------------
(* The row of pages visited, from the pages behind, the page shown and the *)
(* pages ahead, the nearest last.                                          *)

RowOf(t, p, a) == t \o <<p>> \o Reverse(a)

LEMMA RowFacts ==
  ASSUME NEW S, NEW t \in Seq(S), NEW p \in S, NEW a \in Seq(S)
  PROVE  /\ RowOf(t, p, a) \in Seq(S)
         /\ Len(RowOf(t, p, a)) = Len(t) + 1 + Len(a)
         /\ \A i \in 1..Len(t) : RowOf(t, p, a)[i] = t[i]
         /\ RowOf(t, p, a)[Len(t) + 1] = p
         /\ \A i \in 1..Len(a) : RowOf(t, p, a)[Len(t) + 1 + i] = a[Len(a) - i + 1]
<1>1. Reverse(a) = [i \in 1..Len(a) |-> a[Len(a) - i + 1]]
  BY DEF Reverse
<1>2. Reverse(a) \in Seq(S) /\ Len(Reverse(a)) = Len(a)
  <2>1. \A i \in 1..Len(a) : a[Len(a) - i + 1] \in S
    BY ElementOfSeq
  <2> QED
    BY <1>1, <2>1
<1>3. t \o <<p>> \in Seq(S) /\ Len(t \o <<p>>) = Len(t) + 1 /\ (t \o <<p>>)[Len(t) + 1] = p
      /\ \A i \in 1..Len(t) : (t \o <<p>>)[i] = t[i]
  OBVIOUS
<1> DEFINE s == t \o <<p>>
           r == Reverse(a)
<1> HIDE DEF s, r
<1>0. s \in Seq(S) /\ r \in Seq(S)
  BY <1>2, <1>3 DEF s, r
<1>4. /\ s \o r \in Seq(S) /\ Len(s \o r) = Len(s) + Len(r)
      /\ \A i \in 1..Len(s) + Len(r) : (s \o r)[i] = IF i <= Len(s) THEN s[i] ELSE r[i - Len(s)]
  BY <1>0, ConcatProperties
<1>5. Len(s) = Len(t) + 1 /\ s[Len(t) + 1] = p /\ (\A i \in 1..Len(t) : s[i] = t[i]) /\ Len(t) \in Nat
  BY <1>3 DEF s
<1>6. Len(r) = Len(a) /\ Len(a) \in Nat /\ \A i \in 1..Len(a) : r[i] = a[Len(a) - i + 1]
  BY <1>1, <1>2 DEF r
<1>7. RowOf(t, p, a) = s \o r
  BY DEF RowOf, s, r
<1>8. \A i \in 1..Len(t) : (s \o r)[i] = t[i]
  BY <1>4, <1>5, <1>6
<1>9. \A i \in 1..Len(a) : (s \o r)[Len(t) + 1 + i] = a[Len(a) - i + 1]
  BY <1>4, <1>5, <1>6
<1>10. (s \o r)[Len(t) + 1] = p
  BY <1>4, <1>5, <1>6
<1> QED
  BY <1>4, <1>5, <1>6, <1>7, <1>8, <1>9, <1>10

(* What is in a row at a place past the page shown.                        *)
LEMMA RowAt ==
  ASSUME NEW S, NEW t \in Seq(S), NEW p \in S, NEW a \in Seq(S), NEW i \in 1..Len(t) + 1 + Len(a)
  PROVE  RowOf(t, p, a)[i] = IF i <= Len(t) THEN t[i]
                             ELSE IF i = Len(t) + 1 THEN p ELSE a[Len(a) - (i - Len(t) - 1) + 1]
<1>0. /\ Len(t) \in Nat /\ Len(a) \in Nat
      /\ \A j \in 1..Len(t) : RowOf(t, p, a)[j] = t[j]
      /\ RowOf(t, p, a)[Len(t) + 1] = p
      /\ \A j \in 1..Len(a) : RowOf(t, p, a)[Len(t) + 1 + j] = a[Len(a) - j + 1]
  <2>1. Len(t) \in Nat /\ Len(a) \in Nat
    OBVIOUS
  <2>2. \A j \in 1..Len(t) : RowOf(t, p, a)[j] = t[j]
    BY RowFacts
  <2>3. RowOf(t, p, a)[Len(t) + 1] = p
    BY RowFacts
  <2>4. \A j \in 1..Len(a) : RowOf(t, p, a)[Len(t) + 1 + j] = a[Len(a) - j + 1]
    BY RowFacts
  <2> QED
    BY <2>1, <2>2, <2>3, <2>4
<1>1. CASE i <= Len(t)
  BY <1>0, <1>1
<1>2. CASE i = Len(t) + 1
  BY <1>0, <1>2
<1>3. CASE i > Len(t) + 1
  <2> DEFINE k == i - Len(t) - 1
  <2>1. k \in 1..Len(a) /\ i = Len(t) + 1 + k
    BY <1>0, <1>3
  <2>2. RowOf(t, p, a)[Len(t) + 1 + k] = a[Len(a) - k + 1]
    BY <1>0, <2>1
  <2>3. ~(i <= Len(t)) /\ i # Len(t) + 1
    BY <1>0, <1>3
  <2> QED
    BY <2>1, <2>2, <2>3
<1>4. i <= Len(t) \/ i = Len(t) + 1 \/ i > Len(t) + 1
  BY <1>0
<1> QED
  BY <1>1, <1>2, <1>3, <1>4

LEMMA FrontFacts ==
  ASSUME NEW S, NEW t \in Seq(S), t # <<>>
  PROVE  /\ Front(t) \in Seq(S) /\ Len(Front(t)) = Len(t) - 1 /\ Last(t) \in S /\ Len(t) \in Nat \ {0}
         /\ \A i \in 1..Len(t) - 1 : Front(t)[i] = t[i]
         /\ Last(t) = t[Len(t)]
<1>1. Len(t) \in Nat \ {0} /\ \A i \in 1..Len(t) : t[i] \in S
  BY EmptySeq
<1>2. \A i \in 1..Len(t) - 1 : t[i] \in S
  BY <1>1
<1>3. Front(t) \in Seq(S) /\ Len(Front(t)) = (IF 1 <= Len(t) - 1 THEN Len(t) - 1 - 1 + 1 ELSE 0)
      /\ \A i \in 1..(Len(t) - 1 - 1 + 1) : Front(t)[i] = t[1 + i - 1]
  <2> DEFINE n == Len(t) - 1
  <2>1. n \in Int /\ \A i \in 1..n : t[i] \in S
    BY <1>1, <1>2
  <2> HIDE DEF n
  <2>2. /\ SubSeq(t, 1, n) \in Seq(S) /\ Len(SubSeq(t, 1, n)) = IF 1 <= n THEN n - 1 + 1 ELSE 0
        /\ \A i \in 1..n - 1 + 1 : SubSeq(t, 1, n)[i] = t[1 + i - 1]
    BY <2>1, SubSeqProperties
  <2> QED
    BY <2>2 DEF Front, n
<1>4. Len(Front(t)) = Len(t) - 1
  <2>1. CASE Len(t) = 1
    BY <1>3, <2>1
  <2>2. CASE Len(t) > 1
    BY <1>3, <2>2
  <2>3. Len(t) \in Nat \ {0}
    BY <1>1
  <2>4. \A n \in Nat \ {0} : n = 1 \/ n > 1
    OBVIOUS
  <2> QED
    BY <2>1, <2>2, <2>3, <2>4
<1>5. ASSUME NEW i \in 1..Len(t) - 1 PROVE Front(t)[i] = t[i]
  <2>1. i \in 1..(Len(t) - 1 - 1 + 1) /\ 1 + i - 1 = i
    BY <1>1
  <2> QED
    BY <1>3, <2>1
<1> QED
  BY <1>1, <1>3, <1>4, <1>5 DEF Last

(* Going back shortens what is behind and lengthens what is ahead.         *)
LEMMA RowBack ==
  ASSUME NEW S, NEW t \in Seq(S), NEW p \in S, NEW a \in Seq(S), t # <<>>
  PROVE  RowOf(Front(t), Last(t), Append(a, p)) = RowOf(t, p, a)
<1> DEFINE b == Append(a, p)
           f == Front(t)
<1>1. b \in Seq(S) /\ Len(b) = Len(a) + 1 /\ b[Len(a) + 1] = p /\ \A i \in 1..Len(a) : b[i] = a[i]
  BY AppendProperties
<1>2. /\ f \in Seq(S) /\ Len(f) = Len(t) - 1 /\ Last(t) \in S /\ Len(t) \in Nat \ {0}
      /\ \A i \in 1..Len(t) - 1 : f[i] = t[i]
      /\ Last(t) = t[Len(t)]
  BY FrontFacts
<1>0. Len(a) \in Nat
  OBVIOUS
<1> HIDE DEF b, f
<1>3. ASSUME NEW i \in 1..Len(t) + 1 + Len(a) PROVE RowOf(f, Last(t), b)[i] = RowOf(t, p, a)[i]
  <2>1. i \in 1..Len(f) + 1 + Len(b)
    BY <1>0, <1>1, <1>2
  <2>0. Last(t) \in S /\ f \in Seq(S) /\ b \in Seq(S)
    BY <1>1, <1>2
  <2>2. RowOf(f, Last(t), b)[i] = IF i <= Len(f) THEN f[i]
                                  ELSE IF i = Len(f) + 1 THEN Last(t) ELSE b[Len(b) - (i - Len(f) - 1) + 1]
    BY <2>0, <2>1, RowAt
  <2>3. RowOf(t, p, a)[i] = IF i <= Len(t) THEN t[i]
                            ELSE IF i = Len(t) + 1 THEN p ELSE a[Len(a) - (i - Len(t) - 1) + 1]
    BY RowAt
  <2>4. CASE i < Len(t)
    BY <1>2, <2>2, <2>3, <2>4
  <2>5. CASE i = Len(t)
    BY <1>2, <2>2, <2>3, <2>5
  <2>6. CASE i = Len(t) + 1
    <3>1. Len(b) - (i - Len(f) - 1) + 1 = Len(a) + 1
      BY <1>0, <1>1, <1>2, <2>6
    <3> QED
      BY <1>1, <1>2, <2>2, <2>3, <2>6, <3>1
  <2>7. CASE i > Len(t) + 1
    <3>1. /\ Len(b) - (i - Len(f) - 1) + 1 = Len(a) - (i - Len(t) - 1) + 1
          /\ Len(a) - (i - Len(t) - 1) + 1 \in 1..Len(a)
      BY <1>0, <1>1, <1>2, <2>7
    <3>2. RowOf(f, Last(t), b)[i] = b[Len(b) - (i - Len(f) - 1) + 1]
      BY <1>0, <1>2, <2>2, <2>7
    <3>3. RowOf(t, p, a)[i] = a[Len(a) - (i - Len(t) - 1) + 1]
      BY <1>2, <2>3, <2>7
    <3> QED
      BY <1>1, <3>1, <3>2, <3>3
  <2> QED
    BY <1>2, <2>4, <2>5, <2>6, <2>7
<1>4. /\ RowOf(f, Last(t), b) \in Seq(S) /\ RowOf(t, p, a) \in Seq(S)
      /\ Len(RowOf(f, Last(t), b)) = Len(t) + 1 + Len(a) /\ Len(RowOf(t, p, a)) = Len(t) + 1 + Len(a)
  <2>1. RowOf(f, Last(t), b) \in Seq(S) /\ Len(RowOf(f, Last(t), b)) = Len(f) + 1 + Len(b)
    <3>0. f \in Seq(S) /\ Last(t) \in S /\ b \in Seq(S)
      BY <1>1, <1>2
    <3>1. RowOf(f, Last(t), b) \in Seq(S)
      BY <3>0, RowFacts
    <3>2. Len(RowOf(f, Last(t), b)) = Len(f) + 1 + Len(b)
      BY <3>0, RowFacts
    <3> QED
      BY <3>1, <3>2
  <2>2. RowOf(t, p, a) \in Seq(S) /\ Len(RowOf(t, p, a)) = Len(t) + 1 + Len(a)
    <3>1. RowOf(t, p, a) \in Seq(S)
      BY RowFacts
    <3>2. Len(RowOf(t, p, a)) = Len(t) + 1 + Len(a)
      BY RowFacts
    <3> QED
      BY <3>1, <3>2
  <2> QED
    BY <1>0, <1>1, <1>2, <2>1, <2>2
<1>5. RowOf(f, Last(t), b) = RowOf(t, p, a)
  BY <1>3, <1>4, SeqEqual
<1> QED
  BY <1>5 DEF b, f

(* Going forward is going back, the other way round.                       *)
LEMMA RowForward ==
  ASSUME NEW S, NEW t \in Seq(S), NEW p \in S, NEW a \in Seq(S), a # <<>>
  PROVE  RowOf(Append(t, p), Last(a), Front(a)) = RowOf(t, p, a)
<1> DEFINE b == Append(t, p)
           f == Front(a)
           l == Last(a)
<1>1. b \in Seq(S) /\ b # <<>> /\ Len(b) = Len(t) + 1 /\ b[Len(t) + 1] = p /\ \A i \in 1..Len(t) : b[i] = t[i]
  BY AppendProperties
<1>2. f \in Seq(S) /\ l \in S /\ Len(f) = Len(a) - 1 /\ Len(a) \in Nat \ {0}
      /\ l = a[Len(a)] /\ \A i \in 1..Len(a) - 1 : f[i] = a[i]
  BY FrontFacts
<1> HIDE DEF b, f, l
<1>3. RowOf(Front(b), Last(b), Append(f, l)) = RowOf(b, l, f)
  BY <1>1, <1>2, RowBack
<1>4. Front(b) = t
  <2>1. Front(b) \in Seq(S) /\ Len(Front(b)) = Len(b) - 1 /\ \A i \in 1..Len(b) - 1 : Front(b)[i] = b[i]
    BY <1>1, FrontFacts
  <2>2. Len(t) \in Nat /\ Len(Front(b)) = Len(t) /\ \A i \in 1..Len(t) : Front(b)[i] = t[i]
    BY <1>1, <2>1
  <2> QED
    BY <2>1, <2>2, SeqEqual
<1>5. Last(b) = p
  BY <1>1 DEF Last
<1>6. Append(f, l) = a
  <2>1. Append(f, l) \in Seq(S) /\ Len(Append(f, l)) = Len(f) + 1 /\ Append(f, l)[Len(f) + 1] = l
        /\ \A i \in 1..Len(f) : Append(f, l)[i] = f[i]
    BY <1>2, AppendProperties
  <2>2. Len(Append(f, l)) = Len(a)
    BY <1>2, <2>1
  <2>3. ASSUME NEW i \in 1..Len(a) PROVE Append(f, l)[i] = a[i]
    <3>1. CASE i = Len(a)
      <4>1. Len(f) + 1 = Len(a)
        BY <1>2
      <4> QED
        BY <1>2, <2>1, <3>1, <4>1
    <3>2. CASE i \in 1..Len(a) - 1
      <4>1. i \in 1..Len(f)
        BY <1>2, <3>2
      <4> QED
        BY <1>2, <2>1, <3>2, <4>1
    <3>3. i = Len(a) \/ i \in 1..Len(a) - 1
      BY <1>2
    <3> QED
      BY <3>1, <3>2, <3>3
  <2> QED
    BY <2>1, <2>2, <2>3, SeqEqual
<1> QED
  BY <1>3, <1>4, <1>5, <1>6 DEF b, f, l

(* Going elsewhere keeps the row up to the page shown, and adds the new    *)
(* page.                                                                   *)
LEMMA RowElsewhere ==
  ASSUME NEW S, NEW t \in Seq(S), NEW p \in S, NEW a \in Seq(S), NEW u \in S
  PROVE  RowOf(Append(t, p), u, <<>>) = Append(SubSeq(RowOf(t, p, a), 1, Len(t) + 1), u)
<1> DEFINE r == RowOf(t, p, a)
           n == Len(t) + 1
           c == SubSeq(r, 1, n)
           b == Append(t, p)
<1>1. n \in Nat \ {0} /\ Len(t) = n - 1 /\ Len(a) \in Nat
  OBVIOUS
<1>2. r \in Seq(S) /\ r[n] = p
  <2>1. r \in Seq(S)
    BY RowFacts
  <2>2. r[n] = p
    BY RowFacts
  <2> QED
    BY <2>1, <2>2
<1>3. \A i \in 1..Len(t) : r[i] = t[i]
  BY RowFacts
<1>4. b \in Seq(S) /\ Len(b) = n /\ b[n] = p /\ \A i \in 1..Len(t) : b[i] = t[i]
  BY AppendProperties
<1>5. \A i \in 1..n : r[i] = b[i] /\ r[i] \in S
  <2> TAKE i \in 1..n
  <2>1. i = n \/ i \in 1..Len(t)
    BY <1>1
  <2>2. r[i] = b[i]
    BY <1>2, <1>3, <1>4, <2>1
  <2>3. b[i] \in S
    BY <1>4, ElementOfSeq
  <2> QED
    BY <2>2, <2>3
<1> HIDE DEF r, n, b
<1>6. c \in Seq(S) /\ Len(c) = n /\ \A i \in 1..n : c[i] = r[i]
  <2>1. c \in Seq(S) /\ Len(c) = (IF 1 <= n THEN n - 1 + 1 ELSE 0) /\ \A i \in 1..n - 1 + 1 : c[i] = r[1 + i - 1]
    BY <1>1, <1>5, SubSeqProperties
  <2>2. Len(c) = n
    BY <1>1, <2>1
  <2>3. ASSUME NEW i \in 1..n PROVE c[i] = r[i]
    <3>1. i \in 1..n - 1 + 1 /\ 1 + i - 1 = i
      BY <1>1
    <3> QED
      BY <2>1, <3>1
  <2> QED
    BY <2>1, <2>2, <2>3
<1> HIDE DEF c
<1>7. b = c
  BY <1>4, <1>5, <1>6, SeqEqual
<1>8. RowOf(b, u, <<>>) = b \o <<u>>
  <2>1. Reverse(<<>>) = <<>>
    BY DEF Reverse
  <2>2. b \o <<u>> \in Seq(S)
    BY <1>4
  <2> QED
    BY <2>1, <2>2, ConcatEmptySeq DEF RowOf
<1>9. b \o <<u>> = Append(b, u)
  BY <1>4, AppendIsConcat
<1> QED
  BY <1>7, <1>8, <1>9 DEF b, c, n, r

(* The page shown is replaced where it stands.                             *)
LEMMA RowInPlace ==
  ASSUME NEW S, NEW t \in Seq(S), NEW p \in S, NEW a \in Seq(S), NEW u \in S
  PROVE  RowOf(t, u, a) = [RowOf(t, p, a) EXCEPT ![Len(t) + 1] = u]
<1> DEFINE r == RowOf(t, p, a)
           s == RowOf(t, u, a)
           n == Len(t) + 1
           m == Len(t) + 1 + Len(a)
<1>1. Len(t) \in Nat /\ Len(a) \in Nat /\ n \in 1..m /\ m \in Nat
  OBVIOUS
<1>2. r \in Seq(S) /\ Len(r) = m
  <2>1. r \in Seq(S)
    BY RowFacts
  <2>2. Len(r) = m
    BY RowFacts
  <2> QED
    BY <2>1, <2>2
<1>3. s \in Seq(S) /\ Len(s) = m
  <2>1. s \in Seq(S)
    BY RowFacts
  <2>2. Len(s) = m
    BY RowFacts
  <2> QED
    BY <2>1, <2>2
<1>4. ASSUME NEW i \in 1..m PROVE s[i] = IF i = n THEN u ELSE r[i]
  <2>1. r[i] = IF i <= Len(t) THEN t[i] ELSE IF i = n THEN p ELSE a[Len(a) - (i - Len(t) - 1) + 1]
    BY RowAt
  <2>2. s[i] = IF i <= Len(t) THEN t[i] ELSE IF i = n THEN u ELSE a[Len(a) - (i - Len(t) - 1) + 1]
    BY RowAt
  <2>3. i = n => ~(i <= Len(t))
    BY <1>1
  <2> HIDE DEF r, s, n
  <2> QED
    BY <2>1, <2>2, <2>3
<1> HIDE DEF r, s, n, m
<1>5. [r EXCEPT ![n] = u] \in Seq(S) /\ Len([r EXCEPT ![n] = u]) = Len(r)
      /\ \A j \in 1..Len(r) : [r EXCEPT ![n] = u][j] = IF j = n THEN u ELSE r[j]
  BY <1>1, <1>2, ExceptSeq
<1>6. s = [r EXCEPT ![n] = u]
  BY <1>2, <1>3, <1>4, <1>5, SeqEqual
<1> QED
  BY <1>6 DEF r, s, n

-----------------------------------------------------------------------------
(* The invariant.                                                          *)

Pages == OwnPages \cup WebPages

RowType == page \in Pages /\ trail \in Seq(Pages) /\ ahead \in Seq(Pages)

(* The address waiting is the one asked for last; when none waits, the     *)
(* fetch has it.                                                           *)
FetchInv ==
  /\ fetch \in [phase : Phases, asked : WebPages \cup {NoPage}, delivered : BOOLEAN]
  /\ waiting \in WebPages \cup {NoPage}
  /\ fetch.phase # "idle" => fetch.asked \in WebPages
  /\ waiting # NoPage => waiting = wanted
  /\ waiting = NoPage => fetch.asked = wanted

PagesInv == RowType /\ FetchInv

LEMMA InitInv == PagesInit => PagesInv
<1> SUFFICES ASSUME PagesInit PROVE PagesInv
  OBVIOUS
<1>1. RowType
  BY PagesAssumption DEF PagesInit, RowType, Pages
<1>2. fetch \in [phase : Phases, asked : WebPages \cup {NoPage}, delivered : BOOLEAN]
  BY DEF PagesInit, Phases
<1> QED
  BY <1>1, <1>2 DEF PagesInit, PagesInv, FetchInv

(* Showing an address asks for it when it is on the network.               *)
LEMMA ShowKeeps == ASSUME FetchInv, NEW url \in Pages, Show(url) PROVE FetchInv' /\ page' = url /\ answer' = NoPage
<1>1. UNCHANGED fetch /\ page' = url /\ answer' = NoPage
  BY DEF Show
<1>2. CASE url \in WebPages
  <2>1. waiting' = url /\ wanted' = url /\ url # NoPage
    BY <1>2, PagesAssumption DEF Show, NoPage
  <2> QED
    BY <1>1, <1>2, <2>1 DEF FetchInv
<1>3. CASE url \notin WebPages
  <2>1. UNCHANGED <<waiting, wanted>>
    BY <1>3 DEF Show
  <2> QED
    BY <1>1, <2>1 DEF FetchInv
<1> QED
  BY <1>1, <1>2, <1>3

LEMMA GoKeeps == ASSUME PagesInv, NEW url \in Pages, Go(url) PROVE PagesInv'
<1>1. FetchInv' /\ page' = url
  BY ShowKeeps DEF PagesInv, Go
<1>2. trail' \in Seq(Pages) /\ ahead' \in Seq(Pages)
  <2>1. CASE url = page
    BY <2>1 DEF PagesInv, RowType, Go
  <2>2. CASE url # page
    <3>1. Append(trail, page) \in Seq(Pages) /\ <<>> \in Seq(Pages)
      BY DEF PagesInv, RowType
    <3> QED
      BY <2>2, <3>1 DEF Go, AheadAfter
  <2> QED
    BY <2>1, <2>2
<1> QED
  BY <1>1, <1>2 DEF PagesInv, RowType

LEMMA BackKeeps == ASSUME PagesInv, ClickBack PROVE PagesInv'
<1>1. Front(trail) \in Seq(Pages) /\ Last(trail) \in Pages
  BY FrontFacts DEF PagesInv, RowType, ClickBack
<1>2. FetchInv' /\ page' = Last(trail)
  BY <1>1, ShowKeeps DEF PagesInv, ClickBack
<1>3. trail' \in Seq(Pages) /\ ahead' \in Seq(Pages)
  BY <1>1, AppendProperties DEF PagesInv, RowType, ClickBack
<1> QED
  BY <1>1, <1>2, <1>3 DEF PagesInv, RowType

LEMMA ForwardKeeps == ASSUME PagesInv, ClickForward PROVE PagesInv'
<1>1. Front(ahead) \in Seq(Pages) /\ Last(ahead) \in Pages
  BY FrontFacts DEF PagesInv, RowType, ClickForward
<1>2. FetchInv' /\ page' = Last(ahead)
  BY <1>1, ShowKeeps DEF PagesInv, ClickForward
<1>3. trail' \in Seq(Pages) /\ ahead' \in Seq(Pages)
  BY <1>1, AppendProperties DEF PagesInv, RowType, ClickForward
<1> QED
  BY <1>1, <1>2, <1>3 DEF PagesInv, RowType

(* A turn: what the fetch has been asked, and where the answer leads.      *)
LEMMA TurnFacts ==
  ASSUME PagesInv, NEW ends \in Phases, NEW starts \in {"busy", "failed"}, NEW open \in BOOLEAN,
         Turn(ends, starts, open)
  PROVE  /\ FetchInv' /\ UNCHANGED <<trail, ahead, wanted>>
         /\ fetch'.asked = wanted
         /\ page' = page \/ page' \in WebPages
<1> DEFINE f == Taken([fetch EXCEPT !.phase = ends], starts)
           came == News(f) /\ f.phase = "done"
<1>1. f \in [phase : Phases, asked : WebPages \cup {NoPage}, delivered : BOOLEAN]
  <2>1. [fetch EXCEPT !.phase = ends] \in [phase : Phases, asked : WebPages \cup {NoPage}, delivered : BOOLEAN]
    BY DEF PagesInv, FetchInv
  <2>2. [phase |-> starts, asked |-> waiting, delivered |-> FALSE]
          \in [phase : Phases, asked : WebPages \cup {NoPage}, delivered : BOOLEAN]
    BY DEF PagesInv, FetchInv, Phases
  <2> QED
    BY <2>1, <2>2 DEF Taken
<1>2. f.asked = wanted
  BY DEF PagesInv, FetchInv, Taken
<1>3. f.phase # "idle" => f.asked \in WebPages
  <2>1. CASE waiting = NoPage
    <3>1. f = [fetch EXCEPT !.phase = ends]
      BY <2>1 DEF Taken
    <3>2. f.phase = ends /\ f.asked = fetch.asked
      BY <3>1 DEF PagesInv, FetchInv
    <3>3. ends # "idle" => fetch.phase # "idle"
      BY DEF Turn, Busy
    <3> QED
      BY <3>2, <3>3 DEF PagesInv, FetchInv
  <2>2. CASE waiting # NoPage
    BY <2>2 DEF PagesInv, FetchInv, Taken
  <2> QED
    BY <2>1, <2>2
<1>4. /\ page' = IF came THEN Goes(f.asked) ELSE page
      /\ fetch' = [f EXCEPT !.delivered = @ \/ f.phase \in {"done", "failed"}]
      /\ waiting' = IF f.asked = waiting THEN NoPage ELSE waiting
      /\ UNCHANGED <<trail, ahead, wanted>>
  BY DEF Turn
<1>5. waiting' = NoPage
  BY <1>2, <1>4 DEF PagesInv, FetchInv
<1> HIDE DEF f
<1>6. /\ fetch' \in [phase : Phases, asked : WebPages \cup {NoPage}, delivered : BOOLEAN]
      /\ fetch'.asked = f.asked /\ fetch'.phase = f.phase
  BY <1>1, <1>4
<1>7. page' = page \/ page' \in WebPages
  BY <1>3, <1>4, PagesAssumption
<1>8. FetchInv'
  BY <1>2, <1>3, <1>4, <1>5, <1>6 DEF FetchInv
<1> QED
  BY <1>2, <1>4, <1>6, <1>7, <1>8

LEMMA StepInv == PagesInv /\ [PagesNext]_pageVars => PagesInv'
<1> SUFFICES ASSUME PagesInv, [PagesNext]_pageVars PROVE PagesInv'
  OBVIOUS
<1>1. CASE \E url \in Pages : Go(url)
  BY <1>1, GoKeeps
<1>2. CASE ClickReload
  <2>1. FetchInv' /\ page' = page
    BY <1>2, ShowKeeps DEF PagesInv, RowType, ClickReload
  <2> QED
    BY <1>2, <2>1 DEF PagesInv, RowType, ClickReload
<1>3. CASE AnyTurn
  <2>1. FetchInv' /\ UNCHANGED <<trail, ahead>> /\ (page' = page \/ page' \in WebPages)
    BY <1>3, TurnFacts DEF AnyTurn
  <2> QED
    BY <2>1 DEF PagesInv, RowType, Pages
<1>4. CASE Resize \/ (\E delta \in {-1, 1} : ScrollBy(delta)) \/ UNCHANGED pageVars
  <2>1. UNCHANGED <<page, trail, ahead, waiting, fetch, wanted>>
    BY <1>4 DEF Resize, ScrollBy, pageVars
  <2> QED
    BY <2>1 DEF PagesInv, RowType, FetchInv
<1> QED
  BY <1>1, <1>2, <1>3, <1>4, BackKeeps, ForwardKeeps DEF PagesNext, Pages

LEMMA Invariance == PagesSpec => []PagesInv
  BY InitInv, StepInv, PTL DEF PagesSpec

-----------------------------------------------------------------------------
(* The theorems.                                                           *)

(* page_result: what comes back is what was asked for last; the answer of  *)
(* a fetch given up never takes the place of the page.                     *)
THEOREM LastIsAnswered == PagesSpec => AnswersTheLast
<1>1. PagesInv /\ [PagesNext]_pageVars => [answer' # answer /\ answer' # NoPage => fetch'.asked = wanted]_pageVars
  <2> SUFFICES ASSUME PagesInv, [PagesNext]_pageVars, answer' # answer, answer' # NoPage
               PROVE  fetch'.asked = wanted
    OBVIOUS
  <2>1. CASE AnyTurn
    BY <2>1, TurnFacts DEF AnyTurn
  <2>2. CASE ~AnyTurn
    BY <2>2 DEF PagesNext, pageVars, Go, ClickBack, ClickForward, ClickReload, Show, Resize, ScrollBy
  <2> QED
    BY <2>1, <2>2
<1> QED
  BY <1>1, Invariance, PTL DEF PagesSpec, AnswersTheLast

(* wants_page and page_result: a page said to be loading waits, or is being *)
(* fetched with its news still to come; none is left with nothing on its   *)
(* way.                                                                    *)
THEOREM LoadingStaysUnderWay == PagesSpec => []LoadingIsUnderWay
<1>1. PagesInit => LoadingIsUnderWay
  BY PagesAssumption DEF PagesInit, LoadingIsUnderWay
<1>2. PagesInv /\ LoadingIsUnderWay /\ [PagesNext]_pageVars => LoadingIsUnderWay'
  <2> SUFFICES ASSUME PagesInv, LoadingIsUnderWay, [PagesNext]_pageVars, page' \in WebPages, answer' = NoPage
               PROVE  \/ waiting' = page'
                      \/ waiting' = NoPage /\ Busy' /\ fetch'.asked = page' /\ ~fetch'.delivered
    BY DEF LoadingIsUnderWay
  <2>1. CASE \E url \in Pages : Show(url)
    BY <2>1 DEF Show
  <2>2. CASE AnyTurn
    <3>1. PICK ends \in Phases, starts \in {"busy", "failed"}, open \in BOOLEAN : Turn(ends, starts, open)
      BY <2>2 DEF AnyTurn
    <3> DEFINE f == Taken([fetch EXCEPT !.phase = ends], starts)
    <3>2. f.asked = wanted /\ f \in [phase : Phases, asked : WebPages \cup {NoPage}, delivered : BOOLEAN]
      BY DEF PagesInv, FetchInv, Taken, Phases
    <3>3. f.phase # "idle" => f.asked \in WebPages
      <4>1. CASE waiting = NoPage
        <5>1. f.phase = ends /\ f.asked = fetch.asked
          BY <4>1 DEF Taken, PagesInv, FetchInv
        <5> QED
          BY <3>1, <5>1 DEF Turn, Busy, PagesInv, FetchInv
      <4>2. CASE waiting # NoPage
        BY <4>2 DEF Taken, PagesInv, FetchInv
      <4> QED
        BY <4>1, <4>2
    <3>4. ~(News(f) /\ f.phase = "done")
      <4> SUFFICES ASSUME News(f), f.phase = "done" PROVE FALSE
        OBVIOUS
      <4>1. answer' = Goes(f.asked)
        BY <3>1 DEF Turn
      <4>2. Goes(f.asked) \in WebPages
        BY <3>3, PagesAssumption
      <4> QED
        BY <4>1, <4>2, PagesAssumption DEF NoPage
    <3>5. page' = page /\ ~News(f) /\ answer = NoPage
      BY <3>1, <3>4 DEF Turn, NoPage
    <3>6. /\ fetch' = [f EXCEPT !.delivered = @ \/ f.phase \in {"done", "failed"}]
          /\ waiting' = IF f.asked = waiting THEN NoPage ELSE waiting
      BY <3>1 DEF Turn
    <3>7. waiting' = NoPage /\ wanted = page
      BY <3>2, <3>5, <3>6, PagesAssumption DEF PagesInv, FetchInv, LoadingIsUnderWay, NoPage
    <3>8. ~f.delivered /\ f.phase \in {"busy", "done", "failed"}
      <4>1. CASE waiting = NoPage
        <5>1. f.phase = ends /\ f.delivered = fetch.delivered
          BY <4>1 DEF Taken, PagesInv, FetchInv
        <5>2. Busy /\ ~fetch.delivered
          BY <3>5, <4>1, PagesAssumption DEF LoadingIsUnderWay, NoPage
        <5> QED
          BY <3>1, <5>1, <5>2 DEF Turn
      <4>2. CASE waiting # NoPage
        BY <4>2 DEF Taken
      <4> QED
        BY <4>1, <4>2
    <3> HIDE DEF f
    <3>9. f.phase = "busy"
      BY <3>5, <3>8 DEF News
    <3>10. fetch'.phase = "busy" /\ fetch'.asked = page /\ ~fetch'.delivered
      BY <3>2, <3>6, <3>7, <3>8, <3>9
    <3> QED
      BY <3>5, <3>7, <3>10 DEF Busy
  <2>3. CASE UNCHANGED <<page, answer, waiting, fetch>>
    BY <2>3 DEF LoadingIsUnderWay, Busy
  <2>4. ClickBack \/ ClickForward => \E url \in Pages : Show(url)
    BY FrontFacts DEF PagesInv, RowType, ClickBack, ClickForward
  <2> QED
    BY <2>1, <2>2, <2>3, <2>4 DEF PagesInv, RowType, PagesNext, Go, ClickReload, Resize, ScrollBy, pageVars, Pages
<1> QED
  BY <1>1, <1>2, Invariance, PTL DEF PagesSpec

(* The row a person walks, as BrowserHistory has it.                       *)
LEMMA RowIs == trail \o <<page>> \o Reverse(ahead) = RowOf(trail, page, ahead)
  BY DEF RowOf

LEMMA RowStarts == PagesInit => Row!Init
<1> SUFFICES ASSUME PagesInit PROVE Row!Init
  OBVIOUS
<1>1. trail = <<>> /\ ahead = <<>> /\ page = Home
  BY DEF PagesInit
<1>2. Reverse(<<>>) = <<>>
  BY DEF Reverse
<1>3. <<>> \o <<Home>> \o <<>> = <<Home>> /\ Len(<<>>) + 1 = 1
  OBVIOUS
<1> QED
  BY <1>1, <1>2, <1>3 DEF Row!Init

LEMMA RowSteps ==
  ASSUME PagesInv, PagesInv', [PagesNext]_pageVars
  PROVE  [Row!Next]_<<trail \o <<page>> \o Reverse(ahead), Len(trail) + 1>>
<1> DEFINE row == trail \o <<page>> \o Reverse(ahead)
           at == Len(trail) + 1
<1>1. row = RowOf(trail, page, ahead) /\ row' = RowOf(trail', page', ahead')
  BY DEF RowOf
<1>2. /\ page \in Pages /\ trail \in Seq(Pages) /\ ahead \in Seq(Pages)
      /\ page' \in Pages /\ trail' \in Seq(Pages) /\ ahead' \in Seq(Pages)
  BY DEF PagesInv, RowType
<1>3. Len(trail) \in Nat /\ Len(ahead) \in Nat /\ Len(row) = Len(trail) + 1 + Len(ahead)
  <2>1. Len(RowOf(trail, page, ahead)) = Len(trail) + 1 + Len(ahead)
    BY <1>2, RowFacts
  <2>2. Len(trail) \in Nat /\ Len(ahead) \in Nat
    BY <1>2
  <2> HIDE DEF row
  <2> QED
    BY <1>1, <2>1, <2>2
<1>4. ASSUME UNCHANGED <<trail, ahead, page>> PROVE UNCHANGED <<row, at>>
  BY <1>4
<1>5. ASSUME UNCHANGED <<trail, ahead>> PROVE Row!Redirected
  <2>0. RowOf(trail, page', ahead) = [RowOf(trail, page, ahead) EXCEPT ![Len(trail) + 1] = page']
    BY <1>2, RowInPlace
  <2>1. row' = [row EXCEPT ![at] = page'] /\ at' = at
    <3>1. row = RowOf(trail, page, ahead) /\ row' = RowOf(trail, page', ahead)
      BY <1>1, <1>5
    <3>2. at' = at
      BY <1>5
    <3> HIDE DEF row
    <3> QED
      BY <2>0, <3>1, <3>2
  <2> QED
    BY <1>2, <2>1 DEF Row!Redirected, Pages
<1>6. ASSUME NEW url \in Pages, Go(url) PROVE Row!Visit \/ UNCHANGED <<row, at>>
  <2>1. page' = url
    BY <1>6 DEF Go, Show
  <2>2. CASE url = page
    BY <1>4, <1>6, <2>1, <2>2 DEF Go
  <2>3. CASE url # page
    <3>1. trail' = Append(trail, page) /\ ahead' = <<>>
      BY <1>6, <2>3 DEF Go, AheadAfter
    <3>2. row' = Append(SubSeq(row, 1, at), url)
      <4>1. RowOf(Append(trail, page), url, <<>>) = Append(SubSeq(RowOf(trail, page, ahead), 1, Len(trail) + 1), url)
        BY <1>2, RowElsewhere
      <4>2. row' = RowOf(Append(trail, page), url, <<>>)
        BY <1>1, <2>1, <3>1
      <4> HIDE DEF row
      <4> QED
        BY <1>1, <4>1, <4>2
    <3>3. at' = at + 1
      BY <1>2, <3>1
    <3> QED
      BY <3>2, <3>3 DEF Row!Visit, Pages
  <2> QED
    BY <2>2, <2>3
<1>7. ASSUME ClickBack PROVE Row!Back
  <2>1. /\ trail # <<>> /\ trail' = Front(trail) /\ ahead' = Append(ahead, page) /\ page' = Last(trail)
    BY <1>7 DEF ClickBack, Show
  <2>2. row' = row
    BY <1>1, <1>2, <2>1, RowBack
  <2>3. Len(trail') = Len(trail) - 1 /\ Len(trail) \in Nat \ {0}
    BY <1>2, <2>1, FrontFacts
  <2> QED
    BY <2>2, <2>3 DEF Row!Back
<1>8. ASSUME ClickForward PROVE Row!Forward
  <2>1. /\ ahead # <<>> /\ ahead' = Front(ahead) /\ trail' = Append(trail, page) /\ page' = Last(ahead)
    BY <1>8 DEF ClickForward, Show
  <2>2. row' = row
    BY <1>1, <1>2, <2>1, RowForward
  <2>3. Len(trail') = Len(trail) + 1 /\ Len(ahead) \in Nat \ {0}
    BY <1>2, <2>1, FrontFacts
  <2> QED
    BY <1>3, <2>2, <2>3 DEF Row!Forward
<1>9. CASE AnyTurn
  <2>1. UNCHANGED <<trail, ahead>>
    BY <1>9, TurnFacts DEF AnyTurn
  <2> QED
    BY <1>5, <2>1 DEF Row!Next
<1>10. CASE ClickReload \/ Resize \/ (\E delta \in {-1, 1} : ScrollBy(delta)) \/ UNCHANGED pageVars
  <2>1. UNCHANGED <<trail, ahead, page>>
    BY <1>10 DEF ClickReload, Show, Resize, ScrollBy, pageVars
  <2> QED
    BY <1>4, <2>1
<1> QED
  BY <1>6, <1>7, <1>8, <1>9, <1>10 DEF PagesNext, Pages, Row!Next

(* Back and Forward walk the row of pages visited: the browser implements  *)
(* BrowserHistory, whatever is fetched, redirected or fails meanwhile.     *)
THEOREM HistoryIsWalked == PagesSpec => WalksHistory
<1>1. PagesInv /\ PagesInv' /\ [PagesNext]_pageVars
        => [Row!Next]_<<trail \o <<page>> \o Reverse(ahead), Len(trail) + 1>>
  BY RowSteps
<1> QED
  BY <1>1, RowStarts, Invariance, PTL DEF PagesSpec, WalksHistory, Row!Spec

(***************************************************************************)
(* The screen                                                              *)
(***************************************************************************)
NatRect == [x : Nat, y : Nat, w : Nat, h : Nat]

(* The constants, one by one.                                              *)
LEMMA ScreenIs ==
  /\ Width \in Nat /\ Width > 0 /\ Height \in Nat /\ Height > 2
  /\ WindowTime \in Nat /\ WindowTime > 0 /\ MenuTime \in Nat /\ MenuTime > 0 /\ FrameTime \in Nat /\ FrameTime > 0
  /\ SplashTime \in Nat /\ WakingTime \in Nat /\ MaxEvents \in Nat
  /\ \A breadth \in Clocks : breadth \in Nat /\ breadth >= 1 /\ breadth + 3 <= Width
  /\ Spots \subseteq Cells
  /\ Len(Windows) \in Nat /\ DOMAIN Windows = 1 .. Len(Windows)
  /\ \A i \in 1 .. Len(Windows) : Windows[i] \in WindowSet
  /\ {"Terminal", "Settings"} \subseteq WindowSet
  /\ WindowSet \cap {"wallpaper", "ghost", "panel", "menu", "powerMenu", "login", "off"} = {}
  /\ \A w \in WindowSet : PlaceOf[w] \in NatRect
<1>1. ScreenAssumption
  BY ScreenAssumption
<1>2. {Width, Height, WindowTime, MenuTime, FrameTime, SplashTime, WakingTime, MaxEvents} \subseteq Nat \ {0} /\ Height > 2
  BY <1>1 DEF ScreenAssumption
<1>3. Width \in Nat \ {0} /\ Height \in Nat /\ WindowTime \in Nat \ {0} /\ MenuTime \in Nat \ {0} /\ FrameTime \in Nat \ {0}
      /\ SplashTime \in Nat /\ WakingTime \in Nat /\ MaxEvents \in Nat
  BY <1>2
<1>4. Clocks \subseteq 1 .. (Width - 3) /\ Spots \subseteq Cells
  BY <1>1 DEF ScreenAssumption, Cells
<1>5. Windows \in Seq(STRING)
  BY <1>1 DEF ScreenAssumption
<1>6. Len(Windows) \in Nat /\ DOMAIN Windows = 1 .. Len(Windows)
  BY <1>5
<1>7. \A i \in 1 .. Len(Windows) : Windows[i] \in WindowSet
  BY <1>6 DEF WindowSet
<1>8. /\ {"Terminal", "Settings"} \subseteq WindowSet
      /\ WindowSet \cap {"wallpaper", "ghost", "panel", "menu", "powerMenu", "login", "off"} = {}
      /\ \A w \in WindowSet : PlaceOf[w] \in NatRect
  BY <1>1 DEF ScreenAssumption, NatRect
<1>9. \A breadth \in Clocks : breadth \in Nat /\ breadth >= 1 /\ breadth + 3 <= Width
  BY <1>3, <1>4
<1> QED BY <1>2, <1>3, <1>4, <1>6, <1>7, <1>8, <1>9

(* A window is one of the list, at its place.                              *)
LEMMA IndexIs ==
  ASSUME NEW w \in WindowSet
  PROVE  IndexOf(w) \in DOMAIN Windows /\ Windows[IndexOf(w)] = w
<1>1. \E i \in DOMAIN Windows : Windows[i] = w
  BY DEF WindowSet
<1> QED BY <1>1, Zenon DEF IndexOf

(* Rectangles of the screen, and cells.                                    *)
LEMMA CellIs ==
  ASSUME NEW c \in Cells
  PROVE  c[1] \in Nat /\ c[1] < Width /\ c[2] \in Nat /\ c[2] < Height /\ c = <<c[1], c[2]>> /\ Has(WholeScreen, c)
<1>1. Width \in Nat /\ Height \in Nat
  BY ScreenIs
<1>2. c[1] \in 0 .. (Width - 1) /\ c[2] \in 0 .. (Height - 1) /\ c = <<c[1], c[2]>>
  BY DEF Cells
<1> QED BY <1>1, <1>2 DEF Has, WholeScreen, Rect

(* Rectangles made of natural numbers, and the empty one (fb.rs).          *)
LEMMA RectIs ==
  /\ \A x, y, w, h \in Nat : Rect(x, y, w, h) \in NatRect
  /\ NoRect \in NatRect /\ WholeScreen \in NatRect
  /\ \A c \in Cells : ~Has(NoRect, c)
<1>1. \A x, y, w, h \in Nat : Rect(x, y, w, h) \in NatRect
  BY DEF Rect, NatRect
<1>2. Width \in Nat /\ Height \in Nat
  BY ScreenIs
<1>3. NoRect \in NatRect /\ WholeScreen \in NatRect
  BY <1>1, <1>2 DEF NoRect, WholeScreen
<1>4. \A c \in Cells : ~Has(NoRect, c)
  BY CellIs DEF Has, NoRect, Rect
<1> QED BY <1>1, <1>3, <1>4

(* An empty rectangle has no cell.                                         *)
LEMMA EmptyHasNone ==
  ASSUME NEW r \in NatRect, IsEmptyRect(r), NEW c \in Cells
  PROVE  ~Has(r, c)
BY CellIs DEF Has, IsEmptyRect, NatRect

(* A rectangle grown is one that has all of its cells.                     *)
LEMMA GrowIs ==
  ASSUME NEW r \in NatRect
  PROVE  Grow(r) \in NatRect /\ \A c \in Cells : Has(r, c) => Has(Grow(r), c)
<1>1. r.x \in Nat /\ r.y \in Nat /\ r.w \in Nat /\ r.h \in Nat
  BY DEF NatRect
<1>2. /\ Grow(r) = [x |-> Less(r.x, 1), y |-> Less(r.y, 1), w |-> r.w + 2, h |-> r.h + 2]
      /\ Less(r.x, 1) \in Nat /\ Less(r.x, 1) <= r.x /\ Less(r.x, 1) >= r.x - 1
      /\ Less(r.y, 1) \in Nat /\ Less(r.y, 1) <= r.y /\ Less(r.y, 1) >= r.y - 1
  BY <1>1 DEF Grow, Rect, Less, Larger
<1>3. Grow(r) \in NatRect
  BY <1>1, <1>2 DEF NatRect
<1>4. ASSUME NEW c \in Cells, Has(r, c) PROVE Has(Grow(r), c)
  BY <1>1, <1>2, <1>4, CellIs DEF Has
<1> QED BY <1>3, <1>4

(* What is repainted holds what was to be, and the part of the new         *)
(* rectangle that is on the screen.                                        *)
LEMMA UnionIs ==
  ASSUME NEW a \in NatRect, NEW b \in NatRect
  PROVE  Union(a, b) \in NatRect /\ \A c \in Cells : Has(a, c) \/ Has(b, c) => Has(Union(a, b), c)
<1>1. /\ a.x \in Nat /\ a.y \in Nat /\ a.w \in Nat /\ a.h \in Nat
      /\ b.x \in Nat /\ b.y \in Nat /\ b.w \in Nat /\ b.h \in Nat
  BY DEF NatRect
<1>2. CASE IsEmptyRect(a)
  BY <1>2, EmptyHasNone DEF Union
<1>3. CASE ~IsEmptyRect(a) /\ IsEmptyRect(b)
  BY <1>3, EmptyHasNone DEF Union
<1>4. CASE ~IsEmptyRect(a) /\ ~IsEmptyRect(b)
  <2> DEFINE x == Smaller(a.x, b.x)
             y == Smaller(a.y, b.y)
             right == Larger(a.x + a.w, b.x + b.w)
             bottom == Larger(a.y + a.h, b.y + b.h)
  <2>1. Union(a, b) = [x |-> x, y |-> y, w |-> right - x, h |-> bottom - y]
    BY <1>4 DEF Union, Rect
  <2>2. x \in Nat /\ x <= a.x /\ x <= b.x /\ right \in Nat /\ right >= a.x + a.w /\ right >= b.x + b.w
    BY <1>1 DEF Smaller, Larger
  <2>3. y \in Nat /\ y <= a.y /\ y <= b.y /\ bottom \in Nat /\ bottom >= a.y + a.h /\ bottom >= b.y + b.h
    BY <1>1 DEF Smaller, Larger
  <2> HIDE DEF x, y, right, bottom
  <2>4. Union(a, b) \in NatRect
    BY <1>1, <2>1, <2>2, <2>3 DEF NatRect
  <2>5. ASSUME NEW c \in Cells, Has(a, c) \/ Has(b, c) PROVE Has(Union(a, b), c)
    BY <1>1, <2>1, <2>2, <2>3, <2>5, CellIs DEF Has
  <2> QED BY <2>4, <2>5
<1> QED BY <1>2, <1>3, <1>4

(* What is cut to the screen has the cells of it that are on the screen.   *)
LEMMA OnScreenIs ==
  ASSUME NEW a \in NatRect
  PROVE  Intersect(a, WholeScreen) \in NatRect /\ \A c \in Cells : Has(a, c) => Has(Intersect(a, WholeScreen), c)
<1>1. a.x \in Nat /\ a.y \in Nat /\ a.w \in Nat /\ a.h \in Nat /\ Width \in Nat /\ Height \in Nat
  BY ScreenIs DEF NatRect
<1> DEFINE right == Smaller(a.x + a.w, Width)
           bottom == Smaller(a.y + a.h, Height)
<1>2. Intersect(a, WholeScreen) = IF right <= a.x \/ bottom <= a.y THEN NoRect
                                  ELSE [x |-> a.x, y |-> a.y, w |-> right - a.x, h |-> bottom - a.y]
  BY <1>1 DEF Intersect, WholeScreen, Rect, Larger, Smaller
<1>3. right \in Nat /\ bottom \in Nat
  BY <1>1 DEF Smaller
<1>4. Intersect(a, WholeScreen) \in NatRect
  <2> HIDE DEF right, bottom
  <2>1. CASE right <= a.x \/ bottom <= a.y
    BY <1>2, <2>1, RectIs
  <2>2. CASE ~(right <= a.x \/ bottom <= a.y)
    <3>1. right - a.x \in Nat /\ bottom - a.y \in Nat
      BY <1>1, <1>3, <2>2
    <3> QED BY <1>1, <1>2, <2>2, <3>1 DEF NatRect
  <2> QED BY <2>1, <2>2
<1>5. ASSUME NEW c \in Cells, Has(a, c) PROVE Has(Intersect(a, WholeScreen), c)
  <2>1. c[1] \in Nat /\ c[2] \in Nat /\ c[1] >= a.x /\ c[2] >= a.y /\ c[1] < right /\ c[2] < bottom
    BY <1>1, <1>5, CellIs DEF Has, Smaller
  <2> HIDE DEF right, bottom
  <2> QED BY <1>1, <1>2, <1>3, <2>1 DEF Has
<1> QED BY <1>4, <1>5

(* Damage adds: it has what was damaged and what is damaged now.           *)
LEMMA JoinedIs ==
  ASSUME NEW d \in NatRect, NEW a \in NatRect
  PROVE  Joined(d, a) \in NatRect /\ \A c \in Cells : Has(d, c) \/ Has(a, c) => Has(Joined(d, a), c)
BY UnionIs, OnScreenIs DEF Joined

(***************************************************************************)
(* The menu that unfolds                                                   *)
(***************************************************************************)
LEMMA EaseIs ==
  /\ \A p \in 0 .. 10 : EaseOut(p) \in 0 .. 10
  /\ EaseOut(0) = 0
<1>1. /\ EaseOut(0) = 0 /\ EaseOut(1) = 3 /\ EaseOut(2) = 5 /\ EaseOut(3) = 7 /\ EaseOut(4) = 8 /\ EaseOut(5) = 9
      /\ EaseOut(6) = 10 /\ EaseOut(7) = 10 /\ EaseOut(8) = 10 /\ EaseOut(9) = 10 /\ EaseOut(10) = 10
  BY DEF EaseOut, FULL
<1>2. \A p \in 0 .. 10 : p = 0 \/ p = 1 \/ p = 2 \/ p = 3 \/ p = 4 \/ p = 5 \/ p = 6 \/ p = 7 \/ p = 8 \/ p = 9 \/ p = 10
  OBVIOUS
<1> QED BY <1>1, <1>2

(* An animation starts at none and never passes the whole (anim.rs).       *)
LEMMA ProgressIs ==
  ASSUME NEW age1 \in Nat, NEW length \in Nat, length > 0
  PROVE  Progress(age1, length) \in 0 .. 10 /\ Progress(0, length) = 0
<1>1. CASE age1 >= length
  BY <1>1 DEF Progress, FULL
<1>2. CASE age1 < length
  <2> DEFINE q == (age1 * 10) \div length
  <2>1. Progress(age1, length) = q
    BY <1>2 DEF Progress, FULL
  <2>2. q \in Nat /\ q * length <= age1 * 10
    OBVIOUS
  <2> HIDE DEF q
  <2>3. q * length < 10 * length
    BY <1>2, <2>2
  <2>4. q < 10
    BY <2>2, <2>3
  <2>5. Progress(0, length) = 0
    BY DEF Progress, FULL
  <2> QED BY <2>1, <2>2, <2>4, <2>5
<1> QED BY <1>1, <1>2

(* An open menu is as high as a third of it, or higher, and never higher   *)
(* than it will be.                                                        *)
LEMMA UnfoldedIs ==
  ASSUME NEW now \in 0 .. MenuTime
  PROVE  /\ MenuRect \in NatRect
         /\ Unfolded(now) \in NatRect /\ Unfolded(now).x = MenuRect.x /\ Unfolded(now).y = MenuRect.y /\ Unfolded(now).w = MenuRect.w
         /\ Unfolded(0).h <= Unfolded(now).h /\ Unfolded(now).h <= MenuRect.h
<1> DEFINE h == Height - 2
           third == h \div 3
           p == EaseOut(Progress(now, MenuTime))
           high == third + ((h - third) * p) \div 10
<1>1. h \in Nat /\ h >= 1 /\ MenuRect = [x |-> 0, y |-> 1, w |-> 2, h |-> h] /\ MenuRect \in NatRect
  BY ScreenIs DEF MenuRect, Rect, NatRect
<1>2. p \in 0 .. 10 /\ EaseOut(Progress(0, MenuTime)) = 0
  <2>1. MenuTime \in Nat /\ MenuTime > 0
    BY ScreenIs
  <2>2. 0 \in Nat /\ now \in Nat
    BY <2>1
  <2>3. Progress(now, MenuTime) \in 0 .. 10 /\ Progress(0, MenuTime) = 0
    BY <2>1, <2>2, ProgressIs
  <2> QED
    BY <2>3, EaseIs
<1>3. third \in Nat /\ third <= h
  BY <1>1
<1>4. /\ Unfolded(now) = [MenuRect EXCEPT !.h = Larger(Mix(third, h, p), 1)]
      /\ Unfolded(0) = [MenuRect EXCEPT !.h = Larger(Mix(third, h, 0), 1)]
  BY <1>1, <1>2 DEF Unfolded
<1> HIDE DEF h, third, p
<1>5. Mix(third, h, p) = high /\ Mix(third, h, 0) = third
  <2>1. Mix(third, h, p) = high
    BY <1>1, <1>3 DEF Mix, FULL
  <2>2. Mix(third, h, 0) = third + ((h - third) * 0) \div 10
    BY <1>1, <1>3 DEF Mix, FULL
  <2>3. ((h - third) * 0) \div 10 = 0
    BY <1>1, <1>3
  <2> QED BY <1>3, <2>1, <2>2, <2>3
<1>6. high \in Nat /\ third <= high /\ high <= h
  <2> DEFINE d == h - third
  <2>1. d \in Nat
    BY <1>1, <1>3
  <2> HIDE DEF d
  <2>2. d * p \in Nat /\ d * p <= d * 10
    BY <1>2, <2>1
  <2>3. (d * p) \div 10 \in Nat /\ (d * p) \div 10 <= d
    BY <2>1, <2>2
  <2>4. high = third + (d * p) \div 10 /\ third + d = h
    BY <1>1, <1>3 DEF d
  <2> HIDE DEF high
  <2> QED BY <1>1, <1>3, <2>1, <2>3, <2>4
<1> HIDE DEF high
<1>7. Unfolded(now) = [x |-> 0, y |-> 1, w |-> 2, h |-> Larger(high, 1)]
  BY <1>1, <1>4, <1>5
<1>8. Unfolded(0) = [x |-> 0, y |-> 1, w |-> 2, h |-> Larger(third, 1)]
  BY <1>1, <1>4, <1>5
<1>9. Larger(high, 1) \in Nat /\ Larger(third, 1) \in Nat /\ Larger(third, 1) <= Larger(high, 1) /\ Larger(high, 1) <= h
  BY <1>1, <1>3, <1>6 DEF Larger
<1>10. Unfolded(now) \in NatRect
  BY <1>7, <1>9 DEF NatRect
<1> QED BY <1>1, <1>7, <1>8, <1>9, <1>10

(* Outside of the part that unfolds, a cell is in the menu, or under its   *)
(* shadow, at every moment or at none.                                     *)
LEMMA UnfoldedStays ==
  ASSUME NEW a \in 0 .. MenuTime, NEW b \in 0 .. MenuTime, NEW c \in Cells,
         Has(Unfolded(0), c) \/ ~Has(Grow(MenuRect), c)
  PROVE  Has(Unfolded(a), c) = Has(Unfolded(b), c) /\ Has(Grow(Unfolded(a)), c) = Has(Grow(Unfolded(b)), c)
<1>1. SUFFICES ASSUME NEW t \in 0 .. MenuTime
               PROVE  /\ Has(Unfolded(0), c) => Has(Unfolded(t), c) /\ Has(Grow(Unfolded(t)), c)
                      /\ ~Has(Grow(MenuRect), c) => ~Has(Unfolded(t), c) /\ ~Has(Grow(Unfolded(t)), c)
  BY DEF Has
<1>2. 0 \in 0 .. MenuTime
  BY ScreenIs
<1>3. /\ MenuRect \in NatRect /\ Unfolded(t) \in NatRect /\ Unfolded(0) \in NatRect
      /\ Unfolded(t).x = MenuRect.x /\ Unfolded(t).y = MenuRect.y /\ Unfolded(t).w = MenuRect.w
      /\ Unfolded(0).x = MenuRect.x /\ Unfolded(0).y = MenuRect.y /\ Unfolded(0).w = MenuRect.w
      /\ Unfolded(0).h <= Unfolded(t).h /\ Unfolded(t).h <= MenuRect.h
  BY <1>2, UnfoldedIs
<1> DEFINE r == Unfolded(t)
<1>4. r.x \in Nat /\ r.y \in Nat /\ r.w \in Nat /\ r.h \in Nat /\ Unfolded(0).h \in Nat /\ MenuRect.h \in Nat
  BY <1>3 DEF NatRect
<1>5. Has(Unfolded(0), c) => Has(r, c)
  BY <1>3, <1>4, CellIs DEF Has
<1>6. Has(Grow(r), c) => Has(Grow(MenuRect), c)
  <2>1. Grow(r).x = Grow(MenuRect).x /\ Grow(r).y = Grow(MenuRect).y /\ Grow(r).w = Grow(MenuRect).w
        /\ Grow(r).h = r.h + 2 /\ Grow(MenuRect).h = MenuRect.h + 2
    BY <1>3 DEF Grow, Rect
  <2>2. Grow(r) \in NatRect /\ Grow(MenuRect) \in NatRect
    BY <1>3, GrowIs
  <2> QED BY <1>3, <1>4, <2>1, <2>2, CellIs DEF Has, NatRect
<1> HIDE DEF r
<1>7. Has(r, c) => Has(Grow(r), c)
  BY <1>3, GrowIs DEF r
<1> QED BY <1>5, <1>6, <1>7 DEF r

(***************************************************************************)
(* What is painted                                                         *)
(***************************************************************************)
(* Two piles of layers that are alike at a cell have the same one on top   *)
(* there, and the same shadows.                                            *)
LEMMA AlikeThere ==
  ASSUME NEW n \in Nat, n > 0, NEW L, NEW M, DOMAIN L = 1 .. n, DOMAIN M = 1 .. n, NEW c, Has(L[1].at, c),
         \A i \in 1 .. n : /\ L[i].what = M[i].what /\ L[i].shadow = M[i].shadow
                           /\ Has(L[i].at, c) = Has(M[i].at, c)
                           /\ L[i].shadow => Has(Grow(L[i].at), c) = Has(Grow(M[i].at), c)
  PROVE  /\ TopAt(L, c) = TopAt(M, c) /\ TopAt(L, c) \in 1 .. n /\ Has(L[TopAt(L, c)].at, c)
         /\ ShadesAt(L, c) = ShadesAt(M, c)
<1> DEFINE S == {i \in 1 .. n : Has(L[i].at, c)}
           T == {i \in 1 .. n : Has(M[i].at, c)}
<1>1. S = T /\ S \in SUBSET (1 .. n) /\ S # {}
  OBVIOUS
<1>2. TopAt(L, c) = Max(S) /\ TopAt(M, c) = Max(T)
  BY DEF TopAt
<1>3. Max(S) \in S
  <2> HIDE DEF S, T
  <2>1. Rows!Top(S) \in S
    BY <1>1, Rows!TopIs
  <2> QED BY <2>1, Zenon DEF Max, Rows!Top
<1> DEFINE top == Max(S)
           U == {j \in 1 .. n : j > top /\ L[j].shadow /\ Has(Grow(L[j].at), c)}
           V == {j \in 1 .. n : j > top /\ M[j].shadow /\ Has(Grow(M[j].at), c)}
<1>4. TopAt(L, c) = top /\ TopAt(M, c) = top
  BY <1>1, <1>2
<1>5. top \in 1 .. n /\ Has(L[top].at, c)
  BY <1>3
<1> HIDE DEF top
<1>6. U = V
  OBVIOUS
<1>7. ShadesAt(L, c) = {L[i].what : i \in U} /\ ShadesAt(M, c) = {M[i].what : i \in V}
  BY <1>4 DEF ShadesAt
<1>8. ShadesAt(L, c) = ShadesAt(M, c)
  <2>1. \A i \in U : L[i].what = M[i].what
    OBVIOUS
  <2> HIDE DEF U, V
  <2> QED BY <1>6, <1>7, <2>1
<1> QED BY <1>4, <1>5, <1>8

Pile(a, f, t) == <<a>> \o f \o t
PileOf(n, a, f, t) ==
  [i \in 1 .. (n + 5) |-> IF i = 1 THEN a ELSE IF i <= n + 1 THEN f[i - 1] ELSE t[i - (n + 1)]]

(* A pile: the wall, the windows, and what is over them.                   *)
LEMMA PileIs ==
  ASSUME NEW n \in Nat, NEW a, NEW Y, NEW f \in [1 .. n -> Y], NEW Z, NEW t \in Seq(Z), Len(t) = 4
  PROVE  Pile(a, f, t) = PileOf(n, a, f, t)
<1> DEFINE X == {a} \cup Y \cup Z
           L == Pile(a, f, t)
           q == <<a>>
<1>1. f \in [1 .. n -> X]
  OBVIOUS
<1>2. f \in Seq(X) /\ Len(f) = n
  <2> HIDE DEF X
  <2> QED BY <1>1
<1>3. q \in Seq(X) /\ Len(q) = 1 /\ q[1] = a
  OBVIOUS
<1>4. t \in Seq(X) /\ Len(t) = 4
  OBVIOUS
<1>0. L = q \o f \o t
  BY DEF Pile
<1> HIDE DEF X, q, L
<1> DEFINE n1 == n + 1
           n5 == n + 5
           s == q \o f
<1>5. n1 \in Nat /\ n5 \in Nat /\ Len(q) + Len(f) = n1 /\ n1 + 4 = n5
  BY <1>2, <1>3
<1> HIDE DEF n1, n5
<1>6. s \in Seq(X) /\ Len(s) = n1 /\ \A i \in 1 .. n1 : s[i] = IF i <= 1 THEN q[i] ELSE f[i - 1]
  <2>1. q \in Seq(X) /\ f \in Seq(X)
    BY <1>2, <1>3
  <2>2. /\ q \o f \in Seq(X)
        /\ Len(q \o f) = Len(q) + Len(f)
        /\ \A i \in 1 .. Len(q) + Len(f) : (q \o f)[i] = IF i <= Len(q) THEN q[i] ELSE f[i - Len(q)]
    BY <2>1, ConcatProperties
  <2> QED BY <1>2, <1>3, <1>5, <2>2
<1> HIDE DEF s
<1>7. /\ s \o t \in Seq(X) /\ Len(s \o t) = n5
      /\ \A i \in 1 .. n5 : (s \o t)[i] = IF i <= n1 THEN s[i] ELSE t[i - n1]
  <2>1. Len(s) + Len(t) = n5
    BY <1>4, <1>5, <1>6
  <2>2. s \in Seq(X) /\ t \in Seq(X)
    BY <1>4, <1>6
  <2>3. /\ s \o t \in Seq(X)
        /\ Len(s \o t) = Len(s) + Len(t)
        /\ \A i \in 1 .. Len(s) + Len(t) : (s \o t)[i] = IF i <= Len(s) THEN s[i] ELSE t[i - Len(s)]
    BY <2>2, ConcatProperties
  <2> QED BY <1>6, <2>1, <2>3
<1>8. L = s \o t
  BY <1>0 DEF s
<1>9. DOMAIN L = 1 .. (n + 5)
  BY <1>7, <1>8 DEF n5
<1>10. ASSUME NEW i \in 1 .. (n + 5)
       PROVE  L[i] = IF i = 1 THEN a ELSE IF i <= n + 1 THEN f[i - 1] ELSE t[i - (n + 1)]
  <2>1. L[i] = IF i <= 1 + n THEN s[i] ELSE t[i - (1 + n)]
    BY <1>7, <1>8 DEF n5, n1
  <2>2. CASE i <= 1 + n
    <3>1. s[i] = IF i <= 1 THEN q[i] ELSE f[i - 1]
      BY <1>6, <2>2 DEF n1
    <3> QED BY <1>3, <2>1, <2>2, <3>1
  <2>3. CASE ~(i <= 1 + n)
    <3>1. L[i] = t[i - (1 + n)] /\ 1 + n = n + 1
      BY <2>1, <2>3
    <3> QED BY <2>3, <3>1
  <2> QED BY <2>2, <2>3
<1>11. L = [i \in DOMAIN L |-> L[i]]
  <2>1. L \in Seq(X)
    BY <1>7, <1>8
  <2> QED BY <2>1
<1> QED BY <1>9, <1>10, <1>11 DEF L, PileOf

(* The layers, without and with the machine off.                           *)
WindowLayers == [i \in DOMAIN stacked |-> WindowLayer(stacked[i])]
Wall == Layer(TRUE, "wallpaper", WholeScreen, FALSE)
Overlays ==
  <<Layer(TRUE, "panel", Rect(0, 0, Width, 1), FALSE),
    Layer("menu" \in menus, "menu", Unfolded(menuAge), TRUE),
    Layer("power" \in menus, "powerMenu", PowerMenuRect, TRUE),
    Layer(mode = "locked", "login", WholeScreen, FALSE)>>

LayersGiven ==
  \A n \in Nat : DOMAIN stacked = 1 .. n /\ mode # "off" => Layers = PileOf(n, Wall, WindowLayers, Overlays)

(* Four of a set are a sequence of it.                                     *)
LEMMA FourAre ==
  ASSUME NEW a, NEW b, NEW c, NEW d
  PROVE  <<a, b, c, d>> \in Seq({a, b, c, d}) /\ Len(<<a, b, c, d>>) = 4
OBVIOUS

(* What Paint lays down is such a pile, unless the machine is off.         *)
LEMMA LayersAre == LayersGiven
<1> SUFFICES ASSUME NEW n \in Nat, DOMAIN stacked = 1 .. n, mode # "off"
             PROVE  Layers = PileOf(n, Wall, WindowLayers, Overlays)
  BY DEF LayersGiven
<1> DEFINE Y == {WindowLayer(stacked[i]) : i \in 1 .. n}
<1>1. WindowLayers \in [1 .. n -> Y]
  BY DEF WindowLayers
<1>2. \E Z : Overlays \in Seq(Z) /\ Len(Overlays) = 4
  BY FourAre DEF Overlays
<1>3. Layers = Pile(Wall, WindowLayers, Overlays)
  BY DEF Layers, Pile, Wall, WindowLayers, Overlays
<1> HIDE DEF Y
<1> QED BY <1>1, <1>2, <1>3, PileIs

(* The same, after a step.                                                 *)
LEMMA LayersNext == LayersGiven'
BY LayersAre, PTL

(* A layer that is the same at a cell, before a step and after it.         *)
Same(a, b, c) ==
  /\ a.what = b.what /\ a.shadow = b.shadow /\ Has(a.at, c) = Has(b.at, c)
  /\ a.shadow => Has(Grow(a.at), c) = Has(Grow(b.at), c)

(* A layer that is moved is the same where it neither was nor is, shadow   *)
(* included.                                                               *)
LEMMA SameLayer ==
  ASSUME NEW drawn \in BOOLEAN, NEW what, NEW a, NEW b, NEW c,
         drawn => Has(a, c) = Has(b, c) /\ Has(Grow(a), c) = Has(Grow(b), c)
  PROVE  Same(Layer(drawn, what, a, TRUE), Layer(drawn, what, b, TRUE), c)
<1> DEFINE A == Layer(drawn, what, a, TRUE)
           B == Layer(drawn, what, b, TRUE)
<1>1. CASE drawn = TRUE
  <2>1. A = [what |-> what, at |-> a, shadow |-> TRUE] /\ B = [what |-> what, at |-> b, shadow |-> TRUE]
    BY <1>1 DEF Layer
  <2> HIDE DEF A, B
  <2>2. A.what = what /\ A.at = a /\ A.shadow = TRUE /\ B.what = what /\ B.at = b /\ B.shadow = TRUE
    BY <2>1
  <2>3. Same(A, B, c)
    BY <1>1, <2>2 DEF Same
  <2> QED BY <2>3 DEF A, B
<1>2. CASE drawn = FALSE
  <2>1. A = B
    BY <1>2 DEF Layer
  <2>2. \A x : Same(x, x, c)
    BY DEF Same
  <2> HIDE DEF A, B
  <2>3. Same(A, B, c)
    BY <2>1, <2>2
  <2> QED BY <2>3 DEF A, B
<1> QED BY <1>1, <1>2

WhatAt(layers, c) == layers[TopAt(layers, c)].what

(* When every layer is, so are what is on top there, and the shadows.      *)
LEMMA LayersAlike ==
  ASSUME NEW n \in Nat, DOMAIN stacked = 1 .. n, UNCHANGED <<stacked, mode>>, NEW c \in Cells,
         mode # "off" => /\ \A i \in 1 .. n : Same(WindowLayers[i], WindowLayers'[i], c)
                         /\ \A i \in 1 .. 4 : Same(Overlays[i], Overlays'[i], c)
  PROVE  /\ WhatAt(Layers, c) = WhatAt(Layers', c) /\ ShadesAt(Layers, c) = ShadesAt(Layers', c)
         /\ TopAt(Layers, c) \in DOMAIN Layers /\ Has(Layers[TopAt(Layers, c)].at, c)
<1> DEFINE L == Layers
           M == Layers'
<1>1. \E m \in Nat : /\ m > 0 /\ DOMAIN L = 1 .. m /\ DOMAIN M = 1 .. m /\ Has(L[1].at, c)
                     /\ \A i \in 1 .. m : Same(L[i], M[i], c)
  <2>1. CASE mode = "off"
    <3> DEFINE sheet == Layer(TRUE, "off", WholeScreen, FALSE)
    <3>1. L = <<sheet>> /\ M = <<sheet>>
      BY <2>1 DEF Layers
    <3>7. sheet.at = WholeScreen /\ ~sheet.shadow
      BY DEF Layer
    <3> HIDE DEF sheet, L, M
    <3>8. DOMAIN <<sheet>> = 1 .. 1 /\ <<sheet>>[1] = sheet
      OBVIOUS
    <3>2. L[1].at = WholeScreen /\ DOMAIN L = 1 .. 1 /\ L = M /\ ~L[1].shadow
      BY <3>1, <3>7, <3>8
    <3>3. Has(L[1].at, c)
      BY <3>2, CellIs
    <3>4. \A i \in 1 .. 1 : Same(L[i], M[i], c)
      BY <3>2 DEF Same
    <3> QED BY <3>2, <3>3, <3>4
  <2>2. CASE mode # "off"
    <3>1. L = PileOf(n, Wall, WindowLayers, Overlays)
      BY <2>2, LayersAre DEF LayersGiven
    <3>2. M = PileOf(n, Wall, WindowLayers', Overlays')
      <4>1. DOMAIN stacked' = 1 .. n /\ mode' # "off"
        BY <2>2
      <4>2. Wall' = Wall
        BY DEF Wall, Layer
      <4> QED BY <4>1, <4>2, LayersNext DEF LayersGiven
    <3> HIDE DEF L, M
    <3>3. n + 5 \in Nat /\ n + 5 > 0 /\ DOMAIN L = 1 .. (n + 5) /\ DOMAIN M = 1 .. (n + 5)
      BY <3>1, <3>2 DEF PileOf
    <3>4. L[1] = Wall /\ M[1] = Wall
      BY <3>1, <3>2 DEF PileOf
    <3>5. Has(L[1].at, c) /\ Same(Wall, Wall, c)
      BY <3>4, CellIs DEF Wall, Layer, Same
    <3>6. ASSUME NEW i \in 1 .. (n + 5) PROVE Same(L[i], M[i], c)
      <4>1. CASE i = 1
        BY <3>4, <3>5, <4>1
      <4>2. CASE i # 1 /\ i <= n + 1
        <5>1. L[i] = WindowLayers[i - 1] /\ M[i] = WindowLayers'[i - 1] /\ i - 1 \in 1 .. n
          BY <3>1, <3>2, <4>2 DEF PileOf
        <5> QED BY <2>2, <5>1
      <4>3. CASE ~(i <= n + 1)
        <5>1. L[i] = Overlays[i - (n + 1)] /\ M[i] = Overlays'[i - (n + 1)] /\ i - (n + 1) \in 1 .. 4
          BY <3>1, <3>2, <4>3 DEF PileOf
        <5> QED BY <2>2, <5>1
      <4> QED BY <4>1, <4>2, <4>3
    <3> QED BY <3>3, <3>5, <3>6
  <2> QED BY <2>1, <2>2
<1> HIDE DEF L, M
<1>2. PICK m \in Nat : /\ m > 0 /\ DOMAIN L = 1 .. m /\ DOMAIN M = 1 .. m /\ Has(L[1].at, c)
                       /\ \A i \in 1 .. m : Same(L[i], M[i], c)
  BY <1>1
<1>3. \A i \in 1 .. m : /\ L[i].what = M[i].what /\ L[i].shadow = M[i].shadow
                        /\ Has(L[i].at, c) = Has(M[i].at, c)
                        /\ L[i].shadow => Has(Grow(L[i].at), c) = Has(Grow(M[i].at), c)
  BY <1>2 DEF Same
<1>4. /\ TopAt(L, c) = TopAt(M, c) /\ TopAt(L, c) \in 1 .. m /\ Has(L[TopAt(L, c)].at, c)
      /\ ShadesAt(L, c) = ShadesAt(M, c)
  BY <1>2, <1>3, AlikeThere
<1>5. WhatAt(L, c) = WhatAt(M, c)
  BY <1>3, <1>4 DEF WhatAt
<1> QED BY <1>2, <1>4, <1>5 DEF L, M

(* What may be on top of a cell while no window moves.                     *)
StillNow == \A w \in WindowSet : ~windows[w].motion.on
MayTop(what, c) ==
  \/ what \in WindowSet /\ Visible(what) /\ Has(windows[what].area, c)
  \/ what = "panel" /\ c[2] = 0
  \/ what = "login" /\ mode = "locked"
  \/ what \in {"wallpaper", "menu", "powerMenu", "off"}

(* What is on top at a cell is a layer that may be, when no window moves.  *)
LEMMA TopIsOneOf ==
  ASSUME NEW n \in Nat, stacked \in [1 .. n -> WindowSet], StillNow, NEW c \in Cells,
         NEW i \in DOMAIN Layers, Has(Layers[i].at, c)
  PROVE  MayTop(Layers[i].what, c)
<1>0. DOMAIN stacked = 1 .. n
  OBVIOUS
<1>1. CASE mode = "off"
  <2>1. Layers = <<Layer(TRUE, "off", WholeScreen, FALSE)>>
    BY <1>1 DEF Layers
  <2>2. Layers[i].what = "off"
    BY <2>1 DEF Layer
  <2> QED BY <2>2 DEF MayTop
<1>2. CASE mode # "off"
  <2>1. Layers = PileOf(n, Wall, WindowLayers, Overlays)
    BY <1>0, <1>2, LayersAre DEF LayersGiven
  <2>2. i \in 1 .. (n + 5)
    BY <2>1 DEF PileOf
  <2>3. CASE i = 1
    <3>1. Layers[i] = Wall
      BY <2>1, <2>2, <2>3 DEF PileOf
    <3> QED BY <3>1 DEF Wall, Layer, MayTop
  <2>4. CASE i # 1 /\ i <= n + 1
    <3>1. Layers[i] = WindowLayers[i - 1] /\ i - 1 \in 1 .. n
      BY <2>1, <2>2, <2>4 DEF PileOf
    <3> DEFINE w == stacked[i - 1]
    <3>2. w \in WindowSet
      BY <3>1
    <3>3. Layers[i] = Layer(Visible(w), w, windows[w].area, TRUE)
      BY <1>0, <3>1, <3>2 DEF WindowLayers, WindowLayer, StillNow
    <3> HIDE DEF w
    <3>4. Layers[i].what = w /\ Layers[i].at = IF Visible(w) THEN windows[w].area ELSE NoRect
      BY <3>3 DEF Layer
    <3>5. ~Has(NoRect, c)
      BY RectIs
    <3>6. Visible(w) /\ Has(windows[w].area, c)
      BY <3>4, <3>5
    <3> QED BY <3>2, <3>4, <3>6 DEF MayTop
  <2>5. CASE ~(i <= n + 1)
    <3>1. Layers[i] = Overlays[i - (n + 1)] /\ i - (n + 1) \in 1 .. 4
      BY <2>1, <2>2, <2>5 DEF PileOf
    <3>2. PICK j \in 1 .. 4 : Layers[i] = Overlays[j]
      BY <3>1
    <3>3. ~Has(NoRect, c) /\ c[2] \in Nat
      BY RectIs, CellIs
    <3>4. CASE j = 1
      <4>1. Layers[i].what = "panel" /\ Layers[i].at = Rect(0, 0, Width, 1)
        BY <3>2, <3>4 DEF Overlays, Layer
      <4>2. c[2] = 0
        BY <3>3, <4>1 DEF Has, Rect
      <4> QED BY <4>1, <4>2 DEF MayTop
    <3>5. CASE j = 2 \/ j = 3
      BY <3>2, <3>5 DEF Overlays, Layer, MayTop
    <3>6. CASE j = 4
      <4>1. Layers[i].what = "login" /\ Layers[i].at = IF mode = "locked" THEN WholeScreen ELSE NoRect
        BY <3>2, <3>6 DEF Overlays, Layer
      <4> QED BY <3>3, <4>1 DEF MayTop
    <3> QED BY <3>4, <3>5, <3>6
  <2> QED BY <2>2, <2>3, <2>4, <2>5
<1> QED BY <1>1, <1>2

(***************************************************************************)
(* The types                                                               *)
(***************************************************************************)
Marks == {"clock", "network", "typed", "news", "text", "names", "filter"}
Topics == {"clock", "network", "typed", "news"}
Motions == [on : BOOLEAN, from : NatRect, age : 0 .. WindowTime, closing : BOOLEAN]
Pane == [open : BOOLEAN, hidden : BOOLEAN, full : BOOLEAN, motion : Motions, area : NatRect, restore : NatRect]
Grabs == [window : WindowSet, x : Int, y : Int]
Overs == ({"Logo", "Power", "None", "MenuItem"} \X {0}) \cup ({"Task"} \X Nat) \cup ({"Button"} \X DOMAIN Windows)

PanesOK == windows \in [WindowSet -> Pane]
StackOK == stacked \in [1 .. Len(Windows) -> WindowSet] /\ \A w \in WindowSet : \E i \in 1 .. Len(Windows) : stacked[i] = w
ShownOK == /\ holds \in [Marks -> {"even", "odd"}] /\ clock \in Clocks /\ topic \in Topics
           /\ menus \in SUBSET {"menu", "power"} /\ menuAge \in 0 .. MenuTime /\ mode \in {"desk", "locked", "off"}
MouseOK == hover \in Overs /\ pointer \in Cells /\ (grab = NoGrab \/ grab \in Grabs)
TimeOK == /\ age \in 0 .. (WakingTime + 1) /\ gap \in 0 .. LockedTime
          /\ moment \in {"events", "frame", "shown"} /\ happened \in 0 .. MaxEvents
DirtyOK == StillNow \/ mode = "off" => dirty \in NatRect

(* A rectangle the code computes from those it has.                        *)
LEMMA PaneFields ==
  ASSUME PanesOK, NEW w \in WindowSet
  PROVE  /\ windows[w] \in Pane /\ windows[w].area \in NatRect /\ windows[w].motion \in Motions
         /\ windows[w].area.x \in Nat /\ windows[w].area.y \in Nat /\ windows[w].area.w \in Nat /\ windows[w].area.h \in Nat
<1>1. windows[w] \in Pane
  BY DEF PanesOK
<1>2. windows[w].area \in NatRect /\ windows[w].motion \in Motions
  BY <1>1 DEF Pane
<1>3. \A r \in NatRect : r.x \in Nat /\ r.y \in Nat /\ r.w \in Nat /\ r.h \in Nat
  BY DEF NatRect
<1> QED BY <1>1, <1>2, <1>3

(* A window springs from a rectangle of the screen.                        *)
LEMMA SpringIs ==
  ASSUME PanesOK, NEW w \in WindowSet, NEW S
  PROVE  Spring(w, S) \in NatRect
<1> DEFINE at == CHOOSE i \in DOMAIN InOrder(S) : InOrder(S)[i] = w
           a == windows[w].area
<1>1. Spring(w, S) = IF at \in 1 .. (Width - 2) THEN TaskRect(at)
                     ELSE Rect(a.x + a.w \div 3, a.y + a.h \div 3, a.w \div 3, a.h \div 3)
  BY DEF Spring
<1> HIDE DEF at
<1>2. a.x \in Nat /\ a.y \in Nat /\ a.w \in Nat /\ a.h \in Nat
  BY PaneFields
<1> HIDE DEF a
<1>3. a.w \div 3 \in Nat /\ a.h \div 3 \in Nat /\ a.x + a.w \div 3 \in Nat /\ a.y + a.h \div 3 \in Nat
  BY <1>2
<1>4. at \in 1 .. (Width - 2) => TaskRect(at) \in NatRect
  BY ScreenIs DEF TaskRect, Rect, NatRect
<1> QED BY <1>1, <1>3, <1>4, RectIs

(* A window that is dragged stays a rectangle, whatever the hand does.     *)
LEMMA DraggedIs ==
  ASSUME PanesOK, grab \in Grabs, NEW c \in Cells
  PROVE  Dragged(c) \in NatRect
<1> DEFINE a == windows[grab.window].area
<1>1. grab.window \in WindowSet /\ grab.x \in Int /\ grab.y \in Int
  BY DEF Grabs
<1>2. a.w \in Nat /\ a.h \in Nat
  BY <1>1, PaneFields
<1>3. Width \in Nat /\ Height \in Nat /\ Width > 0 /\ Height > 2 /\ c[1] \in Nat /\ c[2] \in Nat
  BY ScreenIs, CellIs
<1>4. Smaller(Less(c[1], grab.x), Width - 1) \in Nat /\ Larger(1, Smaller(Less(c[2], grab.y), Height - 1)) \in Nat
  BY <1>1, <1>3 DEF Smaller, Larger, Less
<1> QED BY <1>2, <1>4, RectIs DEF Dragged

(* What grows older up to a time.                                          *)
LEMMA AgedIs ==
  ASSUME NEW t \in Nat, NEW k \in 0 .. t, NEW d \in 1 .. 2
  PROVE  Smaller(k + d, t) \in 0 .. t
BY DEF Smaller

(* What the windows are stays of its type.                                 *)
LEMMA PanesKeep ==
  ASSUME PanesOK, ShownOK, MouseOK, TimeOK, [ScreenNext]_screenVars
  PROVE  PanesOK'
<1>1. ASSUME UNCHANGED windows PROVE PanesOK'
  BY <1>1 DEF PanesOK
<1>2. ASSUME NEW w \in WindowSet, NEW p \in Pane, windows' = [windows EXCEPT ![w] = p] PROVE PanesOK'
  BY <1>2 DEF PanesOK
<1>3. CASE UNCHANGED screenVars
  BY <1>1, <1>3 DEF screenVars
<1>4. CASE Tick \/ Told("network") \/ Told("news")
  BY <1>1, <1>4 DEF Tick, Told
<1>5. ASSUME NEW w \in WindowSet, Launch(w) PROVE PanesOK'
  <2> DEFINE s == Spring(w, Opened \cup {w})
             grown == [on |-> TRUE, from |-> s, age |-> 0, closing |-> FALSE]
             m == IF Visible(w) THEN windows[w].motion ELSE grown
             p == [windows[w] EXCEPT !.open = TRUE, !.hidden = FALSE, !.motion = m]
  <2>1. windows' = [windows EXCEPT ![w] = p]
    BY <1>5 DEF Launch
  <2>2. windows[w] \in Pane /\ windows[w].motion \in Motions /\ s \in NatRect /\ 0 \in 0 .. WindowTime
    BY PaneFields, SpringIs, ScreenIs
  <2> HIDE DEF s
  <2>3. grown \in Motions
    BY <2>2 DEF Motions
  <2> HIDE DEF grown
  <2>4. m \in Motions
    BY <2>2, <2>3
  <2> HIDE DEF m
  <2>5. p \in Pane
    BY <2>2, <2>4 DEF Pane
  <2> HIDE DEF p
  <2> QED BY <1>2, <2>1, <2>5
<1>6. ASSUME NEW w \in WindowSet, Close(w) PROVE PanesOK'
  <2> DEFINE m == [on |-> TRUE, from |-> windows[w].area, age |-> 0, closing |-> TRUE]
             p == [windows[w] EXCEPT !.motion = m]
  <2>1. windows' = [windows EXCEPT ![w] = p]
    BY <1>6 DEF Close, PanesOK
  <2>2. windows[w] \in Pane /\ windows[w].area \in NatRect /\ 0 \in 0 .. WindowTime
    BY PaneFields, ScreenIs
  <2>3. m \in Motions
    BY <2>2 DEF Motions
  <2> HIDE DEF m
  <2>4. p \in Pane
    BY <2>2, <2>3 DEF Pane
  <2> HIDE DEF p
  <2> QED BY <1>2, <2>1, <2>4
<1>7. ASSUME NEW w \in WindowSet, Minimise(w) PROVE PanesOK'
  <2> DEFINE p == [windows[w] EXCEPT !.hidden = TRUE]
  <2>1. windows' = [windows EXCEPT ![w] = p]
    BY <1>7 DEF Minimise, PanesOK
  <2>2. windows[w] \in Pane
    BY PaneFields
  <2>3. p \in Pane
    BY <2>2 DEF Pane
  <2> HIDE DEF p
  <2> QED BY <1>2, <2>1, <2>3
<1>8. ASSUME NEW w \in WindowSet, ToggleFull(w) PROVE PanesOK'
  <2> DEFINE old == windows[w]
             whole == Rect(0, 1, Width, Height - 1)
             back1 == [old EXCEPT !.area = old.restore, !.full = FALSE]
             full1 == [old EXCEPT !.restore = old.area, !.area = whole, !.full = TRUE]
             p == IF old.full THEN back1 ELSE full1
  <2>1. windows' = [windows EXCEPT ![w] = p]
    BY <1>8 DEF ToggleFull
  <2>2. old \in Pane
    BY PaneFields
  <2>3. whole \in NatRect
    BY ScreenIs, RectIs
  <2> HIDE DEF old, whole
  <2>4. back1 \in Pane /\ full1 \in Pane
    BY <2>2, <2>3 DEF Pane
  <2> HIDE DEF back1, full1
  <2>5. p \in Pane
    BY <2>4
  <2> HIDE DEF p
  <2> QED BY <1>2, <2>1, <2>5
<1>9. ASSUME NEW w \in WindowSet, Raise(w) \/ Press(w) PROVE PanesOK'
  BY <1>1, <1>9 DEF Raise, Press
<1>10. CASE ToggleMenu \/ TogglePower \/ KeyFilter \/ LockScreen \/ KeyUnderLock \/ ShutDown \/ KeyTerminal \/ InSettings \/ Release
  BY <1>1, <1>10 DEF ToggleMenu, TogglePower, KeyFilter, LockScreen, KeyUnderLock, ShutDown, KeyTerminal, InSettings, Release
<1>11. CASE MouseMoves
  <2>1. CASE grab = NoGrab
    BY <1>1, <1>11, <2>1 DEF MouseMoves
  <2>2. CASE grab # NoGrab
    <3> DEFINE moved == Dragged(pointer')
               g == grab.window
               p == [windows[g] EXCEPT !.area = moved]
    <3>1. grab \in Grabs /\ pointer' \in Cells
      BY <1>11, <2>2, ScreenIs DEF MouseOK, MouseMoves
    <3>2. moved \in NatRect
      BY <3>1, DraggedIs
    <3>3. g \in WindowSet
      BY <3>1 DEF Grabs
    <3>4. windows' = [windows EXCEPT ![g] = p]
      BY <1>11, <2>2 DEF MouseMoves, PanesOK
    <3>5. windows[g] \in Pane
      BY <3>3, PaneFields
    <3> HIDE DEF moved, g
    <3>6. p \in Pane
      BY <3>2, <3>5 DEF Pane
    <3> HIDE DEF p
    <3> QED BY <1>2, <3>3, <3>4, <3>6
  <2> QED BY <2>1, <2>2
<1>12. CASE AdvanceClock
  <2>1. PICK passed \in 1 .. 2 :
          \/ windows' = Older(passed)
          \/ windows' = [w \in WindowSet |->
                            IF Older(passed)[w].motion.on /\ Older(passed)[w].motion.age >= WindowTime
                            THEN [Older(passed)[w] EXCEPT !.motion = Still, !.open = @ /\ ~Older(passed)[w].motion.closing]
                            ELSE Older(passed)[w]]
    BY <1>12 DEF AdvanceClock
  <2> DEFINE older == Older(passed)
  <2>2. ASSUME NEW w \in WindowSet PROVE older[w] \in Pane
    <3> DEFINE m == [windows[w].motion EXCEPT !.age = Smaller(@ + passed, WindowTime)]
    <3>1. windows[w] \in Pane /\ windows[w].motion \in Motions
      BY PaneFields
    <3>2. windows[w].motion.age \in 0 .. WindowTime
      BY <3>1 DEF Motions
    <3>3. Smaller(windows[w].motion.age + passed, WindowTime) \in 0 .. WindowTime
      BY <3>2, AgedIs, ScreenIs
    <3>4. m \in Motions
      BY <3>1, <3>3 DEF Motions
    <3>5. older[w] = IF windows[w].motion.on THEN [windows[w] EXCEPT !.motion = m] ELSE windows[w]
      BY <3>1 DEF Older, Pane
    <3> HIDE DEF m, older
    <3>6. [windows[w] EXCEPT !.motion = m] \in Pane
      BY <3>1, <3>4 DEF Pane
    <3> QED BY <3>1, <3>5, <3>6
  <2>3. Still \in Motions
    BY RectIs, ScreenIs DEF Still, Motions
  <2>4. DOMAIN older = WindowSet /\ older = [w \in WindowSet |-> older[w]]
    BY DEF Older
  <2> HIDE DEF older
  <2>5. ASSUME NEW w \in WindowSet
        PROVE  [older[w] EXCEPT !.motion = Still, !.open = @ /\ ~older[w].motion.closing] \in Pane
    <3>1. older[w].open \in BOOLEAN /\ older[w].motion \in Motions
      BY <2>2 DEF Pane
    <3>2. (older[w].open /\ ~older[w].motion.closing) \in BOOLEAN
      OBVIOUS
    <3> QED BY <2>2, <2>3, <3>2 DEF Pane
  <2> DEFINE ended == [w \in WindowSet |->
                         IF older[w].motion.on /\ older[w].motion.age >= WindowTime
                         THEN [older[w] EXCEPT !.motion = Still, !.open = @ /\ ~older[w].motion.closing] ELSE older[w]]
  <2>6. windows' = older \/ windows' = ended
    BY <2>1 DEF older
  <2>7. older \in [WindowSet -> Pane]
    BY <2>2, <2>4
  <2>8. ended \in [WindowSet -> Pane]
    BY <2>2, <2>5
  <2> HIDE DEF ended
  <2> QED BY <2>6, <2>7, <2>8 DEF PanesOK
<1>13. CASE ShowFrame
  BY <1>1, <1>13 DEF ShowFrame
<1> QED BY <1>3, <1>4, <1>5, <1>6, <1>7, <1>8, <1>9, <1>10, <1>11, <1>12, <1>13 DEF ScreenNext

(* Raising a window moves those in front of it one place back.             *)
LEMMA LiftedIs ==
  ASSUME StackOK, NEW w \in WindowSet, stacked' = Lifted(w)
  PROVE  StackOK'
<1> DEFINE n == Len(Windows)
           at == CHOOSE i \in DOMAIN stacked : stacked[i] = w
<1>1. n \in Nat
  BY ScreenIs
<1>2. stacked \in [1 .. n -> WindowSet] /\ DOMAIN stacked = 1 .. n
  BY DEF StackOK
<1>3. Len(stacked) = n
  <2> HIDE DEF n
  <2> QED BY <1>1, <1>2
<1>4. at \in 1 .. n /\ stacked[at] = w
  <2>1. \E i \in 1 .. n : stacked[i] = w
    BY DEF StackOK
  <2> QED BY <1>2, <2>1
<1>5. stacked' = [i \in 1 .. n |-> IF i < at THEN stacked[i] ELSE IF i < n THEN stacked[i + 1] ELSE w]
  BY <1>3 DEF Lifted
<1> HIDE DEF n, at
<1>6. ASSUME NEW i \in 1 .. n
      PROVE  (IF i < at THEN stacked[i] ELSE IF i < n THEN stacked[i + 1] ELSE w) \in WindowSet
  <2>1. i < n => i + 1 \in 1 .. n
    BY <1>1
  <2> QED BY <1>2, <2>1
<1>7. stacked' \in [1 .. n -> WindowSet]
  BY <1>5, <1>6
<1>8. ASSUME NEW x \in WindowSet PROVE \E i \in 1 .. n : stacked'[i] = x
  <2>1. PICK j \in 1 .. n : stacked[j] = x
    BY DEF StackOK, n
  <2>2. CASE j < at
    BY <1>5, <2>1, <2>2
  <2>3. CASE j = at
    <3>1. n \in 1 .. n /\ ~(n < at)
      BY <1>1, <1>4
    <3>2. stacked'[n] = w
      BY <1>1, <1>5, <3>1
    <3> QED BY <1>4, <2>1, <2>3, <3>1, <3>2
  <2>4. CASE j > at
    <3>1. j - 1 \in 1 .. n /\ ~(j - 1 < at) /\ j - 1 < n /\ (j - 1) + 1 = j
      BY <1>1, <1>4, <2>4
    <3>2. stacked'[j - 1] = x
      BY <1>5, <2>1, <3>1
    <3> QED BY <3>1, <3>2
  <2> QED BY <1>4, <2>2, <2>3, <2>4
<1> QED BY <1>7, <1>8 DEF StackOK, n

(* Every step keeps each window in the order, once.                        *)
LEMMA StackKeeps ==
  ASSUME StackOK, [ScreenNext]_screenVars
  PROVE  StackOK'
<1>1. ASSUME UNCHANGED stacked PROVE StackOK'
  BY <1>1 DEF StackOK
<1>2. ASSUME NEW w \in WindowSet, stacked' = Lifted(w) \/ stacked' = ToFront(w) PROVE StackOK'
  BY <1>1, <1>2, LiftedIs DEF ToFront
<1>3. CASE UNCHANGED screenVars
  BY <1>1, <1>3 DEF screenVars
<1>4. CASE Tick \/ Told("network") \/ Told("news") \/ KeyTerminal \/ InSettings \/ MouseMoves \/ Release
  BY <1>1, <1>4 DEF Tick, Told, KeyTerminal, InSettings, MouseMoves, Release
<1>5. ASSUME NEW w \in WindowSet, Launch(w) \/ Close(w) \/ Minimise(w) \/ ToggleFull(w) \/ Raise(w) \/ Press(w) PROVE StackOK'
  BY <1>2, <1>5 DEF Launch, Close, Minimise, ToggleFull, Raise, Press
<1>6. CASE ToggleMenu \/ TogglePower \/ KeyFilter \/ LockScreen \/ KeyUnderLock \/ ShutDown
  BY <1>1, <1>6 DEF ToggleMenu, TogglePower, KeyFilter, LockScreen, KeyUnderLock, ShutDown
<1>7. CASE AdvanceClock \/ ShowFrame
  BY <1>1, <1>7 DEF AdvanceClock, ShowFrame
<1> QED BY <1>3, <1>4, <1>5, <1>6, <1>7 DEF ScreenNext

(* Every step keeps the types of what is shown.                            *)
LEMMA ShownKeeps ==
  ASSUME ShownOK, [ScreenNext]_screenVars
  PROVE  ShownOK'
<1> DEFINE Held(f) == f \in [Marks -> {"even", "odd"}]
<1>1. Held(holds) /\ clock \in Clocks /\ topic \in Topics /\ menus \in SUBSET {"menu", "power"} /\ menuAge \in 0 .. MenuTime
      /\ mode \in {"desk", "locked", "off"} /\ 0 \in 0 .. MenuTime
  BY ScreenIs DEF ShownOK
<1>2. ASSUME NEW k \in Marks, NEW f, Held(f) PROVE Held([f EXCEPT ![k] = IF @ = "even" THEN "odd" ELSE "even"])
  BY <1>2
<1>3. \A k \in Marks : Turns(k) => Held(holds')
  BY <1>1, <1>2 DEF Turns
<1>4. ASSUME Held(holds'), clock' \in Clocks, topic' \in Topics, menus' \in SUBSET {"menu", "power"}, menuAge' \in 0 .. MenuTime,
             mode' \in {"desk", "locked", "off"}
      PROVE  ShownOK'
  BY <1>4 DEF ShownOK
<1>5. CASE UNCHANGED screenVars
  BY <1>1, <1>4, <1>5 DEF screenVars
<1>6. CASE Tick
  <2>1. "clock" \in Marks
    BY DEF Marks
  <2> QED BY <1>1, <1>3, <1>4, <1>6, <2>1 DEF Tick
<1>7. CASE Told("network") \/ Told("news")
  <2>1. "network" \in Marks /\ "news" \in Marks
    BY DEF Marks
  <2> HIDE DEF Held
  <2> QED BY <1>1, <1>3, <1>4, <1>7, <2>1 DEF Told
<1>8. ASSUME NEW w \in WindowSet, Launch(w) \/ Close(w) \/ Minimise(w) \/ ToggleFull(w) \/ Raise(w) \/ Press(w) PROVE ShownOK'
  <2> HIDE DEF Held
  <2>1. UNCHANGED <<holds, clock, topic, mode>>
    BY <1>8 DEF Launch, Close, Minimise, ToggleFull, Raise, Press, Rearranged, Repainted, Desk, Hand
  <2>2. menus' \in SUBSET {"menu", "power"} /\ menuAge' \in {0, menuAge}
    BY <1>1, <1>8 DEF Launch, Close, Minimise, ToggleFull, Raise, Press, Rearranged, Chosen
  <2> QED BY <1>1, <1>4, <2>1, <2>2
<1>9. CASE ToggleMenu \/ TogglePower \/ LockScreen \/ ShutDown
  <2> HIDE DEF Held
  <2>1. UNCHANGED <<holds, clock, topic>>
    BY <1>9 DEF ToggleMenu, TogglePower, LockScreen, ShutDown, Repainted, Desk, Hand
  <2>2. menus' \in SUBSET {"menu", "power"} /\ menuAge' \in {0, menuAge} /\ mode' \in {mode, "locked", "off"}
    BY <1>1, <1>9 DEF ToggleMenu, TogglePower, LockScreen, ShutDown, Chosen
  <2> QED BY <1>1, <1>4, <2>1, <2>2
<1>10. CASE KeyFilter
  <2>1. "filter" \in Marks
    BY DEF Marks
  <2> HIDE DEF Held
  <2> QED BY <1>1, <1>3, <1>4, <1>10, <2>1 DEF KeyFilter, Desk, Hand
<1>11. CASE KeyUnderLock
  <2>1. "typed" \in Marks
    BY DEF Marks
  <2> HIDE DEF Held
  <2>2. Held(holds') /\ mode' \in {mode, "desk"}
    BY <1>1, <1>3, <1>11, <2>1 DEF KeyUnderLock
  <2> QED BY <1>1, <1>4, <1>11, <2>2 DEF KeyUnderLock, Hand
<1>12. CASE KeyTerminal
  <2>1. "text" \in Marks /\ "names" \in Marks
    BY DEF Marks
  <2>2. Held(holds')
    <3>1. CASE Turns("text")
      BY <1>3, <2>1, <3>1
    <3>2. CASE holds' = [holds EXCEPT !["text"] = IF @ = "even" THEN "odd" ELSE "even",
                                      !["names"] = IF @ = "even" THEN "odd" ELSE "even"]
      BY <1>1, <2>1, <3>2
    <3> QED BY <1>12, <3>1, <3>2 DEF KeyTerminal
  <2> HIDE DEF Held
  <2> QED BY <1>1, <1>4, <1>12, <2>2 DEF KeyTerminal, Desk, Hand
<1>13. CASE InSettings
  <2>1. "typed" \in Marks
    BY DEF Marks
  <2> HIDE DEF Held
  <2>2. Held(holds') /\ topic' \in Topics
    BY <1>1, <1>3, <1>13, <2>1 DEF InSettings, Topics
  <2> QED BY <1>1, <1>4, <1>13, <2>2 DEF InSettings, Desk, Hand
<1>14. CASE MouseMoves \/ Release
  <2> HIDE DEF Held
  <2> QED BY <1>1, <1>4, <1>14 DEF MouseMoves, Release, Hand
<1>15. CASE AdvanceClock
  <2> HIDE DEF Held
  <2>1. UNCHANGED <<clock, topic, menus, mode>>
    BY <1>15 DEF AdvanceClock
  <2>2. menuAge' \in 0 .. MenuTime
    <3>1. PICK passed \in 1 .. 2 : menuAge' = IF "menu" \in menus THEN Smaller(menuAge + passed, MenuTime) ELSE 0
      BY <1>15 DEF AdvanceClock
    <3> QED BY <1>1, <3>1, AgedIs, ScreenIs
  <2>3. UNCHANGED holds \/ holds' = [holds EXCEPT !["news"] = IF @ = "even" THEN "odd" ELSE "even"]
    BY <1>15 DEF AdvanceClock
  <2>4. "news" \in Marks
    BY DEF Marks
  <2>5. Held(holds')
    BY <1>1, <1>2, <2>3, <2>4
  <2> QED BY <1>1, <1>4, <2>1, <2>2, <2>5
<1>16. CASE ShowFrame
  <2> HIDE DEF Held
  <2> QED BY <1>1, <1>4, <1>16 DEF ShowFrame
<1> QED BY <1>5, <1>6, <1>7, <1>8, <1>9, <1>10, <1>11, <1>12, <1>13, <1>14, <1>15, <1>16 DEF ScreenNext

(* The window in front is a window, if there is one.                       *)
LEMMA ForemostIs ==
  ASSUME StackOK
  PROVE  Foremost \in WindowSet \cup {"none"} /\ (Foremost # "none" => Visible(Foremost))
<1> DEFINE seen == {i \in DOMAIN stacked : Visible(stacked[i])}
<1>1. Foremost = IF seen = {} THEN "none" ELSE stacked[Max(seen)]
  BY DEF Foremost
<1>2. Len(Windows) \in Nat /\ DOMAIN stacked = 1 .. Len(Windows)
  BY ScreenIs DEF StackOK
<1>3. seen \in SUBSET (1 .. Len(Windows))
  BY <1>2
<1>4. ASSUME seen # {} PROVE stacked[Max(seen)] \in WindowSet /\ Visible(stacked[Max(seen)])
  <2>1. Max(seen) \in seen
    <3> HIDE DEF seen
    <3>1. Rows!Top(seen) \in seen
      BY <1>2, <1>3, <1>4, Rows!TopIs
    <3> QED BY <3>1, Zenon DEF Max, Rows!Top
  <2>2. Max(seen) \in 1 .. Len(Windows) /\ Visible(stacked[Max(seen)])
    BY <1>2, <2>1
  <2> QED BY <2>2 DEF StackOK
<1> QED BY <1>1, <1>4

(* What the pointer is over is a button, a row or nothing.                 *)
LEMMA OverIs ==
  ASSUME StackOK, NEW c \in Cells
  PROVE  Over(c) \in Overs
<1>1. \A k \in {"Logo", "Power", "None", "MenuItem"} : <<k, 0>> \in Overs
  BY DEF Overs
<1>2. <<"Task", c[1]>> \in Overs
  BY CellIs DEF Overs
<1>3. Foremost # "none" => <<"Button", IndexOf(Foremost)>> \in Overs
  BY ForemostIs, IndexIs DEF Overs
<1>4. OverPanel(c) \in Overs
  BY <1>1, <1>2 DEF OverPanel
<1> QED BY <1>1, <1>3, <1>4 DEF Over

(* Every step keeps the types of the mouse.                                *)
LEMMA MouseKeeps ==
  ASSUME PanesOK, StackOK, MouseOK, [ScreenNext]_screenVars
  PROVE  MouseOK'
<1>1. ASSUME UNCHANGED <<hover, pointer>>, grab' = grab \/ grab' = NoGrab \/ grab' \in Grabs PROVE MouseOK'
  BY <1>1 DEF MouseOK
<1>2. CASE UNCHANGED screenVars
  BY <1>1, <1>2 DEF screenVars
<1>3. CASE Tick \/ Told("network") \/ Told("news") \/ KeyTerminal \/ InSettings \/ Release
  BY <1>1, <1>3 DEF Tick, Told, KeyTerminal, InSettings, Release
<1>4. ASSUME NEW w \in WindowSet, Launch(w) \/ Close(w) \/ Minimise(w) \/ ToggleFull(w) \/ Raise(w) PROVE MouseOK'
  BY <1>1, <1>4 DEF Launch, Close, Minimise, ToggleFull, Raise, Rearranged, Repainted
<1>5. ASSUME NEW w \in WindowSet, Press(w) PROVE MouseOK'
  <2>1. pointer[1] \in Int /\ pointer[2] \in Int /\ windows[w].area.x \in Int /\ windows[w].area.y \in Int
    BY CellIs, PaneFields DEF MouseOK
  <2>2. grab' = [window |-> w, x |-> pointer[1] - windows[w].area.x, y |-> pointer[2] - windows[w].area.y]
    BY <1>5 DEF Press
  <2>3. grab' \in Grabs
    BY <2>1, <2>2 DEF Grabs
  <2> QED BY <1>1, <1>5, <2>3 DEF Press
<1>6. CASE ToggleMenu \/ TogglePower \/ KeyFilter \/ LockScreen \/ KeyUnderLock \/ ShutDown
  BY <1>1, <1>6 DEF ToggleMenu, TogglePower, KeyFilter, LockScreen, KeyUnderLock, ShutDown, Repainted
<1>7. CASE MouseMoves
  <2>1. pointer' \in Cells /\ grab' = grab
    BY <1>7, ScreenIs DEF MouseMoves
  <2>2. hover' = hover \/ hover' = Over(pointer')
    BY <1>7 DEF MouseMoves, Follow
  <2> QED BY <2>1, <2>2, OverIs DEF MouseOK
<1>8. CASE AdvanceClock \/ ShowFrame
  BY <1>1, <1>8 DEF AdvanceClock, ShowFrame
<1> QED BY <1>2, <1>3, <1>4, <1>5, <1>6, <1>7, <1>8 DEF ScreenNext

(* Every step keeps the bounds of the time.                                *)
LEMMA TimeKeeps ==
  ASSUME TimeOK, [ScreenNext]_screenVars
  PROVE  TimeOK'
<1>1. MaxEvents \in Nat /\ WakingTime \in Nat /\ FrameTime \in Nat
  BY ScreenIs
<1>2. ASSUME Event, UNCHANGED <<age, gap>> PROVE TimeOK'
  BY <1>1, <1>2 DEF TimeOK, Event
<1>3. CASE UNCHANGED screenVars
  BY <1>3 DEF screenVars, TimeOK
<1>4. CASE Tick \/ Told("network") \/ Told("news")
  BY <1>2, <1>4 DEF Tick, Told, Timing
<1>5. CASE KeyTerminal \/ InSettings \/ MouseMoves \/ Release \/ KeyFilter \/ KeyUnderLock
  BY <1>2, <1>5 DEF KeyTerminal, InSettings, MouseMoves, Release, KeyFilter, KeyUnderLock, Desk, Hand, Timing
<1>6. ASSUME NEW w \in WindowSet, Launch(w) \/ Close(w) \/ Minimise(w) \/ ToggleFull(w) \/ Raise(w) \/ Press(w) PROVE TimeOK'
  BY <1>2, <1>6 DEF Launch, Close, Minimise, ToggleFull, Raise, Press, Rearranged, Repainted, Desk, Hand, Timing
<1>7. CASE ToggleMenu \/ TogglePower \/ LockScreen \/ ShutDown
  BY <1>2, <1>7 DEF ToggleMenu, TogglePower, LockScreen, ShutDown, Repainted, Desk, Hand, Timing
<1>8. CASE AdvanceClock
  <2>1. PICK passed \in 1 .. 2 : age' = Smaller(age + passed, WakingTime + 1) /\ gap' \in {0, Smaller(gap + passed, LockedTime)}
    BY <1>8 DEF AdvanceClock
  <2> DEFINE last == WakingTime + 1
  <2>2. LockedTime \in Nat /\ last \in Nat
    BY <1>1 DEF LockedTime
  <2>3. age \in 0 .. last /\ gap \in 0 .. LockedTime /\ 0 \in 0 .. LockedTime
    BY <2>2 DEF TimeOK
  <2>4. age' = Smaller(age + passed, last)
    BY <2>1
  <2> HIDE DEF last
  <2>5. age' \in 0 .. last /\ Smaller(gap + passed, LockedTime) \in 0 .. LockedTime
    BY <2>2, <2>3, <2>4, AgedIs
  <2> QED BY <1>8, <2>1, <2>3, <2>5 DEF AdvanceClock, TimeOK, last
<1>9. CASE ShowFrame
  BY <1>9 DEF ShowFrame, TimeOK
<1> QED BY <1>3, <1>4, <1>5, <1>6, <1>7, <1>8, <1>9 DEF ScreenNext

(***************************************************************************)
(* What a cell shows                                                       *)
(***************************************************************************)

Seen(c) == LookOf(WhatAt(Layers, c), c)

(* What Paint puts in a cell, field by field.                              *)
LEMMA PaintIs ==
  ASSUME NEW c \in Cells
  PROVE  Paint[c].top = Seen(c) /\ Paint[c].shade = ShadesAt(Layers, c) /\ Paint[c].pointer = FALSE
         /\ DOMAIN Paint[c] = {"top", "shade", "washed", "pointer"}
BY DEF Paint, Seen, WhatAt

(* The look of a layer, by its name.                                       *)
LooksGiven ==
  \A what, c : /\ what \in WindowSet => LookOf(what, c) = WindowLook(what, c)
               /\ what = "panel" => LookOf(what, c) = PanelLook(c)
               /\ what = "menu" => LookOf(what, c) = MenuLook(c)
               /\ what = "login" => LookOf(what, c) = {"login", holds["typed"], holds["clock"]}
               /\ what \in {"wallpaper", "powerMenu", "off"} => LookOf(what, c) = {what}

(* The look depends on the name, as no window has the name of a layer.     *)
LEMMA LooksAre == LooksGiven
<1>1. WindowSet \cap {"wallpaper", "ghost", "panel", "menu", "powerMenu", "login", "off"} = {}
  BY ScreenIs
<1> SUFFICES ASSUME NEW what, NEW c
             PROVE  /\ what \in WindowSet => LookOf(what, c) = WindowLook(what, c)
                    /\ what = "panel" => LookOf(what, c) = PanelLook(c)
                    /\ what = "menu" => LookOf(what, c) = MenuLook(c)
                    /\ what = "login" => LookOf(what, c) = {"login", holds["typed"], holds["clock"]}
                    /\ what \in {"wallpaper", "powerMenu", "off"} => LookOf(what, c) = {what}
  BY DEF LooksGiven
<1>2. what \in WindowSet => LookOf(what, c) = WindowLook(what, c)
  BY <1>1 DEF LookOf
<1>3. what = "panel" => LookOf(what, c) = PanelLook(c)
  BY <1>1 DEF LookOf
<1>4. what = "menu" => LookOf(what, c) = MenuLook(c)
  BY <1>1 DEF LookOf
<1>5. what = "login" => LookOf(what, c) = {"login", holds["typed"], holds["clock"]}
  BY <1>1 DEF LookOf
<1>6. what \in {"wallpaper", "powerMenu", "off"} => LookOf(what, c) = {what}
  BY <1>1 DEF LookOf
<1> QED BY <1>2, <1>3, <1>4, <1>5, <1>6

(* The same, after a step.                                                 *)
LEMMA LooksNext == LooksGiven'
BY LooksAre, PTL

(* The looks of the layers that may be on top are what they were.          *)
LooksStay(c) ==
  /\ \A w \in WindowSet : Visible(w) /\ Has(windows[w].area, c) => WindowLook(w, c)' = WindowLook(w, c)
  /\ c[2] = 0 => PanelLook(c)' = PanelLook(c)
  /\ MenuLook(c)' = MenuLook(c)
  /\ mode = "locked" => holds'["typed"] = holds["typed"] /\ holds'["clock"] = holds["clock"]

(* So does the look of any layer that may be on top.                       *)
LEMMA LookStays ==
  ASSUME NEW c, NEW what, MayTop(what, c), LooksStay(c)
  PROVE  LookOf(what, c)' = LookOf(what, c)
<1>1. CASE what \in WindowSet /\ Visible(what) /\ Has(windows[what].area, c)
  BY <1>1, LooksAre, LooksNext DEF LooksGiven, LooksStay
<1>2. CASE what = "panel" /\ c[2] = 0
  BY <1>2, LooksAre, LooksNext DEF LooksGiven, LooksStay
<1>3. CASE what = "login" /\ mode = "locked"
  <2>1. LookOf(what, c) = {"login", holds["typed"], holds["clock"]}
    BY <1>3, LooksAre DEF LooksGiven
  <2>2. LookOf(what, c)' = {"login", holds'["typed"], holds'["clock"]}
    BY <1>3, LooksNext DEF LooksGiven
  <2>3. holds'["typed"] = holds["typed"] /\ holds'["clock"] = holds["clock"]
    BY <1>3 DEF LooksStay
  <2> QED BY <2>1, <2>2, <2>3
<1>4. CASE what = "menu"
  BY <1>4, LooksAre, LooksNext DEF LooksGiven, LooksStay
<1>5. CASE what \in {"wallpaper", "powerMenu", "off"}
  BY <1>5, LooksAre, LooksNext DEF LooksGiven
<1> QED BY <1>1, <1>2, <1>3, <1>4, <1>5 DEF MayTop

(* When the layers are alike at a cell and their looks are what they were, *)
(* it shows the same.                                                      *)
LEMMA SeenStays ==
  ASSUME StackOK, StillNow, UNCHANGED <<stacked, mode>>, NEW c \in Cells,
         mode # "off" => /\ \A i \in 1 .. Len(Windows) : Same(WindowLayers[i], WindowLayers'[i], c)
                         /\ \A i \in 1 .. 4 : Same(Overlays[i], Overlays'[i], c),
         LooksStay(c)
  PROVE  Seen(c)' = Seen(c) /\ ShadesAt(Layers', c) = ShadesAt(Layers, c)
<1> DEFINE n == Len(Windows)
           what == WhatAt(Layers, c)
<1>1. n \in Nat /\ DOMAIN stacked = 1 .. n /\ stacked \in [1 .. n -> WindowSet]
  BY ScreenIs DEF StackOK
<1>2. /\ WhatAt(Layers, c) = WhatAt(Layers', c) /\ ShadesAt(Layers, c) = ShadesAt(Layers', c)
      /\ TopAt(Layers, c) \in DOMAIN Layers /\ Has(Layers[TopAt(Layers, c)].at, c)
  BY <1>1, LayersAlike
<1>3. MayTop(Layers[TopAt(Layers, c)].what, c)
  BY <1>1, <1>2, TopIsOneOf
<1>4. MayTop(what, c)
  BY <1>3 DEF WhatAt
<1>5. \A x : MayTop(x, c) => LookOf(x, c)' = LookOf(x, c)
  BY LookStays
<1>6. Seen(c) = LookOf(WhatAt(Layers, c), c) /\ Seen(c)' = LookOf(WhatAt(Layers, c), c)'
  BY <1>2 DEF Seen
<1> QED BY <1>2, <1>4, <1>5, <1>6

(***************************************************************************)
(* What changes little                                                     *)
(***************************************************************************)
Level == UNCHANGED <<windows, stacked, menus, mode>>
Flat == Level /\ (menuAge' = menuAge \/ "menu" \notin menus)

\* What a step leaves of a cell it does not repaint.
Remains(c) ==
  /\ Seen(c)' = Seen(c) /\ ShadesAt(Layers', c) = ShadesAt(Layers, c)
  /\ Sure(c)' => Sure(c)
  /\ Has(dirty, c) => Has(dirty', c)

(* Where nothing moves, the windows stay.                                  *)
LEMMA LevelStays ==
  ASSUME Level
  PROVE  /\ WindowLayers' = WindowLayers
         /\ StillNow' = StillNow /\ Foremost' = Foremost /\ OpenApps' = OpenApps
         /\ \A c : Sure(c)' = Sure(c)
<1>1. UNCHANGED <<windows, stacked, menus, mode>>
  BY DEF Level
<1>2. WindowLayers' = WindowLayers
  BY <1>1 DEF WindowLayers, WindowLayer, GhostRect, Visible
<1>4. StillNow' = StillNow
  BY <1>1 DEF StillNow
<1>5. Foremost' = Foremost
  BY <1>1 DEF Foremost, Visible
<1>6. OpenApps' = OpenApps
  <2>1. Opened' = Opened
    BY <1>1 DEF Opened
  <2> QED BY <2>1 DEF OpenApps
<1>7. ASSUME NEW c PROVE Sure(c)' = Sure(c)
  BY <1>1 DEF Sure, Folds, Behind, Visible
<1> QED BY <1>2, <1>4, <1>5, <1>6, <1>7

(* And what is over them, where the menu does not unfold.                  *)
LEMMA FlatStays ==
  ASSUME Flat
  PROVE  /\ WindowLayers' = WindowLayers /\ (mode # "off" => \A i \in 1 .. 4 : Overlays'[i] = Overlays[i])
         /\ StillNow' = StillNow /\ Foremost' = Foremost /\ OpenApps' = OpenApps
         /\ \A c : Sure(c)' = Sure(c)
<1>1. UNCHANGED <<windows, stacked, menus, mode>>
  BY DEF Flat, Level
<1>2. \A i \in 1 .. 4 : Overlays'[i] = Overlays[i]
  <2>1. Layer("menu" \in menus, "menu", Unfolded(menuAge), TRUE)' = Layer("menu" \in menus, "menu", Unfolded(menuAge), TRUE)
    <3>1. CASE menuAge' = menuAge
      BY <1>1, <3>1
    <3>2. CASE "menu" \notin menus
      BY <1>1, <3>2 DEF Layer
    <3> QED BY <3>1, <3>2 DEF Flat
  <2> QED BY <1>1, <2>1 DEF Overlays
<1> QED BY <1>2, LevelStays DEF Flat

(* The looks of windows and panel, when the pointer is over the same thing.*)
LEMMA LevelLooks ==
  ASSUME Level, UNCHANGED hover, NEW c
  PROVE  /\ \A w : Content(w)' = Content(w) => WindowLook(w, c)' = WindowLook(w, c)
         /\ UNCHANGED clock /\ holds'["clock"] = holds["clock"] => PanelLook(c)' = PanelLook(c)
         /\ holds'["filter"] = holds["filter"] => MenuLook(c)' = MenuLook(c)
<1>1. UNCHANGED <<windows, menus, hover>> /\ Foremost' = Foremost /\ OpenApps' = OpenApps
  BY LevelStays DEF Level
<1>2. ASSUME NEW w, Content(w)' = Content(w) PROVE WindowLook(w, c)' = WindowLook(w, c)
  BY <1>1, <1>2 DEF WindowLook, ButtonRect, TitleRect
<1>3. ASSUME UNCHANGED clock, holds'["clock"] = holds["clock"] PROVE PanelLook(c)' = PanelLook(c)
  BY <1>1, <1>3 DEF PanelLook, HasRoom, Tucked
<1>4. ASSUME holds'["filter"] = holds["filter"] PROVE MenuLook(c)' = MenuLook(c)
  BY <1>1, <1>4 DEF MenuLook
<1> QED BY <1>2, <1>3, <1>4

(* A step that moves no layer and changes no look there leaves the cell    *)
(* true.                                                                   *)
LEMMA FlatKept ==
  ASSUME StackOK, StillNow, Flat, NEW c \in Cells, LooksStay(c), Has(dirty, c) => Has(dirty', c)
  PROVE  Remains(c)
<1>1. \A a : Same(a, a, c)
  BY DEF Same
<1>2. Seen(c)' = Seen(c) /\ ShadesAt(Layers', c) = ShadesAt(Layers, c)
  <2>1. UNCHANGED <<stacked, mode>>
    BY DEF Flat, Level
  <2>2. mode # "off" => /\ \A i \in 1 .. Len(Windows) : Same(WindowLayers[i], WindowLayers'[i], c)
                        /\ \A i \in 1 .. 4 : Same(Overlays[i], Overlays'[i], c)
    BY <1>1, FlatStays
  <2> QED BY <2>1, <2>2, SeenStays
<1> QED BY <1>2, FlatStays DEF Remains

(* A second passes: what is left of the clock is repainted, and Parametres *)
(* where it shows the time.                                                *)
LEMMA TickKept ==
  ASSUME PanesOK, StackOK, ShownOK, StillNow, dirty \in NatRect, Tick, mode = "desk", NEW c \in Cells, ~Has(dirty', c), Sure(c)'
  PROVE  Remains(c)
<1> DEFINE x == ClockRect(clock').x
           strip == Rect(x, 0, Width - x, 1)
           panel == Joined(dirty, strip)
<1>1. Flat /\ UNCHANGED <<hover, topic>>
  BY DEF Tick, Flat, Level
<1>2. clock' \in Clocks /\ clock \in Clocks /\ Width \in Nat /\ "Settings" \in WindowSet /\ c[1] \in Nat /\ c[2] \in Nat /\ c[1] < Width
  BY ScreenIs, CellIs DEF Tick, ShownOK
<1>3. \A k \in Marks \ {"clock"} : holds'[k] = holds[k]
  BY DEF Tick, Turns, ShownOK
<1>4. x \in Nat /\ x < Width /\ x = Width - 1 - clock' /\ clock' \in Nat
  BY <1>2, ScreenIs DEF ClockRect, Rect
<1>6. dirty' = IF Visible("Settings") /\ topic = "clock" THEN Joined(panel, windows["Settings"].area) ELSE panel
  BY DEF Tick
<1> HIDE DEF x
<1>5. strip \in NatRect
  <2>1. Width - x \in Nat
    <3>1. x \in Nat /\ Width \in Nat /\ x < Width
      BY <1>2, <1>4
    <3> QED BY <3>1
  <2> QED BY <1>4, <2>1, RectIs
<1>7. panel \in NatRect /\ (Has(dirty, c) \/ Has(strip, c) => Has(panel, c))
  BY <1>5, JoinedIs
<1> HIDE DEF panel
<1>8. windows["Settings"].area \in NatRect
  BY <1>2, PaneFields
<1>9. (Has(panel, c) => Has(dirty', c)) /\ (Visible("Settings") /\ topic = "clock" /\ Has(windows["Settings"].area, c) => Has(dirty', c))
  BY <1>6, <1>7, <1>8, JoinedIs
<1>10. ASSUME NEW w \in WindowSet, Visible(w), Has(windows[w].area, c) PROVE WindowLook(w, c)' = WindowLook(w, c)
  <2>1. Content(w)' = Content(w)
    <3>1. CASE w = "Settings"
      <4>1. topic # "clock"
        BY <1>9, <1>10, <3>1
      <4>2. holds'[topic] = holds[topic]
        BY <1>3, <4>1 DEF ShownOK, Topics, Marks
      <4> QED BY <1>1, <3>1, <4>2 DEF Content
    <3>2. CASE w # "Settings"
      <4>1. holds'["text"] = holds["text"] /\ holds'["names"] = holds["names"]
        BY <1>3 DEF Marks
      <4> QED BY <3>2, <4>1 DEF Content
    <3> QED BY <3>1, <3>2
  <2> QED BY <1>1, <2>1, LevelLooks DEF Flat
<1>11. ASSUME c[2] = 0 PROVE PanelLook(c)' = PanelLook(c)
  <2>1. ~Has(strip, c)
    BY <1>7, <1>9
  <2>2. c[1] < x
    BY <1>2, <1>4, <1>11, <2>1 DEF Has, Rect
  <2>3. ClockRect(clock).x \in Nat
    BY <1>2, ScreenIs DEF ClockRect, Rect
  <2>4. c[1] < ClockRect(clock).x
    <3>1. Sure(c)
      BY <1>1, FlatStays
    <3>2. ~(ClockRect(clock).x <= c[1] /\ c[1] < x)
      BY <1>2, <1>11, <3>1 DEF Sure, Behind, x
    <3> QED BY <1>2, <2>2, <2>3, <3>2
  <2>5. ~Has(ClockRect(clock), c) /\ ~Has(ClockRect(clock'), c)
    BY <1>2, <1>4, <2>2, <2>3, <2>4 DEF Has, x
  <2>6. HasRoom(c[1])' = HasRoom(c[1])
    BY <1>2, <1>4, <2>2, <2>3, <2>4 DEF HasRoom, x
  <2>7. UNCHANGED <<windows, menus, hover>> /\ Foremost' = Foremost /\ OpenApps' = OpenApps
    BY <1>1, FlatStays DEF Flat, Level
  <2> QED BY <2>5, <2>6, <2>7 DEF PanelLook, Tucked
<1>12. MenuLook(c)' = MenuLook(c)
  <2>1. holds'["filter"] = holds["filter"]
    BY <1>3 DEF Marks
  <2> QED BY <1>1, <2>1, LevelLooks DEF Flat
<1>13. LooksStay(c)
  BY <1>10, <1>11, <1>12 DEF LooksStay
<1> QED BY <1>1, <1>7, <1>9, <1>13, FlatKept

(* Where only what the windows hold changes, the looks stay but for the    *)
(* windows that show it.                                                   *)
LEMMA HoldsStay ==
  ASSUME PanesOK, ShownOK, Level, UNCHANGED <<hover, clock>>, NEW c,
         holds'["clock"] = holds["clock"], holds'["filter"] = holds["filter"],
         mode = "locked" => holds'["typed"] = holds["typed"],
         \A w \in WindowSet : Visible(w) /\ Has(windows[w].area, c) => Content(w)' = Content(w)
  PROVE  LooksStay(c)
<1>1. \A w \in WindowSet : Visible(w) /\ Has(windows[w].area, c) => WindowLook(w, c)' = WindowLook(w, c)
  BY LevelLooks DEF Flat
<1>2. PanelLook(c)' = PanelLook(c) /\ MenuLook(c)' = MenuLook(c)
  BY LevelLooks DEF Flat
<1> QED BY <1>1, <1>2 DEF LooksStay

(* The network, or news of an update.                                      *)
LEMMA ToldKept ==
  ASSUME PanesOK, StackOK, ShownOK, StillNow, dirty \in NatRect, NEW k \in {"network", "news"}, Told(k),
         NEW c \in Cells, ~Has(dirty', c)
  PROVE  Remains(c)
<1> DEFINE area == windows["Settings"].area
<1>1. Flat /\ UNCHANGED <<hover, clock, topic>>
  BY DEF Told, Flat, Level
<1>2. \A j \in Marks \ {k} : holds'[j] = holds[j]
  BY DEF Told, Turns, ShownOK
<1>3. "Settings" \in WindowSet /\ area \in NatRect
  BY PaneFields, ScreenIs
<1>4. dirty' = dirty \/ dirty' = Joined(dirty, area)
  BY DEF Told, Damage
<1>5. Visible("Settings") /\ (k = "network" => topic = k) => dirty' = Joined(dirty, area)
  BY DEF Told, Damage
<1> HIDE DEF area
<1>6. Has(dirty, c) => Has(dirty', c)
  BY <1>3, <1>4, JoinedIs
<1>7. Visible("Settings") /\ (k = "network" => topic = k) => ~Has(area, c)
  BY <1>3, <1>5, JoinedIs
<1>8. ASSUME NEW w \in WindowSet, Visible(w), Has(windows[w].area, c) PROVE Content(w)' = Content(w)
  <2>1. CASE w = "Settings"
    <3>1. topic # k
      BY <1>7, <1>8, <2>1 DEF area
    <3>2. topic \in Marks \ {k}
      BY <3>1 DEF ShownOK, Topics, Marks
    <3>3. holds'[topic] = holds[topic]
      BY <1>2, <3>2
    <3> QED BY <1>1, <2>1, <3>3 DEF Content
  <2>2. CASE w # "Settings"
    <3>1. holds'["text"] = holds["text"] /\ holds'["names"] = holds["names"]
      BY <1>2 DEF Marks
    <3> QED BY <2>2, <3>1 DEF Content
  <2> QED BY <2>1, <2>2
<1>9. holds'["clock"] = holds["clock"] /\ holds'["filter"] = holds["filter"] /\ holds'["typed"] = holds["typed"]
  BY <1>2 DEF Marks
<1>10. LooksStay(c)
  BY <1>1, <1>8, <1>9, HoldsStay DEF Flat
<1> QED BY <1>1, <1>6, <1>10, FlatKept

(* A key in the terminal: the terminal is repainted.  What a command does  *)
(* to the files of another window is not.                                  *)
LEMMA KeyTerminalKept ==
  ASSUME PanesOK, StackOK, ShownOK, StillNow, dirty \in NatRect, KeyTerminal, NEW c \in Cells, ~Has(dirty', c), Sure(c)'
  PROVE  Remains(c)
<1> DEFINE area == windows["Terminal"].area
<1>1. Flat /\ UNCHANGED <<hover, clock, topic>>
  BY DEF KeyTerminal, Flat, Level, Desk, Hand
<1>2. \A j \in Marks \ {"text", "names"} : holds'[j] = holds[j]
  <2>1. CASE Turns("text")
    BY <2>1 DEF Turns, ShownOK
  <2>2. CASE holds' = [holds EXCEPT !["text"] = IF @ = "even" THEN "odd" ELSE "even",
                                    !["names"] = IF @ = "even" THEN "odd" ELSE "even"]
    BY <2>2 DEF ShownOK
  <2> QED BY <2>1, <2>2 DEF KeyTerminal
<1>3. "Terminal" \in WindowSet /\ area \in NatRect
  BY PaneFields, ScreenIs
<1>4. dirty' = Joined(dirty, area)
  BY DEF KeyTerminal, Damage
<1> HIDE DEF area
<1>5. (Has(dirty, c) => Has(dirty', c)) /\ ~Has(area, c)
  BY <1>3, <1>4, JoinedIs
<1>6. ASSUME NEW w \in WindowSet, Visible(w), Has(windows[w].area, c) PROVE Content(w)' = Content(w)
  <2>1. CASE w = "Settings"
    <3>1. topic \in Marks \ {"text", "names"}
      BY DEF ShownOK, Topics, Marks
    <3>2. holds'[topic] = holds[topic]
      BY <1>2, <3>1
    <3> QED BY <1>1, <2>1, <3>2 DEF Content
  <2>2. CASE w = "Terminal"
    BY <1>5, <1>6, <2>2 DEF area
  <2>3. CASE w # "Settings" /\ w # "Terminal"
    <3>1. Sure(c)
      BY <1>1, FlatStays
    <3>2. w \in WindowSet \ {"Terminal", "Settings"}
      BY <2>3
    <3> QED BY <1>6, <3>1, <3>2 DEF Sure, Behind
  <2> QED BY <2>1, <2>2, <2>3
<1>7. holds'["clock"] = holds["clock"] /\ holds'["filter"] = holds["filter"] /\ holds'["typed"] = holds["typed"]
  BY <1>2 DEF Marks
<1>8. LooksStay(c)
  BY <1>1, <1>6, <1>7, HoldsStay DEF Flat
<1> QED BY <1>1, <1>5, <1>8, FlatKept

(* A key or a click in Parametres.                                         *)
LEMMA InSettingsKept ==
  ASSUME PanesOK, StackOK, ShownOK, StillNow, dirty \in NatRect, InSettings, NEW c \in Cells, ~Has(dirty', c)
  PROVE  Remains(c)
<1> DEFINE area == windows["Settings"].area
<1>1. Flat /\ UNCHANGED <<hover, clock>> /\ mode = "desk"
  BY DEF InSettings, Flat, Level, Desk, Hand
<1>2. \A j \in Marks \ {"typed"} : holds'[j] = holds[j]
  BY DEF InSettings, Turns, ShownOK
<1>3. "Settings" \in WindowSet /\ area \in NatRect
  BY PaneFields, ScreenIs
<1>4. dirty' = Joined(dirty, area)
  BY DEF InSettings, Damage
<1> HIDE DEF area
<1>5. (Has(dirty, c) => Has(dirty', c)) /\ ~Has(area, c)
  BY <1>3, <1>4, JoinedIs
<1>6. ASSUME NEW w \in WindowSet, Visible(w), Has(windows[w].area, c) PROVE Content(w)' = Content(w)
  <2>1. w # "Settings"
    BY <1>5, <1>6 DEF area
  <2>2. holds'["text"] = holds["text"] /\ holds'["names"] = holds["names"]
    BY <1>2 DEF Marks
  <2> QED BY <2>1, <2>2 DEF Content
<1>7. holds'["clock"] = holds["clock"] /\ holds'["filter"] = holds["filter"]
  BY <1>2 DEF Marks
<1>8. LooksStay(c)
  BY <1>1, <1>6, <1>7, HoldsStay DEF Flat
<1> QED BY <1>1, <1>5, <1>8, FlatKept

(* Where what lights under the pointer is.                                 *)
LEMMA HoverRectIs ==
  ASSUME PanesOK, NEW over \in Overs
  PROVE  HoverRect(over) \in NatRect
<1>1. Width \in Nat /\ Width > 0 /\ Height \in Nat /\ Height > 2
  BY ScreenIs
<1>2. LogoRect \in NatRect /\ MenuItemRect \in NatRect
  BY RectIs DEF LogoRect, MenuItemRect
<1>3. PowerRect \in NatRect
  <2>1. Width - 1 \in Nat
    BY <1>1
  <2> QED BY <2>1, RectIs DEF PowerRect
<1>4. ASSUME over[1] = "Task" PROVE TaskRect(over[2]) \in NatRect
  <2>1. over[2] \in Nat
    BY <1>4 DEF Overs
  <2> QED BY <2>1, RectIs DEF TaskRect
<1>5. ASSUME over[1] = "Button" PROVE ButtonRect(Windows[over[2]]) \in NatRect
  <2>1. over[2] \in DOMAIN Windows
    BY <1>5 DEF Overs
  <2> DEFINE w == Windows[over[2]]
             r == windows[w].area
             x == Less(r.x + r.w, 1)
  <2>2. w \in WindowSet
    BY <2>1 DEF WindowSet
  <2>3. r.x \in Nat /\ r.w \in Nat /\ r.y \in Nat
    BY <2>2, PaneFields
  <2>4. x \in Nat
    BY <2>3 DEF Less, Larger
  <2>5. ButtonRect(w) = Rect(x, r.y, 1, 1)
    BY DEF ButtonRect
  <2> HIDE DEF w, x
  <2> QED BY <2>3, <2>4, <2>5, RectIs DEF w
<1> QED BY <1>2, <1>3, <1>4, <1>5, RectIs DEF HoverRect

(* The pointer goes from one thing to another: both are repainted.         *)
LEMMA FollowKept ==
  ASSUME PanesOK, StackOK, MouseOK, MouseOK', StillNow, dirty \in NatRect, MouseMoves, grab = NoGrab,
         NEW c \in Cells, ~Has(dirty', c)
  PROVE  Remains(c)
<1> DEFINE was == HoverRect(hover)
           is == HoverRect(hover')
           first == Joined(dirty, was)
<1>1. UNCHANGED <<windows, stacked, menus, mode, menuAge, holds, clock, topic>> /\ Follow(pointer')
  BY DEF MouseMoves, Hand
<1>2. Flat
  BY <1>1 DEF Flat, Level
<1>3. Foremost' = Foremost /\ OpenApps' = OpenApps
  BY <1>2, FlatStays
<1>4. hover \in Overs /\ hover' \in Overs
  BY DEF MouseOK
<1>5. was \in NatRect /\ is \in NatRect
  BY <1>4, HoverRectIs
<1>6. (hover' = hover /\ dirty' = dirty) \/ dirty' = Joined(first, is)
  BY <1>1 DEF Follow
<1> HIDE DEF was, is
<1>7. first \in NatRect /\ (Has(dirty, c) \/ Has(was, c) => Has(first, c))
  BY <1>5, JoinedIs
<1> HIDE DEF first
<1>8. Has(first, c) \/ Has(is, c) => Has(Joined(first, is), c)
  BY <1>5, <1>7, JoinedIs
<1>9. ~Has(dirty, c) /\ (hover' = hover \/ (~Has(was, c) /\ ~Has(is, c)))
  BY <1>6, <1>7, <1>8
<1>10. ASSUME NEW over, Has(HoverRect(over), c) PROVE (hover' = over) = (hover = over)
  BY <1>9, <1>10 DEF was, is
<1>11. c[1] \in Nat /\ c[2] \in Nat
  BY CellIs
<1>12. ASSUME NEW w \in WindowSet PROVE WindowLook(w, c)' = WindowLook(w, c)
  <2> DEFINE over == <<"Button", IndexOf(w)>>
             lit == Has(ButtonRect(w), c) /\ hover = over
  <2>1. HoverRect(over) = ButtonRect(w)
    BY IndexIs DEF HoverRect
  <2>2. Has(ButtonRect(w), c) => (hover' = over) = (hover = over)
    BY <1>10, <2>1
  <2> HIDE DEF over
  <2>3. Has(ButtonRect(w), c) => If(hover = over, "lit")' = If(hover = over, "lit")
    BY <2>2 DEF If, over
  <2>4. Content(w)' = Content(w) /\ ButtonRect(w)' = ButtonRect(w) /\ TitleRect(w)' = TitleRect(w)
    BY <1>1 DEF Content, ButtonRect, TitleRect
  <2> QED BY <1>3, <2>3, <2>4 DEF WindowLook, over
<1>13. ASSUME c[2] = 0 PROVE PanelLook(c)' = PanelLook(c)
  <2>1. Has(LogoRect, c) => If(hover = <<"Logo", 0>>, "lit")' = If(hover = <<"Logo", 0>>, "lit")
    <3>1. HoverRect(<<"Logo", 0>>) = LogoRect
      BY DEF HoverRect
    <3> QED BY <1>10, <3>1 DEF If
  <2>2. Has(PowerRect, c) => If(hover = <<"Power", 0>>, "lit")' = If(hover = <<"Power", 0>>, "lit")
    <3>1. HoverRect(<<"Power", 0>>) = PowerRect
      BY DEF HoverRect
    <3> QED BY <1>10, <3>1 DEF If
  <2>3. If(hover = <<"Task", c[1]>>, "lit")' = If(hover = <<"Task", c[1]>>, "lit")
    <3>1. HoverRect(<<"Task", c[1]>>) = TaskRect(c[1])
      BY DEF HoverRect
    <3>2. Has(TaskRect(c[1]), c)
      BY <1>11, <1>13 DEF Has, TaskRect, Rect
    <3> QED BY <1>10, <3>1, <3>2 DEF If
  <2> DEFINE logo == If(hover = <<"Logo", 0>>, "lit")
             power == If(hover = <<"Power", 0>>, "lit")
             task == If(hover = <<"Task", c[1]>>, "lit")
             look(l, p, t) ==
               IF Has(LogoRect, c) THEN {"logo"} \cup If("menu" \in menus, "open") \cup l
               ELSE IF Has(PowerRect, c) THEN {"power"} \cup If("power" \in menus, "open") \cup p
               ELSE IF Has(ClockRect(clock), c) THEN {"clock", holds["clock"]} \cup If(c[1] = ClockRect(clock).x, "begins")
               ELSE IF c[1] \in DOMAIN OpenApps /\ HasRoom(c[1])
                    THEN LET w == OpenApps[c[1]]
                         IN  {"task", w} \cup If(w = Foremost, "active") \cup If(w \in Tucked, "hidden") \cup t
               ELSE {"panel"}
  <2>4. PanelLook(c) = look(logo, power, task)
    BY DEF PanelLook
  <2>5. PanelLook(c)' = look(logo', power', task')
    BY <1>1, <1>3 DEF PanelLook, HasRoom, Tucked
  <2> HIDE DEF logo, power, task
  <2> QED BY <2>1, <2>2, <2>3, <2>4, <2>5 DEF logo, power, task
<1>14. MenuLook(c)' = MenuLook(c)
  <2>1. Has(MenuItemRect, c) => (hover' = <<"MenuItem", 0>>) = (hover = <<"MenuItem", 0>>)
    <3>1. HoverRect(<<"MenuItem", 0>>) = MenuItemRect
      BY DEF HoverRect
    <3> QED BY <1>10, <3>1
  <2>2. If(Has(MenuItemRect, c) /\ hover = <<"MenuItem", 0>>, "lit")' = If(Has(MenuItemRect, c) /\ hover = <<"MenuItem", 0>>, "lit")
    BY <2>1 DEF If
  <2> QED BY <1>1, <2>2 DEF MenuLook
<1>15. LooksStay(c)
  BY <1>1, <1>12, <1>13, <1>14 DEF LooksStay
<1> QED BY <1>2, <1>9, <1>15, FlatKept

(* A window dragged: it is repainted where it was and where it is, shadow  *)
(* included.                                                               *)
LEMMA DragKept ==
  ASSUME PanesOK, StackOK, MouseOK, StillNow, dirty \in NatRect, MouseMoves, grab # NoGrab,
         NEW c \in Cells, ~Has(dirty', c)
  PROVE  Remains(c)
<1> DEFINE g == grab.window
           area == windows[g].area
           moved == Dragged(pointer')
           first == Joined(dirty, Grow(area))
<1>1. UNCHANGED <<stacked, menus, mode, menuAge, holds, clock, topic, hover>>
  BY DEF MouseMoves, Hand
<1>2. grab \in Grabs /\ g \in WindowSet /\ pointer' \in Cells
  BY ScreenIs DEF MouseOK, MouseMoves, Grabs
<1>3. area \in NatRect /\ moved \in NatRect
  BY <1>2, PaneFields, DraggedIs
<1>4. windows' = [windows EXCEPT ![g].area = moved] /\ dirty' = Joined(first, Grow(moved))
  BY DEF MouseMoves
<1>5. windows' = [windows EXCEPT ![g] = [windows[g] EXCEPT !.area = moved]] /\ windows[g] \in Pane
  BY <1>2, <1>4, PaneFields DEF PanesOK
<1>6. /\ \A w \in WindowSet \ {g} : windows'[w] = windows[w]
      /\ windows'[g].area = moved
      /\ \A w \in WindowSet : windows'[w].open = windows[w].open /\ windows'[w].hidden = windows[w].hidden
                              /\ windows'[w].motion = windows[w].motion
  BY <1>2, <1>5 DEF PanesOK, Pane
<1> HIDE DEF g, moved
<1>7. Grow(area) \in NatRect /\ Grow(moved) \in NatRect
      /\ (Has(area, c) => Has(Grow(area), c)) /\ (Has(moved, c) => Has(Grow(moved), c))
  BY <1>3, GrowIs
<1> HIDE DEF area
<1>8. first \in NatRect /\ (Has(dirty, c) \/ Has(Grow(area), c) => Has(first, c))
  BY <1>7, JoinedIs
<1> HIDE DEF first
<1>9. Has(first, c) \/ Has(Grow(moved), c) => Has(Joined(first, Grow(moved)), c)
  BY <1>7, <1>8, JoinedIs
<1>10. ~Has(dirty, c) /\ ~Has(Grow(area), c) /\ ~Has(Grow(moved), c) /\ ~Has(area, c) /\ ~Has(moved, c)
  BY <1>4, <1>7, <1>8, <1>9
<1>11. \A w \in WindowSet : Visible(w)' = Visible(w)
  BY <1>6 DEF Visible
<1>12. DOMAIN stacked = 1 .. Len(Windows) /\ \A i \in 1 .. Len(Windows) : stacked[i] \in WindowSet
  BY DEF StackOK
<1>13. Foremost' = Foremost
  <2>1. {i \in DOMAIN stacked : Visible(stacked[i])}' = {i \in DOMAIN stacked : Visible(stacked[i])}
    BY <1>1, <1>11, <1>12
  <2> QED BY <1>1, <2>1 DEF Foremost
<1>14. OpenApps' = OpenApps /\ Tucked' = Tucked
  <2>1. Opened' = Opened /\ Tucked' = Tucked
    BY <1>6 DEF Opened, Tucked
  <2> QED BY <2>1 DEF OpenApps
<1>15. ASSUME NEW i \in 1 .. Len(Windows) PROVE Same(WindowLayers[i], WindowLayers'[i], c)
  <2> DEFINE w == stacked[i]
  <2>1. w \in WindowSet /\ WindowLayers[i] = WindowLayer(w) /\ WindowLayers'[i] = WindowLayer(w)'
    BY <1>1, <1>12 DEF WindowLayers
  <2> HIDE DEF w
  <2>2. WindowLayer(w) = Layer(Visible(w), w, windows[w].area, TRUE)
    BY <2>1 DEF WindowLayer, StillNow
  <2>3. w' = w
    BY <1>1 DEF w
  <2>4. WindowLayer(w)' = Layer(Visible(w), w, windows'[w].area, TRUE)
    BY <1>6, <1>11, <2>1, <2>3 DEF WindowLayer, StillNow
  <2>5. CASE w # g
    BY <1>6, <2>1, <2>2, <2>4, <2>5 DEF Same
  <2>6. CASE w = g
    <3>1. windows[w].area = area /\ windows'[w].area = moved
      BY <1>6, <2>6 DEF area
    <3>2. Visible(w) \in BOOLEAN
      BY DEF Visible
    <3>3. Same(Layer(Visible(w), w, area, TRUE), Layer(Visible(w), w, moved, TRUE), c)
      <4>1. Has(area, c) = Has(moved, c)
        BY <1>10 DEF Has
      <4>2. Has(Grow(area), c) = Has(Grow(moved), c)
        BY <1>10 DEF Has
      <4> QED BY <3>2, <4>1, <4>2, SameLayer
    <3> QED BY <2>1, <2>2, <2>4, <3>1, <3>3
  <2> QED BY <2>5, <2>6
<1>16. \A i \in 1 .. 4 : Same(Overlays[i], Overlays'[i], c)
  BY <1>1 DEF Same, Overlays
<1>17. ASSUME NEW w \in WindowSet, Visible(w), Has(windows[w].area, c) PROVE WindowLook(w, c)' = WindowLook(w, c)
  <2>1. windows'[w] = windows[w]
    BY <1>6, <1>10, <1>17 DEF area
  <2> QED BY <1>1, <1>13, <2>1 DEF WindowLook, ButtonRect, TitleRect, Content
<1>18. PanelLook(c)' = PanelLook(c) /\ MenuLook(c)' = MenuLook(c)
  BY <1>1, <1>13, <1>14 DEF PanelLook, HasRoom, MenuLook
<1>19. LooksStay(c)
  BY <1>1, <1>17, <1>18 DEF LooksStay
<1>20. Seen(c)' = Seen(c) /\ ShadesAt(Layers', c) = ShadesAt(Layers, c)
  BY <1>1, <1>15, <1>16, <1>19, SeenStays
<1>21. Sure(c)' => Sure(c)
  <2>1. ASSUME NEW w \in WindowSet \ {"Terminal", "Settings"}, Visible(w), Has(windows[w].area, c)
        PROVE  Visible(w)' /\ Has(windows'[w].area, c)
    <3>1. w # g
      BY <1>10, <2>1 DEF area
    <3> QED BY <1>6, <1>11, <2>1, <3>1
  <2>2. Folds(c)' = Folds(c)
    BY <1>1 DEF Folds
  <2> QED BY <2>1, <2>2 DEF Sure, Behind
<1> QED BY <1>10, <1>20, <1>21 DEF Remains

(* A press or a release that rearranges nothing.                           *)
LEMMA GrabKept ==
  ASSUME PanesOK, StackOK, ShownOK, StillNow, Flat, UNCHANGED <<hover, clock, holds, topic, dirty>>, NEW c \in Cells
  PROVE  Remains(c)
<1>1. \A w : Content(w)' = Content(w)
  BY DEF Content
<1>2. LooksStay(c)
  BY <1>1, HoldsStay DEF Flat
<1> QED BY <1>2, FlatKept

(***************************************************************************)
(* The end of a turn                                                       *)
(***************************************************************************)
Widening(d, w, ws) ==
  IF ws[w].motion.on THEN Joined(Joined(d, Grow(ws[w].area)), Grow(ws[w].motion.from)) ELSE d
Widens == INSTANCE FoldLemmas WITH Op <- Widening

(* What the windows that move repaint adds to what was to be repainted.    *)
LEMMA MotionsAdd ==
  ASSUME PanesOK, dirty \in NatRect
  PROVE  /\ FoldLeft(MotionDamage, dirty, Windows) \in NatRect
         /\ \A c \in Cells : Has(dirty, c) => Has(FoldLeft(MotionDamage, dirty, Windows), c)
<1> DEFINE n == Len(Windows)
           Wider == {d \in NatRect : \A c \in Cells : Has(dirty, c) => Has(d, c)}
           P == (0 .. n) \X Wider
<1>1. n \in Nat /\ DOMAIN Windows = 1 .. n /\ \A i \in 1 .. n : Windows[i] \in WindowSet
  BY ScreenIs
<1>2. <<0, dirty>> \in P
  BY <1>1
<1>3. ASSUME NEW k \in 1 .. n, NEW d, <<k - 1, d>> \in P PROVE <<k, Widening(d, Windows[k], windows)>> \in P
  <2> DEFINE w == Windows[k]
  <2>1. w \in WindowSet /\ k \in 0 .. n /\ d \in Wider
    BY <1>1, <1>3
  <2>2. Grow(windows[w].area) \in NatRect /\ Grow(windows[w].motion.from) \in NatRect
    <3>1. windows[w].area \in NatRect /\ windows[w].motion.from \in NatRect
      BY <2>1, PaneFields DEF Motions
    <3> QED BY <3>1, GrowIs
  <2> HIDE DEF w
  <2> DEFINE a == Grow(windows[w].area)
             b == Grow(windows[w].motion.from)
             e == Joined(d, a)
  <2>3. Widening(d, w, windows) = IF windows[w].motion.on THEN Joined(e, b) ELSE d
    BY DEF Widening
  <2> HIDE DEF a, b
  <2>4. a \in NatRect /\ b \in NatRect /\ d \in NatRect
    BY <2>1, <2>2 DEF a, b
  <2>5. e \in NatRect /\ \A c \in Cells : Has(d, c) => Has(e, c)
    BY <2>4, JoinedIs
  <2> HIDE DEF e
  <2>6. Joined(e, b) \in NatRect /\ \A c \in Cells : Has(e, c) => Has(Joined(e, b), c)
    BY <2>4, <2>5, JoinedIs
  <2>7. Joined(e, b) \in Wider
    BY <2>1, <2>5, <2>6
  <2>8. Widening(d, w, windows) \in Wider
    BY <2>1, <2>3, <2>7
  <2> HIDE DEF Wider
  <2> QED BY <2>1, <2>8 DEF w
<1>4. <<n, Widens!Run(dirty, Windows, windows)>> \in P
  <2> HIDE DEF P, n
  <2> QED BY <1>1, <1>2, <1>3, Widens!FoldKeeps, Zenon
<1>5. FoldLeft(MotionDamage, dirty, Windows) = Widens!Run(dirty, Windows, windows)
  BY Zenon DEF FoldLeft, MapThenFoldSet, Max, Widens!Run, Widens!Walk, Widens!Top, Widening, MotionDamage
<1>6. Widens!Run(dirty, Windows, windows) \in Wider
  <2> HIDE DEF Wider, n
  <2> QED BY <1>4
<1> QED BY <1>5, <1>6

(* What advance repaints holds what was to be repainted, and Parametres    *)
(* when news may have come.                                                *)
LEMMA AdvancedIs ==
  ASSUME PanesOK, dirty \in NatRect, NEW blinked \in BOOLEAN, NEW checking \in BOOLEAN
  PROVE  /\ AdvanceDamage(blinked, checking) \in NatRect
         /\ \A c \in Cells : (Has(dirty, c) \/ (checking /\ Visible("Settings") /\ Has(windows["Settings"].area, c)))
                             => Has(AdvanceDamage(blinked, checking), c)
<1> DEFINE moved == FoldLeft(MotionDamage, dirty, Windows)
           unroll == Grow(MenuRect)
           settings == windows["Settings"].area
           terminal == windows["Terminal"].area
           unfolded == IF "menu" \in menus /\ menuAge' < MenuTime THEN Joined(moved, unroll) ELSE moved
           checked == IF checking /\ Visible("Settings") THEN Joined(unfolded, settings) ELSE unfolded
           all == \/ age' <= WakingTime \/ \E w \in WindowSet : MotionEnds(w)
                  \/ blinked /\ (mode = "locked" \/ (Visible("Settings") /\ topic = "typed"))
           typing == blinked /\ Foremost = "Terminal"
           end == AdvanceDamage(blinked, checking)
<1>1. end = IF all THEN WholeScreen ELSE IF typing THEN Joined(checked, terminal) ELSE checked
  BY DEF AdvanceDamage
<1> HIDE DEF end, all, typing
<1>2. moved \in NatRect /\ \A c \in Cells : Has(dirty, c) => Has(moved, c)
  BY MotionsAdd
<1>3. settings \in NatRect /\ terminal \in NatRect /\ unroll \in NatRect
  <2>1. MenuRect \in NatRect
    <3>1. 0 \in 0 .. MenuTime
      BY ScreenIs
    <3> QED BY <3>1, UnfoldedIs
  <2> QED BY <2>1, GrowIs, PaneFields, ScreenIs
<1> HIDE DEF moved, settings, terminal, unroll
<1>4. unfolded \in NatRect /\ \A c \in Cells : Has(moved, c) => Has(unfolded, c)
  BY <1>2, <1>3, JoinedIs
<1> HIDE DEF unfolded
<1>5. /\ checked \in NatRect
      /\ \A c \in Cells : Has(unfolded, c) \/ (checking /\ Visible("Settings") /\ Has(settings, c)) => Has(checked, c)
  BY <1>3, <1>4, JoinedIs
<1> HIDE DEF checked
<1>6. Joined(checked, terminal) \in NatRect /\ \A c \in Cells : Has(checked, c) => Has(Joined(checked, terminal), c)
  BY <1>3, <1>5, JoinedIs
<1>7. WholeScreen \in NatRect /\ \A c \in Cells : Has(WholeScreen, c)
  BY RectIs, CellIs
<1>8. end \in NatRect /\ \A c \in Cells : Has(checked, c) => Has(end, c)
  BY <1>1, <1>5, <1>6, <1>7
<1>9. \A c \in Cells : Has(dirty, c) \/ (checking /\ Visible("Settings") /\ Has(settings, c)) => Has(end, c)
  BY <1>2, <1>4, <1>5, <1>8
<1> QED BY <1>8, <1>9 DEF end, settings

(* A step of the end of a turn, in a way or in the other.                  *)
LEMMA AdvanceIs ==
  ASSUME PanesOK, ShownOK, dirty \in NatRect, AdvanceClock
  PROVE  /\ dirty' \in NatRect /\ \A c \in Cells : Has(dirty, c) => Has(dirty', c)
         /\ \/ UNCHANGED holds
            \/ /\ \A k \in Marks \ {"news"} : holds'[k] = holds[k]
               /\ Visible("Settings") => \A c \in Cells : Has(windows["Settings"].area, c) => Has(dirty', c)
         /\ StillNow => UNCHANGED windows
         /\ mode = "off" => UNCHANGED <<dirty, holds>>
         /\ ~StillNow /\ StillNow' => dirty' = WholeScreen
<1>1. PICK passed \in 1 .. 2, blinked \in BOOLEAN, checking \in BOOLEAN :
         LET older == Older(passed)
         IN  \/ windows' = older /\ UNCHANGED <<dirty, holds>>
             \/ /\ mode # "off"
                /\ windows' = [w \in WindowSet |->
                      IF older[w].motion.on /\ older[w].motion.age >= WindowTime
                      THEN [older[w] EXCEPT !.motion = Still, !.open = @ /\ ~older[w].motion.closing]
                      ELSE older[w]]
                /\ dirty' = AdvanceDamage(blinked, checking)
                /\ IF checking THEN holds' \in {holds, [holds EXCEPT !["news"] = IF @ = "even" THEN "odd" ELSE "even"]}
                   ELSE UNCHANGED holds
  BY DEF AdvanceClock
<1> DEFINE older == Older(passed)
           ended == [w \in WindowSet |->
                       IF older[w].motion.on /\ older[w].motion.age >= WindowTime
                       THEN [older[w] EXCEPT !.motion = Still, !.open = @ /\ ~older[w].motion.closing] ELSE older[w]]
           gone == [holds EXCEPT !["news"] = IF @ = "even" THEN "odd" ELSE "even"]
<1>2. \/ windows' = older /\ UNCHANGED <<dirty, holds>>
      \/ /\ mode # "off" /\ windows' = ended /\ dirty' = AdvanceDamage(blinked, checking)
         /\ UNCHANGED holds \/ (checking /\ holds' = gone)
  BY <1>1
<1>3. \A w \in WindowSet : older[w] = IF windows[w].motion.on
                                      THEN [windows[w] EXCEPT !.motion.age = Smaller(@ + passed, WindowTime)] ELSE windows[w]
  BY DEF Older
<1>4. \A w \in WindowSet : older[w].motion.on = windows[w].motion.on
  BY <1>3, PaneFields DEF Pane, Motions
<1>5. older = [w \in WindowSet |-> older[w]] /\ windows = [w \in WindowSet |-> windows[w]]
  BY DEF Older, PanesOK
<1>6. ASSUME StillNow PROVE older = windows /\ ended = windows
  <2>1. \A w \in WindowSet : older[w] = windows[w] /\ ~older[w].motion.on
    BY <1>3, <1>6 DEF StillNow
  <2> HIDE DEF older
  <2>2. older = windows
    BY <1>5, <2>1
  <2>3. ended = [w \in WindowSet |-> older[w]]
    BY <2>1
  <2> QED BY <1>5, <2>2, <2>3
<1>7. AdvanceDamage(blinked, checking) \in NatRect
      /\ \A c \in Cells : (Has(dirty, c) \/ (checking /\ Visible("Settings") /\ Has(windows["Settings"].area, c)))
                          => Has(AdvanceDamage(blinked, checking), c)
  BY AdvancedIs
<1>8. dirty' \in NatRect /\ \A c \in Cells : Has(dirty, c) => Has(dirty', c)
  BY <1>2, <1>7
<1>9. holds' = gone => \A k \in Marks \ {"news"} : holds'[k] = holds[k]
  BY DEF ShownOK
<1>10. \/ UNCHANGED holds
       \/ /\ \A k \in Marks \ {"news"} : holds'[k] = holds[k]
          /\ Visible("Settings") => \A c \in Cells : Has(windows["Settings"].area, c) => Has(dirty', c)
  BY <1>2, <1>7, <1>9
<1>11. ASSUME ~StillNow, StillNow' PROVE dirty' = WholeScreen
  <2>1. PICK w \in WindowSet : windows[w].motion.on
    BY <1>11 DEF StillNow
  <2>2. older[w].motion.on /\ ~windows'[w].motion.on
    BY <1>4, <1>11, <2>1 DEF StillNow
  <2> HIDE DEF older
  <2>3. windows' = ended /\ dirty' = AdvanceDamage(blinked, checking)
    BY <1>2, <2>2
  <2>4. windows'[w] = IF older[w].motion.on /\ older[w].motion.age >= WindowTime
                      THEN [older[w] EXCEPT !.motion = Still, !.open = @ /\ ~older[w].motion.closing] ELSE older[w]
    BY <2>3
  <2>5. windows'[w] = [older[w] EXCEPT !.motion = Still, !.open = @ /\ ~older[w].motion.closing]
    BY <2>2, <2>4
  <2>6. older[w] \in Pane
    <3> DEFINE m == [windows[w].motion EXCEPT !.age = Smaller(@ + passed, WindowTime)]
    <3>1. windows[w] \in Pane /\ windows[w].motion \in Motions
      BY PaneFields
    <3>2. windows[w].motion.age \in 0 .. WindowTime
      BY <3>1 DEF Motions
    <3>3. Smaller(windows[w].motion.age + passed, WindowTime) \in 0 .. WindowTime
      BY <3>2, AgedIs, ScreenIs
    <3>4. m \in Motions
      BY <3>1, <3>3 DEF Motions
    <3>5. older[w] = [windows[w] EXCEPT !.motion = m]
      BY <1>3, <2>1, <3>1 DEF Pane
    <3> HIDE DEF m
    <3> QED BY <3>1, <3>4, <3>5 DEF Pane
  <2>7. windows'[w].motion = Still
    <3> DEFINE r == older[w]
    <3> HIDE DEF r
    <3>1. windows'[w] = [r EXCEPT !.motion = Still, !.open = @ /\ ~r.motion.closing] /\ r \in Pane
      BY <2>5, <2>6 DEF r
    <3> QED BY <3>1 DEF Pane
  <2>8. \E x \in WindowSet : MotionEnds(x)
    BY <2>1, <2>7 DEF MotionEnds
  <2> QED BY <2>3, <2>8 DEF AdvanceDamage
<1>12. StillNow => UNCHANGED windows
  <2>1. windows' = older \/ windows' = ended
    BY <1>2
  <2> HIDE DEF older, ended
  <2> QED BY <1>6, <2>1
<1>13. mode = "off" => UNCHANGED <<dirty, holds>>
  BY <1>2
<1> QED BY <1>8, <1>10, <1>11, <1>12, <1>13

(* The end of a turn, when no window moves: an open menu may unfold.       *)
LEMMA AdvanceKept ==
  ASSUME PanesOK, StackOK, ShownOK, StillNow, dirty \in NatRect, AdvanceClock, NEW c \in Cells, ~Has(dirty', c), Sure(c)'
  PROVE  Remains(c)
<1>1. Level /\ UNCHANGED <<hover, clock, topic>>
  BY AdvanceIs DEF AdvanceClock, Level
<1>2. Sure(c) /\ WindowLayers' = WindowLayers
  BY <1>1, LevelStays
<1>3. menuAge \in 0 .. MenuTime /\ menuAge' \in 0 .. MenuTime
  <2>1. ShownOK'
    BY ShownKeeps DEF ScreenNext
  <2> QED BY <2>1 DEF ShownOK
<1>4. \A i \in 1 .. 4 : Same(Overlays[i], Overlays'[i], c)
  <2>1. UNCHANGED <<menus, mode>>
    BY <1>1 DEF Level
  <2>2. \A a : Same(a, a, c)
    BY DEF Same
  <2>3. Overlays'[1] = Overlays[1] /\ Overlays'[3] = Overlays[3] /\ Overlays'[4] = Overlays[4]
    BY <2>1 DEF Overlays
  <2>4. Same(Overlays[2], Overlays'[2], c)
    <3> DEFINE now == Unfolded(menuAge)
               then == Unfolded(menuAge')
    <3>1. Overlays[2] = Layer("menu" \in menus, "menu", now, TRUE) /\ Overlays'[2] = Layer("menu" \in menus, "menu", then, TRUE)
      BY <2>1 DEF Overlays
    <3>2. CASE "menu" \notin menus
      BY <3>1, <3>2 DEF Same, Layer
    <3>3. CASE "menu" \in menus
      <4>1. Has(Unfolded(0), c) \/ ~Has(Grow(MenuRect), c)
        BY <1>2, <3>3 DEF Sure, Folds
      <4>2. Has(now, c) = Has(then, c) /\ Has(Grow(now), c) = Has(Grow(then), c)
        BY <1>3, <4>1, UnfoldedStays
      <4> HIDE DEF now, then
      <4>3. Overlays[2] = Layer(TRUE, "menu", now, TRUE) /\ Overlays'[2] = Layer(TRUE, "menu", then, TRUE)
        BY <3>1, <3>3
      <4>4. Same(Layer(TRUE, "menu", now, TRUE), Layer(TRUE, "menu", then, TRUE), c)
        BY <4>2, SameLayer
      <4> QED BY <4>3, <4>4
    <3> QED BY <3>2, <3>3
  <2> QED BY <2>2, <2>3, <2>4
<1>5. \A i \in 1 .. Len(Windows) : Same(WindowLayers[i], WindowLayers'[i], c)
  BY <1>2 DEF Same
<1>6. ASSUME NEW w \in WindowSet, Visible(w), Has(windows[w].area, c) PROVE Content(w)' = Content(w)
  <2>1. CASE UNCHANGED holds
    BY <1>1, <2>1 DEF Content
  <2>2. CASE /\ \A k \in Marks \ {"news"} : holds'[k] = holds[k]
             /\ Visible("Settings") => \A x \in Cells : Has(windows["Settings"].area, x) => Has(dirty', x)
    <3>1. w # "Settings"
      BY <1>6, <2>2
    <3>2. holds'["text"] = holds["text"] /\ holds'["names"] = holds["names"]
      BY <2>2 DEF Marks
    <3> QED BY <3>1, <3>2 DEF Content
  <2> QED BY <2>1, <2>2, AdvanceIs
<1>7. holds'["clock"] = holds["clock"] /\ holds'["filter"] = holds["filter"] /\ holds'["typed"] = holds["typed"]
  BY AdvanceIs DEF Marks
<1>8. LooksStay(c)
  BY <1>1, <1>6, <1>7, HoldsStay
<1>9. Seen(c)' = Seen(c) /\ ShadesAt(Layers', c) = ShadesAt(Layers, c)
  <2>1. UNCHANGED <<stacked, mode>>
    BY <1>1 DEF Level
  <2> QED BY <1>4, <1>5, <1>8, <2>1, SeenStays
<1> QED BY <1>2, <1>9, AdvanceIs DEF Remains

(***************************************************************************)
(* What a step before the frame does                                       *)
(***************************************************************************)
Typed == PanesOK /\ StackOK /\ ShownOK /\ MouseOK /\ TimeOK /\ dirty \in NatRect

\* What was to be repainted still is.
Wider == dirty' \in NatRect /\ \A c \in Cells : Has(dirty, c) => Has(dirty', c)

(* Everything, or what was to be repainted and more.                       *)
LEMMA WholeIsWider ==
  ASSUME DamageAll
  PROVE  Wider
BY RectIs, CellIs DEF DamageAll, Wider

(* One rectangle more.                                                     *)
LEMMA OneMoreIsWider ==
  ASSUME dirty \in NatRect, NEW a \in NatRect, dirty' = dirty \/ dirty' = Joined(dirty, a)
  PROVE  Wider
BY JoinedIs DEF Wider

(* Two rectangles more.                                                    *)
LEMMA TwoMoreAreWider ==
  ASSUME dirty \in NatRect, NEW a \in NatRect, NEW b \in NatRect, dirty' = Joined(Joined(dirty, a), b)
  PROVE  Wider
<1> DEFINE e == Joined(dirty, a)
<1>1. e \in NatRect /\ \A c \in Cells : Has(dirty, c) => Has(e, c)
  BY JoinedIs
<1> HIDE DEF e
<1>2. Joined(e, b) \in NatRect /\ \A c \in Cells : Has(e, c) => Has(Joined(e, b), c)
  BY <1>1, JoinedIs
<1> QED BY <1>1, <1>2 DEF Wider, e

(* The events that repaint everything.                                     *)
Sweeping ==
  \/ \E w \in WindowSet : Launch(w) \/ Close(w) \/ Minimise(w) \/ ToggleFull(w) \/ Raise(w)
  \/ ToggleMenu \/ TogglePower \/ KeyFilter \/ LockScreen \/ KeyUnderLock \/ ShutDown

(* They all declare the whole screen.                                      *)
LEMMA SweepingIs ==
  ASSUME Sweeping
  PROVE  DamageAll /\ UNCHANGED Buffers /\ moment' = "events" /\ mode # "off"
<1>1. ASSUME Repainted PROVE DamageAll /\ UNCHANGED Buffers /\ moment' = "events" /\ mode # "off"
  BY <1>1 DEF Repainted, Desk, Hand, Event
<1>2. ASSUME NEW w \in WindowSet, Launch(w) \/ Close(w) \/ Minimise(w) \/ ToggleFull(w) \/ Raise(w) PROVE Repainted
  BY <1>2 DEF Launch, Close, Minimise, ToggleFull, Raise, Rearranged
<1>3. ASSUME ToggleMenu \/ TogglePower \/ LockScreen \/ ShutDown PROVE Repainted
  BY <1>3 DEF ToggleMenu, TogglePower, LockScreen, ShutDown
<1>4. ASSUME KeyFilter \/ KeyUnderLock PROVE DamageAll /\ UNCHANGED Buffers /\ moment' = "events" /\ mode # "off"
  BY <1>4 DEF KeyFilter, KeyUnderLock, Desk, Hand, Event
<1> QED BY <1>1, <1>2, <1>3, <1>4 DEF Sweeping

(* Before the frame: the buffers wait, and what is not to be repainted     *)
(* shows what it showed.                                                   *)
Quiet ==
  /\ UNCHANGED Buffers /\ moment' # "shown" /\ Wider
  /\ dirty' = WholeScreen \/ mode' = mode
  /\ mode' # "off" => mode # "off"
  /\ StillNow' => \/ dirty' = WholeScreen
                  \/ StillNow /\ \A c \in Cells : ~Has(dirty', c) /\ Sure(c)' => Remains(c)

(* So nothing is owed after them.                                          *)
LEMMA SweepingQuiet ==
  ASSUME Sweeping
  PROVE  Quiet
<1>1. DamageAll /\ UNCHANGED Buffers /\ moment' = "events" /\ mode # "off"
  BY SweepingIs
<1>2. dirty' = WholeScreen
  BY <1>1 DEF DamageAll
<1> QED BY <1>1, <1>2, WholeIsWider DEF Quiet

(* A tick declares the strip of the clock, and Parametres if it shows the  *)
(* time.                                                                   *)
LEMMA TickQuiet ==
  ASSUME Typed, Tick
  PROVE  Quiet
<1> DEFINE x == ClockRect(clock').x
           strip == Rect(x, 0, Width - x, 1)
           area == windows["Settings"].area
<1>1. UNCHANGED Buffers /\ moment' = "events" /\ UNCHANGED <<windows, mode>> /\ clock' \in Clocks /\ mode # "off"
  BY DEF Tick, Event
<1>2. StillNow' = StillNow
  BY <1>1 DEF StillNow
<1>3. CASE mode = "locked"
  <2>1. DamageAll
    BY <1>3 DEF Tick
  <2>2. dirty' = WholeScreen
    BY <2>1 DEF DamageAll
  <2> QED BY <1>1, <2>1, <2>2, WholeIsWider DEF Quiet
<1>4. CASE mode # "locked"
  <2>1. mode = "desk"
    BY <1>1, <1>4 DEF Typed, ShownOK
  <2>2. dirty' = Joined(dirty, strip) \/ dirty' = Joined(Joined(dirty, strip), area)
    BY <2>1 DEF Tick
  <2>3. area \in NatRect
    BY PaneFields, ScreenIs DEF Typed
  <2>4. strip \in NatRect
    <3>1. ASSUME NEW breadth \in Clocks
          PROVE  ClockRect(breadth).x \in Nat /\ Width - ClockRect(breadth).x \in Nat
      <4>1. breadth \in Nat /\ Width \in Nat /\ breadth + 3 <= Width
        BY ScreenIs
      <4>2. ClockRect(breadth).x = Width - 1 - breadth
        BY DEF ClockRect, Rect
      <4> QED BY <4>1, <4>2
    <3>2. x \in Nat /\ Width - x \in Nat
      BY <1>1, <3>1
    <3> HIDE DEF x
    <3> QED BY <3>2, RectIs
  <2> HIDE DEF x, strip, area
  <2>5. Wider
    BY <2>2, <2>3, <2>4, OneMoreIsWider, TwoMoreAreWider DEF Typed
  <2>6. ASSUME StillNow, NEW c \in Cells, ~Has(dirty', c), Sure(c)' PROVE Remains(c)
    BY <2>1, <2>6, TickKept DEF Typed
  <2> QED BY <1>1, <1>2, <2>5, <2>6 DEF Quiet
<1> QED BY <1>3, <1>4

(* News of the network or of an update is declared where it is shown.      *)
LEMMA ToldQuiet ==
  ASSUME Typed, NEW k \in {"network", "news"}, Told(k)
  PROVE  Quiet
<1>1. UNCHANGED Buffers /\ moment' = "events" /\ UNCHANGED <<windows, mode>>
  BY DEF Told, Event
<1>2. StillNow' = StillNow
  BY <1>1 DEF StillNow
<1>3. dirty' = dirty \/ dirty' = Joined(dirty, windows["Settings"].area)
  BY DEF Told, Damage
<1>4. windows["Settings"].area \in NatRect
  BY PaneFields, ScreenIs DEF Typed
<1>5. Wider
  BY <1>3, <1>4, OneMoreIsWider DEF Typed
<1>6. ASSUME StillNow, NEW c \in Cells, ~Has(dirty', c) PROVE Remains(c)
  BY <1>6, ToldKept DEF Typed
<1> QED BY <1>1, <1>2, <1>5, <1>6 DEF Quiet

(* What is typed in the terminal or in Parametres is declared there.       *)
LEMMA TypingQuiet ==
  ASSUME Typed, KeyTerminal \/ InSettings
  PROVE  Quiet
<1>1. UNCHANGED Buffers /\ moment' = "events" /\ UNCHANGED <<windows, mode>>
  BY DEF KeyTerminal, InSettings, Desk, Hand, Event
<1>2. StillNow' = StillNow
  BY <1>1 DEF StillNow
<1>3. dirty' = Joined(dirty, windows["Terminal"].area) \/ dirty' = Joined(dirty, windows["Settings"].area)
  BY DEF KeyTerminal, InSettings, Damage
<1>4. windows["Settings"].area \in NatRect /\ windows["Terminal"].area \in NatRect
  BY PaneFields, ScreenIs DEF Typed
<1>5. Wider
  BY <1>3, <1>4, OneMoreIsWider DEF Typed
<1>6. ASSUME StillNow, NEW c \in Cells, ~Has(dirty', c), Sure(c)' PROVE Remains(c)
  BY <1>6, KeyTerminalKept, InSettingsKept DEF Typed
<1> QED BY <1>1, <1>2, <1>5, <1>6 DEF Quiet

(* A pointer that moves declares what it leaves and what it enters, and a  *)
(* drag both places of the window.                                         *)
LEMMA MouseQuiet ==
  ASSUME Typed, MouseOK', MouseMoves
  PROVE  Quiet
<1>1. UNCHANGED Buffers /\ moment' = "events" /\ UNCHANGED mode
  BY DEF MouseMoves, Hand, Event
<1>2. CASE grab = NoGrab
  <2>1. UNCHANGED windows /\ Follow(pointer')
    BY <1>2 DEF MouseMoves
  <2>2. StillNow' = StillNow
    BY <2>1 DEF StillNow
  <2>3. HoverRect(hover) \in NatRect /\ HoverRect(hover') \in NatRect
    BY HoverRectIs DEF Typed, MouseOK
  <2>4. dirty' = dirty \/ dirty' = Joined(Joined(dirty, HoverRect(hover)), HoverRect(hover'))
    BY <2>1 DEF Follow
  <2>5. Wider
    BY <2>3, <2>4, OneMoreIsWider, TwoMoreAreWider DEF Typed
  <2>6. ASSUME StillNow, NEW c \in Cells, ~Has(dirty', c) PROVE Remains(c)
    BY <1>2, <2>6, FollowKept DEF Typed
  <2> QED BY <1>1, <2>2, <2>5, <2>6 DEF Quiet
<1>3. CASE grab # NoGrab
  <2> DEFINE g == grab.window
             moved == Dragged(pointer')
             a == Grow(windows[g].area)
             b == Grow(moved)
  <2>1. windows' = [windows EXCEPT ![g].area = moved] /\ dirty' = Joined(Joined(dirty, a), b)
    BY <1>3 DEF MouseMoves
  <2>2. grab \in Grabs /\ g \in WindowSet /\ pointer' \in Cells
    BY <1>3, ScreenIs DEF Typed, MouseOK, MouseMoves, Grabs
  <2>3. a \in NatRect /\ b \in NatRect
    BY <2>2, PaneFields, DraggedIs, GrowIs DEF Typed
  <2>4. windows' = [windows EXCEPT ![g] = [windows[g] EXCEPT !.area = moved]] /\ windows[g] \in Pane
    BY <2>1, <2>2, PaneFields DEF Typed, PanesOK
  <2> HIDE DEF g, moved
  <2>5. \A w \in WindowSet : windows'[w].motion = windows[w].motion
    BY <2>2, <2>4 DEF Typed, PanesOK, Pane
  <2>6. StillNow' => StillNow
    BY <2>5 DEF StillNow
  <2> HIDE DEF a, b
  <2>7. Wider
    BY <2>1, <2>3, TwoMoreAreWider DEF Typed
  <2>8. ASSUME StillNow, NEW c \in Cells, ~Has(dirty', c) PROVE Remains(c)
    BY <1>3, <2>8, DragKept DEF Typed
  <2> QED BY <1>1, <2>6, <2>7, <2>8 DEF Quiet
<1> QED BY <1>2, <1>3

(* A click in the front window with no menu declares nothing, and changes  *)
(* nothing seen.                                                           *)
LEMMA PressQuiet ==
  ASSUME Typed, NEW w \in WindowSet, Press(w)
  PROVE  Quiet
<1>1. UNCHANGED Buffers /\ moment' = "events" /\ UNCHANGED <<windows, mode>> /\ UNCHANGED <<hover, clock, holds, topic>>
  BY DEF Press, Desk, Hand, Event
<1>2. StillNow' = StillNow
  BY <1>1 DEF StillNow
<1>3. CASE Foremost = w /\ menus = {}
  <2>1. UNCHANGED <<stacked, menus, dirty>>
    BY <1>3 DEF Press, ToFront
  <2>2. Flat
    BY <1>1, <1>3, <2>1 DEF Flat, Level
  <2>3. ASSUME StillNow, NEW c \in Cells PROVE Remains(c)
    BY <1>1, <2>1, <2>2, <2>3, GrabKept DEF Typed
  <2>4. Wider
    BY <2>1 DEF Wider, Typed
  <2> QED BY <1>1, <1>2, <2>3, <2>4 DEF Quiet
<1>4. CASE ~(Foremost = w /\ menus = {})
  <2>1. DamageAll
    BY <1>4 DEF Press
  <2>2. dirty' = WholeScreen
    BY <2>1 DEF DamageAll
  <2> QED BY <1>1, <2>1, <2>2, WholeIsWider DEF Quiet
<1> QED BY <1>3, <1>4

(* Letting go changes nothing seen.                                        *)
LEMMA ReleaseQuiet ==
  ASSUME Typed, Release
  PROVE  Quiet
<1>1. UNCHANGED Buffers /\ moment' = "events" /\ UNCHANGED <<windows, mode, stacked, menus, menuAge>>
      /\ UNCHANGED <<hover, clock, holds, topic, dirty>>
  BY DEF Release, Hand, Event
<1>2. StillNow' = StillNow
  BY <1>1 DEF StillNow
<1>3. Flat
  BY <1>1 DEF Flat, Level
<1>4. ASSUME StillNow, NEW c \in Cells PROVE Remains(c)
  BY <1>1, <1>3, <1>4, GrabKept DEF Typed
<1>5. Wider
  BY <1>1 DEF Wider, Typed
<1> QED BY <1>1, <1>2, <1>4, <1>5 DEF Quiet

(* The time that passes declares where what moves was and may be.          *)
LEMMA AdvanceQuiet ==
  ASSUME Typed, AdvanceClock
  PROVE  Quiet
<1>1. UNCHANGED Buffers /\ moment' = "frame" /\ UNCHANGED mode
  BY DEF AdvanceClock, Buffers
<1>2. Wider /\ (~StillNow /\ StillNow' => dirty' = WholeScreen)
  BY AdvanceIs DEF Typed, Wider
<1>3. ASSUME StillNow, NEW c \in Cells, ~Has(dirty', c), Sure(c)' PROVE Remains(c)
  BY <1>3, AdvanceKept DEF Typed
<1> QED BY <1>1, <1>2, <1>3 DEF Quiet

(* Every step of the screen is one of these, the frame, or none.           *)
LEMMA StepIs ==
  ASSUME Typed, [ScreenNext]_screenVars
  PROVE  Quiet \/ ShowFrame \/ UNCHANGED screenVars
<1>1. MouseOK'
  BY MouseKeeps DEF Typed
<1>2. ASSUME NEW w \in WindowSet, Launch(w) \/ Close(w) \/ Minimise(w) \/ ToggleFull(w) \/ Raise(w) PROVE Sweeping
  BY <1>2 DEF Sweeping
<1>3. ASSUME ToggleMenu \/ TogglePower \/ KeyFilter \/ LockScreen \/ KeyUnderLock \/ ShutDown PROVE Sweeping
  BY <1>3 DEF Sweeping
<1> QED BY <1>1, <1>2, <1>3, SweepingQuiet, TickQuiet, ToldQuiet, TypingQuiet, MouseQuiet, PressQuiet, ReleaseQuiet, AdvanceQuiet
        DEF ScreenNext

(***************************************************************************)
(* The screen is true                                                      *)
(***************************************************************************)
Fields == {"top", "shade", "washed", "pointer"}

\* What is not to be repainted is painted as painting it now would.
Painted ==
  StillNow => \A c \in Cells : Sure(c) /\ ~Has(dirty, c) => back[c].top = Seen(c) /\ back[c].shade = ShadesAt(Layers, c)

\* The front buffer is the back buffer, with the pointer over it where it is shown.
Presented ==
  /\ DOMAIN back = Cells /\ DOMAIN front = Cells
  /\ \A c \in Cells : /\ DOMAIN back[c] = Fields /\ DOMAIN front[c] = Fields
                      /\ front[c].top = back[c].top /\ front[c].shade = back[c].shade
                      /\ back[c].pointer = FALSE /\ front[c].pointer \in BOOLEAN
                      /\ front[c].pointer => c \in shown
                      /\ mode # "off" /\ c \in shown => front[c].pointer
                      /\ mode = "off" /\ front[c].pointer => Has(dirty, c)

\* A frame shown leaves nothing to repaint, and the pointer where it is.
Settled == moment = "shown" => dirty = NoRect /\ (mode # "off" => shown = {pointer})

ScreenInv == Typed /\ shown \subseteq Cells /\ Painted /\ Presented /\ Settled

(* The step of a frame: what was to be repainted is painted, and shown.    *)
LEMMA FrameIs ==
  ASSUME ScreenInv, ShowFrame
  PROVE  dirty' \in NatRect /\ shown' \subseteq Cells /\ Painted' /\ Presented' /\ Settled'
<1> DEFINE moved == shown # {pointer}
           painted == [c \in Cells |-> IF Has(dirty, c) THEN Paint[c] ELSE back[c]]
           presented == [c \in Cells |-> IF Has(dirty, c) \/ (moved /\ c \in shown) THEN painted[c] ELSE front[c]]
<1>1. dirty' = NoRect /\ moment' = "shown"
      /\ UNCHANGED <<windows, stacked, holds, clock, topic, menus, menuAge, hover, mode, grab, age, gap, pointer, happened>>
  BY DEF ShowFrame
<1>2. \/ IsEmptyRect(dirty) /\ ~moved /\ UNCHANGED <<back, front, shown>>
      \/ back' = painted /\ mode = "off" /\ front' = presented /\ UNCHANGED shown
      \/ back' = painted /\ mode # "off" /\ front' = [presented EXCEPT ![pointer].pointer = TRUE] /\ shown' = {pointer}
  BY DEF ShowFrame, Buffers
<1>3. dirty \in NatRect /\ pointer \in Cells /\ shown \subseteq Cells
  BY DEF ScreenInv, Typed, MouseOK
<1>4. /\ DOMAIN back = Cells /\ DOMAIN front = Cells
      /\ \A c \in Cells : /\ DOMAIN back[c] = Fields /\ DOMAIN front[c] = Fields
                          /\ front[c].top = back[c].top /\ front[c].shade = back[c].shade
                          /\ back[c].pointer = FALSE /\ front[c].pointer \in BOOLEAN
                          /\ front[c].pointer => c \in shown
                          /\ mode # "off" /\ c \in shown => front[c].pointer
                          /\ mode = "off" /\ front[c].pointer => Has(dirty, c)
  BY DEF ScreenInv, Presented
<1>5. StillNow' = StillNow /\ \A c : Sure(c)' = Sure(c) /\ Seen(c)' = Seen(c)
  <2>1. StillNow' = StillNow
    BY <1>1 DEF StillNow
  <2>2. Layers' = Layers
    BY <1>1 DEF Layers, Layer, WindowLayer, GhostRect, Visible, Unfolded
  <2>3. ASSUME NEW c PROVE Sure(c)' = Sure(c)
    BY <1>1 DEF Sure, Folds, Behind, Visible
  <2>4. Foremost' = Foremost /\ OpenApps' = OpenApps /\ Tucked' = Tucked
    BY <1>1 DEF Foremost, Visible, OpenApps, Opened, Tucked
  <2>5. ASSUME NEW c, NEW what PROVE LookOf(what, c)' = LookOf(what, c)
    <3>1. WindowLook(what, c)' = WindowLook(what, c)
      BY <1>1, <2>4 DEF WindowLook, ButtonRect, TitleRect, Content
    <3>2. PanelLook(c)' = PanelLook(c) /\ MenuLook(c)' = MenuLook(c)
      BY <1>1, <2>4 DEF PanelLook, MenuLook, HasRoom
    <3> QED BY <1>1, <3>1, <3>2 DEF LookOf
  <2>6. ASSUME NEW c PROVE Seen(c)' = Seen(c)
    <3>1. Seen(c)' = LookOf(WhatAt(Layers, c), c)'
      BY <2>2 DEF Seen
    <3> QED BY <2>2, <2>5 DEF Seen
  <2> QED BY <2>1, <2>3, <2>6
<1>6. Layers' = Layers
  BY <1>1 DEF Layers, Layer, WindowLayer, GhostRect, Visible, Unfolded
<1>7. /\ DOMAIN painted = Cells
      /\ \A c \in Cells : /\ Has(dirty, c) => painted[c].top = Seen(c) /\ painted[c].shade = ShadesAt(Layers, c)
                          /\ ~Has(dirty, c) => painted[c] = back[c]
                          /\ painted[c].pointer = FALSE /\ DOMAIN painted[c] = Fields
  <2>1. ASSUME NEW c \in Cells PROVE painted[c] = IF Has(dirty, c) THEN Paint[c] ELSE back[c]
    OBVIOUS
  <2>2. DOMAIN painted = Cells
    OBVIOUS
  <2> HIDE DEF painted
  <2>3. ASSUME NEW c \in Cells, Has(dirty, c)
        PROVE  painted[c].top = Seen(c) /\ painted[c].shade = ShadesAt(Layers, c)
               /\ painted[c].pointer = FALSE /\ DOMAIN painted[c] = Fields
    <3>1. painted[c] = Paint[c]
      BY <2>1, <2>3
    <3> QED BY <3>1, PaintIs DEF Fields
  <2>4. ASSUME NEW c \in Cells, ~Has(dirty, c)
        PROVE  painted[c] = back[c] /\ painted[c].pointer = FALSE /\ DOMAIN painted[c] = Fields
    <3>1. painted[c] = back[c]
      BY <2>1, <2>4
    <3> QED BY <1>4, <3>1
  <2> QED BY <2>2, <2>3, <2>4
<1>8. /\ DOMAIN presented = Cells
      /\ \A c \in Cells : presented[c] = IF Has(dirty, c) \/ (moved /\ c \in shown) THEN painted[c] ELSE front[c]
  OBVIOUS
<1> HIDE DEF painted, presented
<1>9. \A c \in Cells : /\ presented[c].top = painted[c].top /\ presented[c].shade = painted[c].shade
                       /\ DOMAIN presented[c] = Fields /\ presented[c].pointer \in BOOLEAN
                       /\ presented[c].pointer => front[c].pointer /\ ~Has(dirty, c) /\ ~(moved /\ c \in shown)
  BY <1>4, <1>7, <1>8
<1>10. shown' \subseteq Cells
  BY <1>2, <1>3
<1>11. Painted'
  <2>1. SUFFICES ASSUME StillNow, NEW c \in Cells, Sure(c)
                 PROVE  back'[c].top = Seen(c) /\ back'[c].shade = ShadesAt(Layers, c)
    BY <1>5, <1>6 DEF Painted
  <2>2. ~Has(dirty, c) => back[c].top = Seen(c) /\ back[c].shade = ShadesAt(Layers, c)
    BY <2>1 DEF ScreenInv, Painted
  <2>3. back' = painted \/ (IsEmptyRect(dirty) /\ back' = back)
    BY <1>2
  <2>4. CASE back' = painted
    BY <1>7, <2>2, <2>4
  <2>5. CASE IsEmptyRect(dirty) /\ back' = back
    BY <1>3, <2>2, <2>5, EmptyHasNone
  <2> QED BY <2>3, <2>4, <2>5
<1>12. Presented'
  <2>1. CASE IsEmptyRect(dirty) /\ ~moved /\ UNCHANGED <<back, front, shown>>
    <3>1. \A c \in Cells : ~Has(dirty, c)
      BY <1>3, <2>1, EmptyHasNone
    <3> QED BY <1>1, <1>4, <2>1, <3>1 DEF Presented
  <2>2. CASE back' = painted /\ mode = "off" /\ front' = presented /\ UNCHANGED shown
    <3>1. \A c \in Cells : ~presented[c].pointer
      BY <1>4, <1>9, <2>2
    <3> QED BY <1>1, <1>7, <1>8, <1>9, <2>2, <3>1 DEF Presented
  <2>3. CASE back' = painted /\ mode # "off" /\ front' = [presented EXCEPT ![pointer].pointer = TRUE] /\ shown' = {pointer}
    <3> DEFINE under == presented[pointer]
               over == [under EXCEPT !.pointer = TRUE]
    <3>1. DOMAIN under = Fields /\ "pointer" \in Fields /\ "top" \in Fields /\ "shade" \in Fields
      BY <1>3, <1>9 DEF Fields
    <3>2. front' = [presented EXCEPT ![pointer] = over]
      BY <1>3, <1>8, <2>3
    <3>3. DOMAIN over = Fields /\ over.pointer = TRUE /\ over.top = under.top /\ over.shade = under.shade
      <4> HIDE DEF under
      <4> QED BY <3>1
    <3> HIDE DEF under, over
    <3>4. DOMAIN front' = Cells /\ front'[pointer] = over /\ \A c \in Cells \ {pointer} : front'[c] = presented[c]
      BY <1>3, <1>8, <3>2
    <3>5. \A c \in Cells : /\ DOMAIN front'[c] = Fields
                           /\ front'[c].top = painted[c].top /\ front'[c].shade = painted[c].shade
      BY <1>3, <1>9, <3>3, <3>4 DEF under
    <3>6. ASSUME NEW c \in Cells, c # pointer PROVE front'[c].pointer = FALSE
      <4>1. front'[c].pointer = presented[c].pointer
        BY <3>4, <3>6
      <4>2. ASSUME presented[c].pointer PROVE FALSE
        <5>1. front[c].pointer /\ ~(moved /\ c \in shown)
          BY <1>9, <4>2
        <5>2. c \in shown
          BY <1>4, <5>1
        <5> QED BY <3>6, <5>1, <5>2
      <4> QED BY <1>9, <4>1, <4>2
    <3>7. front'[pointer].pointer = TRUE
      BY <3>3, <3>4
    <3>8. \A c \in Cells : /\ front'[c].pointer \in BOOLEAN
                           /\ front'[c].pointer => c \in {pointer}
                           /\ c \in {pointer} => front'[c].pointer
      BY <3>6, <3>7
    <3> QED BY <1>1, <1>7, <2>3, <3>4, <3>5, <3>8 DEF Presented
  <2> QED BY <1>2, <2>1, <2>2, <2>3
<1>13. Settled'
  BY <1>1, <1>2 DEF Settled
<1> QED BY <1>1, <1>10, <1>11, <1>12, <1>13, RectIs

(* Before the frame, what is painted is what it was.                       *)
LEMMA QuietIs ==
  ASSUME ScreenInv, Quiet
  PROVE  dirty' \in NatRect /\ shown' \subseteq Cells /\ Painted' /\ Presented' /\ Settled'
<1>1. UNCHANGED <<back, front, shown>> /\ moment' # "shown"
  BY DEF Quiet, Buffers
<1>2. dirty' \in NatRect /\ \A c \in Cells : Has(dirty, c) => Has(dirty', c)
  BY DEF Quiet, Wider
<1>3. Painted'
  <2>1. CASE dirty' = WholeScreen
    <3>1. \A c \in Cells : Has(dirty', c)
      BY <2>1, CellIs
    <3> QED BY <3>1 DEF Painted
  <2>2. CASE dirty' # WholeScreen
    <3>1. SUFFICES ASSUME StillNow', NEW c \in Cells, Sure(c)', ~Has(dirty', c)
                   PROVE  back'[c].top = Seen(c)' /\ back'[c].shade = ShadesAt(Layers', c)
      BY DEF Painted
    <3>2. StillNow /\ Remains(c)
      BY <2>2, <3>1 DEF Quiet
    <3>3. Sure(c) /\ ~Has(dirty, c) /\ Seen(c)' = Seen(c) /\ ShadesAt(Layers', c) = ShadesAt(Layers, c)
      BY <3>1, <3>2 DEF Remains
    <3>4. back[c].top = Seen(c) /\ back[c].shade = ShadesAt(Layers, c)
      BY <3>2, <3>3 DEF ScreenInv, Painted
    <3> QED BY <1>1, <3>3, <3>4
  <2> QED BY <2>1, <2>2
<1>4. Presented'
  <2>1. mode' # "off" => mode # "off"
    BY DEF Quiet
  <2>2. ASSUME mode' = "off", NEW c \in Cells, front[c].pointer PROVE Has(dirty', c)
    <3>1. CASE dirty' = WholeScreen
      BY <3>1, CellIs
    <3>2. CASE dirty' # WholeScreen
      <4>1. mode = "off"
        BY <2>2, <3>2 DEF Quiet
      <4> QED BY <1>2, <2>2, <4>1 DEF ScreenInv, Presented
    <3> QED BY <3>1, <3>2
  <2> QED BY <1>1, <2>1, <2>2 DEF ScreenInv, Presented
<1>5. Settled'
  BY <1>1 DEF Settled
<1> QED BY <1>1, <1>2, <1>3, <1>4, <1>5 DEF ScreenInv

(* The invariant is kept: by what precedes a frame, by the frame, by       *)
(* nothing.                                                                *)
LEMMA ScreenInvStep ==
  ASSUME ScreenInv, [ScreenNext]_screenVars
  PROVE  ScreenInv'
<1>1. Typed
  BY DEF ScreenInv
<1>2. PanesOK' /\ StackOK' /\ ShownOK' /\ MouseOK' /\ TimeOK'
  BY <1>1, PanesKeep, StackKeeps, ShownKeeps, MouseKeeps, TimeKeeps DEF Typed
<1>3. CASE UNCHANGED screenVars
  <2>1. UNCHANGED <<windows, stacked, holds, clock, topic, menus, menuAge, hover, mode, grab, age, gap,
                    pointer, shown, dirty, back, front, moment, happened>>
    BY <1>3 DEF screenVars
  <2>2. Level
    BY <2>1 DEF Level
  <2>3. StillNow' = StillNow /\ \A c : Sure(c)' = Sure(c)
    BY <2>2, LevelStays
  <2>4. Layers' = Layers
    BY <2>1 DEF Layers, Layer, WindowLayer, GhostRect, Visible, Unfolded
  <2>5. Foremost' = Foremost /\ OpenApps' = OpenApps /\ Tucked' = Tucked
    BY <2>1 DEF Foremost, Visible, OpenApps, Opened, Tucked
  <2>6. ASSUME NEW c, NEW what PROVE LookOf(what, c)' = LookOf(what, c)
    <3>1. WindowLook(what, c)' = WindowLook(what, c)
      BY <2>1, <2>5 DEF WindowLook, ButtonRect, TitleRect, Content
    <3>2. PanelLook(c)' = PanelLook(c) /\ MenuLook(c)' = MenuLook(c)
      BY <2>1, <2>5 DEF PanelLook, MenuLook, HasRoom
    <3> QED BY <2>1, <3>1, <3>2 DEF LookOf
  <2>7. \A c : Seen(c)' = Seen(c)
    BY <2>4, <2>6 DEF Seen
  <2>8. Painted' /\ Presented' /\ Settled'
    <3>1. Painted'
      BY <2>1, <2>3, <2>4, <2>7 DEF ScreenInv, Painted
    <3>2. Presented' /\ Settled'
      BY <2>1 DEF ScreenInv, Presented, Settled
    <3> QED BY <3>1, <3>2
  <2> QED BY <1>2, <2>1, <2>8 DEF ScreenInv, Typed
<1>4. CASE Quiet
  BY <1>2, <1>4, QuietIs DEF ScreenInv, Typed
<1>5. CASE ShowFrame
  BY <1>2, <1>5, FrameIs DEF ScreenInv, Typed
<1> QED BY <1>1, <1>3, <1>4, <1>5, StepIs

(* It holds before anything is drawn, as all is to be painted.             *)
LEMMA ScreenInvInit ==
  ASSUME ScreenInit
  PROVE  ScreenInv
<1>0. Width \in Nat /\ Width > 0 /\ Height \in Nat /\ Height > 2 /\ WindowTime \in Nat /\ MenuTime \in Nat /\ FrameTime \in Nat
      /\ WakingTime \in Nat /\ MaxEvents \in Nat /\ Len(Windows) \in Nat /\ DOMAIN Windows = 1 .. Len(Windows)
  BY ScreenIs
<1>1. PanesOK
  <2>1. 0 \in 0 .. WindowTime
    BY <1>0
  <2>2. Still \in Motions
    BY <2>1, RectIs DEF Still, Motions
  <2> DEFINE p(w) == [open |-> FALSE, hidden |-> FALSE, full |-> FALSE, motion |-> Still, area |-> PlaceOf[w], restore |-> PlaceOf[w]]
  <2>3. ASSUME NEW w \in WindowSet PROVE p(w) \in Pane
    <3>1. PlaceOf[w] \in NatRect
      BY ScreenIs
    <3> QED BY <2>2, <3>1 DEF Pane
  <2>4. windows = [w \in WindowSet |-> p(w)]
    BY DEF ScreenInit
  <2> HIDE DEF p
  <2> QED BY <2>3, <2>4 DEF PanesOK
<1>2. StackOK
  <2> DEFINE n == Len(Windows)
  <2>1. stacked = [i \in 1 .. n |-> Windows[(n - i) + 1]]
    BY DEF ScreenInit, Reverse
  <2>2. \A i \in 1 .. n : (n - i) + 1 \in 1 .. n /\ (n - ((n - i) + 1)) + 1 = i
    BY <1>0
  <2>3. \A i \in 1 .. n : Windows[i] \in WindowSet
    BY ScreenIs
  <2>4. stacked \in [1 .. n -> WindowSet]
    BY <2>1, <2>2, <2>3
  <2>5. ASSUME NEW w \in WindowSet PROVE \E i \in 1 .. n : stacked[i] = w
    <3>1. PICK j \in 1 .. n : Windows[j] = w
      BY <1>0 DEF WindowSet
    <3> DEFINE i == (n - j) + 1
    <3>2. i \in 1 .. n /\ (n - i) + 1 = j
      BY <2>2
    <3> HIDE DEF i
    <3>3. stacked[i] = Windows[(n - i) + 1]
      BY <2>1, <3>2
    <3> QED BY <3>1, <3>2, <3>3
  <2> QED BY <2>4, <2>5 DEF StackOK
<1>3. ShownOK
  <2>1. holds \in [Marks -> {"even", "odd"}]
    BY DEF ScreenInit, Marks
  <2>2. clock \in Clocks /\ topic = "clock" /\ menus = {} /\ menuAge = 0 /\ mode = "desk"
    BY DEF ScreenInit
  <2> QED BY <1>0, <2>1, <2>2 DEF ShownOK, Topics
<1>4. MouseOK
  <2>1. hover = <<"None", 0>> /\ grab = NoGrab /\ pointer = <<Width \div 2, Height \div 2>>
    BY DEF ScreenInit
  <2>2. Width \div 2 \in 0 .. (Width - 1) /\ Height \div 2 \in 0 .. (Height - 1)
    BY <1>0
  <2>3. pointer \in Cells
    BY <2>1, <2>2 DEF Cells
  <2>4. hover \in Overs
    BY <2>1 DEF Overs
  <2> QED BY <2>1, <2>3, <2>4 DEF MouseOK
<1>5. TimeOK
  BY <1>0 DEF ScreenInit, TimeOK, LockedTime
<1>6. dirty = WholeScreen /\ dirty \in NatRect /\ shown = {} /\ moment = "frame" /\ mode = "desk"
  BY RectIs DEF ScreenInit
<1>7. Painted
  BY <1>6, CellIs DEF Painted
<1>8. Presented
  <2>1. back = [c \in Cells |-> Blank] /\ front = back
    BY DEF ScreenInit
  <2>2. DOMAIN Blank = Fields /\ Blank.pointer = FALSE
    BY DEF Blank, Fields
  <2> QED BY <1>6, <2>1, <2>2 DEF Presented
<1>9. Settled
  BY <1>6 DEF Settled
<1> QED BY <1>1, <1>2, <1>3, <1>4, <1>5, <1>6, <1>7, <1>8, <1>9 DEF ScreenInv, Typed

(* So it always holds.                                                     *)
LEMMA ScreenHolds == ScreenSpec => []ScreenInv
<1>1. ScreenInit => ScreenInv
  BY ScreenInvInit
<1>2. ScreenInv /\ [ScreenNext]_screenVars => ScreenInv'
  BY ScreenInvStep
<1> QED BY <1>1, <1>2, PTL DEF ScreenSpec

(* What it says of a screen at rest.                                       *)
LEMMA RestIsTrue ==
  ASSUME ScreenInv
  PROVE  ScreenIsTrue
<1>1. SUFFICES ASSUME AtRest, NEW c \in Cells
               PROVE  /\ Sure(c) => front[c].top = Paint[c].top /\ front[c].shade = Paint[c].shade
                      /\ front[c].pointer = (mode # "off" /\ c = pointer)
  BY DEF ScreenIsTrue
<1>2. StillNow /\ dirty = NoRect /\ (mode # "off" => shown = {pointer}) /\ ~Has(dirty, c)
  BY <1>1, RectIs DEF AtRest, StillNow, ScreenInv, Settled
<1>3. /\ front[c].top = back[c].top /\ front[c].shade = back[c].shade
      /\ front[c].pointer \in BOOLEAN /\ (front[c].pointer => c \in shown)
      /\ (mode # "off" /\ c \in shown => front[c].pointer)
      /\ (mode = "off" /\ front[c].pointer => Has(dirty, c))
  BY DEF ScreenInv, Presented
<1>4. Sure(c) => back[c].top = Seen(c) /\ back[c].shade = ShadesAt(Layers, c)
  BY <1>2 DEF ScreenInv, Painted
<1>5. Sure(c) => front[c].top = Paint[c].top /\ front[c].shade = Paint[c].shade
  BY <1>3, <1>4, PaintIs
<1>6. front[c].pointer <=> (mode # "off" /\ c = pointer)
  BY <1>2, <1>3
<1> QED BY <1>3, <1>5, <1>6

(* The types of the screen's variables, for every size of screen, list of  *)
(* windows and length of animation (desktop.rs, fb.rs).                    *)
THEOREM ScreenTypes == ScreenSpec => []ScreenTypeOK
<1>1. ASSUME ScreenInv PROVE ScreenTypeOK
  <2>0. PanesOK /\ StackOK /\ ShownOK /\ MouseOK /\ TimeOK
    BY <1>1 DEF ScreenInv, Typed
  <2>1. ASSUME NEW w \in WindowSet
        PROVE  /\ DOMAIN windows[w] = {"open", "hidden", "full", "motion", "area", "restore"}
               /\ windows[w].motion.age \in 0..WindowTime
               /\ {windows[w].open, windows[w].hidden, windows[w].full} \subseteq BOOLEAN
    <3>1. windows[w] \in Pane /\ windows[w].motion \in Motions
      BY <2>0, PaneFields
    <3> QED BY <3>1 DEF Pane, Motions
  <2>2. Len(stacked) = Len(Windows) /\ ToSet(stacked) = WindowSet
    <3> DEFINE n == Len(Windows)
    <3>1. n \in Nat /\ stacked \in [1 .. n -> WindowSet] /\ \A w \in WindowSet : \E i \in 1 .. n : stacked[i] = w
      BY <2>0, ScreenIs DEF StackOK
    <3> HIDE DEF n
    <3>2. Len(stacked) = n
      BY <3>1
    <3>3. ToSet(stacked) = WindowSet
      BY <3>1 DEF ToSet
    <3> QED BY <3>2, <3>3 DEF n
  <2>3. \A k \in DOMAIN holds : holds[k] \in {"even", "odd"}
    BY <2>0 DEF ShownOK
  <2>4. clock \in Clocks /\ topic \in DOMAIN holds /\ menus \subseteq {"menu", "power"} /\ menuAge \in 0..MenuTime
        /\ mode \in {"desk", "locked", "off"}
    BY <2>0 DEF ShownOK, Marks, Topics
  <2>5. grab.window \in WindowSet \cup {"none"} /\ pointer \in Cells
    BY <2>0 DEF MouseOK, Grabs, NoGrab
  <2>6. age \in 0..(WakingTime + 1) /\ gap \in 0..LockedTime /\ moment \in {"events", "frame", "shown"} /\ happened \in 0..MaxEvents
    BY <2>0 DEF TimeOK
  <2>7. shown \subseteq Cells
    BY <1>1 DEF ScreenInv
  <2> QED BY <2>1, <2>2, <2>3, <2>4, <2>5, <2>6, <2>7 DEF ScreenTypeOK
<1> QED BY <1>1, ScreenHolds, PTL

(* Whatever happened since, a screen at rest shows what painting all of it *)
(* now would show, and the pointer once, where it is: except where the     *)
(* menu unfolds, where the clock was wider than it is (desktop.rs:573) and *)
(* in a window that lists names a command changes (desktop.rs:3073).  For  *)
(* every list of windows, every place of theirs, every size and time.      *)
THEOREM ScreenStaysTrue == ScreenSpec => []ScreenIsTrue
BY RestIsTrue, ScreenHolds, PTL
==============================================================================
