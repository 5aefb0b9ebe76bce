------------------------------ MODULE MC_Kernel ------------------------------
(***************************************************************************)
(* What the person sees of the kernel, checked together: the update, the   *)
(* files, the windows, the browser, the screen.  The five parts share no   *)
(* state that one writes for another, so a behaviour is one part's, with   *)
(* the others at rest.                                                     *)
(***************************************************************************)
EXTENDS KernelUpdate, KernelFiles, KernelDesktop, KernelPages, KernelScreen

VARIABLE part   \* the part that runs

kernelVars == <<part, upVars, filesVars, deskVars, pageVars, screenVars>>

KernelInit ==
    /\ part \in {"update", "files", "desktop", "pages", "screen"}
    /\ UpInit /\ FilesInit /\ DeskInit /\ PagesInit /\ ScreenInit
    /\ part = "screen" \/ clock = CHOOSE w \in Clocks : TRUE

KernelNext ==
    \/ part = "update" /\ UpNext /\ UNCHANGED <<part, filesVars, deskVars, pageVars, screenVars>>
    \/ part = "files" /\ FilesNext /\ UNCHANGED <<part, upVars, deskVars, pageVars, screenVars>>
    \/ part = "desktop" /\ DeskNext /\ UNCHANGED <<part, upVars, filesVars, pageVars, screenVars>>
    \/ part = "pages" /\ PagesNext /\ UNCHANGED <<part, upVars, filesVars, deskVars, screenVars>>
    \/ part = "screen" /\ ScreenNext /\ UNCHANGED <<part, upVars, filesVars, deskVars, pageVars>>

\* What is fair of a part cannot happen while it rests.
KernelSpec == KernelInit /\ [][KernelNext]_kernelVars /\ UpFairness

\* Every part's variables have their types.
KernelTypeOK == UpTypeOK /\ FilesTypeOK /\ DeskTypeOK /\ PagesTypeOK /\ ScreenTypeOK

\* Three disks: one that cannot be read, one labelled GRENOS that is not
\* ours, and the one the machine starts from.
ThreeDisks ==
    <<[readable |-> FALSE, signature |-> "x", label |-> "?"],
      [readable |-> TRUE, signature |-> "y", label |-> "GRENOS"],
      [readable |-> TRUE, signature |-> "x", label |-> "GRENOS"]>>

\* Names, two of which a new folder and a new note would take, one that begins
\* like the quarantine's, and what may exist of the tree.
FolderNames == <<"x">>
NoteNames == <<"x", "y">>
AName == {"x", "y", "Documents", "System", "Quarantaine", "Quarantaine2"}
Dirs == {<<"Documents", "x">>, <<"System", "Quarantaine", "x">>}
Files == {<<"Documents", "x">>, <<"Documents", "x", "y">>, <<"System", "Quarantaine2">>}

\* Two applications, and a menu with one of them and the lock.
TwoApps == <<"Terminal", "Settings">>
Menu == <<[name |-> <<"p">>, does |-> "Settings"], [name |-> <<"q", "p">>, does |-> "Lock"]>>

\* A page that redirects to another; every page scrolls in a narrow window.
SentTo(p) == IF p = "http-a" THEN "http-b" ELSE p
Rows(source, w) == IF source = "loading" \/ w THEN 0 ELSE 1

\* Three windows that overlap, and where the pointer goes: a title bar that is
\* under a row of the menu, a button that another window covers, a task.
TwoWindows == <<"Terminal", "Settings">>
ThreeWindows == <<"Terminal", "Files", "Settings">>
WindowPlaces == [w \in {"Terminal", "Settings", "Files"} |->
             CASE w = "Terminal" -> Rect(2, 1, 2, 2) [] w = "Settings" -> Rect(1, 2, 2, 2) [] OTHER -> Rect(3, 1, 2, 2)]
ScreenSpots == {<<1, 2>>, <<2, 2>>, <<1, 0>>}
=============================================================================
