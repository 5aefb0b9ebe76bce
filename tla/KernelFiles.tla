----------------------------- MODULE KernelFiles -----------------------------
(***************************************************************************)
(* The files in memory (kernel/src/fs.rs) and the four that change them in *)
(* one address space: the shell of the terminal (shell.rs), the explorer   *)
(* and the notepad (desktop.rs), and the scanner of Securite that reaches  *)
(* into them from the main loop (security.rs).                             *)
(*                                                                         *)
(* A path is the sequence of its names, the root <<>>.  A text is a token; *)
(* some match a signature.  The shell's working directory only shortens    *)
(* what is typed: commands have the path they resolve to.  The commands    *)
(* that only print are left out.                                           *)
(***************************************************************************)
EXTENDS Integers, SequencesExt

CONSTANTS Names,        \* names a command may use
          Texts, Bad,   \* texts, and those that match a signature
          Depth,        \* longest path
          NewFolders,   \* the numbered names of new folders, in order
          NewNotes,     \* and of new notes
          Alike,        \* the names that begin with the quarantine's, itself included
          Fallback,     \* what free_name answers when they are all taken
          DirPaths,     \* where the person makes directories
          FilePaths     \* and where commands write files

ASSUME FilesAssumption ==
    /\ Bad \subseteq Texts /\ Depth \in Nat
    /\ {NewFolders, NewNotes} \subseteq Seq(Names) /\ Fallback \in Names
    /\ "Quarantaine" \in Alike
    /\ DirPaths \cup FilePaths \subseteq BoundedSeq(Names, Depth)

Documents == <<"Documents">>
System == <<"System">>
Quarantine == <<"System", "Quarantaine">>

VARIABLES entries,   \* a set of [path, kind, text, system]
          dir,       \* the explorer's directory
          notes,     \* the notepad's text, and the path it is saved to
          astray     \* history: a path was made below a file

filesVars == <<entries, dir, notes, astray>>

NoText == "empty"
Dir(path, system) == [path |-> path, kind |-> "dir", text |-> NoText, system |-> system]
File(path, text, system) == [path |-> path, kind |-> "file", text |-> text, system |-> system]

Exists(E, path) == \E e \in E : e.path = path
At(E, path) == CHOOSE e \in E : e.path = path
IsDir(E, path) == \E e \in E : e.path = path /\ e.kind = "dir"
ParentOf(path) == IF path = <<>> THEN <<>> ELSE Front(path)
Inside(E, path) == {e \in E : e.path # <<>> /\ ParentOf(e.path) = path}

\* make_dir: the directories above first; nothing when the path exists.
MakeDir(E, path) ==
    LET above == {SubSeq(path, 1, n) : n \in 1..Len(path)}
        made == {p \in above : \A q \in above : IsPrefix(p, q) => ~Exists(E, q)}
    IN  E \cup {Dir(p, FALSE) : p \in made}

\* Mutant: an entry is added whether there is one or not.
Put_Another(E, path, text, system) ==
    MakeDir(E, ParentOf(path)) \cup {File(path, text, system)}

\* put: the text of an entry that exists, or a new file.
Put(E, path, text, system) ==
    IF Exists(E, path)
    THEN (E \ {At(E, path)}) \cup {[At(E, path) EXCEPT !.text = text]}
    ELSE MakeDir(E, ParentOf(path)) \cup {File(path, text, system)}

\* write: refused where there is a directory.
CanWrite(E, path) == ~IsDir(E, path)
Written(E, path, text) == IF CanWrite(E, path) THEN Put(E, path, text, FALSE) ELSE E

CanRemove(E, path) ==
    /\ Exists(E, path) /\ ~At(E, path).system
    /\ At(E, path).kind = "dir" => Inside(E, path) = {}
Removed(E, path) == IF CanRemove(E, path) THEN E \ {At(E, path)} ELSE E

\* free_name: the first of the numbered names nothing in the directory uses.
FreeName(E, path, names) ==
    LET free == {i \in DOMAIN names : ~Exists(E, Append(path, names[i]))}
    IN  IF free = {} THEN Fallback ELSE names[CHOOSE i \in free : \A j \in free : i <= j]

FilesInit ==
    /\ entries = {Dir(<<>>, TRUE), Dir(Documents, TRUE), Dir(System, TRUE)}
    /\ dir = <<>>
    /\ notes = [text |-> NoText, path |-> <<>>]
    /\ astray = FALSE

BelowFile(E, path) ==
    ~Exists(E, path) /\ \E e \in E : e.kind = "file" /\ e.path # path /\ IsPrefix(e.path, path)

(***************************************************************************)
(* The shell                                                               *)
(***************************************************************************)

Ecrire(path, text) ==
    /\ CanWrite(entries, path)
    /\ entries' = Written(entries, path, text)
    /\ astray' = (astray \/ BelowFile(entries, path))
    /\ UNCHANGED <<dir, notes>>

Mkdir(path) ==
    /\ path # <<>>
    /\ entries' = MakeDir(entries, path)
    /\ astray' = (astray \/ BelowFile(entries, path))
    /\ UNCHANGED <<dir, notes>>

Rm(path) ==
    /\ CanRemove(entries, path)
    /\ entries' = Removed(entries, path)
    /\ UNCHANGED <<dir, notes, astray>>

Shell ==
    \/ \E path \in DirPaths : Mkdir(path)
    \/ \E path \in FilePaths, t \in Texts : Ecrire(path, t)
    \/ \E e \in entries : Rm(e.path)

(***************************************************************************)
(* The explorer                                                            *)
(***************************************************************************)

\* The button up, the root, and the places down the left.
Places == {<<>>, Documents, System} \cup {p \in {Quarantine} : Exists(entries, p)}
GoTo(path) ==
    /\ path \in Places \cup {ParentOf(dir)}
    /\ dir' = path
    /\ UNCHANGED <<entries, notes, astray>>

NewFolder ==
    LET path == Append(dir, FreeName(entries, dir, NewFolders))
    IN  /\ path \in DirPaths
        /\ entries' = MakeDir(entries, path)
        /\ astray' = (astray \/ BelowFile(entries, path))
        /\ UNCHANGED <<dir, notes>>

\* The explorer acts on the entry picked by an earlier click, if it still is.
Delete(e) ==
    /\ entries' = Removed(entries, e.path)
    /\ UNCHANGED <<dir, notes, astray>>

\* open_file: the notepad takes the text and the path.
Open(e) ==
    /\ IF e.kind = "dir"
       THEN dir' = e.path /\ UNCHANGED notes
       ELSE notes' = [text |-> e.text, path |-> e.path] /\ UNCHANGED dir
    /\ UNCHANGED <<entries, astray>>

Explorer ==
    \/ \E path \in {<<>>, Documents, System, Quarantine, ParentOf(dir)} : GoTo(path)
    \/ NewFolder
    \/ \E e \in Inside(entries, dir) : Delete(e) \/ Open(e)

(***************************************************************************)
(* The notepad                                                             *)
(***************************************************************************)
TypeNote(t) ==
    /\ notes' = [notes EXCEPT !.text = t]
    /\ UNCHANGED <<entries, dir, astray>>

NewNote ==
    /\ notes' = [text |-> NoText, path |-> <<>>]
    /\ UNCHANGED <<entries, dir, astray>>

NoteName(E) == Append(Documents, FreeName(E, Documents, NewNotes))

SaveNote ==
    LET path == IF notes.path = <<>> THEN NoteName(entries) ELSE notes.path
    IN  /\ entries' = Written(entries, path, notes.text)
        /\ notes' = IF CanWrite(entries, path) THEN [notes EXCEPT !.path = path] ELSE notes
        /\ astray' = (astray \/ BelowFile(entries, path))
        /\ UNCHANGED <<dir>>

(***************************************************************************)
(* The scanner                                                             *)
(***************************************************************************)

\* walk: what can be reached from the root, directory by directory.
Reached(E) ==
    {e \in E : e.path # <<>> /\ \A n \in 0..Len(e.path) - 1 : IsDir(E, SubSeq(e.path, 1, n))}

\* starts_with compares strings: what lies under a name that only begins like
\* the quarantine's is passed over too.
InQuarantine(path) == Len(path) >= 2 /\ path[1] = "System" /\ path[2] \in Alike
Caught(E) == {e \in Reached(E) : e.kind = "file" /\ ~InQuarantine(e.path) /\ e.text \in Bad}
Kept(path) == Append(Quarantine, Last(path))

\* Mutant: the file goes even where its copy could not be written.
Moved_Anyway(E, path) ==
    LET text == At(E, path).text
        with == Written(MakeDir(E, Quarantine), Kept(path), text)
    IN  Removed(with, path)

\* One file caught: its text is written again in quarantine, then it goes.
Moved(E, path) ==
    LET text == At(E, path).text
        made == MakeDir(E, Quarantine)
        with == Written(made, Kept(path), text)
    IN  IF CanWrite(made, Kept(path)) THEN Removed(with, path) ELSE with

\* What was caught is moved in the order of the walk, any order here.
Scan ==
    \E order \in SetToSeqs({e.path : e \in Caught(entries)}) :
       /\ entries' = FoldLeft(Moved, entries, order)
       /\ UNCHANGED <<dir, notes, astray>>

FilesNext ==
    \/ Shell \/ Explorer
    \/ \E t \in Texts : TypeNote(t)
    \/ NewNote \/ SaveNote \/ Scan

FilesSpec == FilesInit /\ [][FilesNext]_filesVars

(***************************************************************************)
(* Properties                                                              *)
(***************************************************************************)
FilesTypeOK ==
    /\ \A e \in entries : /\ e.path \in Seq(STRING) /\ Len(e.path) <= Depth
                          /\ e.kind \in {"dir", "file"} /\ e.system \in BOOLEAN
                          /\ e.text \in Texts \cup {NoText}
    /\ \A d, e \in entries : d.path = e.path => d = e

\* Whatever the four do to the tree under each other, nothing in it is out of
\* their reach, unless a path was made below a file, which make_dir lets pass.
NoneUnreachable == astray \/ \A e \in entries : e.path = <<>> \/ e \in Reached(entries)

\* A scan destroys no text: what it takes from a file it leaves in quarantine,
\* unless two files of one name were caught, or a file of that name was there.
ScanKeepsTexts ==
    [][Scan => \A e \in Caught(entries) :
          \/ \E f \in entries' : f.text = e.text
          \/ \E f \in entries : f # e /\ f.kind = "file" /\ Last(f.path) = Last(e.path)]_filesVars

\* A note saved for the first time replaces no file, unless every numbered
\* name was taken.
NewNoteIsNew ==
    [][SaveNote /\ notes.path = <<>> /\ ~Exists(entries, Append(Documents, Fallback)) =>
          \A e \in entries : e \in entries']_filesVars

\* Every file is scanned: not so below a file, see the README.
EveryFileScanned == \A e \in entries : e.kind = "file" => e \in Reached(entries)
=============================================================================
