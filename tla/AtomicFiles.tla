---------------------------- MODULE AtomicFiles ----------------------------
(***************************************************************************)
(* What the FAT32 driver promises for files and directories                *)
(* (kernel/src/fat.rs, header): a call does what it was asked to one path, *)
(* or nothing, even when the machine stops in the middle.                  *)
(***************************************************************************)
CONSTANTS FilePaths, FolderPaths, Contents

Paths == FilePaths \cup FolderPaths
Absent == "absent"
AFolder == "folder"

VARIABLES tree,     \* what each path holds between calls
          request   \* the call under way

vars == <<tree, request>>

Nothing == [op |-> "nothing"]
Calls ==
    {[op |-> "write", path |-> p, what |-> v] : p \in FilePaths, v \in Contents}
      \cup {[op |-> "make", path |-> p, what |-> AFolder] : p \in FolderPaths}
      \cup {[op |-> "remove", path |-> p, what |-> Absent] : p \in Paths}

Init ==
    /\ tree = [p \in Paths |-> Absent]
    /\ request = Nothing

Ask ==
    /\ request = Nothing
    /\ request' \in Calls
    /\ UNCHANGED tree

\* Done, or stopped after the moment it takes effect.
Done ==
    /\ request # Nothing
    /\ tree' = [tree EXCEPT ![request.path] = request.what]
    /\ request' = Nothing

\* Refused, or stopped before.
Undone ==
    /\ request # Nothing
    /\ request' = Nothing
    /\ UNCHANGED tree

Next == Ask \/ Done \/ Undone

Spec == Init /\ [][Next]_vars
=============================================================================
