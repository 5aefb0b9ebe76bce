------------------------- MODULE MC_TaskLifecycle -------------------------
(* Instances of TaskLifecycle for TLC: two tasks with one path in common,  *)
(* or three of which two are disjoint, and the answers each run needs.     *)
EXTENDS TaskLifecycle, TLC

CONSTANTS t1, t2, t3, p1, p2

Shared == [t \in Tasks |-> {p1}]

(* t1 overlaps both of the others, which are disjoint.                     *)
Chain == [t \in Tasks |-> CASE t = t1 -> {p1, p2} [] t = t2 -> {p1} [] t = t3 -> {p2}]

TaskSymmetry == Permutations(Tasks)

Say(kinds, areas) == [kind : kinds, areas : areas]

(* One answer for every path through executeTask.                          *)
Broad ==
  Say({"no_model", "invalid", "failed", "ask"}, {{}})
    \cup Say({"plain"}, {{"kernel"}, {"docs"}, {"tests"}})

(* Kernel work, judged by verify.yml alone.                                *)
KernelOnly == Say({"invalid"}, {{}}) \cup Say({"plain", "ask"}, {{"kernel"}})

(* Kernel work, then an attempt that touches only what no workflow judges. *)
KernelThenOther == Say({"plain"}, {{"kernel"}, {"other"}})

(* One commit in the perimeter of both workflows.                          *)
TwoJudges == Say({"plain"}, {{"kernel", "linux"}})

TestsOnly == Say({"plain"}, {{"tests"}})

(* Answers that consume an attempt or settle the task.                     *)
Decisive == Say({"invalid", "ask"}, {{}}) \cup Say({"plain"}, {{"kernel"}})

(* Work on the kernel or none at all.                                      *)
Working == Say({"invalid"}, {{}}) \cup Say({"plain"}, {{"kernel"}})

(* The same, or the CI asked for with nothing written.                     *)
Asked == Working \cup Say({"build"}, {{}})

Asking == Say({"ask", "invalid"}, {{}})
=============================================================================
