--------------------------- MODULE BrowserHistory ---------------------------
(***************************************************************************)
(* What a person expects of Back and Forward: the pages visited in a row,  *)
(* and where in the row they stand.                                        *)
(***************************************************************************)
EXTENDS Integers, Sequences

CONSTANTS Page, FirstPage
VARIABLES visited, here

Init == visited = <<FirstPage>> /\ here = 1

\* Going elsewhere forgets what was ahead.
Visit ==
    \E p \in Page : /\ visited' = Append(SubSeq(visited, 1, here), p)
                    /\ here' = here + 1
Back == here > 1 /\ here' = here - 1 /\ UNCHANGED visited
Forward == here < Len(visited) /\ here' = here + 1 /\ UNCHANGED visited

\* The server sends the page that is shown to another address.
Redirected == \E p \in Page : visited' = [visited EXCEPT ![here] = p] /\ UNCHANGED here

Next == Visit \/ Back \/ Forward \/ Redirected
Spec == Init /\ [][Next]_<<visited, here>>
=============================================================================
