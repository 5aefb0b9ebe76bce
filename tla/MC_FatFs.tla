------------------------------ MODULE MC_FatFs ------------------------------
(* FatFs on a small disk: names, paths and the sizes of what files hold. *)
EXTENDS FatFs

CONSTANTS a, b, d,    \* plain names
          l, m,       \* long names
          lt, mt,     \* their aliases
          empty, one, two

\* l may fill its only slot, m takes two.
LongFull == {l}
LongPieces == [n \in Long |-> IF n = m THEN 2 ELSE 1]
Aliases == [n \in Long |-> IF n = m THEN <<mt>> ELSE <<lt>>]
PlainNames == {a, b, d, lt, mt}
Sizes == [v \in Contents |-> IF v = empty THEN 0 ELSE IF v = one THEN 1 ELSE 2]

NestedFiles == {<<a>>, <<d, a>>}
LongFiles == {<<a>>, <<l>>}
LongerFiles == {<<a>>, <<l>>, <<m>>}
ThreeFiles == {<<a>>, <<b>>, <<d>>}
OneLong == {<<l>>}
OneFolder == {<<d>>}
NoFolder == {}
=============================================================================
