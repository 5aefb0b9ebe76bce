----------------------------- MODULE FoldLemmas ------------------------------
(***************************************************************************)
(* Induction on the natural numbers, stated about sets and functions so    *)
(* that it can be cited, and what it gives of folding a sequence.          *)
(*                                                                         *)
(* The operator folded is a parameter of the module, and what else it      *)
(* depends on its last argument: a module that folds takes an INSTANCE of  *)
(* this one for each operator, and shows that its FoldLeft is the Run of   *)
(* the instance.                                                           *)
(***************************************************************************)
EXTENDS Integers, Sequences, WellFoundedInduction, TLAPS

CONSTANT Op(_, _, _)

(* The last member of a set of indices, as FiniteSetsExt has it, and the   *)
(* fold of Op over a sequence from its first element, as SequencesExt has. *)
Top(s) == CHOOSE x \in s : \A y \in s : x >= y
Walk(base, q, p, f) ==
  f = [s \in SUBSET DOMAIN q |->
         IF s = {} THEN base ELSE Op(f[s \ {Top(s)}], q[Top(s)], p)]
Run(base, q, p) == (CHOOSE f : Walk(base, q, p, f))[DOMAIN q]

(* Induction: a set that holds 0 and what follows each of its members      *)
(* holds every natural number.                                             *)
LEMMA NatSet ==
  ASSUME NEW T, 0 \in T, \A n \in Nat : n \in T => n + 1 \in T
  PROVE  Nat \subseteq T
<1>1. SUFFICES ASSUME Nat \ T # {} PROVE FALSE
  OBVIOUS
<1> DEFINE R == OpToRel(<, Nat)
<1>2. IsWellFoundedOn(R, Nat)
  BY NatLessThanWellFounded
<1>3. PICK m \in Nat \ T : \A y \in Nat \ T : ~(<<y, m>> \in R)
  <2> HIDE DEF R
  <2> QED BY <1>1, <1>2, WFMin
<1>4. m - 1 \in Nat
  <2>1. m # 0
    OBVIOUS
  <2> QED BY <2>1
<1>5. <<m - 1, m>> \in R
  BY <1>4 DEF OpToRel
<1>6. m - 1 \in T
  BY <1>3, <1>4, <1>5
<1>7. (m - 1) + 1 \in T
  BY <1>4, <1>6
<1> QED
  BY <1>7

(* A set of indices that is not empty has a last member.                   *)
LEMMA TopIs ==
  ASSUME NEW n \in Nat, NEW s \in SUBSET (1..n), s # {}
  PROVE  Top(s) \in s /\ \A y \in s : Top(s) >= y
<1> DEFINE T == {m \in Nat : \A r \in SUBSET (1..m) : r # {} => \E x \in r : \A y \in r : x >= y}
<1>1. 0 \in T
  <2>1. \A r \in SUBSET (1..0) : r = {}
    OBVIOUS
  <2> QED BY <2>1
<1>2. ASSUME NEW m \in Nat, m \in T PROVE m + 1 \in T
  <2>1. SUFFICES ASSUME NEW r \in SUBSET (1..m + 1), r # {}
                 PROVE  \E x \in r : \A y \in r : x >= y
    OBVIOUS
  <2>2. CASE m + 1 \in r
    BY <2>2
  <2>3. CASE m + 1 \notin r
    <3>1. r \in SUBSET (1..m)
      BY <2>3
    <3> QED BY <1>2, <2>1, <3>1
  <2> QED BY <2>2, <2>3
<1>3. Nat \subseteq T
  <2> HIDE DEF T
  <2> QED BY <1>1, <1>2, NatSet
<1>4. \E x \in s : \A y \in s : x >= y
  BY <1>3
<1> QED
  BY <1>4, Zenon DEF Top

(* A set of indices that holds the greatest one possible has it last.      *)
LEMMA TopOf ==
  ASSUME NEW n \in Nat, NEW s \in SUBSET (1..n), n \in s
  PROVE  Top(s) = n
<1>1. s # {}
  OBVIOUS
<1>2. Top(s) \in s /\ \A y \in s : Top(s) >= y
  BY <1>1, TopIs
<1>3. Top(s) \in 1..n /\ Top(s) >= n
  BY <1>2
<1>4. \A t \in 1..n : t >= n => t = n
  OBVIOUS
<1> QED
  BY <1>3, <1>4

(* A set of indices that is not empty has a first member as well.          *)
LEMMA LeastExists ==
  ASSUME NEW n \in Nat, NEW s \in SUBSET (1..n), s # {}
  PROVE  \E x \in s : \A y \in s : x <= y
<1> DEFINE t == {k \in 1..n : n + 1 - k \in s}
<1>1. PICK x \in s : TRUE
  OBVIOUS
<1>2. n + 1 - x \in 1..n /\ n + 1 - (n + 1 - x) = x
  OBVIOUS
<1>3. t \in SUBSET (1..n) /\ t # {}
  BY <1>1, <1>2
<1>4. Top(t) \in t /\ \A k \in t : Top(t) >= k
  <2> HIDE DEF t
  <2> QED BY <1>3, TopIs
<1> DEFINE m == n + 1 - Top(t)
<1>5. m \in s
  BY <1>4
<1>6. ASSUME NEW y \in s PROVE m <= y
  <2>1. n + 1 - y \in 1..n /\ n + 1 - (n + 1 - y) = y
    OBVIOUS
  <2>2. n + 1 - y \in t
    BY <2>1
  <2>3. Top(t) >= n + 1 - y /\ Top(t) \in 1..n
    BY <1>4, <2>2
  <2> QED BY <2>1, <2>3
<1> QED
  BY <1>5, <1>6

(* Of some indices, one has the greatest value a function takes on them.   *)
LEMMA GreatestExists ==
  ASSUME NEW n \in Nat, NEW f \in [1..n -> Int], NEW s \in SUBSET (1..n), s # {}
  PROVE  \E x \in s : \A y \in s : f[y] <= f[x]
<1> DEFINE Has(r) == \E x \in r : \A y \in r : f[y] <= f[x]
           T == {m \in Nat : m <= n => \A r \in SUBSET (1..m) : r # {} => Has(r)}
<1>1. 0 \in T
  <2>1. \A r \in SUBSET (1..0) : r = {}
    OBVIOUS
  <2> QED BY <2>1
<1>2. ASSUME NEW m \in Nat, m \in T PROVE m + 1 \in T
  <2>1. SUFFICES ASSUME m + 1 <= n, NEW r \in SUBSET (1..m + 1), r # {}
                 PROVE  Has(r)
    <3> HIDE DEF Has
    <3> QED OBVIOUS
  <2> DEFINE u == r \ {m + 1}
  <2>2. u \in SUBSET (1..m)
    OBVIOUS
  <2>3. CASE u = {}
    <3>1. r = {m + 1}
      BY <2>1, <2>3
    <3>2. f[m + 1] \in Int
      BY <2>1
    <3>3. f[m + 1] <= f[m + 1]
      BY <3>2
    <3> QED BY <3>1, <3>3
  <2>4. CASE u # {}
    <3>0. Has(u)
      <4>1. m <= n
        BY <2>1
      <4> HIDE DEF Has, u
      <4> QED BY <1>2, <2>2, <2>4, <4>1
    <3>1. PICK x \in u : \A y \in u : f[y] <= f[x]
      BY <3>0
    <3>2. \A y \in r : y \in 1..n /\ f[y] \in Int
      BY <2>1
    <3>3. x \in r
      OBVIOUS
    <3>4. CASE m + 1 \notin r \/ f[m + 1] <= f[x]
      BY <3>1, <3>2, <3>3, <3>4
    <3>5. CASE m + 1 \in r /\ ~(f[m + 1] <= f[x])
      <4>1. \A y \in r : f[y] <= f[m + 1]
        BY <3>1, <3>2, <3>3, <3>5
      <4> QED BY <3>5, <4>1
    <3> QED BY <3>4, <3>5
  <2> QED BY <2>3, <2>4
<1>3. Nat \subseteq T
  <2> HIDE DEF T
  <2> QED BY <1>1, <1>2, NatSet
<1>4. Has(s)
  <2>1. n \in T
    BY <1>3
  <2> HIDE DEF Has
  <2> QED BY <2>1
<1> QED
  BY <1>4

(* A fold has a value: the function that walks the sequence exists.        *)
LEMMA WalkExists ==
  ASSUME NEW base, NEW q, NEW p, NEW n \in Nat, DOMAIN q = 1..n
  PROVE  \E f : Walk(base, q, p, f)
<1> DEFINE W(m, f) == f = [s \in SUBSET (1..m) |->
                            IF s = {} THEN base ELSE Op(f[s \ {Top(s)}], q[Top(s)], p)]
           T == {m \in Nat : \E f : W(m, f)}
<1>1. 0 \in T
  <2> DEFINE f == [s \in SUBSET (1..0) |-> base]
  <2>1. SUBSET (1..0) = {{}}
    OBVIOUS
  <2>2. \A s \in SUBSET (1..0) : s = {}
    BY <2>1
  <2>3. W(0, f)
    BY <2>2
  <2> QED BY <2>3
<1>2. ASSUME NEW m \in Nat, m \in T PROVE m + 1 \in T
  <2>1. PICK f : W(m, f)
    BY <1>2
  <2> DEFINE g == [s \in SUBSET (1..m + 1) |->
                     IF m + 1 \in s THEN Op(f[s \ {m + 1}], q[m + 1], p) ELSE f[s]]
  <2>2. ASSUME NEW s \in SUBSET (1..m + 1)
        PROVE  g[s] = IF s = {} THEN base ELSE Op(g[s \ {Top(s)}], q[Top(s)], p)
    <3>1. CASE m + 1 \in s
      <4>1. Top(s) = m + 1
        BY <3>1, TopOf
      <4>2. s \ {m + 1} \in SUBSET (1..m + 1) /\ m + 1 \notin s \ {m + 1}
        OBVIOUS
      <4>3. g[s \ {m + 1}] = f[s \ {m + 1}]
        BY <4>2
      <4> QED BY <3>1, <4>1, <4>3
    <3>2. CASE m + 1 \notin s
      <4>1. s \in SUBSET (1..m)
        BY <3>2
      <4>2. g[s] = f[s]
        BY <3>2
      <4>3. f[s] = IF s = {} THEN base ELSE Op(f[s \ {Top(s)}], q[Top(s)], p)
        BY <2>1, <4>1
      <4>4. g[s \ {Top(s)}] = f[s \ {Top(s)}]
        BY <3>2
      <4> QED BY <4>2, <4>3, <4>4
    <3> QED BY <3>1, <3>2
  <2>3. W(m + 1, g)
    BY <2>2
  <2>4. \E x : W(m + 1, x)
    <3> HIDE DEF W
    <3> QED BY <2>3
  <2>5. m + 1 \in Nat
    OBVIOUS
  <2> HIDE DEF W, g
  <2> QED BY <2>4, <2>5
<1>3. Nat \subseteq T
  <2> HIDE DEF T
  <2> QED BY <1>1, <1>2, NatSet
<1>4. \E f : W(n, f)
  BY <1>3
<1> QED
  BY <1>4 DEF Walk

\* What the first k elements give.
After(base, q, p, k) == (CHOOSE f : Walk(base, q, p, f))[1..k]

(* A fold goes from its base to its value.                                 *)
LEMMA RunEnds ==
  ASSUME NEW base, NEW q, NEW p, NEW n \in Nat, DOMAIN q = 1..n
  PROVE  After(base, q, p, 0) = base /\ After(base, q, p, n) = Run(base, q, p)
<1> DEFINE f == CHOOSE g : Walk(base, q, p, g)
<1>1. Walk(base, q, p, f)
  BY WalkExists
<1>2. \A k : After(base, q, p, k) = f[1..k]
  BY DEF After
<1>3. Run(base, q, p) = After(base, q, p, n)
  BY DEF Run, After
<1> HIDE DEF f
<1>4. 1..0 = {}
  OBVIOUS
<1>5. f[{}] = base
  BY <1>1 DEF Walk
<1> QED
  BY <1>2, <1>3, <1>4, <1>5

(* It goes there one element at a time.                                    *)
LEMMA RunGoes ==
  ASSUME NEW base, NEW q, NEW p, NEW n \in Nat, DOMAIN q = 1..n, NEW k \in 1..n
  PROVE  After(base, q, p, k) = Op(After(base, q, p, k - 1), q[k], p)
<1> DEFINE f == CHOOSE g : Walk(base, q, p, g)
<1>1. Walk(base, q, p, f)
  BY WalkExists
<1>2. \A i : After(base, q, p, i) = f[1..i]
  BY DEF After
<1> HIDE DEF f
<1>3. 1..k \in SUBSET DOMAIN q /\ 1..k # {} /\ k \in Nat /\ k \in 1..k
  OBVIOUS
<1>4. Top(1..k) = k
  BY <1>3, TopOf
<1>5. (1..k) \ {k} = 1..(k - 1)
  OBVIOUS
<1>6. f[1..k] = Op(f[(1..k) \ {Top(1..k)}], q[Top(1..k)], p)
  BY <1>1, <1>3 DEF Walk
<1> QED
  BY <1>2, <1>4, <1>5, <1>6

(* What holds before a fold, and that every step of it keeps, holds after  *)
(* it: P relates how many elements have been taken and what they gave.     *)
LEMMA FoldKeeps ==
  ASSUME NEW base, NEW q, NEW p, NEW n \in Nat, DOMAIN q = 1..n, NEW P,
         <<0, base>> \in P,
         \A k \in 1..n : \A d : <<k - 1, d>> \in P => <<k, Op(d, q[k], p)>> \in P
  PROVE  <<n, Run(base, q, p)>> \in P
<1> DEFINE h == [k \in 0..n |-> After(base, q, p, k)]
<1>0. ASSUME NEW k \in 1..n PROVE After(base, q, p, k) = Op(After(base, q, p, k - 1), q[k], p)
  BY RunGoes
<1>1. /\ h[0] = base
      /\ \A k \in 1..n : h[k] = Op(h[k - 1], q[k], p)
      /\ Run(base, q, p) = h[n]
  BY <1>0, RunEnds
<1> HIDE DEF h
<1> DEFINE T == {k \in Nat : k <= n => <<k, h[k]>> \in P}
<1>2. 0 \in T
  BY <1>1
<1>3. ASSUME NEW j \in Nat, j \in T PROVE j + 1 \in T
  <2>1. CASE j + 1 <= n
    <3>1. j + 1 \in 1..n /\ (j + 1) - 1 = j
      BY <2>1
    <3>2. <<j, h[j]>> \in P
      BY <1>3, <2>1
    <3>3. <<j + 1, Op(h[j], q[j + 1], p)>> \in P
      BY <3>1, <3>2
    <3>4. h[j + 1] = Op(h[j], q[j + 1], p)
      BY <1>1, <3>1
    <3> QED BY <3>3, <3>4
  <2>2. CASE ~(j + 1 <= n)
    BY <2>2
  <2> QED BY <2>1, <2>2
<1>4. Nat \subseteq T
  <2> HIDE DEF T
  <2> QED BY <1>2, <1>3, NatSet
<1> QED
  BY <1>1, <1>4

(* The same of a set of the numbers up to n, for what needs no fold.       *)
LEMMA UpTo ==
  ASSUME NEW n \in Nat, NEW T, 0 \in T, \A k \in 1..n : k - 1 \in T => k \in T
  PROVE  n \in T
<1> DEFINE U == {k \in Nat : k <= n => k \in T}
<1>1. 0 \in U
  OBVIOUS
<1>2. ASSUME NEW j \in Nat, j \in U PROVE j + 1 \in U
  <2>1. CASE j + 1 <= n
    <3>1. j + 1 \in 1..n /\ (j + 1) - 1 = j /\ j \in T
      BY <1>2, <2>1
    <3> QED BY <3>1
  <2>2. CASE ~(j + 1 <= n)
    BY <2>2
  <2> QED BY <2>1, <2>2
<1>3. Nat \subseteq U
  <2> HIDE DEF U
  <2> QED BY <1>1, <1>2, NatSet
<1> QED
  BY <1>3
==============================================================================
