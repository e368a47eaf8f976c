------------------------------- MODULE NatFacts -------------------------------
(***************************************************************************)
(* Induction and recursion over the natural numbers, for functions and     *)
(* sets that are values: every set of natural numbers has a least member,  *)
(* so one that has 0 and the successor of what it has is all of them.      *)
(***************************************************************************)
EXTENDS Integers, WellFoundedInduction, TLAPS

\* A set of natural numbers with something in it has a least member.
LEMMA LeastNatural ==
    ASSUME NEW T \in SUBSET Nat, T # {}
    PROVE  \E x \in T : \A y \in T : ~(y < x)
<1> DEFINE R == OpToRel(<, Nat)
<1>1. IsWellFoundedOn(R, Nat)
  BY NatLessThanWellFounded
<1>2. \A x, y \in Nat : x < y => <<x, y>> \in R
  BY DEF OpToRel
<1> HIDE DEF R
<1>3. \E x \in T : \A y \in T : ~(<<y, x>> \in R)
  BY <1>1, WFMin
<1> QED  BY <1>2, <1>3

\* A set that has 0, and the successor of what it has, has every natural number.
LEMMA Induction ==
    ASSUME NEW T \in SUBSET Nat, 0 \in T, \A n \in T : n + 1 \in T
    PROVE  T = Nat
<1> SUFFICES ASSUME Nat \ T # {}  PROVE FALSE
  OBVIOUS
<1>1. PICK x \in Nat \ T : \A y \in Nat \ T : ~(y < x)
  BY LeastNatural
<1>2. x # 0 /\ x - 1 \in Nat /\ x - 1 \in T
  BY <1>1
<1> QED  BY <1>1, <1>2

\* f starts at base and each next value is what G makes of the last.
Iterates(f, S, base, n, G) ==
    /\ f \in [0 .. n -> S]
    /\ f[0] = base
    /\ \A i \in 1 .. n : f[i] = G[i][f[i - 1]]

\* There is such a function.
LEMMA Recursion ==
    ASSUME NEW S, NEW base \in S, NEW n \in Nat, NEW G \in [1 .. n -> [S -> S]]
    PROVE  \E f : Iterates(f, S, base, n, G)
<1> DEFINE Is(f, m) == f[0] = base /\ \A i \in 1 .. m : f[i] = G[i][f[i - 1]]
           Has(m) == m <= n => \E f \in [0 .. m -> S] : Is(f, m)
           T == {m \in Nat : Has(m)}
<1>1. Has(0)
  <2>1. [i \in 0 .. 0 |-> base] \in [0 .. 0 -> S] /\ Is([i \in 0 .. 0 |-> base], 0)
    OBVIOUS
  <2> QED  BY <2>1
<1>2. ASSUME NEW m \in Nat, Has(m)  PROVE Has(m + 1)
  <2> SUFFICES ASSUME m + 1 <= n  PROVE \E f \in [0 .. m + 1 -> S] : Is(f, m + 1)
    OBVIOUS
  <2>1. PICK f \in [0 .. m -> S] : Is(f, m)
    BY <1>2
  <2> DEFINE g == [i \in 0 .. m + 1 |-> IF i = m + 1 THEN G[m + 1][f[m]] ELSE f[i]]
  <2>2. g \in [0 .. m + 1 -> S]
    BY <2>1
  <2>3. Is(g, m + 1)
    BY <2>1
  <2> QED  BY <2>2, <2>3
<1> HIDE DEF Has
<1>3. T = Nat
  <2>1. T \in SUBSET Nat /\ 0 \in T
    BY <1>1
  <2>2. \A m \in T : m + 1 \in T
    BY <1>2
  <2> HIDE DEF T
  <2> QED  BY <2>1, <2>2, Induction
<1>4. Has(n)
  BY <1>3
<1>5. \E f \in [0 .. n -> S] : Is(f, n)
  BY <1>4 DEF Has
<1> QED  BY <1>5, Zenon DEF Iterates

\* f starts at base, and each value is what G makes of the one before, for ever.
Unfolds(f, S, base, G) == f \in [Nat -> S] /\ f[0] = base /\ \A n \in Nat : f[n + 1] = G[f[n]]

\* There is such a function on all of the natural numbers.
LEMMA Unending ==
    ASSUME NEW S, NEW base \in S, NEW G \in [S -> S]
    PROVE  \E f : Unfolds(f, S, base, G)
<1> DEFINE Is(f, n) == f[0] = base /\ \A i \in 1 .. n : f[i] = G[f[i - 1]]
           Upto(n) == CHOOSE f \in [0 .. n -> S] : Is(f, n)
           f == [n \in Nat |-> Upto(n)[n]]
<1>1. \A n \in Nat : Upto(n) \in [0 .. n -> S] /\ Is(Upto(n), n)
  <2> SUFFICES ASSUME NEW n \in Nat  PROVE Upto(n) \in [0 .. n -> S] /\ Is(Upto(n), n)
    OBVIOUS
  <2> DEFINE GG == [i \in 1 .. n |-> G]
  <2>1. GG \in [1 .. n -> [S -> S]] /\ \A i \in 1 .. n : GG[i] = G
    OBVIOUS
  <2> HIDE DEF GG
  <2>2. PICK g : Iterates(g, S, base, n, GG)
    BY <2>1, Recursion
  <2>3. g \in [0 .. n -> S] /\ Is(g, n)
    BY <2>1, <2>2 DEF Iterates
  <2> HIDE DEF Is
  <2> QED  BY <2>3
<1> HIDE DEF Upto
<1>2. \A n \in Nat : Upto(n + 1)[n] = Upto(n)[n]
  <2> SUFFICES ASSUME NEW n \in Nat  PROVE Upto(n + 1)[n] = Upto(n)[n]
    OBVIOUS
  <2> DEFINE g == Upto(n)
             h == Upto(n + 1)
             T == {i \in Nat : i <= n => g[i] = h[i]}
  <2>1. Is(g, n) /\ Is(h, n + 1)
    <3>1. n + 1 \in Nat
      OBVIOUS
    <3> HIDE DEF Is
    <3> QED  BY <1>1, <3>1
  <2> HIDE DEF g, h
  <2>2. 0 \in T /\ T \in SUBSET Nat
    BY <2>1
  <2>3. ASSUME NEW i \in T  PROVE i + 1 \in T
    <3> SUFFICES ASSUME i + 1 <= n  PROVE g[i + 1] = h[i + 1]
      OBVIOUS
    <3>1. i + 1 \in 1 .. n /\ i + 1 \in 1 .. n + 1 /\ (i + 1) - 1 = i /\ g[i] = h[i]
      OBVIOUS
    <3>2. g[i + 1] = G[g[(i + 1) - 1]] /\ h[i + 1] = G[h[(i + 1) - 1]]
      BY <2>1, <3>1
    <3> QED  BY <3>1, <3>2
  <2> HIDE DEF T
  <2>4. T = Nat
    BY <2>2, <2>3, Induction
  <2>5. n \in T
    BY <2>4
  <2> QED  BY <2>5 DEF T, g, h
<1>3. f \in [Nat -> S] /\ f[0] = base
  BY <1>1
<1>4. ASSUME NEW n \in Nat  PROVE f[n + 1] = G[f[n]]
  <2>1. n + 1 \in Nat /\ n + 1 \in 1 .. n + 1 /\ (n + 1) - 1 = n
    OBVIOUS
  <2>2. Upto(n + 1)[n + 1] = G[Upto(n + 1)[(n + 1) - 1]]
    BY <1>1, <2>1
  <2> QED  BY <1>2, <2>1, <2>2
<1> HIDE DEF f
<1>5. Unfolds(f, S, base, G)
  BY <1>3, <1>4 DEF Unfolds
<1> QED  BY <1>5

=============================================================================
