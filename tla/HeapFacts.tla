------------------------------ MODULE HeapFacts ------------------------------
(***************************************************************************)
(* Facts about the operators of HeapOps that the proofs about the engines  *)
(* share: what placing an array and collecting do to the slots, to the     *)
(* free list, to the handles somebody holds and to the bytes in use.       *)
(*                                                                         *)
(* The bytes of a heap and the list of dead slots are recursive functions  *)
(* over the slots.                                                         *)
(***************************************************************************)
EXTENDS HeapOps, NatFacts

-----------------------------------------------------------------------------
(* The bytes of a heap. *)

\* The recursive function TotalBytes is read from.
Totals(h) ==
    CHOOSE total : total = [i \in 0 .. Len(h) |->
                               IF i = 0 THEN 0 ELSE total[i - 1] + Bytes(h[i])]

\* One more number on what a running total has come to.
Adds(t, n, w) == [i \in 0 .. n |-> IF i = 0 THEN 0 ELSE t[i - 1] + w[i]]

\* t is the running total of n numbers.
Sum(t, n, w) ==
    /\ t \in [0 .. n -> Nat]
    /\ t[0] = 0
    /\ \A i \in 1 .. n : t[i] = t[i - 1] + w[i]

\* Running totals of n numbers exist,
LEMMA SumsExist ==
    ASSUME NEW n \in Nat, NEW w \in [1 .. n -> Nat]
    PROVE  \E t : t = Adds(t, n, w)
<1> DEFINE G == [i \in 1 .. n |-> [x \in Nat |-> x + w[i]]]
<1>1. G \in [1 .. n -> [Nat -> Nat]] /\ 0 \in Nat
  OBVIOUS
<1>2. \A x \in Nat, i \in 1 .. n : G[i][x] = x + w[i]
  OBVIOUS
<1> HIDE DEF G
<1>3. PICK f : Iterates(f, Nat, 0, n, G)
  BY <1>1, Recursion
<1>4. ASSUME NEW i \in 0 .. n  PROVE f[i] = IF i = 0 THEN 0 ELSE f[i - 1] + w[i]
  <2>1. CASE i = 0  BY <1>3, <2>1 DEF Iterates
  <2>2. CASE i # 0
    <3>1. i \in 1 .. n /\ f[i - 1] \in Nat  BY <1>3, <2>2 DEF Iterates
    <3>2. f[i] = G[i][f[i - 1]]  BY <1>3, <3>1 DEF Iterates
    <3> QED  BY <1>2, <2>2, <3>1, <3>2
  <2> QED  BY <2>1, <2>2
<1>5. f = Adds(f, n, w)
  BY <1>3, <1>4 DEF Iterates, Adds
<1> QED  BY <1>5

\* and are numbers.
LEMMA Sums ==
    ASSUME NEW n \in Nat, NEW w \in [1 .. n -> Nat], NEW total, total = Adds(total, n, w)
    PROVE  Sum(total, n, w)
<1>1. total[0] = 0 /\ \A i \in 1 .. n : total[i] = total[i - 1] + w[i]
  <2>1. 0 \in 0 .. n /\ \A i \in 1 .. n : i \in 0 .. n /\ i # 0
    OBVIOUS
  <2> QED  BY <2>1, Zenon DEF Adds
<1> DEFINE T == {i \in Nat : i <= n => total[i] \in Nat}
<1>2. 0 \in T /\ T \in SUBSET Nat
  BY <1>1
<1>3. ASSUME NEW i \in T  PROVE i + 1 \in T
  <2> SUFFICES ASSUME i + 1 <= n  PROVE total[i + 1] \in Nat
    OBVIOUS
  <2>1. i + 1 \in 1 .. n /\ (i + 1) - 1 = i /\ total[i] \in Nat
    BY <1>3
  <2>2. total[i + 1] = total[i] + w[i + 1]
    BY <1>1, <2>1
  <2> QED  BY <2>1, <2>2
<1>4. \A i \in 0 .. n : total[i] \in Nat
  <2> HIDE DEF T
  <2>1. T = Nat
    BY <1>2, <1>3, Induction
  <2>2. \A i \in Nat : i <= n => total[i] \in Nat
    BY <2>1 DEF T
  <2> QED  BY <2>2
<1>5. total \in [0 .. n -> Nat]
  BY <1>4, Zenon DEF Adds
<1> QED  BY <1>1, <1>5 DEF Sum

\* The recursive function TotalBytes is read from: defined, a number at every
\* slot, and TotalBytes is its last.
LEMMA TotalsDefined ==
    ASSUME NEW h, Len(h) \in Nat, \A i \in 1 .. Len(h) : Bytes(h[i]) \in Nat
    PROVE  /\ Sum(Totals(h), Len(h), [i \in 1 .. Len(h) |-> Bytes(h[i])])
           /\ TotalBytes(h) = Totals(h)[Len(h)]
<1> DEFINE n == Len(h)
           w == [i \in 1 .. n |-> Bytes(h[i])]
           Plain(f) == [i \in 0 .. n |-> IF i = 0 THEN 0 ELSE f[i - 1] + Bytes(h[i])]
<1>1. TotalBytes(h) = Totals(h)[n]
  BY Zenon DEF TotalBytes, Totals
<1>2. Totals(h) = CHOOSE total : total = Plain(total)
  BY Zenon DEF Totals
<1>3. n \in Nat /\ \A i \in 1 .. n : Bytes(h[i]) \in Nat
  OBVIOUS
<1> HIDE DEF n
<1>4. w \in [1 .. n -> Nat] /\ \A i \in 1 .. n : w[i] = Bytes(h[i])
  BY <1>3, Zenon
<1>5. \A i \in 0 .. n : i # 0 => i \in 1 .. n
  BY <1>3, SMT
<1> HIDE DEF w
<1>6. \A f : Adds(f, n, w) = Plain(f)
  BY <1>4, <1>5, Zenon DEF Adds
<1>7. Totals(h) = Adds(Totals(h), n, w)
  <2>1. \E t : t = Adds(t, n, w)
    BY <1>3, <1>4, SumsExist, Zenon
  <2> HIDE DEF Plain
  <2> QED  BY <1>2, <1>6, <2>1, Zenon
<1>8. Sum(Totals(h), n, w)
  BY <1>3, <1>4, <1>7, Sums, Zenon
<1> QED  BY <1>1, <1>8, Zenon DEF n, w

\* The m numbers v are the n numbers w with more at p, or one more at the end.
OnePlaced(n, w, m, v, p) ==
    /\ n \in Nat /\ w \in [1 .. n -> Nat]
    /\ m \in Nat /\ v \in [1 .. m -> Nat]
    /\ p \in 1 .. m
    /\ \A i \in 1 .. n : v[i] = IF i = p THEN w[i] + v[p] ELSE w[i]
    /\ m = n \/ (m = n + 1 /\ p = m)

\* The sum is then that much more.
LEMMA SumsPlaced ==
    ASSUME NEW n, NEW w, NEW m, NEW v, NEW p, OnePlaced(n, w, m, v, p),
           NEW s, Sum(s, n, w), NEW t, Sum(t, m, v)
    PROVE  t[m] = s[n] + v[p]
<1> USE DEF OnePlaced
<1> DEFINE T == {i \in Nat : i <= n => t[i] = s[i] + (IF p <= i THEN v[p] ELSE 0)}
<1>1. 0 \in T /\ T \in SUBSET Nat
  <2>1. s[0] = 0 /\ t[0] = 0 /\ ~(p <= 0)
    BY DEF Sum
  <2> QED  BY <2>1
<1>2. ASSUME NEW i \in T  PROVE i + 1 \in T
  <2> SUFFICES ASSUME i + 1 <= n
               PROVE  t[i + 1] = s[i + 1] + (IF p <= i + 1 THEN v[p] ELSE 0)
    OBVIOUS
  <2>1. /\ i \in Nat /\ i + 1 \in 1 .. n /\ i + 1 \in 1 .. m /\ (i + 1) - 1 = i
        /\ t[i] = s[i] + (IF p <= i THEN v[p] ELSE 0)
    BY <1>2
  <2> HIDE DEF T
  <2>2. s[i] \in Nat /\ t[i] \in Nat /\ v[p] \in Nat /\ w[i + 1] \in Nat
    <3>1. i \in 0 .. n /\ i \in 0 .. m
      BY <2>1
    <3>2. s \in [0 .. n -> Nat] /\ t \in [0 .. m -> Nat]
      BY DEF Sum
    <3> QED  BY <2>1, <3>1, <3>2
  <2>3. s[i + 1] = s[i] + w[i + 1] /\ t[i + 1] = t[i] + v[i + 1]
    BY <2>1 DEF Sum
  <2>4. v[i + 1] = IF i + 1 = p THEN w[i + 1] + v[p] ELSE w[i + 1]
    BY <2>1
  <2>5. t[i + 1] = s[i + 1] + (IF p <= i + 1 THEN v[p] ELSE 0)
    BY <2>1, <2>2, <2>3, <2>4
  <2> QED  BY <2>5
<1>3. n \in T
  <2> HIDE DEF T
  <2> QED  BY <1>1, <1>2, Induction
<1>4. t[n] = s[n] + (IF p <= n THEN v[p] ELSE 0) /\ s[n] \in Nat
  BY <1>3 DEF Sum
<1>5. CASE m = n
  BY <1>4, <1>5
<1>6. CASE m = n + 1 /\ p = m
  <2>1. t[m] = t[n] + v[m]
    BY <1>6 DEF Sum
  <2> QED  BY <1>4, <1>6, <2>1
<1> QED  BY <1>5, <1>6

-----------------------------------------------------------------------------
(* Slots, the free list and handles. *)

\* The slots of arrays whose element types are in D, of values in V.
Slot(D, V) == [of : D, store : Seq(V), id : Nat]

\* A slot on the free list is there once, empty, and nobody's array.
FreeSound(h, fr) ==
    /\ fr \in Seq(1 .. Len(h))
    /\ \A j, k \in DOMAIN fr : j # k => fr[j] # fr[k]
    /\ \A j \in DOMAIN fr : h[fr[j]].store = <<>> /\ h[fr[j]].id = 0

\* place uses a slot that was free, or a new one at the end, and leaves every
\* other slot alone.
LEMMA Placed ==
    ASSUME NEW D, NEW V, NEW h \in Seq(Slot(D, V)), NEW fr, FreeSound(h, fr),
           NEW a \in Slot(D, V)
    PROVE  /\ PlacedHeap(h, fr, a) \in Seq(Slot(D, V))
           /\ PlaceAt(h, fr) \in 1 .. Len(PlacedHeap(h, fr, a))
           /\ PlacedHeap(h, fr, a)[PlaceAt(h, fr)] = a
           /\ \A i \in 1 .. Len(h) : i # PlaceAt(h, fr) => PlacedHeap(h, fr, a)[i] = h[i]
           /\ PlaceAt(h, fr) \in 1 .. Len(h) =>
                /\ fr # <<>> /\ PlaceAt(h, fr) = fr[Len(fr)] /\ Len(fr) \in DOMAIN fr
                /\ h[PlaceAt(h, fr)].id = 0 /\ h[PlaceAt(h, fr)].store = <<>>
           /\ \/ Len(PlacedHeap(h, fr, a)) = Len(h)
              \/ /\ Len(PlacedHeap(h, fr, a)) = Len(h) + 1
                 /\ PlaceAt(h, fr) = Len(h) + 1
<1>1. Len(h) \in Nat /\ fr \in Seq(1 .. Len(h))
  BY DEF FreeSound
<1>2. CASE fr = <<>>
  <2>1. PlacedHeap(h, fr, a) = Append(h, a) /\ PlaceAt(h, fr) = Len(h) + 1
    BY <1>2 DEF PlacedHeap, PlaceAt
  <2>2. /\ Append(h, a) \in Seq(Slot(D, V)) /\ Len(Append(h, a)) = Len(h) + 1
        /\ Append(h, a)[Len(h) + 1] = a
        /\ \A i \in 1 .. Len(h) : Append(h, a)[i] = h[i]
    BY <1>1
  <2> QED  BY <1>1, <2>1, <2>2
<1>3. CASE fr # <<>>
  <2> DEFINE p == fr[Len(fr)]
  <2>1. Len(fr) \in DOMAIN fr /\ p \in 1 .. Len(h)
    BY <1>1, <1>3
  <2>2. PlacedHeap(h, fr, a) = [h EXCEPT ![p] = a] /\ PlaceAt(h, fr) = p
    BY <1>3 DEF PlacedHeap, PlaceAt
  <2>3. h[p].id = 0 /\ h[p].store = <<>>
    BY <2>1 DEF FreeSound
  <2> HIDE DEF p
  <2>4. /\ [h EXCEPT ![p] = a] \in Seq(Slot(D, V)) /\ Len([h EXCEPT ![p] = a]) = Len(h)
        /\ [h EXCEPT ![p] = a][p] = a
        /\ \A i \in 1 .. Len(h) : i # p => [h EXCEPT ![p] = a][i] = h[i]
    BY <2>1
  <2> QED  BY <1>3, <2>1, <2>2, <2>3, <2>4 DEF p
<1> QED  BY <1>2, <1>3

\* The free list after place: what it handed out is gone from it.
LEMMA PlacedFreeSound ==
    ASSUME NEW D, NEW V, NEW h \in Seq(Slot(D, V)), NEW fr, FreeSound(h, fr),
           NEW a \in Slot(D, V)
    PROVE  FreeSound(PlacedHeap(h, fr, a), PlacedFree(fr))
<1> DEFINE h2 == PlacedHeap(h, fr, a)
           f2 == PlacedFree(fr)
           p  == PlaceAt(h, fr)
<1>1. /\ h2 \in Seq(Slot(D, V)) /\ Len(h2) \in Nat /\ Len(h) \in Nat /\ Len(h) <= Len(h2)
      /\ \A i \in 1 .. Len(h) : i # p => h2[i] = h[i]
      /\ fr # <<>> => p = fr[Len(fr)]
  BY Placed DEF PlaceAt
<1>2. fr \in Seq(1 .. Len(h))
  BY DEF FreeSound
<1>3. /\ f2 \in Seq(1 .. Len(h))
      /\ \A j \in DOMAIN f2 : j \in DOMAIN fr /\ f2[j] = fr[j] /\ j # Len(fr) /\ fr # <<>>
  <2>1. CASE fr = <<>>
    BY <2>1 DEF PlacedFree
  <2>2. CASE fr # <<>>
    <3>1. Len(fr) \in Nat \ {0} /\ f2 = SubSeq(fr, 1, Len(fr) - 1)
      BY <1>2, <2>2 DEF PlacedFree
    <3> QED  BY <1>2, <2>2, <3>1
  <2> QED  BY <2>1, <2>2
<1> HIDE DEF h2, f2, p
<1>4. ASSUME NEW j \in DOMAIN f2
      PROVE  f2[j] \in 1 .. Len(h) /\ f2[j] # p /\ h2[f2[j]] = h[f2[j]]
  <2>1. f2[j] \in 1 .. Len(h)
    BY <1>3
  <2>2. Len(fr) \in DOMAIN fr
    BY <1>2, <1>3
  <2>3. f2[j] # p
    BY <1>1, <1>3, <2>2 DEF FreeSound
  <2> QED  BY <1>1, <2>1, <2>3
<1>5. f2 \in Seq(1 .. Len(h2))
  BY <1>1, <1>3
<1>6. \A j, k \in DOMAIN f2 : j # k => f2[j] # f2[k]
  BY <1>3 DEF FreeSound
<1>7. \A j \in DOMAIN f2 : h2[f2[j]].store = <<>> /\ h2[f2[j]].id = 0
  BY <1>3, <1>4 DEF FreeSound
<1> QED  BY <1>5, <1>6, <1>7 DEF FreeSound, h2, f2

\* A good handle stays good when an array is placed, and the new array's is good.
LEMMA PlacedGood ==
    ASSUME NEW D, NEW V, NEW h \in Seq(Slot(D, V)), NEW fr, FreeSound(h, fr),
           NEW a \in Slot(D, V)
    PROVE  /\ \A v : Good(h, v) => Good(PlacedHeap(h, fr, a), v)
           /\ \A d : a.id # 0 =>
                Good(PlacedHeap(h, fr, a), HandleOf(d, PlaceAt(h, fr), a.id))
<1> DEFINE h2 == PlacedHeap(h, fr, a)
           p  == PlaceAt(h, fr)
<1>1. /\ Len(h2) \in Nat /\ Len(h) \in Nat /\ Len(h) <= Len(h2)
      /\ p \in 1 .. Len(h2) /\ h2[p] = a
      /\ \A i \in 1 .. Len(h) : i # p => h2[i] = h[i]
      /\ p \in 1 .. Len(h) => h[p].id = 0
  BY Placed
<1> HIDE DEF h2, p
<1>2. ASSUME NEW v, Good(h, v)  PROVE Good(h2, v)
  BY <1>1, <1>2 DEF Good
<1>3. ASSUME NEW d, a.id # 0  PROVE Good(h2, HandleOf(d, p, a.id))
  BY <1>1, <1>3 DEF Good, HandleOf, IsArray
<1> QED  BY <1>2, <1>3 DEF h2, p

\* The bytes in use are a number, and place adds the new array's to them.
LEMMA PlacedBytes ==
    ASSUME NEW D, NEW V, NEW h \in Seq(Slot(D, V)), NEW fr, FreeSound(h, fr),
           NEW a \in Slot(D, V)
    PROVE  /\ TotalBytes(h) \in Nat
           /\ TotalBytes(PlacedHeap(h, fr, a)) = TotalBytes(h) + Bytes(a)
<1> DEFINE h2 == PlacedHeap(h, fr, a)
           p  == PlaceAt(h, fr)
<1>a. Len(h) \in Nat
  OBVIOUS
<1>b. h2 \in Seq(Slot(D, V)) /\ p \in 1 .. Len(h2) /\ h2[p] = a
  BY Placed
<1>c. \A i \in 1 .. Len(h) : i # p => h2[i] = h[i]
  BY Placed
<1>d. p \in 1 .. Len(h) => h[p].store = <<>>
  BY Placed
<1>e. Len(h2) = Len(h) \/ (Len(h2) = Len(h) + 1 /\ p = Len(h) + 1)
  BY Placed
<1> HIDE DEF h2, p
<1>f. Len(h2) \in Nat
  BY <1>b
<1> DEFINE n == Len(h)
           m == Len(h2)
<1>1. /\ n \in Nat /\ m \in Nat /\ h2 \in Seq(Slot(D, V))
      /\ p \in 1 .. m /\ h2[p] = a
      /\ \A i \in 1 .. n : i # p => h2[i] = h[i]
      /\ p \in 1 .. n => h[p].store = <<>>
      /\ m = n \/ (m = n + 1 /\ p = n + 1)
  BY <1>a, <1>b, <1>c, <1>d, <1>e, <1>f, Zenon
<1> DEFINE w == [i \in 1 .. n |-> Bytes(h[i])]
           v == [i \in 1 .. m |-> Bytes(h2[i])]
<1>2. \A b \in Slot(D, V) : Bytes(b) \in Nat
  BY DEF Slot, Bytes
<1>3. (\A i \in 1 .. n : Bytes(h[i]) \in Nat) /\ (\A i \in 1 .. m : Bytes(h2[i]) \in Nat)
  <2> DEFINE S == Slot(D, V)
  <2>1. \A i \in 1 .. n : h[i] \in S
    <3>1. h \in Seq(S)
      OBVIOUS
    <3> HIDE DEF S
    <3> QED  BY <3>1
  <2>2. \A i \in 1 .. m : h2[i] \in S
    <3>1. h2 \in Seq(S)
      BY <1>1
    <3> HIDE DEF S
    <3> QED  BY <3>1
  <2> QED  BY <1>2, <2>1, <2>2
<1>4. p \in 1 .. n => Bytes(h[p]) = 0
  BY <1>1 DEF Bytes
<1>5. Sum(Totals(h), n, w) /\ TotalBytes(h) = Totals(h)[n]
  BY <1>1, <1>3, TotalsDefined, Zenon
<1>6. Sum(Totals(h2), m, v) /\ TotalBytes(h2) = Totals(h2)[m]
  BY <1>1, <1>3, TotalsDefined, Zenon
<1> HIDE DEF h2, p, n, m
<1>7. w \in [1 .. n -> Nat] /\ v \in [1 .. m -> Nat]
  BY <1>3
<1>8. \A i \in 1 .. n : v[i] = IF i = p THEN w[i] + v[p] ELSE w[i]
  <2> SUFFICES ASSUME NEW i \in 1 .. n  PROVE v[i] = IF i = p THEN w[i] + v[p] ELSE w[i]
    OBVIOUS
  <2>1. i \in 1 .. m /\ w[i] = Bytes(h[i]) /\ v[i] = Bytes(h2[i]) /\ v[i] \in Nat
    BY <1>1, <1>3
  <2>2. CASE i = p  BY <1>4, <2>1, <2>2
  <2>3. CASE i # p  BY <1>1, <2>1, <2>3
  <2> QED  BY <2>2, <2>3
<1>9. v[p] = Bytes(a) /\ (m = n \/ (m = n + 1 /\ p = m))
  BY <1>1
<1> HIDE DEF w, v
<1>10. Totals(h2)[m] = Totals(h)[n] + v[p]
  <2>1. OnePlaced(n, w, m, v, p)
    BY <1>1, <1>7, <1>8, <1>9 DEF OnePlaced
  <2> QED  BY <1>5, <1>6, <2>1, SumsPlaced
<1>11. Totals(h)[n] \in Nat
  BY <1>1, <1>5 DEF Sum
<1> QED  BY <1>5, <1>6, <1>9, <1>10, <1>11 DEF h2

-----------------------------------------------------------------------------
(* What a collection leaves. *)

\* The slots the sweep gives up.
Given(h, roots) == {i \in 1 .. Len(h) : Sweepable(h, Live(h, Noted(h, roots)), i)}

\* One more slot looked at.
Picking(s, i, T) == IF i \in T THEN Append(s, i) ELSE s

Picked(d, n, T) == [i \in 0 .. n |-> IF i = 0 THEN <<>> ELSE Picking(d[i - 1], i, T)]

\* Members of T no greater than i, in order.
Rising(s, i, T) ==
    /\ s \in Seq(T)
    /\ \A j \in DOMAIN s : s[j] <= i
    /\ \A j, k \in DOMAIN s : j < k => s[j] < s[k]

\* One more slot keeps them in order.
LEMMA RisingOn ==
    ASSUME NEW n \in Nat, NEW T \in SUBSET (1 .. n), NEW i \in 1 .. n,
           NEW s, Rising(s, i - 1, T)
    PROVE  Rising(Picking(s, i, T), i, T)
<1>1. /\ s \in Seq(T) /\ Len(s) \in Nat /\ DOMAIN s = 1 .. Len(s)
      /\ \A j \in DOMAIN s : s[j] \in T
  BY DEF Rising
<1>2. CASE i \in T
  <2> DEFINE a == Append(s, i)
  <2>1. /\ a \in Seq(T) /\ DOMAIN a = 1 .. Len(s) + 1 /\ a[Len(s) + 1] = i
        /\ \A j \in DOMAIN s : a[j] = s[j]
    BY <1>1, <1>2
  <2> HIDE DEF a
  <2>2. \A j \in DOMAIN a : j = Len(s) + 1 \/ j \in DOMAIN s
    BY <1>1, <2>1
  <2>3. \A j \in DOMAIN s : s[j] \in 1 .. n /\ s[j] <= i - 1
    <3>1. \A j \in DOMAIN s : s[j] \in 1 .. n
      BY <1>1
    <3> QED  BY <3>1 DEF Rising
  <2>4. \A j \in DOMAIN a : a[j] <= i
    BY <2>1, <2>2, <2>3
  <2>5. ASSUME NEW j \in DOMAIN a, NEW k \in DOMAIN a, j < k  PROVE a[j] < a[k]
    <3>1. CASE k = Len(s) + 1
      <4>1. j \in DOMAIN s  BY <1>1, <2>1, <2>5, <3>1
      <4> QED  BY <2>1, <2>3, <3>1, <4>1
    <3>2. CASE k \in DOMAIN s
      <4>1. j \in DOMAIN s  BY <1>1, <2>1, <2>5, <3>2
      <4> QED  BY <2>1, <2>5, <3>2, <4>1 DEF Rising
    <3> QED  BY <2>2, <3>1, <3>2
  <2>6. Rising(a, i, T)
    BY <2>1, <2>4, <2>5 DEF Rising
  <2> QED  BY <1>2, <2>6 DEF Picking, a
<1>3. CASE i \notin T
  <2>1. \A j \in DOMAIN s : s[j] \in 1 .. n /\ s[j] <= i - 1
    <3>1. \A j \in DOMAIN s : s[j] \in 1 .. n
      BY <1>1
    <3> QED  BY <3>1 DEF Rising
  <2>2. \A j \in DOMAIN s : s[j] <= i
    BY <2>1
  <2> QED  BY <1>3, <2>2 DEF Rising, Picking
<1> QED  BY <1>2, <1>3

\* The members of a set picked in turn exist,
LEMMA PicksExist ==
    ASSUME NEW n \in Nat, NEW T \in SUBSET (1 .. n)
    PROVE  \E d : d = Picked(d, n, T)
<1> DEFINE S == Seq(1 .. n)
           G == [i \in 1 .. n |-> [s \in S |-> Picking(s, i, T)]]
<1>1. <<>> \in S
  OBVIOUS
<1>2. \A s \in S, i \in 1 .. n : Picking(s, i, T) \in S
  <2>1. \A s \in S, i \in 1 .. n : Append(s, i) \in S
    OBVIOUS
  <2> HIDE DEF S
  <2> QED  BY <2>1 DEF Picking
<1> HIDE DEF S
<1>3. G \in [1 .. n -> [S -> S]] /\ \A s \in S, i \in 1 .. n : G[i][s] = Picking(s, i, T)
  BY <1>2
<1> HIDE DEF G
<1>4. PICK f : Iterates(f, S, <<>>, n, G)
  BY <1>1, <1>3, Recursion
<1>5. ASSUME NEW i \in 0 .. n
      PROVE  f[i] = IF i = 0 THEN <<>> ELSE Picking(f[i - 1], i, T)
  <2>1. CASE i = 0  BY <1>4, <2>1 DEF Iterates
  <2>2. CASE i # 0
    <3>1. i \in 1 .. n /\ f[i - 1] \in S  BY <1>4, <2>2 DEF Iterates
    <3>2. f[i] = G[i][f[i - 1]]  BY <1>4, <3>1 DEF Iterates
    <3> QED  BY <1>3, <2>2, <3>1, <3>2
  <2> QED  BY <2>1, <2>2
<1>6. f \in [0 .. n -> S]
  BY <1>4 DEF Iterates
<1>7. f = Picked(f, n, T)
  BY <1>5, <1>6, Zenon DEF Picked
<1> QED  BY <1>7

\* and are members of it in order.
LEMMA Picks ==
    ASSUME NEW n \in Nat, NEW T \in SUBSET (1 .. n), NEW d, d = Picked(d, n, T)
    PROVE  Rising(d[n], n, T)
<1> DEFINE X == {i \in Nat : i <= n => Rising(d[i], i, T)}
<1>1. d[0] = <<>> /\ \A i \in 1 .. n : d[i] = Picking(d[i - 1], i, T)
  <2>1. 0 \in 0 .. n /\ \A i \in 1 .. n : i \in 0 .. n /\ i # 0
    OBVIOUS
  <2> QED  BY <2>1, Zenon DEF Picked
<1>2. Rising(<<>>, 0, T)
  BY DEF Rising
<1>3. 0 \in X /\ X \in SUBSET Nat
  BY <1>1, <1>2
<1>4. ASSUME NEW i \in X  PROVE i + 1 \in X
  <2> SUFFICES ASSUME i + 1 <= n  PROVE Rising(d[i + 1], i + 1, T)
    OBVIOUS
  <2>1. i + 1 \in 1 .. n /\ (i + 1) - 1 = i /\ Rising(d[i], i, T)
    BY <1>4
  <2>2. Rising(Picking(d[i], i + 1, T), i + 1, T)
    BY <2>1, RisingOn
  <2>3. d[i + 1] = Picking(d[i], i + 1, T)
    BY <1>1, <2>1
  <2> QED  BY <2>2, <2>3
<1>5. X = Nat
  <2> HIDE DEF X
  <2> QED  BY <1>3, <1>4, Induction
<1> QED  BY <1>5

\* The dead slots are the ones the sweep gives up, in order.
LEMMA DeadRises ==
    ASSUME NEW h, Len(h) \in Nat, NEW roots
    PROVE  Rising(Dead(h, roots), Len(h), Given(h, roots))
<1> DEFINE n == Len(h)
           T == Given(h, roots)
           marked == Live(h, Noted(h, roots))
           Plain(d) == [i \in 0 .. n |-> IF i = 0 THEN <<>>
                                         ELSE IF Sweepable(h, marked, i)
                                              THEN Append(d[i - 1], i) ELSE d[i - 1]]
           last == CHOOSE d : d = Plain(d)
<1>1. Dead(h, roots) = last[n]
  BY Zenon DEF Dead
<1>2. n \in Nat
  OBVIOUS
<1>3. \A i : i \in T <=> i \in 1 .. n /\ Sweepable(h, marked, i)
  BY Zenon DEF Given
<1>4. T \in SUBSET (1 .. n)
  BY <1>3
<1> HIDE DEF n, T, marked
<1>5. \A i \in 0 .. n : i # 0 => i \in 1 .. n
  BY <1>2
<1>6. \A d : Picked(d, n, T) = Plain(d)
  <2> SUFFICES ASSUME NEW d  PROVE Picked(d, n, T) = Plain(d)
    OBVIOUS
  <2>1. ASSUME NEW i \in 0 .. n
        PROVE  (IF i = 0 THEN <<>> ELSE Picking(d[i - 1], i, T))
                 = (IF i = 0 THEN <<>> ELSE IF Sweepable(h, marked, i)
                                            THEN Append(d[i - 1], i) ELSE d[i - 1])
    <3>1. i # 0 => (i \in T <=> Sweepable(h, marked, i))
      BY <1>3, <1>5
    <3> QED  BY <3>1, Zenon DEF Picking
  <2> QED  BY <2>1, Zenon DEF Picked
<1>7. \E d : d = Picked(d, n, T)
  BY <1>2, <1>4, PicksExist
<1> HIDE DEF Plain
<1>8. last = Picked(last, n, T)
  BY <1>6, <1>7, Zenon
<1> HIDE DEF last
<1>9. Rising(last[n], n, T)
  BY <1>2, <1>4, <1>8, Picks
<1> QED  BY <1>1, <1>9, Zenon DEF n, T

\* Every marked root is live.
LEMMA RootsLive ==
    ASSUME NEW h, NEW roots, NEW v \in roots, IsArray(v), v.bits \in 1 .. Len(h)
    PROVE  v.bits \in Live(h, Noted(h, roots))
<1>1. v.bits \in Noted(h, roots)
  BY DEF Noted
<1> QED  BY <1>1 DEF Live

\* A collection leaves as many slots, each as it was or empty, keeps what its
\* roots name, and puts on the free list only what is nobody's.
LEMMA Collected ==
    ASSUME NEW D, NEW V, NEW h \in Seq(Slot(D, V)), NEW fr, FreeSound(h, fr), NEW roots
    PROVE  /\ SweptHeap(h, roots) \in Seq(Slot(D, V))
           /\ Len(SweptHeap(h, roots)) = Len(h)
           /\ FreeSound(SweptHeap(h, roots), SweptFree(h, fr, roots))
           /\ \A v \in roots : Good(h, v) => Good(SweptHeap(h, roots), v)
<1> DEFINE n == Len(h)
           h2 == SweptHeap(h, roots)
           T  == Given(h, roots)
           d  == Dead(h, roots)
<1>1. n \in Nat /\ \A i \in 1 .. n : h[i] \in Slot(D, V)
  OBVIOUS
<1>2. \A i : i \in T <=> /\ i \in 1 .. n
                         /\ i \notin Live(h, Noted(h, roots))
                         /\ h[i].store # <<>>
  BY Zenon DEF Given, Sweepable
<1>3. h2 = [i \in 1 .. n |-> IF i \in T THEN Swept(h[i]) ELSE h[i]]
  BY <1>2, Zenon DEF SweptHeap, Sweepable
<1>4. \A a \in Slot(D, V) : Swept(a) \in Slot(D, V)
  BY DEF Slot, Swept, Array
<1>5. \A a : Swept(a).store = <<>> /\ Swept(a).id = 0
  BY DEF Swept, Array
<1>6. Rising(d, n, T)
  BY <1>1, DeadRises
<1>7. fr \in Seq(1 .. n) /\ \A j \in DOMAIN fr : h[fr[j]].store = <<>> /\ h[fr[j]].id = 0
  BY DEF FreeSound
<1>8. \A v \in roots : IsArray(v) /\ v.bits \in 1 .. n => v.bits \notin T
  BY <1>2, RootsLive, Zenon
<1> HIDE DEF h2, T, d
<1>9. h2 \in Seq(Slot(D, V)) /\ Len(h2) = n
  <2>1. h2 \in [1 .. n -> Slot(D, V)]
    BY <1>1, <1>3, <1>4
  <2> QED  BY <1>1, <2>1
<1>10. \A i \in 1 .. n : h2[i] = IF i \in T THEN Swept(h[i]) ELSE h[i]
  BY <1>3, Zenon
<1>11. FreeSound(h2, fr \o d)
  <2>1. T \subseteq 1 .. n
    BY <1>2
  <2>2. d \in Seq(T) /\ \A j \in DOMAIN d : d[j] \in T
    BY <1>6 DEF Rising
  <2>3. \A j \in DOMAIN fr : fr[j] \in 1 .. n /\ fr[j] \notin T
    <3>1. \A j \in DOMAIN fr : fr[j] \in 1 .. n
      BY <1>7
    <3> QED  BY <1>2, <1>7, <3>1
  <2>4. d \in Seq(1 .. n) /\ \A j \in DOMAIN d : d[j] \in 1 .. n
    <3>1. \A j \in DOMAIN d : d[j] \in 1 .. n
      BY <2>1, <2>2
    <3>2. d \in [1 .. Len(d) -> 1 .. n] /\ Len(d) \in Nat
      BY <2>2, <3>1
    <3> QED  BY <3>1, <3>2
  <2>5. \A j, k \in DOMAIN d : j # k => d[j] # d[k]
    <3> SUFFICES ASSUME NEW j \in DOMAIN d, NEW k \in DOMAIN d, j < k  PROVE d[j] # d[k]
      <4>1. \A j \in DOMAIN d : j \in Nat
        BY <2>2
      <4> QED  BY <4>1
    <3>1. d[j] \in Nat /\ d[k] \in Nat
      BY <1>1, <2>4
    <3> QED  BY <1>6, <3>1 DEF Rising
  <2> DEFINE f == fr \o d
  <2>6. /\ f \in Seq(1 .. n) /\ DOMAIN f = 1 .. Len(fr) + Len(d)
        /\ \A j \in DOMAIN f : \/ j \in DOMAIN fr /\ f[j] = fr[j]
                               \/ j - Len(fr) \in DOMAIN d /\ f[j] = d[j - Len(fr)]
    BY <1>7, <2>4
  <2>7. Len(fr) \in Nat
    BY <1>7
  <2> HIDE DEF f
  <2>8. \A j, k \in DOMAIN f : j # k => f[j] # f[k]
    <3> SUFFICES ASSUME NEW j \in DOMAIN f, NEW k \in DOMAIN f, j # k  PROVE f[j] # f[k]
      OBVIOUS
    <3>1. CASE j \in DOMAIN fr /\ f[j] = fr[j]
      <4>1. CASE k \in DOMAIN fr /\ f[k] = fr[k]
        BY <3>1, <4>1 DEF FreeSound
      <4>2. CASE k - Len(fr) \in DOMAIN d /\ f[k] = d[k - Len(fr)]
        BY <2>2, <2>3, <3>1, <4>2
      <4> QED  BY <2>6, <4>1, <4>2
    <3>2. CASE j - Len(fr) \in DOMAIN d /\ f[j] = d[j - Len(fr)]
      <4>1. CASE k \in DOMAIN fr /\ f[k] = fr[k]
        BY <2>2, <2>3, <3>2, <4>1
      <4>2. CASE k - Len(fr) \in DOMAIN d /\ f[k] = d[k - Len(fr)]
        <5>1. j \in Nat /\ k \in Nat /\ j - Len(fr) # k - Len(fr)
          BY <2>6, <2>7
        <5> QED  BY <2>5, <3>2, <4>2, <5>1
      <4> QED  BY <2>6, <4>1, <4>2
    <3> QED  BY <2>6, <3>1, <3>2
  <2>9. ASSUME NEW j \in DOMAIN f  PROVE h2[f[j]].store = <<>> /\ h2[f[j]].id = 0
    <3>1. CASE j \in DOMAIN fr /\ f[j] = fr[j]
      BY <1>7, <1>10, <2>3, <3>1
    <3>2. CASE j - Len(fr) \in DOMAIN d /\ f[j] = d[j - Len(fr)]
      <4>1. f[j] \in T /\ f[j] \in 1 .. n
        BY <2>1, <2>2, <3>2
      <4> QED  BY <1>5, <1>10, <4>1
    <3> QED  BY <2>6, <3>1, <3>2
  <2> QED  BY <1>9, <2>6, <2>8, <2>9 DEF FreeSound, f
<1>12. ASSUME NEW v \in roots, Good(h, v)  PROVE Good(h2, v)
  <2>1. CASE IsArray(v)
    <3>1. v.bits \in 1 .. n /\ h[v.bits].id = v.born /\ v.born # 0
      BY <1>12, <2>1 DEF Good
    <3>2. v.bits \notin T
      BY <1>8, <2>1, <3>1
    <3>3. h2[v.bits] = h[v.bits]
      BY <1>10, <3>1, <3>2
    <3> QED  BY <1>9, <3>1, <3>3 DEF Good
  <2>2. CASE ~IsArray(v)
    BY <2>2 DEF Good
  <2> QED  BY <2>1, <2>2
<1> QED  BY <1>9, <1>11, <1>12 DEF h2, d, SweptFree

\* The bytes of any heap are a number, and none where there is no slot.
LEMMA BytesNatural ==
    ASSUME NEW D, NEW V, NEW h \in Seq(Slot(D, V))
    PROVE  TotalBytes(h) \in Nat /\ (h = <<>> => TotalBytes(h) = 0)
<1> DEFINE n == Len(h)
           w == [i \in 1 .. n |-> Bytes(h[i])]
<1>1. n \in Nat /\ \A i \in 1 .. n : h[i] \in Slot(D, V)
  OBVIOUS
<1>2. \A b \in Slot(D, V) : Bytes(b) \in Nat
  BY DEF Slot, Bytes
<1>3. \A i \in 1 .. n : Bytes(h[i]) \in Nat
  BY <1>1, <1>2
<1>4. Sum(Totals(h), n, w) /\ TotalBytes(h) = Totals(h)[n]
  BY <1>1, <1>3, TotalsDefined, Zenon
<1>5. h = <<>> => n = 0
  OBVIOUS
<1> HIDE DEF n, w
<1> QED  BY <1>1, <1>4, <1>5 DEF Sum
=============================================================================
