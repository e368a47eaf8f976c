----------------------------- MODULE HeapProofs -----------------------------
(***************************************************************************)
(* Proofs about Heap: its types, that no array in use is swept or handed   *)
(* out again, that the free list is sound, and that a collection marks     *)
(* exactly what the roots reach; then that the slots, the free list and    *)
(* the collector implement a store of arrays that keep their identity and  *)
(* contents for as long as they are in reach, step by step, for every      *)
(* program (HeapRefines).                                                  *)
(***************************************************************************)
EXTENDS HeapRefines, TLAPS

-----------------------------------------------------------------------------
(* The inductive invariant, part by part. *)

\* A slot on the free list is there once, empty, and nobody's array.
FreeInv ==
    /\ \A j, k \in DOMAIN free : j # k => free[j] # free[k]
    /\ \A j \in DOMAIN free : heap[free[j]].store = <<>> /\ heap[free[j]].id = 0

\* Elements that are not handles are in arrays whose element type says so.
ElementInv ==
    \A i \in Slots : heap[i].of = 0 => \A v \in Elements(heap[i]) : ~IsArray(v)

\* Handles in cells are good, and so are those in arrays, but for the arrays
\* that a sweep under way has found dead.
HandleInv ==
    /\ \A c \in Cells : Good(heap, cells[c])
    /\ \A i \in Slots : (phase = "sweep" => i \in marked)
                            => \A v \in Elements(heap[i]) : Good(heap, v)

\* Marking: the roots are marked, and what a marked slot that is not pending
\* holds is marked; everything marked is an array.
MarkInv ==
    /\ phase = "run" => marked = {}
    /\ phase # "mark" => pending = {}
    /\ phase # "sweep" => at = 1
    /\ phase # "run" =>
         /\ RootSlots \subseteq marked
         /\ \A i \in marked \ pending : Inner(heap, i) \subseteq marked
         /\ \A i \in marked : heap[i].id # 0

\* Nothing is marked that some closed set holding the roots leaves out.
LeastInv ==
    phase # "run" =>
        \A T \in SUBSET Slots : RootSlots \subseteq T /\ Closed(heap, T) => marked \subseteq T

\* Sweeping: behind the sweep, what is not marked is empty.
SweepInv ==
    phase = "sweep" => \A i \in Slots : i < at /\ i \notin marked => heap[i].store = <<>>

IInv == TypeOK /\ FreeInv /\ ElementInv /\ HandleInv /\ MarkInv /\ LeastInv /\ SweepInv

-----------------------------------------------------------------------------
(* Facts about the operators of HeapOps. *)

\* What is reachable is inside every closed set that holds the roots.
LEMMA LiveLeast ==
    ASSUME NEW h, NEW R, NEW T \in SUBSET (1 .. Len(h)), R \subseteq T, Closed(h, T)
    PROVE  Live(h, R) \subseteq T
BY DEF Live

\* place leaves every other slot alone, and the slot it uses was free or new.
LEMMA Placing ==
    ASSUME TypeOK, NEW a \in ArrayRec
    PROVE  /\ PlacedHeap(heap, free, a) \in Seq(ArrayRec)
           /\ Len(PlacedHeap(heap, free, a)) >= Len(heap)
           /\ PlaceAt(heap, free) \in 1 .. Len(PlacedHeap(heap, free, a))
           /\ PlacedHeap(heap, free, a)[PlaceAt(heap, free)] = a
           /\ \A i \in Slots :
                 i # PlaceAt(heap, free) => PlacedHeap(heap, free, a)[i] = heap[i]
           /\ \A i \in 1 .. Len(PlacedHeap(heap, free, a)) :
                 i \in Slots \/ i = PlaceAt(heap, free)
           /\ PlaceAt(heap, free) \in Slots =>
                 free # <<>> /\ Len(free) \in DOMAIN free /\ PlaceAt(heap, free) = free[Len(free)]
           /\ PlacedFree(free) \in Seq(1 .. Len(PlacedHeap(heap, free, a)))
           /\ \A j \in DOMAIN PlacedFree(free) :
                 j \in DOMAIN free /\ PlacedFree(free)[j] = free[j] /\ j # Len(free)
<1> DEFINE p  == PlaceAt(heap, free)
           h2 == PlacedHeap(heap, free, a)
           f2 == PlacedFree(free)
<1>0. p = PlaceAt(heap, free) /\ h2 = PlacedHeap(heap, free, a) /\ f2 = PlacedFree(free)
  OBVIOUS
<1> HIDE DEF p, h2, f2
<1>1. /\ Len(heap) \in Nat /\ heap \in Seq(ArrayRec) /\ Slots = 1 .. Len(heap)
      /\ free \in Seq(1 .. Len(heap))
  BY DEF TypeOK, Slots
<1>2. CASE free = <<>>
  <2>1. h2 = Append(heap, a)  BY <1>0, <1>2 DEF PlacedHeap
  <2>2. p = Len(heap) + 1  BY <1>0, <1>2 DEF PlaceAt
  <2>3. f2 = <<>>  BY <1>0, <1>2 DEF PlacedFree
  <2>4. /\ h2 \in Seq(ArrayRec) /\ Len(h2) = Len(heap) + 1
        /\ h2[Len(heap) + 1] = a
        /\ \A i \in 1 .. Len(heap) : h2[i] = heap[i]
    <3> DEFINE h == heap
               R == ArrayRec
    <3>1. h \in Seq(R) /\ a \in R /\ h2 = Append(h, a)
      BY <1>1, <2>1
    <3> HIDE DEF h, R
    <3>2. /\ h2 \in Seq(R) /\ Len(h2) = Len(h) + 1 /\ h2[Len(h) + 1] = a
          /\ \A i \in 1 .. Len(h) : h2[i] = h[i]
      BY <3>1
    <3> QED  BY <3>2 DEF h, R
  <2>5. f2 \in Seq(1 .. Len(h2)) /\ DOMAIN f2 = {}
    BY <2>3
  <2> QED  BY <1>0, <1>1, <2>2, <2>4, <2>5
<1>3. CASE free # <<>>
  <2>1. Len(free) \in Nat \ {0} /\ Len(free) \in DOMAIN free /\ free[Len(free)] \in 1 .. Len(heap)
    BY <1>1, <1>3
  <2>2. h2 = [heap EXCEPT ![free[Len(free)]] = a]
    BY <1>0, <1>3 DEF PlacedHeap
  <2>3. p = free[Len(free)]  BY <1>0, <1>3 DEF PlaceAt
  <2>4. f2 = SubSeq(free, 1, Len(free) - 1)  BY <1>0, <1>3 DEF PlacedFree
  <2>5. /\ f2 \in Seq(1 .. Len(heap))
        /\ \A j \in DOMAIN f2 : j \in DOMAIN free /\ f2[j] = free[j] /\ j # Len(free)
    BY <1>1, <2>1, <2>4
  <2>6. /\ h2 \in Seq(ArrayRec) /\ Len(h2) = Len(heap)
        /\ h2[p] = a
        /\ \A i \in 1 .. Len(heap) : i # p => h2[i] = heap[i]
    BY <1>1, <2>1, <2>2, <2>3
  <2>7. f2 \in Seq(1 .. Len(h2))
    BY <2>5, <2>6
  <2>8. Len(h2) >= Len(heap) /\ p \in 1 .. Len(h2)
    BY <1>1, <2>1, <2>3, <2>6
  <2>9. \A i \in Slots : i # p => h2[i] = heap[i]
    BY <1>1, <2>6
  <2>10. \A i \in 1 .. Len(h2) : i \in Slots \/ i = p
    BY <1>1, <2>6
  <2>11. p \in Slots => free # <<>> /\ Len(free) \in DOMAIN free /\ p = free[Len(free)]
    BY <1>3, <2>1, <2>3
  <2> QED  BY <1>0, <2>5, <2>6, <2>7, <2>8, <2>9, <2>10, <2>11
<1> QED  BY <1>2, <1>3

-----------------------------------------------------------------------------
(* The program's steps. *)

\* A new array, out of values the program has, keeps every part.
LEMMA PlaceKeeps ==
    ASSUME IInv, phase = "run", NEW c \in Cells, NEW of \in Nat,
           NEW store \in Seq(Value), Place(c, of, store),
           \A k \in DOMAIN store : Good(heap, store[k]) /\ (of = 0 => ~IsArray(store[k]))
    PROVE  IInv'
<1> DEFINE a == Array(of, store, made + 1)
           p == PlaceAt(heap, free)
<1>1. /\ a \in ArrayRec /\ a.store = store /\ a.id = made + 1 /\ a.of = of
      /\ made \in Nat /\ a.id # 0
  BY DEF IInv, TypeOK, ArrayRec, Array
<1>2. /\ heap' = PlacedHeap(heap, free, a) /\ free' = PlacedFree(free)
      /\ since' = Charged(since, a)
      /\ cells' = [cells EXCEPT ![c] = HandleOf(of + 1, p, made + 1)]
      /\ made' = made + 1
      /\ phase' = "run" /\ marked' = marked /\ pending' = pending /\ at' = at
  BY DEF Place, collector
<1> HIDE DEF a, p
<1>3. /\ heap' \in Seq(ArrayRec)
      /\ Len(heap') >= Len(heap)
      /\ p \in 1 .. Len(heap')
      /\ heap'[p] = a
      /\ \A i \in Slots : i # p => heap'[i] = heap[i]
      /\ \A i \in 1 .. Len(heap') : i \in Slots \/ i = p
      /\ p \in Slots => free # <<>> /\ Len(free) \in DOMAIN free /\ p = free[Len(free)]
      /\ free' \in Seq(1 .. Len(heap'))
      /\ \A j \in DOMAIN free' : j \in DOMAIN free /\ free'[j] = free[j] /\ j # Len(free)
  <2>1. p = PlaceAt(heap, free)  BY DEF p
  <2>2. TypeOK  BY DEF IInv
  <2>3. a \in ArrayRec /\ heap' = PlacedHeap(heap, free, a) /\ free' = PlacedFree(free)
    BY <1>1, <1>2
  <2>4. /\ heap' \in Seq(ArrayRec)
        /\ Len(heap') >= Len(heap)
        /\ p \in 1 .. Len(heap')
        /\ heap'[p] = a
        /\ \A i \in Slots : i # p => heap'[i] = heap[i]
        /\ \A i \in 1 .. Len(heap') : i \in Slots \/ i = p
    BY <2>1, <2>2, <2>3, Placing
  <2> QED  BY <2>1, <2>2, <2>3, <2>4, Placing
<1>4. /\ Slots' = 1 .. Len(heap') /\ Slots \subseteq Slots' /\ Slots = 1 .. Len(heap)
      /\ Len(heap) \in Nat /\ Len(heap') \in Nat
  BY <1>3 DEF Slots, IInv, TypeOK
<1>5. p \in Slots => heap[p].id = 0
  BY <1>3 DEF IInv, FreeInv
<1>6. ASSUME NEW v, Good(heap, v)  PROVE Good(heap', v)
  BY <1>3, <1>4, <1>5, <1>6 DEF Good
<1>7. \A c2 \in Cells : cells'[c2] = IF c2 = c THEN HandleOf(of + 1, p, made + 1) ELSE cells[c2]
  BY <1>2 DEF IInv, TypeOK
<1>8. Good(heap', HandleOf(of + 1, p, made + 1))
  BY <1>1, <1>3, <1>4 DEF Good, HandleOf, IsArray
<1>9. TypeOK'
  <2>1. HandleOf(of + 1, p, made + 1) \in Value
    BY <1>1, <1>3, <1>4 DEF HandleOf, Value
  <2>2. cells' \in [Cells -> Value]
    BY <1>2, <2>1 DEF IInv, TypeOK
  <2>3. since' \in 0 .. UsizeMax
    <3>1. Bytes(a) \in Nat  BY <1>1 DEF Bytes
    <3>2. since \in 0 .. UsizeMax /\ UsizeMax \in Nat
      BY UsizeMaxAssumption DEF IInv, TypeOK
    <3> QED  BY <1>2, <3>1, <3>2 DEF Charged
  <2>4. at' \in 1 .. Len(heap') + 1
    BY <1>2, <1>3, <1>4 DEF IInv, TypeOK
  <2>5. marked' \subseteq Slots' /\ pending' \subseteq marked'
    BY <1>2, <1>4 DEF IInv, TypeOK
  <2> QED  BY <1>1, <1>2, <1>3, <1>4, <2>2, <2>3, <2>4, <2>5 DEF TypeOK
<1>10. FreeInv'
  <2>1. ASSUME NEW j \in DOMAIN free'
        PROVE  free'[j] \in Slots /\ free'[j] # p /\ heap'[free'[j]] = heap[free'[j]]
    <3>1. j \in DOMAIN free /\ free'[j] = free[j] /\ j # Len(free)  BY <1>3
    <3>2. free[j] \in Slots  BY <3>1 DEF IInv, TypeOK
    <3>3. free[j] # p  BY <1>3, <3>1, <3>2 DEF IInv, FreeInv
    <3> QED  BY <1>3, <3>1, <3>2, <3>3
  <2>2. \A j, k \in DOMAIN free' : j # k => free'[j] # free'[k]
    BY <1>3 DEF IInv, FreeInv
  <2>3. ASSUME NEW j \in DOMAIN free'
        PROVE  heap'[free'[j]].store = <<>> /\ heap'[free'[j]].id = 0
    BY <1>3, <2>1 DEF IInv, FreeInv
  <2> QED  BY <2>2, <2>3 DEF FreeInv
<1>11. ElementInv'
  <2>1. ASSUME NEW i \in Slots', heap'[i].of = 0, NEW v \in Elements(heap'[i])
        PROVE  ~IsArray(v)
    <3>1. CASE i = p  BY <1>1, <1>3, <2>1, <3>1 DEF Elements
    <3>2. CASE i # p  BY <1>3, <1>4, <2>1, <3>2 DEF IInv, ElementInv
    <3> QED  BY <3>1, <3>2
  <2> QED  BY <2>1 DEF ElementInv
<1>12. HandleInv'
  <2>1. \A c2 \in Cells : Good(heap', cells'[c2])
    BY <1>6, <1>7, <1>8 DEF IInv, HandleInv
  <2>2. ASSUME NEW i \in Slots', NEW v \in Elements(heap'[i])  PROVE Good(heap', v)
    <3>1. CASE i = p  BY <1>1, <1>3, <1>6, <3>1 DEF Elements
    <3>2. CASE i # p
      BY <1>3, <1>4, <1>6, <3>2 DEF IInv, HandleInv
    <3> QED  BY <3>1, <3>2
  <2> QED  BY <2>1, <2>2 DEF HandleInv
<1>13. MarkInv' /\ LeastInv' /\ SweepInv'
  BY <1>2 DEF IInv, MarkInv, LeastInv, SweepInv
<1> QED  BY <1>9, <1>10, <1>11, <1>12, <1>13 DEF IInv

\* Writing one value the program has into an array it has keeps every part.
LEMMA WriteKeeps ==
    ASSUME IInv, phase = "run", NEW c \in Cells, NEW d \in Cells, NEW b,
           b = cells[c].bits, IsArray(cells[c]), cells[d].depth = heap[b].of,
           heap' \in Seq(ArrayRec), Len(heap') = Len(heap),
           \A i \in Slots : i # b => heap'[i] = heap[i],
           heap'[b].id = heap[b].id, heap'[b].of = heap[b].of,
           Elements(heap'[b]) \subseteq Elements(heap[b]) \cup {cells[d]},
           UNCHANGED <<free, since, program, collector>>
    PROVE  IInv'
<1>1. /\ cells' = cells /\ made' = made /\ free' = free /\ since' = since
      /\ phase' = phase /\ marked' = marked /\ pending' = pending /\ at' = at
  BY DEF program, collector
<1>2. Slots' = Slots  BY DEF Slots
<1>3. b \in Slots /\ heap[b].id # 0 /\ Good(heap, cells[d])
  BY DEF IInv, HandleInv, Good, Slots
<1>4. \A i \in Slots : heap'[i].id = heap[i].id /\ heap'[i].of = heap[i].of
  OBVIOUS
<1>5. \A v : Good(heap, v) => Good(heap', v)
  BY <1>2, <1>4 DEF Good, Slots
<1>6. TypeOK'
  BY <1>1, <1>2 DEF IInv, TypeOK
<1>7. FreeInv'
  <2>1. \A j \in DOMAIN free : free[j] \in Slots /\ free[j] # b
    BY <1>3 DEF IInv, TypeOK, FreeInv
  <2> QED  BY <1>1, <2>1 DEF IInv, FreeInv
<1>8. ElementInv'
  <2>1. ASSUME NEW i \in Slots, heap'[i].of = 0, NEW v \in Elements(heap'[i])
        PROVE  ~IsArray(v)
    <3>1. CASE i = b
      <4>1. v \in Elements(heap[b]) \/ v = cells[d]  BY <2>1, <3>1
      <4>2. heap[b].of = 0  BY <2>1, <3>1
      <4>3. v = cells[d] => ~IsArray(v)  BY <4>2 DEF IsArray
      <4> QED  BY <1>3, <4>1, <4>2, <4>3 DEF IInv, ElementInv
    <3>2. CASE i # b  BY <2>1, <3>2 DEF IInv, ElementInv
    <3> QED  BY <3>1, <3>2
  <2> QED  BY <1>2, <2>1 DEF ElementInv
<1>9. HandleInv'
  <2>1. \A i \in Slots : \A v \in Elements(heap[i]) : Good(heap, v)
    BY DEF IInv, HandleInv
  <2>2. ASSUME NEW i \in Slots, NEW v \in Elements(heap'[i])  PROVE Good(heap, v)
    <3>1. CASE i = b  BY <1>3, <2>1, <3>1
    <3>2. CASE i # b  BY <2>1, <3>2
    <3> QED  BY <3>1, <3>2
  <2> QED  BY <1>1, <1>2, <1>5, <2>2 DEF IInv, HandleInv
<1>10. MarkInv' /\ LeastInv' /\ SweepInv'
  BY <1>1 DEF IInv, MarkInv, LeastInv, SweepInv
<1> QED  BY <1>6, <1>7, <1>8, <1>9, <1>10 DEF IInv

\* A good value into a cell keeps every part.
LEMMA CellKeeps ==
    ASSUME IInv, phase = "run", NEW d \in Cells, NEW v \in Value, Good(heap, v),
           cells' = [cells EXCEPT ![d] = v],
           UNCHANGED <<heap, free, since, made, collector>>
    PROVE  IInv'
<1>1. /\ heap' = heap /\ made' = made /\ free' = free /\ since' = since
      /\ phase' = phase /\ marked' = marked /\ pending' = pending /\ at' = at
  BY DEF collector
<1>2. \A w : Good(heap', w) <=> Good(heap, w)
  BY <1>1 DEF Good, Slots
<1>3. \A c \in Cells : cells'[c] = IF c = d THEN v ELSE cells[c]
  BY DEF IInv, TypeOK
<1>4. TypeOK'
  BY <1>1 DEF IInv, TypeOK, Slots
<1>5. FreeInv' /\ ElementInv'
  BY <1>1 DEF IInv, FreeInv, ElementInv, Slots
<1>6. HandleInv'
  <2>1. \A c \in Cells : Good(heap', cells'[c])
    BY <1>2, <1>3 DEF IInv, HandleInv
  <2>2. \A i \in Slots' : (phase' = "sweep" => i \in marked')
                            => \A w \in Elements(heap'[i]) : Good(heap', w)
    BY <1>1, <1>2 DEF IInv, HandleInv, Slots
  <2> QED  BY <2>1, <2>2 DEF HandleInv
<1>7. MarkInv' /\ LeastInv' /\ SweepInv'
  BY <1>1 DEF IInv, MarkInv, LeastInv, SweepInv
<1> QED  BY <1>4, <1>5, <1>6, <1>7 DEF IInv

-----------------------------------------------------------------------------
(* The collector's steps. *)

\* What is noted is a slot of an array in use.
LEMMA NotedGood ==
    ASSUME NEW S, \A v \in S : Good(heap, v)
    PROVE  Noted(heap, S) \subseteq Slots /\ \A i \in Noted(heap, S) : heap[i].id # 0
BY DEF Noted, Good, Slots

LEMMA CollectNothingKeeps == IInv /\ CollectNothing => IInv'
<1> SUFFICES ASSUME IInv, CollectNothing  PROVE IInv'
  OBVIOUS
<1>1. /\ heap' = heap /\ cells' = cells /\ made' = made /\ free' = free /\ since' = 0
      /\ phase' = phase /\ marked' = marked /\ pending' = pending /\ at' = at
  BY DEF CollectNothing, program, collector
<1>2. Slots' = Slots /\ RootSlots' = RootSlots
  BY <1>1 DEF Slots, RootSlots, CellValues
<1>3. TypeOK'
  BY <1>1, <1>2, UsizeMaxAssumption DEF IInv, TypeOK
<1>4. FreeInv' /\ ElementInv' /\ HandleInv'
  BY <1>1, <1>2 DEF IInv, FreeInv, ElementInv, HandleInv
<1>5. MarkInv' /\ LeastInv' /\ SweepInv'
  BY <1>1, <1>2 DEF IInv, MarkInv, LeastInv, SweepInv
<1> QED  BY <1>3, <1>4, <1>5 DEF IInv

LEMMA CollectKeeps == IInv /\ Collect => IInv'
<1> SUFFICES ASSUME IInv, Collect  PROVE IInv'
  OBVIOUS
<1>1. /\ heap' = heap /\ cells' = cells /\ made' = made /\ free' = free /\ since' = since
      /\ phase = "run" /\ phase' = "mark"
      /\ marked' = RootSlots /\ pending' = RootSlots /\ at' = at
  BY DEF Collect, program
<1>2. Slots' = Slots /\ RootSlots' = RootSlots
  BY <1>1 DEF Slots, RootSlots, CellValues
<1>3. RootSlots \subseteq Slots /\ \A i \in RootSlots : heap[i].id # 0
  <2>1. \A v \in CellValues : Good(heap, v)
    BY DEF IInv, HandleInv, CellValues
  <2> QED  BY <2>1, NotedGood DEF RootSlots
<1>4. TypeOK'
  BY <1>1, <1>2, <1>3 DEF IInv, TypeOK
<1>5. FreeInv' /\ ElementInv' /\ HandleInv'
  BY <1>1, <1>2 DEF IInv, FreeInv, ElementInv, HandleInv
<1>6. MarkInv' /\ LeastInv' /\ SweepInv'
  BY <1>1, <1>2, <1>3 DEF IInv, MarkInv, LeastInv, SweepInv
<1> QED  BY <1>4, <1>5, <1>6 DEF IInv

LEMMA MarkKeeps == IInv /\ Mark => IInv'
<1> SUFFICES ASSUME IInv, Mark  PROVE IInv'
  OBVIOUS
<1>1. PICK i \in pending :
        /\ marked' = marked \cup (Inner(heap, i) \ marked)
        /\ pending' = (pending \ {i}) \cup (Inner(heap, i) \ marked)
  BY DEF Mark
<1>2. /\ heap' = heap /\ cells' = cells /\ made' = made /\ free' = free /\ since' = since
      /\ phase = "mark" /\ phase' = "mark" /\ at' = at
  BY DEF Mark, program
<1>3. Slots' = Slots /\ RootSlots' = RootSlots
  BY <1>2 DEF Slots, RootSlots, CellValues
<1>4. i \in marked /\ i \in Slots
  BY DEF IInv, TypeOK
<1>5. Inner(heap, i) \subseteq Slots /\ \A j \in Inner(heap, i) : heap[j].id # 0
  <2>1. \A v \in Elements(heap[i]) : Good(heap, v)
    BY <1>2, <1>4 DEF IInv, HandleInv
  <2> QED  BY <2>1, NotedGood DEF Inner
<1>6. TypeOK'
  BY <1>1, <1>2, <1>3, <1>5 DEF IInv, TypeOK
<1>7. FreeInv' /\ ElementInv' /\ HandleInv'
  BY <1>2, <1>3 DEF IInv, FreeInv, ElementInv, HandleInv
<1>8. MarkInv'
  <2>1. RootSlots \subseteq marked'
    BY <1>1, <1>2 DEF IInv, MarkInv
  <2>2. ASSUME NEW j \in marked' \ pending'  PROVE Inner(heap, j) \subseteq marked'
    <3>1. CASE j = i  BY <1>1, <3>1
    <3>2. CASE j # i
      <4>1. j \in marked \ pending  BY <1>1, <2>2, <3>2
      <4> QED  BY <1>1, <1>2, <4>1 DEF IInv, MarkInv
    <3> QED  BY <3>1, <3>2
  <2>3. \A j \in marked' : heap[j].id # 0
    BY <1>1, <1>2, <1>5 DEF IInv, MarkInv
  <2> QED  BY <1>2, <1>3, <2>1, <2>2, <2>3 DEF IInv, MarkInv
<1>9. LeastInv'
  <2> SUFFICES ASSUME NEW T \in SUBSET Slots, RootSlots \subseteq T, Closed(heap, T)
               PROVE  marked' \subseteq T
    BY <1>2, <1>3 DEF LeastInv
  <2>1. marked \subseteq T
    BY <1>2 DEF IInv, LeastInv
  <2>2. Inner(heap, i) \subseteq T
    BY <1>4, <2>1 DEF Closed
  <2> QED  BY <1>1, <2>1, <2>2
<1>10. SweepInv'
  BY <1>2 DEF SweepInv
<1> QED  BY <1>6, <1>7, <1>8, <1>9, <1>10 DEF IInv

LEMMA MarkedKeeps == IInv /\ Marked => IInv'
<1> SUFFICES ASSUME IInv, Marked  PROVE IInv'
  OBVIOUS
<1>1. /\ heap' = heap /\ cells' = cells /\ made' = made /\ free' = free /\ since' = since
      /\ phase = "mark" /\ phase' = "sweep" /\ pending = {}
      /\ marked' = marked /\ pending' = pending /\ at' = 1
  BY DEF Marked, program
<1>2. Slots' = Slots /\ RootSlots' = RootSlots
  BY <1>1 DEF Slots, RootSlots, CellValues
<1>3. TypeOK'
  BY <1>1, <1>2 DEF IInv, TypeOK
<1>4. FreeInv' /\ ElementInv' /\ HandleInv'
  BY <1>1, <1>2 DEF IInv, FreeInv, ElementInv, HandleInv
<1>5. MarkInv' /\ LeastInv'
  BY <1>1, <1>2 DEF IInv, MarkInv, LeastInv
<1>6. SweepInv'
  BY <1>1, <1>2 DEF SweepInv, Slots
<1> QED  BY <1>3, <1>4, <1>5, <1>6 DEF IInv

LEMMA FinishKeeps == IInv /\ Finish => IInv'
<1> SUFFICES ASSUME IInv, Finish  PROVE IInv'
  OBVIOUS
<1>1. /\ heap' = heap /\ cells' = cells /\ made' = made /\ free' = free /\ since' = 0
      /\ phase = "sweep" /\ phase' = "run" /\ at > Len(heap)
      /\ marked' = {} /\ pending' = pending /\ at' = 1
  BY DEF Finish, program
<1>2. Slots' = Slots /\ RootSlots' = RootSlots /\ Slots = 1 .. Len(heap) /\ Len(heap) \in Nat
  BY <1>1 DEF Slots, RootSlots, CellValues, IInv, TypeOK
<1>3. pending = {}
  BY <1>1 DEF IInv, MarkInv
<1>4. \A i \in Slots \ marked : heap[i].store = <<>> /\ Elements(heap[i]) = {}
  <2>1. \A i \in Slots : i < at
    BY <1>1, <1>2 DEF IInv, TypeOK
  <2> QED  BY <1>1, <2>1 DEF IInv, SweepInv, Elements
<1>5. TypeOK'
  BY <1>1, <1>2, <1>3, UsizeMaxAssumption DEF IInv, TypeOK
<1>6. FreeInv' /\ ElementInv'
  BY <1>1, <1>2 DEF IInv, FreeInv, ElementInv
<1>7. HandleInv'
  BY <1>1, <1>2, <1>4 DEF IInv, HandleInv
<1>8. MarkInv' /\ LeastInv' /\ SweepInv'
  BY <1>1, <1>3 DEF MarkInv, LeastInv, SweepInv
<1> QED  BY <1>5, <1>6, <1>7, <1>8 DEF IInv

\* While the sweep runs, what the roots and the marked arrays hold is marked.
LEMMA HeldIsMarked ==
    ASSUME IInv, phase = "sweep"
    PROVE  /\ Closed(heap, marked)
           /\ \A c \in Cells : IsArray(cells[c]) => cells[c].bits \in marked
           /\ \A i \in marked : \A v \in Elements(heap[i]) : IsArray(v) => v.bits \in marked
<1>1. Closed(heap, marked)
  BY DEF IInv, MarkInv, Closed
<1>2. \A c \in Cells : IsArray(cells[c]) => cells[c].bits \in marked
  BY DEF IInv, MarkInv, HandleInv, RootSlots, CellValues, Noted, Good
<1>3. ASSUME NEW i \in marked, NEW v \in Elements(heap[i]), IsArray(v)  PROVE v.bits \in marked
  <2>1. i \in Slots  BY DEF IInv, TypeOK
  <2>2. heap[i].of > 0
    <3>1. heap[i].of \in Nat
      <4>1. heap[i] \in ArrayRec  BY <2>1 DEF IInv, TypeOK, Slots
      <4> QED  BY <4>1 DEF ArrayRec
    <3>2. heap[i].of # 0  BY <1>3, <2>1 DEF IInv, ElementInv
    <3> QED  BY <3>1, <3>2
  <2>3. Good(heap, v)  BY <1>3, <2>1 DEF IInv, HandleInv
  <2>4. v.bits \in Inner(heap, i)  BY <1>3, <2>2, <2>3 DEF Good, Inner, Noted
  <2> QED  BY <1>1, <2>4 DEF Closed
<1> QED  BY <1>1, <1>2, <1>3

\* The slot the sweep empties is nobody's.
LEMMA SweepOneKeeps ==
    ASSUME IInv, phase = "sweep", at <= Len(heap), Sweepable(heap, marked, at),
           heap' = [heap EXCEPT ![at] = Swept(@)], free' = Append(free, at), at' = at + 1,
           UNCHANGED <<since, program, phase, marked, pending>>
    PROVE  IInv'
<1>1. /\ cells' = cells /\ made' = made /\ since' = since
      /\ phase' = phase /\ marked' = marked /\ pending' = pending /\ pending = {}
  BY DEF program, IInv, MarkInv
<1>2. /\ at \in Slots /\ at \notin marked /\ heap[at].store # <<>>
      /\ Slots = 1 .. Len(heap) /\ Len(heap) \in Nat /\ marked \subseteq Slots
  BY DEF IInv, TypeOK, Slots, Sweepable
<1>3. /\ heap[at] \in ArrayRec /\ Swept(heap[at]) \in ArrayRec
      /\ Swept(heap[at]).store = <<>> /\ Swept(heap[at]).id = 0
      /\ Elements(Swept(heap[at])) = {}
  <2>1. heap[at] \in ArrayRec  BY <1>2 DEF IInv, TypeOK
  <2>2. <<>> \in Seq(Value) /\ Len(<<>>) = 0  OBVIOUS
  <2>3. Swept(heap[at]) = [of |-> heap[at].of, store |-> <<>>, id |-> 0]
    BY DEF Swept, Array
  <2>4. Elements(Swept(heap[at])) = {}
    BY <2>2, <2>3 DEF Elements
  <2> QED  BY <2>1, <2>2, <2>3, <2>4 DEF ArrayRec
<1>4. /\ heap' \in Seq(ArrayRec) /\ Len(heap') = Len(heap)
      /\ heap'[at] = Swept(heap[at])
      /\ \A i \in Slots : i # at => heap'[i] = heap[i]
  BY <1>2, <1>3 DEF IInv, TypeOK
<1>5. Slots' = Slots /\ RootSlots' = RootSlots
  BY <1>1, <1>4 DEF Slots, RootSlots, CellValues, Noted
<1>6. \A i \in marked : heap'[i] = heap[i] /\ Inner(heap', i) = Inner(heap, i)
  <2>1. \A i \in marked : heap'[i] = heap[i]  BY <1>2, <1>4
  <2> QED  BY <1>4, <2>1 DEF Inner, Noted
<1>7. ASSUME NEW v, Good(heap, v), IsArray(v) => v.bits \in marked  PROVE Good(heap', v)
  BY <1>4, <1>6, <1>7 DEF Good
<1>8. TypeOK'
  <2>1. free' \in Seq(Slots)  BY <1>2 DEF IInv, TypeOK
  <2>2. at' \in 1 .. Len(heap') + 1  BY <1>2, <1>4
  <2> QED  BY <1>1, <1>4, <1>5, <2>1, <2>2 DEF IInv, TypeOK
<1>9. FreeInv'
  <2>1. /\ free \in Seq(Slots) /\ Len(free) \in Nat /\ DOMAIN free = 1 .. Len(free)
        /\ DOMAIN free' = 1 .. Len(free) + 1 /\ free'[Len(free) + 1] = at
        /\ \A j \in 1 .. Len(free) : free'[j] = free[j]
    BY DEF IInv, TypeOK
  <2>2. \A j \in DOMAIN free : free[j] # at /\ heap'[free[j]] = heap[free[j]]
    BY <1>2, <1>4, <2>1 DEF IInv, FreeInv
  <2>3. ASSUME NEW j \in DOMAIN free', NEW k \in DOMAIN free', j # k  PROVE free'[j] # free'[k]
    BY <2>1, <2>2, <2>3 DEF IInv, FreeInv
  <2>4. ASSUME NEW j \in DOMAIN free'
        PROVE  heap'[free'[j]].store = <<>> /\ heap'[free'[j]].id = 0
    <3>1. CASE j = Len(free) + 1  BY <1>3, <1>4, <2>1, <3>1
    <3>2. CASE j # Len(free) + 1
      <4>1. j \in DOMAIN free /\ free'[j] = free[j]  BY <2>1, <3>2
      <4> QED  BY <2>2, <4>1 DEF IInv, FreeInv
    <3> QED  BY <3>1, <3>2
  <2> QED  BY <2>3, <2>4 DEF FreeInv
<1>10. ElementInv'
  <2>1. ASSUME NEW i \in Slots, heap'[i].of = 0, NEW v \in Elements(heap'[i])
        PROVE  ~IsArray(v)
    <3>1. CASE i = at  BY <1>3, <1>4, <2>1, <3>1
    <3>2. CASE i # at  BY <1>4, <2>1, <3>2 DEF IInv, ElementInv
    <3> QED  BY <3>1, <3>2
  <2> QED  BY <1>5, <2>1 DEF ElementInv
<1>11. HandleInv'
  <2>1. ASSUME NEW c \in Cells  PROVE Good(heap', cells[c])
    BY <1>7, HeldIsMarked DEF IInv, HandleInv
  <2>2. ASSUME NEW i \in marked, NEW v \in Elements(heap[i])  PROVE Good(heap', v)
    BY <1>2, <1>7, HeldIsMarked DEF IInv, HandleInv
  <2> QED  BY <1>1, <1>5, <1>6, <2>1, <2>2 DEF HandleInv
<1>12. MarkInv'
  BY <1>1, <1>5, <1>6 DEF IInv, MarkInv
<1>13. LeastInv'
  <2> SUFFICES ASSUME NEW T \in SUBSET Slots, RootSlots \subseteq T, Closed(heap', T)
               PROVE  marked \subseteq T
    BY <1>1, <1>5 DEF LeastInv
  <2>1. Closed(heap, T \cap marked)
    BY <1>6, HeldIsMarked DEF Closed
  <2>2. RootSlots \subseteq T \cap marked /\ T \cap marked \in SUBSET Slots
    BY DEF IInv, MarkInv
  <2>3. marked \subseteq T \cap marked
    BY <2>1, <2>2 DEF IInv, LeastInv
  <2> QED  BY <2>3
<1>14. SweepInv'
  <2> SUFFICES ASSUME NEW i \in Slots, i < at + 1, i \notin marked  PROVE heap'[i].store = <<>>
    BY <1>1, <1>5 DEF SweepInv
  <2>1. CASE i = at  BY <1>3, <1>4, <2>1
  <2>2. CASE i # at
    <3>1. i < at  BY <1>2, <2>2
    <3> QED  BY <1>4, <2>2, <3>1 DEF IInv, SweepInv
  <2> QED  BY <2>1, <2>2
<1> QED  BY <1>8, <1>9, <1>10, <1>11, <1>12, <1>13, <1>14 DEF IInv

LEMMA SweepKeeps == IInv /\ Sweep => IInv'
<1> SUFFICES ASSUME IInv, Sweep  PROVE IInv'
  OBVIOUS
<1>1. CASE Sweepable(heap, marked, at)
  BY <1>1, SweepOneKeeps DEF Sweep
<1>2. CASE ~Sweepable(heap, marked, at)
  <2>1. /\ heap' = heap /\ cells' = cells /\ made' = made /\ free' = free /\ since' = since
        /\ phase = "sweep" /\ phase' = phase /\ at <= Len(heap) /\ at' = at + 1
        /\ marked' = marked /\ pending' = pending
    BY <1>2 DEF Sweep, program
  <2>2. Slots' = Slots /\ RootSlots' = RootSlots /\ Slots = 1 .. Len(heap) /\ Len(heap) \in Nat
    BY <2>1 DEF Slots, RootSlots, CellValues, IInv, TypeOK
  <2>3. TypeOK'
    BY <2>1, <2>2 DEF IInv, TypeOK
  <2>4. FreeInv' /\ ElementInv' /\ HandleInv'
    BY <2>1, <2>2 DEF IInv, FreeInv, ElementInv, HandleInv
  <2>5. MarkInv' /\ LeastInv'
    BY <2>1, <2>2 DEF IInv, MarkInv, LeastInv
  <2>6. SweepInv'
    <3> SUFFICES ASSUME NEW i \in Slots, i < at + 1, i \notin marked  PROVE heap[i].store = <<>>
      BY <2>1, <2>2 DEF SweepInv
    <3>1. i = at \/ i < at  BY <2>2 DEF IInv, TypeOK
    <3> QED  BY <1>2, <2>1, <3>1 DEF IInv, SweepInv, Sweepable
  <2> QED  BY <2>3, <2>4, <2>5, <2>6 DEF IInv
<1> QED  BY <1>1, <1>2

-----------------------------------------------------------------------------
(* The theorems. *)

LEMMA InitIInv == Init => IInv
<1> SUFFICES ASSUME Init  PROVE IInv
  OBVIOUS
<1>1. Len(heap) = 0 /\ Slots = {} /\ heap \in Seq(ArrayRec) /\ free \in Seq(Slots) /\ DOMAIN free = {}
  BY DEF Init, Slots
<1>2. \A c \in Cells : cells[c] \in Value /\ ~IsArray(cells[c])
  BY DEF Init, Num, Value, IsArray
<1>3. TypeOK
  <2>1. cells \in [Cells -> Value]
    BY <1>2 DEF Init
  <2> QED  BY <1>1, <2>1, UsizeMaxAssumption DEF Init, TypeOK
<1>4. FreeInv /\ ElementInv
  BY <1>1 DEF FreeInv, ElementInv
<1>5. HandleInv
  BY <1>1, <1>2 DEF HandleInv, Good
<1>6. MarkInv /\ LeastInv /\ SweepInv
  BY DEF Init, MarkInv, LeastInv, SweepInv
<1> QED  BY <1>3, <1>4, <1>5, <1>6 DEF IInv

\* Every handle the program has names a slot, and what is in it has a type.
LEMMA Holding ==
    ASSUME IInv, phase = "run", NEW c \in Cells, IsArray(cells[c])
    PROVE  /\ cells[c].bits \in Slots
           /\ heap[cells[c].bits] \in ArrayRec
           /\ heap[cells[c].bits].store \in Seq(Value)
           /\ \A v \in Elements(heap[cells[c].bits]) : v \in Value /\ Good(heap, v)
<1>1. cells[c].bits \in Slots
  BY DEF IInv, HandleInv, Good, Slots
<1>2. heap[cells[c].bits] \in ArrayRec
  BY <1>1 DEF IInv, TypeOK, Slots
<1>3. heap[cells[c].bits].store \in Seq(Value)
  BY <1>2 DEF ArrayRec
<1>4. \A v \in Elements(heap[cells[c].bits]) : v \in Value
  BY <1>3 DEF Elements
<1>5. \A v \in Elements(heap[cells[c].bits]) : Good(heap, v)
  BY <1>1 DEF IInv, HandleInv
<1> QED  BY <1>1, <1>2, <1>3, <1>4, <1>5

LEMMA MakeKeeps ==
    ASSUME IInv, NEW c \in Cells, NEW d \in Cells, NEW len \in Lens, Make(c, d, len)
    PROVE  IInv'
<1> DEFINE s == [k \in 1 .. len |-> cells[d]]
<1>1. cells[d] \in Value /\ cells[d].depth \in Nat /\ len \in Nat
  BY HeapAssumption DEF IInv, TypeOK, Value, Lens
<1>2. s \in Seq(Value) /\ DOMAIN s = 1 .. len
  BY <1>1
<1>3. \A k \in DOMAIN s : Good(heap, s[k]) /\ (cells[d].depth = 0 => ~IsArray(s[k]))
  BY DEF IInv, HandleInv, IsArray
<1>4. phase = "run" /\ Place(c, cells[d].depth, s)
  BY DEF Make
<1> HIDE DEF s
<1> QED  BY <1>1, <1>2, <1>3, <1>4, PlaceKeeps

LEMMA OfKeeps ==
    ASSUME IInv, NEW c \in Cells, NEW of \in 0 .. MaxDepth - 1, NEW len \in Lens,
           NEW ds \in [1 .. len -> Cells], Of(c, of, ds)
    PROVE  IInv'
<1> DEFINE s == [k \in DOMAIN ds |-> cells[ds[k]]]
<1>1. len \in Nat /\ of \in Nat
  BY HeapAssumption DEF Lens
<1>2. s \in Seq(Value) /\ DOMAIN s = 1 .. len
  BY <1>1 DEF IInv, TypeOK
<1>3. \A k \in DOMAIN s : Good(heap, s[k]) /\ (of = 0 => ~IsArray(s[k]))
  BY DEF IInv, HandleInv, IsArray, Of
<1>4. phase = "run" /\ Place(c, of, s)
  BY DEF Of
<1> HIDE DEF s
<1> QED  BY <1>1, <1>2, <1>3, <1>4, PlaceKeeps

LEMMA ReadKeeps ==
    ASSUME IInv, NEW c \in Cells, NEW d \in Cells, NEW k \in 1 .. MaxLen, Read(c, k, d)
    PROVE  IInv'
<1>1. heap[cells[c].bits].store[k] \in Elements(heap[cells[c].bits])
  BY DEF Read, Elements
<1> QED  BY <1>1, Holding, CellKeeps DEF Read

LEMMA StoreKeeps ==
    ASSUME IInv, NEW c \in Cells, NEW d \in Cells, NEW k \in 1 .. MaxLen, Store(c, k, d)
    PROVE  IInv'
<1> DEFINE b == cells[c].bits
           a == heap[b]
           w == Written(a, k, cells[d])
<1>1. /\ phase = "run" /\ IsArray(cells[c]) /\ k \in 1 .. Len(a.store)
      /\ cells[d].depth = a.of /\ heap' = [heap EXCEPT ![b] = w]
      /\ UNCHANGED <<free, since, program, collector>>
  BY DEF Store
<1>2. b \in Slots /\ a \in ArrayRec /\ a.store \in Seq(Value) /\ cells[d] \in Value
  BY <1>1, Holding DEF IInv, TypeOK
<1>3. /\ w = [of |-> a.of, store |-> [a.store EXCEPT ![k] = cells[d]], id |-> a.id]
      /\ [a.store EXCEPT ![k] = cells[d]] \in Seq(Value)
      /\ Len([a.store EXCEPT ![k] = cells[d]]) = Len(a.store)
      /\ \A j \in 1 .. Len(a.store) :
            [a.store EXCEPT ![k] = cells[d]][j] = IF j = k THEN cells[d] ELSE a.store[j]
  BY <1>1, <1>2 DEF Written, Array
<1>4. w \in ArrayRec /\ w.id = a.id /\ w.of = a.of
  BY <1>2, <1>3 DEF ArrayRec
<1>5. Elements(w) \subseteq Elements(a) \cup {cells[d]}
  BY <1>3 DEF Elements
<1>6. /\ heap' \in Seq(ArrayRec) /\ Len(heap') = Len(heap) /\ heap'[b] = w
      /\ \A i \in Slots : i # b => heap'[i] = heap[i]
  <2> HIDE DEF w
  <2> QED  BY <1>1, <1>2, <1>4 DEF IInv, TypeOK, Slots
<1> HIDE DEF w
<1> QED  BY <1>1, <1>4, <1>5, <1>6, WriteKeeps

LEMMA PushKeeps ==
    ASSUME IInv, NEW c \in Cells, NEW d \in Cells, Push(c, d)
    PROVE  IInv'
<1> DEFINE b == cells[c].bits
           a == heap[b]
           w == Pushed(a, cells[d])
<1>1. /\ phase = "run" /\ IsArray(cells[c])
      /\ cells[d].depth = a.of /\ heap' = [heap EXCEPT ![b] = w]
      /\ UNCHANGED <<free, since, program, collector>>
  BY DEF Push
<1>2. b \in Slots /\ a \in ArrayRec /\ a.store \in Seq(Value) /\ cells[d] \in Value
  BY <1>1, Holding DEF IInv, TypeOK
<1>3. /\ w = [of |-> a.of, store |-> Append(a.store, cells[d]), id |-> a.id]
      /\ Append(a.store, cells[d]) \in Seq(Value)
  BY <1>2 DEF Pushed, Array
<1>4. w \in ArrayRec /\ w.id = a.id /\ w.of = a.of
  BY <1>2, <1>3 DEF ArrayRec
<1>5. Elements(w) \subseteq Elements(a) \cup {cells[d]}
  BY <1>2, <1>3 DEF Elements
<1>6. /\ heap' \in Seq(ArrayRec) /\ Len(heap') = Len(heap) /\ heap'[b] = w
      /\ \A i \in Slots : i # b => heap'[i] = heap[i]
  <2> HIDE DEF w
  <2> QED  BY <1>1, <1>2, <1>4 DEF IInv, TypeOK, Slots
<1> HIDE DEF w
<1> QED  BY <1>1, <1>4, <1>5, <1>6, WriteKeeps

LEMMA MoveKeeps ==
    ASSUME IInv, NEW c \in Cells, NEW d \in Cells, Move(c, d)
    PROVE  IInv'
BY CellKeeps DEF Move, IInv, TypeOK, HandleInv

LEMMA DropKeeps ==
    ASSUME IInv, NEW c \in Cells, NEW n \in Data, Drop(c, n)
    PROVE  IInv'
<1>1. Num(n) \in Value /\ Good(heap, Num(n))
  BY HeapAssumption DEF Num, Value, Good, IsArray
<1> QED  BY <1>1, CellKeeps DEF Drop

LEMMA ClearKeeps == IInv /\ Clear => IInv'
<1> SUFFICES ASSUME IInv, Clear  PROVE Init'
  BY InitIInv, PTL
<1> QED  BY DEF Clear, Init, IInv, MarkInv, collector, TypeOK

LEMMA NextKeeps == IInv /\ [Next]_vars => IInv'
<1> SUFFICES ASSUME IInv, [Next]_vars  PROVE IInv'
  OBVIOUS
<1>1. ASSUME NEW c \in Cells, NEW d \in Cells, NEW len \in Lens, Make(c, d, len)
      PROVE  IInv'
  BY <1>1, MakeKeeps
<1>2. ASSUME NEW c \in Cells, NEW of \in 0 .. MaxDepth - 1, NEW len \in Lens,
             NEW ds \in [1 .. len -> Cells], Of(c, of, ds)
      PROVE  IInv'
  BY <1>2, OfKeeps
<1>3. ASSUME NEW c \in Cells, NEW d \in Cells, NEW k \in 1 .. MaxLen,
             Read(c, k, d) \/ Store(c, k, d)
      PROVE  IInv'
  BY <1>3, ReadKeeps, StoreKeeps
<1>4. ASSUME NEW c \in Cells, NEW d \in Cells, Push(c, d) \/ Move(c, d)
      PROVE  IInv'
  BY <1>4, PushKeeps, MoveKeeps
<1>5. ASSUME NEW c \in Cells, NEW n \in Data, Drop(c, n)
      PROVE  IInv'
  BY <1>5, DropKeeps
<1>6. CASE Clear  BY <1>6, ClearKeeps
<1>7. CASE Collector
  BY <1>7, CollectKeeps, CollectNothingKeeps, MarkKeeps, MarkedKeeps, SweepKeeps, FinishKeeps
     DEF Collector
<1>8. CASE UNCHANGED vars
  <2>1. /\ heap' = heap /\ cells' = cells /\ made' = made /\ free' = free /\ since' = since
        /\ phase' = phase /\ marked' = marked /\ pending' = pending /\ at' = at
    BY <1>8 DEF vars
  <2>2. Slots' = Slots /\ RootSlots' = RootSlots
    BY <2>1 DEF Slots, RootSlots, CellValues
  <2> QED  BY <2>1, <2>2
       DEF IInv, TypeOK, FreeInv, ElementInv, HandleInv, MarkInv, LeastInv, SweepInv
<1> QED  BY <1>1, <1>2, <1>3, <1>4, <1>5, <1>6, <1>7, <1>8 DEF Next

\* Every part of the inductive invariant holds in every reachable state.
THEOREM Inductive == Spec => []IInv
BY InitIInv, NextKeeps, PTL DEF Spec

\* The heap, the free list, the roots and the collector's own state keep their
\* types whatever the program does.
THEOREM TypesHold == Spec => []TypeOK
<1>1. IInv => TypeOK  BY DEF IInv
<1> QED  BY <1>1, Inductive, PTL

\* Outside a sweep what is reachable is in use; during one it is marked too.
LEMMA LiveInUse ==
    ASSUME IInv
    PROVE  /\ \A i \in Live(heap, RootSlots) : i \in Slots /\ heap[i].id # 0
           /\ phase = "sweep" => Live(heap, RootSlots) \subseteq marked
<1>1. CASE phase = "sweep"
  <2>1. Live(heap, RootSlots) \subseteq marked
    BY <1>1, HeldIsMarked, LiveLeast DEF IInv, MarkInv, TypeOK, Slots
  <2> QED  BY <1>1, <2>1 DEF IInv, MarkInv, TypeOK
<1>2. CASE phase # "sweep"
  <2> DEFINE T == {i \in Slots : heap[i].id # 0}
  <2>1. RootSlots \subseteq T
    <3>1. \A v \in CellValues : Good(heap, v)
      BY DEF IInv, HandleInv, CellValues
    <3> QED  BY <3>1, NotedGood DEF RootSlots
  <2>2. ASSUME NEW i \in T  PROVE Inner(heap, i) \subseteq T
    <3>1. \A v \in Elements(heap[i]) : Good(heap, v)
      BY <1>2 DEF IInv, HandleInv
    <3> QED  BY <3>1, NotedGood DEF Inner
  <2>3. T \in SUBSET (1 .. Len(heap)) /\ Closed(heap, T)
    BY <2>2 DEF Closed, Slots
  <2> HIDE DEF T
  <2>4. Live(heap, RootSlots) \subseteq T
    BY <2>1, <2>3, LiveLeast
  <2> QED  BY <1>2, <2>4 DEF T
<1> QED  BY <1>1, <1>2

\* No array a program can still reach is ever swept or has its slot handed out
\* again, at any moment of any collection.
THEOREM NeverFreesLive == Spec => []Safe
<1>1. IInv => Safe
  <2> SUFFICES ASSUME IInv  PROVE Safe
    OBVIOUS
  <2>1. \A v \in CellValues : Good(heap, v)
    BY DEF IInv, HandleInv, CellValues
  <2>2. \A i \in Live(heap, RootSlots) : i \in Slots /\ (phase = "sweep" => i \in marked)
    BY LiveInUse
  <2> QED  BY <2>1, <2>2 DEF Safe, IInv, HandleInv
<1> QED  BY <1>1, Inductive, PTL

\* The free list holds each slot at most once, empty, and out of reach.
THEOREM FreeListIsSound == Spec => []FreeListSound
<1>1. IInv => FreeListSound
  BY LiveInUse DEF IInv, FreeInv, FreeListSound
<1> QED  BY <1>1, Inductive, PTL

\* Throughout a sweep the marked slots are the reachable ones, exactly.
THEOREM MarksExactly == Spec => []MarkedIsLive
<1>1. IInv => MarkedIsLive
  <2> SUFFICES ASSUME IInv, phase = "sweep"  PROVE marked = Live(heap, RootSlots)
    BY DEF MarkedIsLive
  <2>1. Live(heap, RootSlots) \subseteq marked  BY LiveInUse
  <2>2. marked \subseteq Slots  BY DEF IInv, TypeOK
  <2>3. \A T \in SUBSET Slots : RootSlots \subseteq T /\ Closed(heap, T) => marked \subseteq T
    BY DEF IInv, LeastInv
  <2>4. marked \subseteq Live(heap, RootSlots)
    BY <2>2, <2>3 DEF Live, Slots
  <2> QED  BY <2>1, <2>4
<1> QED  BY <1>1, Inductive, PTL

\* A collection ends with no elements kept in a slot that nothing reaches.
THEOREM SweepsClean == Spec => SweptClean
<1> DEFINE Clean == Finish => \A i \in Slots : heap[i].store # <<>> => i \in Live(heap, RootSlots)
<1>1. IInv => Clean
  <2> SUFFICES ASSUME IInv, Finish, NEW i \in Slots, heap[i].store # <<>>
               PROVE  i \in Live(heap, RootSlots)
    OBVIOUS
  <2>1. phase = "sweep" /\ i < at
    BY DEF Finish, IInv, TypeOK, Slots
  <2>2. i \in marked
    BY <2>1 DEF IInv, SweepInv
  <2>3. \A T \in SUBSET Slots : RootSlots \subseteq T /\ Closed(heap, T) => marked \subseteq T
    BY <2>1 DEF IInv, LeastInv
  <2> QED  BY <2>2, <2>3 DEF Live, Slots
<1>2. IInv => [Clean]_vars
  BY <1>1
<1> QED  BY <1>2, Inductive, PTL DEF SweptClean

-----------------------------------------------------------------------------
(* What the mapping needs of the heap besides its inductive invariant. *)

\* No two slots hold the same array, and none that is yet to be made.
IdInv ==
    /\ made \in 0 .. MaxMade
    /\ \A i \in Slots : heap[i].id \in 0 .. made
    /\ \A i, j \in Slots : i # j => heap[i].id = 0 \/ heap[i].id # heap[j].id

-----------------------------------------------------------------------------
(* What is reachable. *)

\* What is reachable holds the roots and is closed.
LEMMA LiveClosed ==
    ASSUME NEW h, NEW R, R \subseteq 1 .. Len(h)
    PROVE  /\ R \subseteq Live(h, R) /\ Closed(h, Live(h, R)) /\ Live(h, R) \subseteq 1 .. Len(h)
<1>1. \A i : Inner(h, i) \subseteq 1 .. Len(h)
  BY DEF Inner, Noted
<1>2. R \subseteq Live(h, R) /\ Live(h, R) \subseteq 1 .. Len(h)
  BY DEF Live
<1>3. ASSUME NEW i \in Live(h, R), NEW j \in Inner(h, i)
      PROVE  j \in Live(h, R)
  <2>1. ASSUME NEW T \in SUBSET (1 .. Len(h)), R \subseteq T, Closed(h, T)
        PROVE  j \in T
    <3>1. i \in T
      BY <2>1 DEF Live
    <3> QED  BY <2>1, <3>1 DEF Closed
  <2> QED  BY <1>1, <2>1 DEF Live
<1> QED  BY <1>2, <1>3 DEF Closed

\* A heap that is the same in every slot in reach has the same slots in reach.
LEMMA LiveSame ==
    ASSUME NEW h, NEW h2, NEW R, R \subseteq 1 .. Len(h), Len(h2) = Len(h),
           \A i \in Live(h, R) : h2[i] = h[i]
    PROVE  Live(h2, R) = Live(h, R)
<1> DEFINE L == Live(h, R)
<1>1. R \subseteq L /\ Closed(h, L) /\ L \subseteq 1 .. Len(h)
  BY LiveClosed
<1>2. \A i \in L : Inner(h2, i) = Inner(h, i)
  BY DEF Inner, Noted
<1>3. Closed(h2, L)
  BY <1>1, <1>2 DEF Closed
<1>4. Live(h2, R) \subseteq L
  BY <1>1, <1>3 DEF Live
<1>5. ASSUME NEW i \in L  PROVE i \in Live(h2, R)
  <2>1. ASSUME NEW T \in SUBSET (1 .. Len(h2)), R \subseteq T, Closed(h2, T)
        PROVE  i \in T
    <3>1. Closed(h, T \cap L)
      BY <1>1, <1>2, <2>1 DEF Closed
    <3>2. R \subseteq T \cap L /\ T \cap L \in SUBSET (1 .. Len(h))
      BY <1>1, <2>1
    <3>3. i \in T \cap L
      BY <3>1, <3>2 DEF Live
    <3> QED  BY <3>3
  <2> QED  BY <1>1, <2>1 DEF Live
<1> QED  BY <1>4, <1>5

-----------------------------------------------------------------------------
(* The mapping, between any heap and the arrays in any of its slots. *)

\* Slots whose arrays can be told apart.
Told(h, L) == \A i, j \in L : h[i].id = h[j].id => i = j

\* What the handles among some values name.
Slotted(S) == {v.bits : v \in {w \in S : IsArray(w)}}

\* The values in some cells, and the identities in some slots.
HeldBy(cs) == {cs[c] : c \in Cells}
IdsOf(h, S) == {h[i].id : i \in S}

\* Slots that refer to no others.
Shut(h, L) == \A i \in L : Slotted(Elements(h[i])) \subseteq L

\* Each array is there under its identity.
LEMMA ArraysIn ==
    ASSUME NEW h, NEW L, Told(h, L)
    PROVE  /\ DOMAIN AbsArraysIn(h, L) = IdsOf(h, L)
           /\ \A i \in L : AbsArraysIn(h, L)[h[i].id] = AbsStore(h, h[i])
<1>1. ASSUME NEW i \in L  PROVE SlotOf(h, L, h[i].id) = i
  BY DEF SlotOf, Told
<1> QED  BY <1>1 DEF AbsArraysIn, IdsOf

\* A value under its identity.
LEMMA ValueIs ==
    ASSUME NEW h, NEW v
    PROVE  /\ AbsValue(h, v).depth = v.depth
           /\ AbsValue(h, v).what = IF IsArray(v) THEN h[v.bits].id ELSE v.bits
BY DEF AbsValue

\* The contents of an array are the elements of the slot.
LEMMA StoreIs ==
    ASSUME NEW h, NEW a \in ArrayRec
    PROVE  /\ AbsStore(h, a).of = a.of
           /\ DOMAIN AbsStore(h, a).store = 1 .. Len(a.store)
           /\ Len(AbsStore(h, a).store) = Len(a.store) /\ Len(a.store) \in Nat
           /\ \A k \in 1 .. Len(a.store) : AbsStore(h, a).store[k] = AbsValue(h, a.store[k])
<1> DEFINE n == Len(a.store)
           S == [k \in 1 .. n |-> AbsValue(h, a.store[k])]
           X == {AbsValue(h, a.store[k]) : k \in 1 .. n}
<1>1. n \in Nat
  BY DEF ArrayRec
<1>2. AbsStore(h, a).store = S /\ AbsStore(h, a).of = a.of
  BY DEF AbsStore
<1> HIDE DEF n
<1>3. S \in [1 .. n -> X]
  OBVIOUS
<1>4. DOMAIN S = 1 .. n /\ \A k \in 1 .. n : S[k] = AbsValue(h, a.store[k])
  BY Zenon
<1> HIDE DEF S, X
<1>5. Len(S) = n
  BY <1>1, <1>3
<1> QED  BY <1>1, <1>2, <1>4, <1>5 DEF n

\* What its contents name.
LEMMA NamedElements ==
    ASSUME NEW h, NEW a \in ArrayRec
    PROVE  Promised!Named(Promised!Contents(AbsStore(h, a)))
             = IdsOf(h, Slotted(Elements(a)))
<1> DEFINE S == AbsStore(h, a).store
           N == Promised!Named(Promised!Contents(AbsStore(h, a)))
           M == IdsOf(h, Slotted(Elements(a)))
<1>1. /\ Len(S) = Len(a.store)
      /\ \A k \in 1 .. Len(a.store) : S[k] = AbsValue(h, a.store[k])
  BY StoreIs
<1>2. Promised!Contents(AbsStore(h, a)) = {S[k] : k \in 1 .. Len(a.store)}
  BY <1>1 DEF Promised!Contents
<1> HIDE DEF S
<1>3. Promised!Contents(AbsStore(h, a)) = {AbsValue(h, v) : v \in Elements(a)}
  BY <1>1, <1>2 DEF Elements
<1>4. ASSUME NEW x \in N  PROVE x \in M
  <2>1. PICK v \in Elements(a) : AbsValue(h, v).depth > 0 /\ x = AbsValue(h, v).what
    BY <1>3 DEF Promised!Named
  <2>2. IsArray(v) /\ x = h[v.bits].id
    BY <2>1, ValueIs DEF IsArray
  <2> QED  BY <2>2 DEF Slotted, IdsOf
<1>5. ASSUME NEW x \in M  PROVE x \in N
  <2>1. PICK v \in Elements(a) : IsArray(v) /\ x = h[v.bits].id
    BY DEF Slotted, IdsOf
  <2>2. AbsValue(h, v).depth > 0 /\ x = AbsValue(h, v).what
    BY <2>1, ValueIs DEF IsArray
  <2> QED  BY <1>3, <2>2 DEF Promised!Named
<1> QED  BY <1>4, <1>5

\* The store's cells show what the program's do.
Shown(h, cs, vs) == \A c \in Cells : vs[c] = AbsValue(h, cs[c])

\* The store's arrays are those in the slots of D.
Stored(h, D, os) ==
    /\ DOMAIN os = IdsOf(h, D)
    /\ \A i \in D : os[h[i].id] = AbsStore(h, h[i])

\* Slots of arrays that can be told apart, and that refer to no others; nor does the
\* program.
Fenced(h, cs, D) ==
    /\ D \subseteq 1 .. Len(h) /\ Told(h, D) /\ Shut(h, D)
    /\ \A i \in D : h[i] \in ArrayRec /\ (h[i].of = 0 => Slotted(Elements(h[i])) = {})
    /\ Slotted(HeldBy(cs)) \subseteq D

\* What the program's cells name.
LEMMA NamedCells ==
    ASSUME NEW h, NEW cs, NEW vs, Shown(h, cs, vs)
    PROVE  Promised!Named(HeldBy(vs))
             = IdsOf(h, Slotted(HeldBy(cs)))
<1> DEFINE N == Promised!Named(HeldBy(vs))
           M == IdsOf(h, Slotted(HeldBy(cs)))
<1>1. ASSUME NEW x \in N  PROVE x \in M
  <2>1. PICK c \in Cells : vs[c].depth > 0 /\ x = vs[c].what
    BY DEF Promised!Named, HeldBy
  <2>2. IsArray(cs[c]) /\ x = h[cs[c].bits].id
    BY <2>1, ValueIs DEF IsArray, Shown
  <2> QED  BY <2>2 DEF Slotted, IdsOf, HeldBy
<1>2. ASSUME NEW x \in M  PROVE x \in N
  <2>1. PICK c \in Cells : IsArray(cs[c]) /\ x = h[cs[c].bits].id
    BY DEF Slotted, IdsOf, HeldBy
  <2>2. vs[c].depth > 0 /\ x = vs[c].what
    BY <2>1, ValueIs DEF IsArray, Shown
  <2> QED  BY <2>2 DEF Promised!Named, HeldBy
<1> QED  BY <1>1, <1>2

\* What a collector notes of some values that name slots there are is what they name.
LEMMA NotedIs ==
    ASSUME NEW h, NEW S, Slotted(S) \subseteq 1 .. Len(h)
    PROVE  Noted(h, S) = Slotted(S)
BY DEF Noted, Slotted

\* Out of slots D that refer to no others, with the roots among them: the arrays the
\* store promises to keep, by what the program can name, are those in the slots a
\* collection would leave, by what it can mark.
LEMMA ReachIsLive ==
    ASSUME NEW h, NEW cs, NEW D, Fenced(h, cs, D),
           NEW vs, Shown(h, cs, vs), NEW os, Stored(h, D, os)
    PROVE  LET L == Live(h, Noted(h, HeldBy(cs))) IN
           L \subseteq D /\ Promised!Reach(vs, os) = IdsOf(h, L)
<1> DEFINE R == Slotted(HeldBy(cs))
           L == Live(h, R)
           N == Promised!Named(HeldBy(vs))
           A(id) == Promised!Named(Promised!Contents(os[id]))
<1>0. /\ D \subseteq 1 .. Len(h) /\ Shut(h, D) /\ R \subseteq D
      /\ \A i \in D : h[i] \in ArrayRec /\ (h[i].of = 0 => Slotted(Elements(h[i])) = {})
  BY DEF Fenced
<1>1. Noted(h, HeldBy(cs)) = R /\ R \subseteq 1 .. Len(h)
  BY <1>0, NotedIs
<1>2. N = IdsOf(h, R)
  BY NamedCells
<1>3. ASSUME NEW i \in D
      PROVE  Inner(h, i) = Slotted(Elements(h[i])) /\ Inner(h, i) \subseteq D
  <2>1. Slotted(Elements(h[i])) \subseteq D /\ Slotted(Elements(h[i])) \subseteq 1 .. Len(h)
    BY <1>0 DEF Shut
  <2>2. Noted(h, Elements(h[i])) = Slotted(Elements(h[i]))
    BY <2>1, NotedIs
  <2>3. h[i].of \in Nat /\ (h[i].of = 0 => Slotted(Elements(h[i])) = {})
    BY <1>0 DEF ArrayRec
  <2>4. Inner(h, i) = Slotted(Elements(h[i]))
    BY <2>2, <2>3 DEF Inner
  <2> QED  BY <2>1, <2>4
<1>4. \A i \in D : A(h[i].id) = IdsOf(h, Inner(h, i))
  BY <1>0, <1>3, NamedElements DEF Stored
<1> HIDE DEF R, N, A
<1>5. Closed(h, D)
  BY <1>3 DEF Closed
<1>6. L \subseteq D
  BY <1>0, <1>1, <1>5 DEF Live
<1>7. R \subseteq L /\ Closed(h, L)
  BY <1>1, LiveClosed
<1>8. \A id : id \in Promised!Reach(vs, os) <=>
         /\ id \in DOMAIN os
         /\ \A T \in SUBSET (DOMAIN os) : N \subseteq T /\ (\A j \in T : A(j) \subseteq T) => id \in T
  BY Zenon DEF Promised!Reach, N, A, HeldBy
<1> HIDE DEF L
<1>9. ASSUME NEW i \in L  PROVE h[i].id \in Promised!Reach(vs, os)
  <2>1. ASSUME NEW T \in SUBSET (DOMAIN os), N \subseteq T, \A j \in T : A(j) \subseteq T
        PROVE  h[i].id \in T
    <3> DEFINE X == {k \in D : h[k].id \in T}
    <3>1. R \subseteq X
      BY <1>0, <1>2, <2>1 DEF IdsOf
    <3>2. Closed(h, X)
      <4> SUFFICES ASSUME NEW k \in X, NEW b \in Inner(h, k)  PROVE b \in X
        BY DEF Closed
      <4>1. h[b].id \in A(h[k].id)
        BY <1>4 DEF IdsOf
      <4> QED  BY <1>3, <2>1, <4>1
    <3>3. X \in SUBSET (1 .. Len(h))
      BY <1>0
    <3>4. i \in X
      BY <3>1, <3>2, <3>3 DEF L, Live
    <3> QED  BY <3>4
  <2> QED  BY <1>6, <1>8, <2>1 DEF Stored, IdsOf
<1>10. ASSUME NEW id \in Promised!Reach(vs, os)  PROVE id \in IdsOf(h, L)
  <2> DEFINE T == IdsOf(h, L)
  <2>1. N \subseteq T
    BY <1>2, <1>7 DEF IdsOf
  <2>2. ASSUME NEW j \in T  PROVE A(j) \subseteq T
    <3>1. PICK i \in L : j = h[i].id
      BY DEF IdsOf
    <3>2. A(j) = IdsOf(h, Inner(h, i))
      BY <1>4, <1>6, <3>1
    <3> QED  BY <1>7, <3>2 DEF Closed, IdsOf
  <2>3. T \in SUBSET (DOMAIN os)
    BY <1>6 DEF Stored, IdsOf
  <2> QED  BY <1>8, <2>1, <2>2, <2>3
<1>11. Promised!Reach(vs, os) = IdsOf(h, L)
  BY <1>9, <1>10 DEF IdsOf
<1> QED  BY <1>1, <1>6, <1>11 DEF L

\* So what the program then has is what the mapping makes of the slots that are left.
LEMMA BecomesIs ==
    ASSUME NEW h, NEW cs, NEW D, Fenced(h, cs, D),
           NEW vs, Shown(h, cs, vs), NEW os, Stored(h, D, os)
    PROVE  AbsArraysIn(h, Live(h, Noted(h, HeldBy(cs))))
             = [id \in Promised!Reach(vs, os) |-> os[id]]
<1> DEFINE L == Live(h, Noted(h, HeldBy(cs)))
           F == AbsArraysIn(h, L)
           G == [id \in Promised!Reach(vs, os) |-> os[id]]
<1>1. L \subseteq D /\ Promised!Reach(vs, os) = IdsOf(h, L)
  BY ReachIsLive
<1> HIDE DEF L
<1>2. Told(h, L)
  BY <1>1 DEF Told, Fenced
<1>3. DOMAIN F = IdsOf(h, L) /\ \A i \in L : F[h[i].id] = AbsStore(h, h[i])
  BY <1>2, ArraysIn
<1>4. \A i \in L : G[h[i].id] = os[h[i].id]
  BY <1>1 DEF IdsOf
<1>5. \A id \in DOMAIN F : F[id] = G[id]
  BY <1>1, <1>3, <1>4 DEF Stored, IdsOf
<1>6. F = [id \in DOMAIN F |-> F[id]]
  BY DEF AbsArraysIn
<1>7. F = G
  BY <1>1, <1>3, <1>5, <1>6
<1> QED  BY <1>7 DEF L

-----------------------------------------------------------------------------
(* No two slots hold the same array. *)

\* A heap where each slot holds what it held, or nothing, or has just got the next
\* array there is, leaves it so.
LEMMA IdsKept ==
    ASSUME TypeOK, IdInv, NEW p, made' \in 0 .. MaxMade, made' >= made,
           \A i \in Slots' : \/ i \in Slots /\ heap'[i].id \in {0, heap[i].id}
                             \/ i = p /\ made' = made + 1 /\ heap'[i].id = made'
    PROVE  IdInv'
<1>1. made \in Nat /\ made' \in Nat /\ \A i \in Slots : heap[i].id \in 0 .. made
  BY DEF IdInv, TypeOK
<1>2. \A i \in Slots' : heap'[i].id \in 0 .. made'
  BY <1>1
<1>3. ASSUME NEW i \in Slots', NEW j \in Slots', i # j
      PROVE  heap'[i].id = 0 \/ heap'[i].id # heap'[j].id
  <2>1. CASE i \in Slots /\ j \in Slots /\ heap'[i].id \in {0, heap[i].id}
                                         /\ heap'[j].id \in {0, heap[j].id}
    BY <1>3, <2>1 DEF IdInv
  <2>2. CASE i = p /\ made' = made + 1 /\ heap'[i].id = made' /\ heap'[j].id \in {0, heap[j].id}
             /\ j \in Slots
    BY <1>1, <2>2
  <2>3. CASE j = p /\ made' = made + 1 /\ heap'[j].id = made' /\ heap'[i].id \in {0, heap[i].id}
             /\ i \in Slots
    BY <1>1, <2>3
  <2> QED  BY <1>3, <2>1, <2>2, <2>3
<1> QED  BY <1>2, <1>3 DEF IdInv

\* Placing an array,
LEMMA PlaceIds ==
    ASSUME IInv, IdInv, NEW c, NEW of \in Nat, NEW store \in Seq(Value), Place(c, of, store)
    PROVE  IdInv'
<1> DEFINE a == Array(of, store, made + 1)
           p == PlaceAt(heap, free)
<1>1. TypeOK /\ made \in 0 .. MaxMade /\ made + 1 \in Nat
  BY DEF IInv, IdInv
<1>2. a \in ArrayRec /\ a.id = made + 1
  BY <1>1 DEF Array, ArrayRec
<1>3. heap' = PlacedHeap(heap, free, a) /\ made' = made + 1 /\ made < MaxMade
  BY DEF Place
<1>4. /\ heap'[p] = a
      /\ \A i \in Slots : i # p => heap'[i] = heap[i]
      /\ \A i \in 1 .. Len(heap') : i \in Slots \/ i = p
  BY <1>1, <1>2, <1>3, Placing
<1>5. made' \in 0 .. MaxMade /\ made' >= made
  BY <1>1, <1>3, HeapAssumption DEF HeapAssumption
<1>6. Slots' = 1 .. Len(heap')
  BY DEF Slots
<1> HIDE DEF a, p
<1> QED  BY <1>1, <1>2, <1>3, <1>4, <1>5, <1>6, IdsKept

\* and every other step.
LEMMA IdsNext == IInv /\ IdInv /\ [Next]_vars => IdInv'
<1> SUFFICES ASSUME IInv, IdInv, [Next]_vars  PROVE IdInv'
  OBVIOUS
<1>1. TypeOK /\ made \in 0 .. MaxMade /\ Slots = 1 .. Len(heap) /\ Slots' = 1 .. Len(heap')
  BY DEF IInv, IdInv, Slots
<1>2. ASSUME heap' = heap, made' = made  PROVE IdInv'
  BY <1>2 DEF IdInv, Slots
<1>3. ASSUME made' = made, NEW b \in Slots, NEW w, heap' = [heap EXCEPT ![b] = w],
             w.id \in {0, heap[b].id}
      PROVE  IdInv'
  <2>1. Len(heap') = Len(heap)
    BY <1>1, <1>3 DEF TypeOK
  <2>2. \A i \in Slots : heap'[i] = IF i = b THEN w ELSE heap[i]
    BY <1>1, <1>3 DEF TypeOK
  <2>3. Slots' = Slots
    BY <1>1, <2>1
  <2> QED  BY <1>1, <1>3, <2>2, <2>3, IdsKept
<1>4. ASSUME NEW c \in Cells, NEW d \in Cells, NEW len \in Lens, Make(c, d, len)
      PROVE  IdInv'
  <2>1. cells[d].depth \in Nat /\ [k \in 1 .. len |-> cells[d]] \in Seq(Value)
    <3>1. len \in Nat /\ cells[d] \in Value
      BY <1>1, HeapAssumption DEF TypeOK, Lens, HeapAssumption
    <3>2. cells[d].depth \in Nat
      BY <3>1 DEF Value
    <3>3. \A v \in Value : [k \in 1 .. len |-> v] \in Seq(Value)
      BY <3>1
    <3> QED  BY <3>1, <3>2, <3>3
  <2> QED  BY <1>4, <2>1, PlaceIds DEF Make
<1>5. ASSUME NEW c \in Cells, NEW of \in 0 .. MaxDepth - 1, NEW len \in Lens,
             NEW ds \in [1 .. len -> Cells], Of(c, of, ds)
      PROVE  IdInv'
  <2>1. of \in Nat /\ [k \in DOMAIN ds |-> cells[ds[k]]] \in Seq(Value)
    <3>1. len \in Nat /\ cells \in [Cells -> Value]
      BY <1>1, HeapAssumption DEF TypeOK, Lens, HeapAssumption
    <3> QED  BY <3>1
  <2> QED  BY <1>5, <2>1, PlaceIds DEF Of
<1>6. ASSUME NEW c \in Cells, NEW d \in Cells, NEW k, Store(c, k, d) \/ Push(c, d)
      PROVE  IdInv'
  <2>1. cells[c].bits \in Slots /\ made' = made
    BY <1>6, Holding DEF Store, Push, program
  <2>2. \E w : heap' = [heap EXCEPT ![cells[c].bits] = w] /\ w.id = heap[cells[c].bits].id
    BY <1>6 DEF Store, Push, Written, Pushed, Array
  <2> QED  BY <1>3, <2>1, <2>2
<1>7. CASE Sweep
  <2>1. made' = made /\ at \in Nat /\ at <= Len(heap)
    BY <1>1, <1>7 DEF Sweep, program, TypeOK
  <2>2. CASE heap' = [heap EXCEPT ![at] = Swept(@)]
    <3>1. at \in Slots /\ Swept(heap[at]).id = 0
      BY <1>1, <1>7, <2>1 DEF TypeOK, Swept, Array
    <3>2. heap' = [heap EXCEPT ![at] = Swept(heap[at])]
      BY <2>2
    <3> QED  BY <1>3, <2>1, <3>1, <3>2
  <2> QED  BY <1>2, <1>7, <2>1, <2>2 DEF Sweep
<1>8. CASE Clear
  <2>1. made' = 0 /\ Slots' = {}
    BY <1>8 DEF Clear, Slots
  <2> QED  BY <2>1, HeapAssumption DEF IdInv, HeapAssumption
<1>9. ASSUME NEW c \in Cells, NEW d \in Cells, NEW k, NEW n,
             Read(c, k, d) \/ Move(c, d) \/ Drop(c, n)
      PROVE  IdInv'
  BY <1>2, <1>9 DEF Read, Move, Drop
<1>10. CASE Collect \/ CollectNothing \/ Mark \/ Marked \/ Finish \/ UNCHANGED vars
  BY <1>2, <1>10 DEF Collect, CollectNothing, Mark, Marked, Finish, program, vars
<1> QED  BY <1>4, <1>5, <1>6, <1>7, <1>8, <1>9, <1>10 DEF Next, Collector

\* The start.
LEMMA IdsInit == Init => IdInv
<1> SUFFICES ASSUME Init  PROVE IdInv
  OBVIOUS
<1>1. made = 0 /\ Slots = {}
  BY DEF Init, Slots
<1> QED  BY <1>1, HeapAssumption DEF IdInv, HeapAssumption

\* So no behaviour of the heap gives two slots the same array.
LEMMA IdsHold == Spec => [](IInv /\ IdInv)
BY InitIInv, NextKeeps, IdsInit, IdsNext, PTL DEF Spec

-----------------------------------------------------------------------------
(* The mapping, of a state of the heap. *)

AInv == IInv /\ IdInv

\* What a slot in reach holds, and the program, is in reach; slots in reach are in use
\* and each is an array of its own.
LEMMA ReachedFenced ==
    ASSUME AInv, phase = "run"
    PROVE  /\ Fenced(heap, cells, Reached) /\ Reached \subseteq Slots
           /\ \A i \in Reached : heap[i].id # 0 /\ heap[i] \in ArrayRec
<1>1. /\ IInv /\ TypeOK /\ Slots = 1 .. Len(heap) /\ Reached = Live(heap, RootSlots)
      /\ RootSlots \subseteq 1 .. Len(heap)
  BY DEF AInv, IInv, Slots, Reached, RootSlots, Noted
<1>2. \A i \in Reached : i \in Slots /\ heap[i].id # 0 /\ heap[i] \in ArrayRec
  BY <1>1, LiveInUse DEF TypeOK
<1>3. RootSlots \subseteq Reached /\ Closed(heap, Reached)
  BY <1>1, LiveClosed
<1>4. Told(heap, Reached)
  BY <1>2 DEF Told, AInv, IdInv
<1>5. ASSUME NEW i \in Reached
      PROVE  /\ Slotted(Elements(heap[i])) \subseteq Reached
             /\ heap[i].of = 0 => Slotted(Elements(heap[i])) = {}
  <2>1. \A v \in Elements(heap[i]) : Good(heap, v)
    BY <1>1, <1>2 DEF IInv, HandleInv
  <2>2. heap[i].of = 0 => \A v \in Elements(heap[i]) : ~IsArray(v)
    BY <1>1, <1>2 DEF IInv, ElementInv
  <2>3. heap[i].of \in Nat
    BY <1>2 DEF ArrayRec
  <2>4. Inner(heap, i) \subseteq Reached
    BY <1>3 DEF Closed
  <2>5. \A v \in Elements(heap[i]) : IsArray(v) => v.bits \in Inner(heap, i)
    BY <2>1, <2>2, <2>3 DEF Inner, Noted, Good
  <2> QED  BY <2>2, <2>4, <2>5 DEF Slotted
<1>6. Shut(heap, Reached)
  BY <1>5 DEF Shut
<1>7. Slotted(HeldBy(cells)) \subseteq Reached
  <2>1. \A v \in HeldBy(cells) : Good(heap, v) /\ v \in CellValues
    BY <1>1 DEF IInv, HandleInv, HeldBy, CellValues
  <2>2. \A v \in HeldBy(cells) : IsArray(v) => v.bits \in RootSlots
    BY <2>1 DEF RootSlots, Noted, Good
  <2> QED  BY <1>3, <2>2 DEF Slotted
<1> QED  BY <1>1, <1>2, <1>4, <1>5, <1>6, <1>7 DEF Fenced

\* The mapping of a state shows its cells and its arrays in reach.
LEMMA Mapped ==
    ASSUME AInv, phase = "run"
    PROVE  Shown(heap, cells, AbsCells) /\ Stored(heap, Reached, AbsArrays)
<1>1. Told(heap, Reached)
  BY ReachedFenced DEF Fenced
<1> QED  BY <1>1, ArraysIn DEF Shown, AbsCells, Stored, AbsArrays

\* A program's step is one of the store's if what it leaves, reachable or not, is.
LEMMA Becoming ==
    ASSUME NEW D, Fenced(heap', cells', D),
           NEW f, Shown(heap', cells', [c \in Cells |-> f[c]]),
           NEW os, Stored(heap', D, os)
    PROVE  Promised!Becomes([c \in Cells |-> f[c]], os)
<1> DEFINE vs == [c \in Cells |-> f[c]]
<1>1. AbsCells' = vs
  BY DEF AbsCells, Shown
<1> HIDE DEF vs
<1>2. AbsArraysIn(heap', Live(heap', Noted(heap', HeldBy(cells'))))
        = [id \in Promised!Reach(vs, os) |-> os[id]]
  BY BecomesIs DEF vs
<1>3. AbsArrays' = AbsArraysIn(heap', Live(heap', Noted(heap', HeldBy(cells'))))
  BY DEF AbsArrays, Reached, RootSlots, CellValues, HeldBy
<1>4. Promised!Becomes(vs, os)
  BY <1>1, <1>2, <1>3 DEF Promised!Becomes
<1> QED  BY <1>4 DEF vs

\* A slot that is in reach by a cell.
LEMMA ByCell ==
    ASSUME AInv, phase = "run", NEW c \in Cells, IsArray(cells[c])
    PROVE  /\ cells[c].bits \in Reached
           /\ AbsCells[c].depth > 0 /\ AbsCells[c].depth = cells[c].depth
           /\ AbsCells[c].what = heap[cells[c].bits].id
           /\ AbsArrays[AbsCells[c].what] = AbsStore(heap, heap[cells[c].bits])
           /\ AbsCells[c].what \in DOMAIN AbsArrays
<1>1. Slotted(HeldBy(cells)) \subseteq Reached
  BY ReachedFenced DEF Fenced
<1>2. cells[c].bits \in Reached
  BY <1>1 DEF Slotted, HeldBy
<1>3. AbsCells[c] = AbsValue(heap, cells[c])
  BY DEF AbsCells
<1>4. AbsCells[c].depth = cells[c].depth /\ AbsCells[c].what = heap[cells[c].bits].id
  BY <1>3, ValueIs
<1>5. AbsCells[c].depth > 0
  BY <1>4 DEF IsArray
<1> QED  BY <1>2, <1>4, <1>5, Mapped DEF Stored, IdsOf

\* A value put in a cell, out of values in reach.
LEMMA CellStep ==
    ASSUME AInv, phase = "run", NEW d \in Cells, NEW v,
           IsArray(v) => v.bits \in Reached,
           cells' = [cells EXCEPT ![d] = v], heap' = heap
    PROVE  Promised!Becomes([AbsCells EXCEPT ![d] = AbsValue(heap, v)], AbsArrays)
<1> DEFINE f == [c \in Cells |-> IF c = d THEN AbsValue(heap, v) ELSE AbsCells[c]]
           vs == [c \in Cells |-> f[c]]
<1>1. [AbsCells EXCEPT ![d] = AbsValue(heap, v)] = vs
  BY DEF AbsCells
<1>2. \A c \in Cells : cells'[c] = IF c = d THEN v ELSE cells[c]
  BY DEF AInv, IInv, TypeOK
<1>3. Shown(heap', cells', vs)
  BY <1>2 DEF Shown, AbsCells
<1>4. Fenced(heap, cells, Reached)
  BY ReachedFenced
<1>5. Slotted(HeldBy(cells')) \subseteq Reached
  BY <1>2, <1>4 DEF Fenced, Slotted, HeldBy
<1>6. Fenced(heap', cells', Reached)
  BY <1>4, <1>5 DEF Fenced
<1>7. Stored(heap', Reached, AbsArrays)
  BY Mapped
<1> HIDE DEF f
<1>8. Promised!Becomes(vs, AbsArrays)
  BY <1>3, <1>6, <1>7, Becoming
<1> QED  BY <1>1, <1>8

\* Values of a heap in which every slot holds the same array are the same.
LEMMA ValueKept ==
    ASSUME NEW h, NEW h2, NEW v, IsArray(v) => h2[v.bits].id = h[v.bits].id
    PROVE  AbsValue(h2, v) = AbsValue(h, v)
BY DEF AbsValue

\* Arrays, likewise.
LEMMA StoreKept ==
    ASSUME NEW h, NEW h2, NEW a,
           \A v \in Elements(a) : IsArray(v) => h2[v.bits].id = h[v.bits].id
    PROVE  AbsStore(h2, a) = AbsStore(h, a)
<1>1. \A k \in 1 .. Len(a.store) : AbsValue(h2, a.store[k]) = AbsValue(h, a.store[k])
  BY ValueKept DEF Elements
<1> QED  BY <1>1 DEF AbsStore

\* Slots that hold in one heap the arrays they hold in another.
SameIds(h, h2, S) == \A i \in S : h2[i].id = h[i].id

\* So do arrays that name none but those slots.
LEMMA StoreSame ==
    ASSUME NEW h, NEW h2, NEW S, SameIds(h, h2, S), NEW a, Slotted(Elements(a)) \subseteq S
    PROVE  AbsStore(h2, a) = AbsStore(h, a)
<1>1. \A v \in Elements(a) : IsArray(v) => h2[v.bits].id = h[v.bits].id
  BY DEF SameIds, Slotted
<1> QED  BY <1>1, StoreKept

\* An array written to, in place, out of values in reach: the store's is written to, and
\* none of its others.
LEMMA WriteStep ==
    ASSUME AInv, phase = "run", NEW b \in Reached, NEW w \in ArrayRec,
           w.id = heap[b].id, w.of = heap[b].of,
           NEW d \in Cells, cells[d].depth = heap[b].of,
           Elements(w) \subseteq Elements(heap[b]) \cup {cells[d]},
           heap' = [heap EXCEPT ![b] = w], cells' = cells,
           NEW os, DOMAIN os = DOMAIN AbsArrays,
           \A id \in DOMAIN os : id # heap[b].id => os[id] = AbsArrays[id],
           os[heap[b].id] = AbsStore(heap, w)
    PROVE  Promised!Becomes(AbsCells, os)
<1>1. /\ Fenced(heap, cells, Reached) /\ Reached \subseteq Slots
      /\ Slots = 1 .. Len(heap) /\ heap \in Seq(ArrayRec) /\ cells \in [Cells -> Value]
  BY ReachedFenced DEF AInv, IInv, TypeOK, Slots
<1>2. /\ Len(heap') = Len(heap)
      /\ \A i \in Slots : heap'[i] = IF i = b THEN w ELSE heap[i]
      /\ \A i \in Slots : heap'[i].id = heap[i].id /\ heap'[i].of = heap[i].of
  BY <1>1
<1>3. \A i \in Reached : heap'[i] = (IF i = b THEN w ELSE heap[i])
                         /\ heap'[i].id = heap[i].id /\ heap'[i].of = heap[i].of
                         /\ heap'[i] \in ArrayRec
  BY <1>1, <1>2
<1>4. IsArray(cells[d]) => cells[d].bits \in Reached
  BY ByCell
<1>5. ASSUME NEW i \in Reached
      PROVE  /\ Slotted(Elements(heap'[i])) \subseteq Reached
             /\ heap'[i].of = 0 => Slotted(Elements(heap'[i])) = {}
  <2>1. /\ Slotted(Elements(heap[i])) \subseteq Reached
        /\ heap[i].of = 0 => Slotted(Elements(heap[i])) = {}
    BY <1>1 DEF Fenced, Shut
  <2>2. CASE i # b
    BY <1>3, <2>1, <2>2
  <2>3. CASE i = b
    <3>1. \A v \in Elements(w) : v \in Elements(heap[b]) \/ v = cells[d]
      OBVIOUS
    <3>2. \A v \in Elements(w) : IsArray(v) => v \in Elements(heap[b]) \/ cells[d].bits = v.bits
      BY <3>1
    <3>3. \A v \in Elements(heap[b]) : IsArray(v) => v.bits \in Slotted(Elements(heap[b]))
      BY DEF Slotted
    <3>4. \A v \in Elements(w) : IsArray(v) => v.bits \in Reached
      BY <1>4, <2>1, <2>3, <3>1, <3>3
    <3>5. heap[b].of = 0 => \A v \in Elements(w) : ~IsArray(v)
      BY <2>1, <2>3, <3>1, <3>3 DEF IsArray
    <3>6. heap'[i] = w /\ heap'[i].of = heap[b].of
      BY <1>3, <2>3
    <3> QED  BY <3>4, <3>5, <3>6 DEF Slotted
  <2> QED  BY <2>2, <2>3
<1>6. Fenced(heap', cells', Reached)
  <2>1. Told(heap', Reached)
    BY <1>1, <1>3 DEF Told, Fenced
  <2>2. Shut(heap', Reached)
    BY <1>5 DEF Shut
  <2>3. Reached \subseteq 1 .. Len(heap') /\ Slotted(HeldBy(cells')) \subseteq Reached
    BY <1>1, <1>2 DEF Fenced
  <2> QED  BY <1>3, <1>5, <2>1, <2>2, <2>3 DEF Fenced
<1>7. \A v : IsArray(v) /\ v.bits \in Reached => heap'[v.bits].id = heap[v.bits].id
  BY <1>3
<1>8. Shown(heap', cells', AbsCells)
  <2>1. ASSUME NEW x \in Cells  PROVE AbsValue(heap', cells[x]) = AbsValue(heap, cells[x])
    <3>1. IsArray(cells[x]) => heap'[cells[x].bits].id = heap[cells[x].bits].id
      BY <1>7, ByCell
    <3> QED  BY ZenonT(30), <3>1, ValueKept
  <2> QED  BY <2>1 DEF Shown, AbsCells
<1>9. Stored(heap', Reached, os)
  <2>1. DOMAIN os = IdsOf(heap, Reached)
        /\ \A i \in Reached : AbsArrays[heap[i].id] = AbsStore(heap, heap[i])
    BY Mapped DEF Stored, IdsOf
  <2>2. IdsOf(heap', Reached) = IdsOf(heap, Reached)
    BY <1>3 DEF IdsOf
  <2>3. ASSUME NEW i \in Reached
        PROVE  AbsStore(heap', heap'[i]) = AbsStore(heap, heap'[i])
    <3>1. ASSUME NEW a, Slotted(Elements(a)) \subseteq Reached
          PROVE  AbsStore(heap', a) = AbsStore(heap, a)
      <4>1. SameIds(heap, heap', Reached)
        BY <1>3 DEF SameIds
      <4> QED  BY <3>1, <4>1, StoreSame
    <3> QED  BY <1>5, <3>1
  <2>4. ASSUME NEW i \in Reached
        PROVE  os[heap'[i].id] = AbsStore(heap, heap'[i])
    <3>1. CASE i = b
      BY <1>3, <3>1
    <3>2. CASE i # b
      <4>1. heap[i].id # heap[b].id
        BY <1>1, <3>2 DEF Fenced, Told
      <4>2. heap[i].id \in DOMAIN os
        BY <2>1 DEF IdsOf
      <4> QED  BY <1>3, <2>1, <3>2, <4>1, <4>2
    <3> QED  BY <3>1, <3>2
  <2> QED  BY <2>1, <2>2, <2>3, <2>4 DEF Stored, IdsOf
<1>10. AbsCells = [c \in Cells |-> AbsCells[c]]
  BY DEF AbsCells
<1> QED  BY <1>6, <1>8, <1>9, <1>10, Becoming

\* A new array, out of values in reach: the store gets it under an identity that none in
\* reach has.
LEMMA PlaceStep ==
    ASSUME AInv, phase = "run", NEW c \in Cells, NEW of \in 0 .. MaxDepth - 1, NEW len \in Lens,
           NEW ds \in [1 .. len -> Cells], \A k \in 1 .. len : cells[ds[k]].depth = of,
           Place(c, of, [k \in 1 .. len |-> cells[ds[k]]])
    PROVE  \E id \in 1 .. MaxMade : Promised!New(c, id, of, ds)
<1> DEFINE id == made + 1
           store == [k \in 1 .. len |-> cells[ds[k]]]
           a == Array(of, store, id)
           p == PlaceAt(heap, free)
           D == Reached \cup {p}
           o == [of |-> of, store |-> [k \in DOMAIN ds |-> AbsCells[ds[k]]]]
           f == [x \in Cells |-> IF x = c THEN Promised!ArrV(of + 1, id) ELSE AbsCells[x]]
           vs == [x \in Cells |-> f[x]]
           os == [i \in DOMAIN AbsArrays \cup {id} |-> IF i = id THEN o ELSE AbsArrays[i]]
<1>1. /\ heap' = PlacedHeap(heap, free, a)
      /\ cells' = [cells EXCEPT ![c] = HandleOf(of + 1, p, id)]
      /\ made < MaxMade
  BY DEF Place
<1>2. /\ IInv /\ IdInv /\ TypeOK /\ made \in Nat /\ id \in 1 .. MaxMade
      /\ cells \in [Cells -> Value] /\ len \in Nat /\ of \in Nat
      /\ Slots = 1 .. Len(heap)
  BY <1>1, HeapAssumption DEF AInv, IInv, TypeOK, HeapAssumption, Lens, Slots
<1>3. /\ store \in Seq(Value) /\ DOMAIN store = 1 .. len /\ Len(store) = len
      /\ \A k \in 1 .. len : store[k] = cells[ds[k]]
  BY <1>2
<1> HIDE DEF id, store
<1>4. /\ a \in ArrayRec /\ a.id = id /\ a.of = of /\ a.store = store
  BY <1>2, <1>3 DEF Array, ArrayRec
<1>5. /\ Len(heap') >= Len(heap) /\ p \in 1 .. Len(heap') /\ heap'[p] = a
      /\ \A i \in Slots : i # p => heap'[i] = heap[i]
      /\ p \in Slots => free # <<>> /\ Len(free) \in DOMAIN free /\ p = free[Len(free)]
      /\ Len(heap') \in Nat /\ Len(heap) \in Nat
  <2>1. heap' \in Seq(ArrayRec)
    BY <1>1, <1>2, <1>4, Placing
  <2>2. Len(heap') \in Nat /\ Len(heap) \in Nat
    BY <1>2, <2>1 DEF TypeOK
  <2> QED  BY <1>1, <1>2, <1>4, <2>2, Placing
<1> HIDE DEF a, p
<1>6. /\ Fenced(heap, cells, Reached) /\ Reached \subseteq Slots
      /\ \A i \in Reached : heap[i].id # 0 /\ heap[i] \in ArrayRec
  BY ReachedFenced
<1>7. p \notin Reached
  BY <1>2, <1>5, <1>6 DEF IInv, FreeInv
<1>8. \A i \in Reached : heap'[i] = heap[i] /\ heap[i].id # id
  <2>1. \A i \in Reached : heap[i].id \in 0 .. made
    BY <1>2, <1>6 DEF IdInv
  <2> QED  BY <1>2, <1>5, <1>6, <1>7, <2>1 DEF id
<1>9. ASSUME NEW x \in Cells, IsArray(cells[x])  PROVE cells[x].bits \in Reached
  BY <1>9, ByCell
<1>10. \A v \in Elements(a) : \E k \in 1 .. len : v = cells[ds[k]] /\ ds[k] \in Cells
  BY <1>3, <1>4 DEF Elements
<1>11. /\ Slotted(Elements(a)) \subseteq Reached
       /\ of = 0 => Slotted(Elements(a)) = {}
  BY <1>9, <1>10 DEF Slotted, IsArray
<1>12. \A x \in Cells : cells'[x] = IF x = c THEN HandleOf(of + 1, p, id) ELSE cells[x]
  BY <1>1, <1>2
<1>13. HandleOf(of + 1, p, id).bits = p /\ HandleOf(of + 1, p, id).depth = of + 1
       /\ IsArray(HandleOf(of + 1, p, id))
  BY <1>2 DEF HandleOf, IsArray
<1>14. Fenced(heap', cells', D)
  <2>1. D \subseteq 1 .. Len(heap')
    BY <1>2, <1>5, <1>6
  <2>2. Told(heap', D)
    BY <1>4, <1>5, <1>6, <1>8 DEF Told, Fenced
  <2>3. Shut(heap', D)
    BY <1>5, <1>6, <1>8, <1>11 DEF Shut, Fenced
  <2>4. \A i \in D : heap'[i] \in ArrayRec /\ (heap'[i].of = 0 => Slotted(Elements(heap'[i])) = {})
    BY <1>4, <1>5, <1>6, <1>8, <1>11 DEF Fenced
  <2>5. Slotted(HeldBy(cells')) \subseteq D
    BY <1>9, <1>12, <1>13 DEF Slotted, HeldBy
  <2> QED  BY <2>1, <2>2, <2>3, <2>4, <2>5 DEF Fenced
<1>15. \A v : IsArray(v) /\ v.bits \in Reached => heap'[v.bits].id = heap[v.bits].id
  BY <1>8
<1>16. ASSUME NEW x \in Cells  PROVE AbsValue(heap', cells[x]) = AbsCells[x]
  <2>1. AbsValue(heap', cells[x]) = AbsValue(heap, cells[x])
    BY <1>9, <1>15, ValueKept
  <2> QED  BY <2>1 DEF AbsCells
<1>17. Shown(heap', cells', vs)
  <2>1. AbsValue(heap', HandleOf(of + 1, p, id)) = Promised!ArrV(of + 1, id)
    BY <1>4, <1>5, <1>13 DEF AbsValue, Promised!ArrV
  <2> QED  BY <1>12, <1>16, <2>1 DEF Shown
<1>18. AbsStore(heap', a) = o
  <2>1. \A k \in 1 .. len : AbsValue(heap', store[k]) = AbsCells[ds[k]]
    BY <1>3, <1>16
  <2> QED  BY <1>3, <1>4, <2>1 DEF AbsStore
<1>19. /\ DOMAIN AbsArrays = IdsOf(heap, Reached)
       /\ \A i \in Reached : AbsArrays[heap[i].id] = AbsStore(heap, heap[i])
  BY Mapped DEF Stored, IdsOf
<1>20. id \notin DOMAIN AbsArrays
  BY <1>8, <1>19 DEF IdsOf
<1> HIDE DEF o
<1>21. Stored(heap', D, os)
  <2>1. IdsOf(heap', D) = IdsOf(heap, Reached) \cup {id}
    BY <1>4, <1>5, <1>8 DEF IdsOf
  <2>2. DOMAIN os = IdsOf(heap', D)
    BY <1>19, <2>1
  <2>3. os[heap'[p].id] = AbsStore(heap', heap'[p])
    BY <1>4, <1>5, <1>18
  <2>4. ASSUME NEW i \in Reached  PROVE os[heap'[i].id] = AbsStore(heap', heap'[i])
    <3>1. \A v \in Elements(heap[i]) : IsArray(v) => v.bits \in Reached
      BY <1>6 DEF Fenced, Shut, Slotted
    <3>2. AbsStore(heap', heap[i]) = AbsStore(heap, heap[i])
      BY <1>15, <3>1, StoreKept
    <3>3. heap[i].id \in DOMAIN AbsArrays /\ heap[i].id # id
      BY <1>8, <1>19 DEF IdsOf
    <3> QED  BY <1>8, <1>19, <3>2, <3>3
  <2>5. \A i \in D : os[heap'[i].id] = AbsStore(heap', heap'[i])
    BY <2>3, <2>4
  <2> QED  BY <2>2, <2>5 DEF Stored, IdsOf
<1> HIDE DEF f
<1>22. Promised!Becomes(vs, os)
  <2> HIDE DEF D, os
  <2> QED  BY <1>14, <1>17, <1>21, Becoming
<1>23. vs = [AbsCells EXCEPT ![c] = Promised!ArrV(of + 1, id)]
  BY DEF f, AbsCells
<1>24. \A k \in DOMAIN ds : AbsCells[ds[k]].depth = of
  BY ValueIs DEF AbsCells
<1>25. Promised!New(c, id, of, ds)
  BY <1>20, <1>22, <1>23, <1>24 DEF Promised!New, o
<1> QED  BY <1>2, <1>25

-----------------------------------------------------------------------------
(* Every step of the program is one of the store's. *)

\* An array of one value repeated.
LEMMA MakeImplements ==
    ASSUME AInv, NEW c \in Cells, NEW d \in Cells, NEW len \in Lens, Make(c, d, len)
    PROVE  Promised!Next
<1> DEFINE ds == [k \in 1 .. len |-> d]
           of == cells[d].depth
<1>1. ds \in [1 .. len -> Cells] /\ DOMAIN ds = 1 .. len /\ \A k \in 1 .. len : ds[k] = d
  OBVIOUS
<1>2. of \in 0 .. MaxDepth - 1
  BY HeapAssumption DEF HeapAssumption, Make, Place, AInv, IInv, TypeOK, Value
<1>3. [k \in 1 .. len |-> cells[d]] = [k \in 1 .. len |-> cells[ds[k]]]
  BY <1>1
<1>4. phase = "run" /\ Place(c, of, [k \in 1 .. len |-> cells[ds[k]]])
  BY <1>3 DEF Make
<1>5. \A k \in 1 .. len : cells[ds[k]].depth = of
  BY <1>1
<1> HIDE DEF ds, of
<1>6. \E id \in 1 .. MaxMade : Promised!New(c, id, of, ds)
  BY <1>1, <1>2, <1>4, <1>5, PlaceStep
<1> QED  BY <1>1, <1>2, <1>6 DEF Promised!Next, Lens

\* An array of values listed.
LEMMA OfImplements ==
    ASSUME AInv, NEW c \in Cells, NEW of \in 0 .. MaxDepth - 1, NEW len \in Lens,
           NEW ds \in [1 .. len -> Cells], Of(c, of, ds)
    PROVE  Promised!Next
<1>1. DOMAIN ds = 1 .. len
  OBVIOUS
<1>2. /\ phase = "run" /\ Place(c, of, [k \in 1 .. len |-> cells[ds[k]]])
      /\ \A k \in 1 .. len : cells[ds[k]].depth = of
  BY <1>1 DEF Of
<1>3. \E id \in 1 .. MaxMade : Promised!New(c, id, of, ds)
  BY <1>2, PlaceStep
<1> QED  BY <1>3 DEF Promised!Next, Lens

\* An element read: one the slot holds is one the store's array has.
LEMMA ReadImplements ==
    ASSUME AInv, NEW c \in Cells, NEW d \in Cells, NEW k \in 1 .. MaxLen, Read(c, k, d)
    PROVE  Promised!Next
<1> DEFINE b == cells[c].bits
           v == heap[b].store[k]
<1>1. /\ phase = "run" /\ IsArray(cells[c]) /\ k \in 1 .. Len(heap[b].store)
      /\ cells' = [cells EXCEPT ![d] = v] /\ heap' = heap
  BY DEF Read
<1>2. /\ b \in Reached /\ AbsCells[c].depth > 0
      /\ AbsArrays[AbsCells[c].what] = AbsStore(heap, heap[b])
  BY <1>1, ByCell
<1>3. heap[b] \in ArrayRec /\ Slotted(Elements(heap[b])) \subseteq Reached
  BY <1>1, <1>2, ReachedFenced DEF Fenced, Shut
<1>4. IsArray(v) => v.bits \in Reached
  BY <1>1, <1>3 DEF Slotted, Elements
<1>5. /\ Len(AbsStore(heap, heap[b]).store) = Len(heap[b].store)
      /\ AbsStore(heap, heap[b]).store[k] = AbsValue(heap, v)
  BY <1>1, <1>3, StoreIs
<1> HIDE DEF b, v
<1>6. Promised!Becomes([AbsCells EXCEPT ![d] = AbsValue(heap, v)], AbsArrays)
  BY <1>1, <1>4, CellStep
<1>7. Promised!Get(c, k, d)
  BY <1>1, <1>2, <1>5, <1>6 DEF Promised!Get
<1> QED  BY <1>7 DEF Promised!Next

\* A handle copied.
LEMMA MoveImplements ==
    ASSUME AInv, NEW c \in Cells, NEW d \in Cells, Move(c, d)
    PROVE  Promised!Next
<1>1. phase = "run" /\ cells' = [cells EXCEPT ![d] = cells[c]] /\ heap' = heap
  BY DEF Move
<1>2. IsArray(cells[c]) => cells[c].bits \in Reached
  BY <1>1, ByCell
<1>3. Promised!Becomes([AbsCells EXCEPT ![d] = AbsValue(heap, cells[c])], AbsArrays)
  BY <1>1, <1>2, CellStep
<1>4. AbsCells[c] = AbsValue(heap, cells[c])
  BY DEF AbsCells
<1>5. Promised!Copy(c, d)
  BY <1>3, <1>4 DEF Promised!Copy
<1> QED  BY <1>5 DEF Promised!Next

\* A cell that lets go of what it held.
LEMMA DropImplements ==
    ASSUME AInv, NEW c \in Cells, NEW n \in Data, Drop(c, n)
    PROVE  Promised!Next
<1>1. phase = "run" /\ cells' = [cells EXCEPT ![c] = Num(n)] /\ heap' = heap
  BY DEF Drop
<1>2. ~IsArray(Num(n)) /\ AbsValue(heap, Num(n)) = Promised!NumV(n)
  BY DEF Num, IsArray, AbsValue, Promised!NumV
<1>3. Promised!Becomes([AbsCells EXCEPT ![c] = AbsValue(heap, Num(n))], AbsArrays)
  BY <1>1, <1>2, CellStep
<1>4. Promised!Forget(c, n)
  BY <1>2, <1>3 DEF Promised!Forget
<1> QED  BY <1>4 DEF Promised!Next

\* An element assigned.
LEMMA StoreImplements ==
    ASSUME AInv, NEW c \in Cells, NEW d \in Cells, NEW k \in 1 .. MaxLen, Store(c, k, d)
    PROVE  Promised!Next
<1> DEFINE b == cells[c].bits
           id == AbsCells[c].what
           w == Written(heap[b], k, cells[d])
           os == [AbsArrays EXCEPT ![id].store[k] = AbsCells[d]]
<1>1. /\ phase = "run" /\ IsArray(cells[c]) /\ k \in 1 .. Len(heap[b].store)
      /\ cells[d].depth = heap[b].of
      /\ heap' = [heap EXCEPT ![b] = w] /\ cells' = cells
      /\ cells[d] \in Value
  BY DEF Store, program, AInv, IInv, TypeOK
<1>2. /\ b \in Reached /\ AbsCells[c].depth > 0 /\ id \in DOMAIN AbsArrays
      /\ id = heap[b].id /\ AbsArrays[id] = AbsStore(heap, heap[b])
  BY <1>1, ByCell
<1>3. heap[b] \in ArrayRec
  BY <1>1, <1>2, ReachedFenced
<1>4. AbsCells[d] = AbsValue(heap, cells[d])
  BY DEF AbsCells
<1> DEFINE s == [heap[b].store EXCEPT ![k] = cells[d]]
<1>5. /\ s \in Seq(Value) /\ Len(s) = Len(heap[b].store)
      /\ \A j \in 1 .. Len(heap[b].store) : s[j] = IF j = k THEN cells[d] ELSE heap[b].store[j]
  BY <1>1, <1>3 DEF ArrayRec
<1>6. /\ w \in ArrayRec /\ w.id = heap[b].id /\ w.of = heap[b].of /\ w.store = s
  BY <1>3, <1>5 DEF Written, Array, ArrayRec
<1> HIDE DEF b, w, s
<1>7. Elements(w) \subseteq Elements(heap[b]) \cup {cells[d]}
  BY <1>5, <1>6 DEF Elements
<1>8. /\ DOMAIN AbsStore(heap, heap[b]).store = 1 .. Len(heap[b].store)
      /\ \A j \in 1 .. Len(heap[b].store) :
           AbsStore(heap, heap[b]).store[j] = AbsValue(heap, heap[b].store[j])
  BY <1>3, StoreIs
<1>9. [AbsStore(heap, heap[b]) EXCEPT !.store[k] = AbsCells[d]] = AbsStore(heap, w)
  <2> DEFINE t == AbsStore(heap, heap[b]).store
             u == AbsStore(heap, w).store
             x == AbsCells[d]
  <2>1. /\ DOMAIN u = 1 .. Len(heap[b].store) /\ DOMAIN t = 1 .. Len(heap[b].store)
        /\ \A j \in 1 .. Len(heap[b].store) : u[j] = IF j = k THEN x ELSE t[j]
    BY <1>4, <1>5, <1>6, <1>8, StoreIs
  <2>2. t = [j \in DOMAIN t |-> t[j]] /\ u = [j \in DOMAIN u |-> u[j]]
    BY DEF AbsStore
  <2>3. /\ AbsStore(heap, heap[b]) = [of |-> heap[b].of, store |-> t]
        /\ AbsStore(heap, w) = [of |-> heap[b].of, store |-> u]
    BY <1>6 DEF AbsStore
  <2> HIDE DEF t, u, x
  <2>4. [t EXCEPT ![k] = x] = u
    BY <2>1, <2>2
  <2>5. [[of |-> heap[b].of, store |-> t] EXCEPT !.store[k] = x]
           = [of |-> heap[b].of, store |-> [t EXCEPT ![k] = x]]
    OBVIOUS
  <2> QED  BY <2>3, <2>4, <2>5 DEF x
<1>10. /\ DOMAIN os = DOMAIN AbsArrays
       /\ \A i \in DOMAIN os : i # heap[b].id => os[i] = AbsArrays[i]
       /\ os[heap[b].id] = AbsStore(heap, w)
  BY <1>2, <1>9
<1> HIDE DEF os, id
<1>11. Promised!Becomes(AbsCells, os)
  BY <1>1, <1>2, <1>6, <1>7, <1>10, WriteStep
<1>12. /\ AbsCells[d].depth = AbsArrays[id].of
       /\ k \in 1 .. Len(AbsArrays[id].store)
  BY <1>1, <1>2, <1>3, <1>4, ValueIs, StoreIs
<1>13. Promised!Put(c, k, d)
  BY <1>2, <1>11, <1>12 DEF Promised!Put, id, os
<1> QED  BY <1>13 DEF Promised!Next

\* An element pushed.
LEMMA PushImplements ==
    ASSUME AInv, NEW c \in Cells, NEW d \in Cells, Push(c, d)
    PROVE  Promised!Next
<1> DEFINE b == cells[c].bits
           id == AbsCells[c].what
           w == Pushed(heap[b], cells[d])
           os == [AbsArrays EXCEPT ![id].store = Append(@, AbsCells[d])]
<1>1. /\ phase = "run" /\ IsArray(cells[c])
      /\ cells[d].depth = heap[b].of
      /\ heap' = [heap EXCEPT ![b] = w] /\ cells' = cells
      /\ cells[d] \in Value
  BY DEF Push, program, AInv, IInv, TypeOK
<1>2. /\ b \in Reached /\ AbsCells[c].depth > 0 /\ id \in DOMAIN AbsArrays
      /\ id = heap[b].id /\ AbsArrays[id] = AbsStore(heap, heap[b])
  BY <1>1, ByCell
<1>3. heap[b] \in ArrayRec
  BY <1>1, <1>2, ReachedFenced
<1>4. AbsCells[d] = AbsValue(heap, cells[d])
  BY DEF AbsCells
<1> DEFINE s == Append(heap[b].store, cells[d])
           n == Len(heap[b].store)
<1>5. /\ s \in Seq(Value) /\ Len(s) = n + 1 /\ n \in Nat /\ s[n + 1] = cells[d]
      /\ \A j \in 1 .. n : s[j] = heap[b].store[j]
  BY <1>1, <1>3 DEF ArrayRec
<1>6. /\ w \in ArrayRec /\ w.id = heap[b].id /\ w.of = heap[b].of /\ w.store = s
  BY <1>3, <1>5 DEF Pushed, Array, ArrayRec
<1> HIDE DEF b, w, s
<1>7. Elements(w) \subseteq Elements(heap[b]) \cup {cells[d]}
  BY <1>5, <1>6 DEF Elements
<1>8. /\ Len(AbsStore(heap, heap[b]).store) = n
      /\ DOMAIN AbsStore(heap, heap[b]).store = 1 .. n
      /\ \A j \in 1 .. n : AbsStore(heap, heap[b]).store[j] = AbsValue(heap, heap[b].store[j])
  BY <1>3, StoreIs
<1>9. [AbsStore(heap, heap[b]) EXCEPT !.store = Append(@, AbsCells[d])] = AbsStore(heap, w)
  <2> DEFINE t == AbsStore(heap, heap[b]).store
             u == AbsStore(heap, w).store
             x == AbsCells[d]
             z == Append(t, x)
             X == {t[j] : j \in 1 .. n} \cup {x}
  <2>1. /\ DOMAIN u = 1 .. n + 1 /\ u[n + 1] = x /\ DOMAIN t = 1 .. n
        /\ \A j \in 1 .. n : u[j] = t[j]
    <3>1. /\ DOMAIN u = 1 .. n + 1
          /\ \A j \in 1 .. n + 1 : u[j] = AbsValue(heap, s[j])
      BY <1>5, <1>6, StoreIs
    <3> HIDE DEF t, u, n
    <3>2. n + 1 \in 1 .. n + 1 /\ \A j \in 1 .. n : j \in 1 .. n + 1
      BY <1>5
    <3>3. DOMAIN t = 1 .. n /\ \A j \in 1 .. n : t[j] = AbsValue(heap, heap[b].store[j])
      BY <1>8 DEF t
    <3> QED  BY <1>4, <1>5, <3>1, <3>2, <3>3
  <2>2. t = [j \in DOMAIN t |-> t[j]] /\ u = [j \in DOMAIN u |-> u[j]]
    BY DEF AbsStore
  <2>3. /\ AbsStore(heap, heap[b]) = [of |-> heap[b].of, store |-> t]
        /\ AbsStore(heap, w) = [of |-> heap[b].of, store |-> u]
    BY <1>6 DEF AbsStore
  <2>4. n \in Nat
    BY <1>5
  <2> HIDE DEF t, u, x, n
  <2>5. t \in Seq(X) /\ x \in X /\ Len(t) = n
    <3>1. t \in [1 .. n -> X] /\ x \in X
      BY <2>1, <2>2
    <3> HIDE DEF X
    <3> QED  BY <2>4, <3>1
  <2> HIDE DEF X
  <2>6. /\ DOMAIN z = 1 .. n + 1 /\ z[n + 1] = x /\ \A j \in 1 .. n : z[j] = t[j]
        /\ z = [j \in DOMAIN z |-> z[j]]
    <3> HIDE DEF n
    <3>1. z \in Seq(X) /\ Len(z) = n + 1
      BY <2>5
    <3>2. z[n + 1] = x
      BY <2>4, <2>5
    <3>3. \A j \in 1 .. n : z[j] = t[j]
      BY <2>4, <2>5
    <3> HIDE DEF z
    <3>4. DOMAIN z = 1 .. n + 1 /\ z = [j \in DOMAIN z |-> z[j]]
      BY <2>4, <3>1
    <3> QED  BY <3>2, <3>3, <3>4
  <2> HIDE DEF z
  <2>7. \A j \in 1 .. n + 1 : u[j] = z[j]
    BY <2>1, <2>4, <2>6
  <2>8. u = z
    BY <2>1, <2>2, <2>6, <2>7
  <2>9. [[of |-> heap[b].of, store |-> t] EXCEPT !.store = Append(@, x)]
           = [of |-> heap[b].of, store |-> Append(t, x)]
    <3>1. [of |-> heap[b].of, store |-> t].store = t
      OBVIOUS
    <3>2. \A y : [[of |-> heap[b].of, store |-> t] EXCEPT !.store = y]
                    = [of |-> heap[b].of, store |-> y]
      OBVIOUS
    <3> QED  BY <3>1, <3>2
  <2> QED  BY <2>3, <2>8, <2>9 DEF x, z
<1>10. /\ DOMAIN os = DOMAIN AbsArrays
       /\ \A i \in DOMAIN os : i # heap[b].id => os[i] = AbsArrays[i]
       /\ os[heap[b].id] = AbsStore(heap, w)
  BY <1>2, <1>9
<1> HIDE DEF os, id, n
<1>11. Promised!Becomes(AbsCells, os)
  BY <1>1, <1>2, <1>6, <1>7, <1>10, WriteStep
<1>12. AbsCells[d].depth = AbsArrays[id].of
  BY <1>1, <1>2, <1>3, <1>4, ValueIs, StoreIs
<1>13. Promised!Extend(c, d)
  BY <1>2, <1>11, <1>12 DEF Promised!Extend, id, os
<1> QED  BY <1>13 DEF Promised!Next

\* With no slots there are no arrays.
LEMMA NothingMapped ==
    ASSUME NEW h, h = <<>>, NEW R
    PROVE  AbsArraysIn(h, Live(h, R)) = [id \in {} |-> 0]
<1>1. Live(h, R) = {}
  <2>1. 1 .. Len(h) = {}
    OBVIOUS
  <2> QED  BY <2>1 DEF Live
<1> QED  BY <1>1 DEF AbsArraysIn

\* Nor any cell that shows one.
LEMMA NoneShown ==
    ASSUME NEW h
    PROVE  [c \in Cells |-> AbsValue(h, Num(0))] = [c \in Cells |-> Promised!NumV(0)]
BY DEF Num, IsArray, AbsValue, Promised!NumV

\* The start,
LEMMA InitImplements == Init => Promised!Init
<1> SUFFICES ASSUME Init  PROVE Promised!Init
  OBVIOUS
<1>1. heap = <<>> /\ cells = [c \in Cells |-> Num(0)]
  BY DEF Init
<1>2. AbsArrays = [id \in {} |-> 0]
  BY <1>1, NothingMapped DEF AbsArrays, Reached
<1>3. AbsCells = [c \in Cells |-> Promised!NumV(0)]
  BY <1>1, NoneShown DEF AbsCells
<1> QED  BY <1>2, <1>3 DEF Promised!Init

\* and a new one.
LEMMA ClearImplements == Clear => Promised!Next
<1> SUFFICES ASSUME Clear  PROVE Promised!Next
  OBVIOUS
<1>1. heap' = <<>> /\ cells' = [c \in Cells |-> Num(0)]
  BY DEF Clear
<1>2. AbsArraysIn(heap', Live(heap', RootSlots')) = [id \in {} |-> 0]
  BY <1>1, NothingMapped
<1>3. AbsArrays' = [id \in {} |-> 0]
  BY <1>2 DEF AbsArrays, Reached
<1>4. AbsCells' = [c \in Cells |-> Promised!NumV(0)]
  BY <1>1, NoneShown DEF AbsCells
<1> QED  BY <1>3, <1>4 DEF Promised!Next, Promised!Restart

-----------------------------------------------------------------------------
(* Every step of the collector is none of the store's. *)

\* A slot swept is none that is in reach, so the mapping does not see it.
LEMMA SweepStutters ==
    ASSUME AInv, phase = "sweep", at <= Len(heap), Sweepable(heap, marked, at),
           heap' = [heap EXCEPT ![at] = Swept(@)], cells' = cells
    PROVE  AbsCells' = AbsCells /\ AbsArrays' = AbsArrays
<1> DEFINE L == Reached
<1>1. /\ IInv /\ heap \in Seq(ArrayRec) /\ cells \in [Cells -> Value]
      /\ at \in Nat /\ Slots = 1 .. Len(heap)
      /\ RootSlots \subseteq 1 .. Len(heap) /\ L = Live(heap, RootSlots)
  BY DEF AInv, IInv, TypeOK, Slots, RootSlots, Noted, Reached
<1>2. L \subseteq marked /\ at \notin marked /\ L \subseteq Slots /\ \A i \in L : heap[i].id # 0
  BY <1>1, LiveInUse DEF Sweepable
<1>3. Len(heap') = Len(heap) /\ \A i \in Slots : i # at => heap'[i] = heap[i]
  BY <1>1
<1>4. /\ \A c \in Cells : IsArray(cells[c]) => cells[c].bits \in marked
      /\ \A i \in marked : \A v \in Elements(heap[i]) : IsArray(v) => v.bits \in marked
      /\ marked \subseteq Slots
  BY <1>1, HeldIsMarked DEF IInv, TypeOK
<1>5. \A i \in marked : heap'[i] = heap[i]
  BY <1>2, <1>3, <1>4
<1>6. AbsCells' = AbsCells
  <2>1. \A c \in Cells : IsArray(cells[c]) => heap'[cells[c].bits].id = heap[cells[c].bits].id
    BY <1>4, <1>5
  <2>2. \A c \in Cells : AbsValue(heap', cells[c]) = AbsValue(heap, cells[c])
    BY Zenon, <2>1, ValueKept
  <2> QED  BY <2>2 DEF AbsCells
<1>7. Reached' = L
  <2>1. RootSlots' = RootSlots
    BY <1>3 DEF RootSlots, CellValues, Noted
  <2>2. \A i \in Live(heap, RootSlots) : heap'[i] = heap[i]
    BY <1>1, <1>2, <1>5
  <2>3. Live(heap', RootSlots) = Live(heap, RootSlots)
    BY <1>1, <1>3, <2>2, LiveSame
  <2> QED  BY <1>1, <2>1, <2>3 DEF Reached
<1>8. AbsArrays' = AbsArraysIn(heap', L)
  BY <1>7 DEF AbsArrays
<1>9. Told(heap, L) /\ Told(heap', L)
  BY <1>2, <1>5 DEF Told, AInv, IdInv
<1>10. ASSUME NEW i \in L  PROVE AbsStore(heap', heap'[i]) = AbsStore(heap, heap[i])
  <2>1. \A v \in Elements(heap[i]) : IsArray(v) => heap'[v.bits].id = heap[v.bits].id
    BY <1>2, <1>4, <1>5
  <2>2. AbsStore(heap', heap[i]) = AbsStore(heap, heap[i])
    BY Zenon, <2>1, StoreKept
  <2> QED  BY <1>2, <1>5, <2>2
<1> DEFINE F == AbsArraysIn(heap, L)
           G == AbsArraysIn(heap', L)
<1>11. /\ DOMAIN F = IdsOf(heap, L) /\ F = [id \in DOMAIN F |-> F[id]]
       /\ \A i \in L : F[heap[i].id] = AbsStore(heap, heap[i])
  <2>1. F = [id \in DOMAIN F |-> F[id]]
    BY DEF AbsArraysIn
  <2> QED  BY <1>9, <2>1, ArraysIn
<1>12. /\ DOMAIN G = IdsOf(heap, L) /\ G = [id \in DOMAIN G |-> G[id]]
       /\ \A i \in L : G[heap'[i].id] = AbsStore(heap', heap'[i])
  <2>1. G = [id \in DOMAIN G |-> G[id]]
    BY DEF AbsArraysIn
  <2>2. DOMAIN G = IdsOf(heap', L) /\ \A i \in L : G[heap'[i].id] = AbsStore(heap', heap'[i])
    <3> DEFINE after == heap'
    <3>1. Told(after, L)
      BY <1>9
    <3>2. G = AbsArraysIn(after, L)
      OBVIOUS
    <3> HIDE DEF G, L
    <3>3. \A i \in L : AbsArraysIn(after, L)[after[i].id] = AbsStore(after, after[i])
      <4> HIDE DEF after
      <4> QED  BY <3>1, ArraysIn
    <3>4. DOMAIN AbsArraysIn(after, L) = IdsOf(after, L)
      <4> HIDE DEF after
      <4> QED  BY <3>1, ArraysIn
    <3> QED  BY <3>2, <3>3, <3>4
  <2>3. IdsOf(heap', L) = IdsOf(heap, L)
    BY <1>2, <1>5 DEF IdsOf
  <2> QED  BY <2>1, <2>2, <2>3
<1> HIDE DEF F, G
<1>13. \A id \in IdsOf(heap, L) : F[id] = G[id]
  <2>1. ASSUME NEW i \in L  PROVE F[heap[i].id] = G[heap[i].id]
    <3>1. heap'[i] = heap[i]
      BY <1>2, <1>5
    <3>2. F[heap[i].id] = AbsStore(heap, heap[i])
      BY <1>11
    <3>3. G[heap'[i].id] = AbsStore(heap', heap'[i])
      BY <1>12
    <3>4. AbsStore(heap', heap'[i]) = AbsStore(heap, heap[i])
      BY <1>10
    <3> QED  BY <3>1, <3>2, <3>3, <3>4
  <2> QED  BY <2>1 DEF IdsOf
<1>14. F = G
  BY <1>11, <1>12, <1>13
<1> QED  BY <1>6, <1>8, <1>14 DEF F, G, AbsArrays

\* No other step of the collector touches a slot.
LEMMA CollectorStutters ==
    ASSUME AInv, Collector \/ UNCHANGED vars
    PROVE  AbsCells' = AbsCells /\ AbsArrays' = AbsArrays
<1>1. ASSUME heap' = heap, cells' = cells
      PROVE  AbsCells' = AbsCells /\ AbsArrays' = AbsArrays
  BY <1>1 DEF AbsCells, AbsArrays, Reached, RootSlots, CellValues
<1>2. CASE Sweep
  <2>1. CASE Sweepable(heap, marked, at)
    BY <1>2, <2>1, SweepStutters DEF Sweep, program
  <2>2. CASE ~Sweepable(heap, marked, at)
    BY <1>1, <1>2, <2>2 DEF Sweep, program
  <2> QED  BY <2>1, <2>2
<1>3. CASE Collect \/ CollectNothing \/ Mark \/ Marked \/ Finish \/ UNCHANGED vars
  BY <1>1, <1>3 DEF Collect, CollectNothing, Mark, Marked, Finish, program, vars
<1> QED  BY <1>2, <1>3 DEF Collector

-----------------------------------------------------------------------------
\* A step of the heap is a step of the store, or none.
LEMMA StepImplements == AInv /\ [Next]_vars => [Promised!Next]_(Promised!avars)
<1> SUFFICES ASSUME AInv, [Next]_vars  PROVE [Promised!Next]_(Promised!avars)
  OBVIOUS
<1>1. CASE Collector \/ UNCHANGED vars
  BY <1>1, CollectorStutters DEF Promised!avars
<1>2. CASE Clear
  BY <1>2, ClearImplements
<1>3. CASE \E c \in Cells, d \in Cells, len \in Lens : Make(c, d, len)
  BY <1>3, MakeImplements
<1>4. CASE \E c \in Cells, of \in 0 .. MaxDepth - 1, len \in Lens :
             \E ds \in [1 .. len -> Cells] : Of(c, of, ds)
  BY <1>4, OfImplements
<1>5. CASE \E c \in Cells, d \in Cells, k \in 1 .. MaxLen : Read(c, k, d) \/ Store(c, k, d)
  BY <1>5, ReadImplements, StoreImplements
<1>6. CASE \E c \in Cells, d \in Cells : Push(c, d) \/ Move(c, d)
  BY <1>6, PushImplements, MoveImplements
<1>7. CASE \E c \in Cells, n \in Data : Drop(c, n)
  BY <1>7, DropImplements
<1> QED  BY <1>1, <1>2, <1>3, <1>4, <1>5, <1>6, <1>7 DEF Next

\* The slots, the free list and the collector implement the store: whatever the
\* program does and whenever it collects, it sees arrays that keep their identity and
\* contents for as long as it can reach them.
THEOREM Implements == Spec => ImplementsArrayStore
<1>1. IInv /\ IdInv /\ [Next]_vars => [Promised!Next]_(Promised!avars)
  BY StepImplements DEF AInv
<1> QED  BY <1>1, InitImplements, IdsHold, PTL DEF Spec, ImplementsArrayStore, Promised!Spec

=============================================================================
