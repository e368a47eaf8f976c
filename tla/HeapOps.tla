------------------------------- MODULE HeapOps -------------------------------
(***************************************************************************)
(* The values and the array heap of luarust-core/src/heap.rs, as operators *)
(* on plain data: what one slot holds, what placing an array does, what a  *)
(* collection marks and what it sweeps.  Heap.tla runs the collector step  *)
(* by step; the modules of the paths that call it (the bytecode VM, the    *)
(* compiled code) use the operators here for the whole of a collection.    *)
(*                                                                         *)
(* Two things are added that the code does not have, so that "the array    *)
(* this handle was made for" can be said: an array carries the number it   *)
(* was made under (id, 0 once swept) and a handle carries the number of    *)
(* the array it was made for (born).  No guard reads either.               *)
(*                                                                         *)
(* Slots are counted from 1 where the code counts from 0.                  *)
(***************************************************************************)
EXTENDS Naturals, Sequences

CONSTANT UsizeMax       \* where the count of bytes handed out saturates

ASSUME UsizeMaxAssumption == UsizeMax \in Nat

-----------------------------------------------------------------------------
\* A type is taken as its depth: 0 for anything that is not an array, and one
\* more than its element's for an array.

\* A value that is not an array.
Num(n) == [depth |-> 0, bits |-> n, born |-> 0]

\* A value whose type is an array: its bits are the slot.
HandleOf(depth, slot, id) == [depth |-> depth, bits |-> slot, born |-> id]

IsArray(v) == v.depth > 0

\* One slot.  of: the element type.
Array(of, store, id) == [of |-> of, store |-> store, id |-> id]

Elements(a) == {a.store[k] : k \in 1 .. Len(a.store)}

\* Element widths are taken as one byte each.
Bytes(a) == Len(a.store)

\* footprint: every slot's bytes.
TotalBytes(h) ==
    LET total[i \in 0 .. Len(h)] == IF i = 0 THEN 0 ELSE total[i - 1] + Bytes(h[i])
    IN total[Len(h)]

\* write, on an element there is and on one push has just added.
Written(a, k, v) == Array(a.of, [a.store EXCEPT ![k] = v], a.id)
Pushed(a, v) == Array(a.of, Append(a.store, v), a.id)

-----------------------------------------------------------------------------
\* place: the slot, the heap, the free list and the byte count afterwards.
PlaceAt(h, fr) == IF fr = <<>> THEN Len(h) + 1 ELSE fr[Len(fr)]

PlacedHeap(h, fr, a) ==
    IF fr = <<>> THEN Append(h, a) ELSE [h EXCEPT ![fr[Len(fr)]] = a]

\* Mutant: a slot is taken off the free list by looking at it.
PlacedFreePeeked(fr) == fr

PlacedFree(fr) == IF fr = <<>> THEN fr ELSE SubSeq(fr, 1, Len(fr) - 1)

\* Mutant: a plain addition.
ChargedUnsaturated(s, a) == s + Bytes(a)

Charged(s, a) == IF s + Bytes(a) > UsizeMax THEN UsizeMax ELSE s + Bytes(a)

\* Mutant: the threshold has to be passed, not reached.
WantsPast(limit, s) == limit # {} /\ \A l \in limit : s > l

\* wants_collecting, for a threshold that is a number or {} where there is none.
Wants(limit, s) == limit # {} /\ \A l \in limit : s >= l

-----------------------------------------------------------------------------
\* note: the slots that looking at these values marks.  A value that is not an
\* array, or names a slot that does not exist, is passed over.
Noted(h, values) ==
    {v.bits : v \in {w \in values : IsArray(w) /\ w.bits \in 1 .. Len(h)}}

\* Mutant: "an element that is itself an array cannot be written today".
InnerNone(h, i) == {}

\* What popping slot i off the pending list notes.
Inner(h, i) == IF h[i].of > 0 THEN Noted(h, Elements(h[i])) ELSE {}

Closed(h, T) == \A i \in T : Inner(h, i) \subseteq T

\* What is marked when nothing is pending: the least set of slots that holds
\* the noted roots and everything popping one of its members notes.
Live(h, R) ==
    {i \in 1 .. Len(h) :
        \A T \in SUBSET (1 .. Len(h)) : R \subseteq T /\ Closed(h, T) => i \in T}

\* Mutant: the sweep does not ask whether there is anything to give up.
SweepableEmpty(h, marked, i) == i \notin marked

\* The sweep's test of one slot, and what it leaves there.
Sweepable(h, marked, i) == i \notin marked /\ h[i].store # <<>>

Swept(a) == Array(a.of, <<>>, 0)

\* The dead slots, in the order the sweep comes to them: dead[i] are those among
\* the first i slots.
Dead(h, roots) ==
    LET marked == Live(h, Noted(h, roots))
        dead[i \in 0 .. Len(h)] ==
            IF i = 0 THEN <<>>
            ELSE IF Sweepable(h, marked, i) THEN Append(dead[i - 1], i)
            ELSE dead[i - 1]
    IN dead[Len(h)]

\* The slots and the free list after a whole collection from these roots.
SweptHeap(h, roots) ==
    [i \in 1 .. Len(h) |->
        IF Sweepable(h, Live(h, Noted(h, roots)), i) THEN Swept(h[i]) ELSE h[i]]

SweptFree(h, fr, roots) == fr \o Dead(h, roots)

-----------------------------------------------------------------------------
\* A handle that names the array it was made for.  (Used by the properties
\* only.)
Good(h, v) == IsArray(v) => /\ v.bits \in 1 .. Len(h)
                            /\ h[v.bits].id = v.born
                            /\ v.born # 0

=============================================================================
