-------------------------------- MODULE Heap --------------------------------
(***************************************************************************)
(* The array heap of luarust-core/src/heap.rs: slots that are never moved, *)
(* a free list of swept ones, a count of bytes handed out, and a mark and  *)
(* sweep collector.  A program holds values in Cells (variables,           *)
(* registers, cells of a frame); those are the roots a collection is       *)
(* given.                                                                  *)
(*                                                                         *)
(* The collector stops the program, so the program's actions need          *)
(* phase = "run"; its own loops are modelled one iteration at a time,      *)
(* because what keeps a live array from being handed out twice is what     *)
(* holds between those iterations.                                         *)
(***************************************************************************)
EXTENDS HeapOps

CONSTANTS
    Cells,      \* where a program keeps values
    Data,       \* the numbers an element may hold
    MaxMade,    \* bound: arrays made in one run of a program
    MaxLen,     \* bound: elements in one array
    MaxDepth    \* bound: how deep arrays of arrays go

ASSUME HeapAssumption ==
    /\ Data \subseteq Nat
    /\ MaxMade \in Nat /\ MaxLen \in Nat
    /\ MaxDepth \in Nat

VARIABLES
    heap,       \* HEAP: the slots
    free,       \* FREE: swept slots, the last one handed out first
    since,      \* SINCE: bytes handed out since the last collection
    cells,      \* what the program holds
    made,       \* arrays made so far: where ids come from
    phase,      \* "run", or where collect() is: "mark", "sweep"
    marked,     \* the slots marked so far
    pending,    \* marked, and its elements not looked at yet
    at          \* the next slot the sweep looks at

vars == <<heap, free, since, cells, made, phase, marked, pending, at>>
program == <<cells, made>>
collector == <<phase, marked, pending, at>>

Slots == 1 .. Len(heap)
CellValues == {cells[c] : c \in Cells}
RootSlots == Noted(heap, CellValues)

Value == [depth : Nat, bits : Nat, born : Nat]
ArrayRec == [of : Nat, store : Seq(Value), id : Nat]

TypeOK ==
    /\ heap \in Seq(ArrayRec)
    /\ free \in Seq(Slots)
    /\ since \in 0 .. UsizeMax
    /\ cells \in [Cells -> Value]
    /\ made \in Nat
    /\ phase \in {"run", "mark", "sweep"}
    /\ marked \subseteq Slots
    /\ pending \subseteq marked
    /\ at \in 1 .. Len(heap) + 1

-----------------------------------------------------------------------------
Init ==
    /\ heap = <<>> /\ free = <<>> /\ since = 0
    /\ cells = [c \in Cells |-> Num(0)] /\ made = 0
    /\ phase = "run" /\ marked = {} /\ pending = {} /\ at = 1

\* place, and the handle of what was placed into cell c.
Place(c, of, store) ==
    LET a == Array(of, store, made + 1) IN
    /\ made < MaxMade
    /\ of < MaxDepth
    /\ heap' = PlacedHeap(heap, free, a)
    /\ free' = PlacedFree(free)
    /\ since' = Charged(since, a)
    /\ cells' = [cells EXCEPT ![c] = HandleOf(of + 1, PlaceAt(heap, free), made + 1)]
    /\ made' = made + 1
    /\ UNCHANGED collector

\* make: len elements, every one of them what cell d holds.
Make(c, d, len) ==
    /\ phase = "run"
    /\ Place(c, cells[d].depth, [k \in 1 .. len |-> cells[d]])

\* of: exactly what these cells hold, in order.  An array has one element type,
\* and an empty one knows it without an element to show it.
Of(c, of, ds) ==
    /\ phase = "run"
    /\ \A k \in DOMAIN ds : cells[ds[k]].depth = of
    /\ Place(c, of, [k \in DOMAIN ds |-> cells[ds[k]]])

\* read: element k of the array in c, into cell d.  None where there is no such
\* element, and the reader stops.
Read(c, k, d) ==
    /\ phase = "run"
    /\ IsArray(cells[c])
    /\ k \in 1 .. Len(heap[cells[c].bits].store)
    /\ cells' = [cells EXCEPT ![d] = heap[cells[c].bits].store[k]]
    /\ UNCHANGED <<heap, free, since, made, collector>>

\* store: what cell d holds into element k.  false where there is no such
\* element, and nothing changes.
Store(c, k, d) ==
    /\ phase = "run"
    /\ IsArray(cells[c])
    /\ k \in 1 .. Len(heap[cells[c].bits].store)
    /\ cells[d].depth = heap[cells[c].bits].of
    /\ heap' = [heap EXCEPT ![cells[c].bits] = Written(@, k, cells[d])]
    /\ UNCHANGED <<free, since, program, collector>>

\* push: one more element at the end.  The bytes are not counted in SINCE.
Push(c, d) ==
    /\ phase = "run"
    /\ IsArray(cells[c])
    /\ cells[d].depth = heap[cells[c].bits].of
    /\ Len(heap[cells[c].bits].store) < MaxLen
    /\ heap' = [heap EXCEPT ![cells[c].bits] = Pushed(@, cells[d])]
    /\ UNCHANGED <<free, since, program, collector>>

\* A value moves between cells, or a cell comes to hold a number: the program's
\* own steps, which the heap does not see.
Move(c, d) ==
    /\ phase = "run"
    /\ cells' = [cells EXCEPT ![d] = cells[c]]
    /\ UNCHANGED <<heap, free, since, made, collector>>

Drop(c, n) ==
    /\ phase = "run"
    /\ cells' = [cells EXCEPT ![c] = Num(n)]
    /\ UNCHANGED <<heap, free, since, made, collector>>

\* clear: a run of another program begins.
Clear ==
    /\ phase = "run"
    /\ heap' = <<>> /\ free' = <<>> /\ since' = 0
    /\ cells' = [c \in Cells |-> Num(0)] /\ made' = 0
    /\ UNCHANGED collector

-----------------------------------------------------------------------------
\* collect, with no array on the heap: nothing to walk.
CollectNothing ==
    /\ phase = "run"
    /\ heap = <<>>
    /\ since' = 0
    /\ UNCHANGED <<heap, free, program, collector>>

\* collect: every root noted.
Collect ==
    /\ phase = "run"
    /\ heap # <<>>
    /\ marked' = RootSlots
    /\ pending' = RootSlots
    /\ phase' = "mark"
    /\ UNCHANGED <<heap, free, since, program, at>>

\* Mutant: the slot is looked at without being popped.
MarkPeeked ==
    /\ phase = "mark"
    /\ \E i \in pending :
         LET more == Inner(heap, i) \ marked IN
         /\ marked' = marked \cup more
         /\ pending' = pending \cup more
    /\ UNCHANGED <<heap, free, since, program, phase, at>>

\* One turn of the marking loop.  Which pending slot is popped makes no
\* difference to what is marked at the end.
Mark ==
    /\ phase = "mark"
    /\ \E i \in pending :
         LET more == Inner(heap, i) \ marked IN
         /\ marked' = marked \cup more
         /\ pending' = (pending \ {i}) \cup more
    /\ UNCHANGED <<heap, free, since, program, phase, at>>

\* Mutant: one pass over the pending list where the code loops.
MarkedAtOnce ==
    /\ phase = "mark"
    /\ phase' = "sweep"
    /\ at' = 1
    /\ UNCHANGED <<heap, free, since, program, marked, pending>>

Marked ==
    /\ phase = "mark"
    /\ pending = {}
    /\ phase' = "sweep"
    /\ at' = 1
    /\ UNCHANGED <<heap, free, since, program, marked, pending>>

\* Mutant: the sweep stops at the first slot that is alive.
SweepStops ==
    /\ phase = "sweep"
    /\ at <= Len(heap)
    /\ \/ /\ Sweepable(heap, marked, at)
          /\ heap' = [heap EXCEPT ![at] = Swept(@)]
          /\ free' = Append(free, at)
          /\ at' = at + 1
       \/ /\ ~Sweepable(heap, marked, at)
          /\ UNCHANGED <<heap, free>>
          /\ at' = Len(heap) + 1
    /\ UNCHANGED <<since, program, phase, marked, pending>>

\* One turn of the sweeping loop.
Sweep ==
    /\ phase = "sweep"
    /\ at <= Len(heap)
    /\ \/ /\ Sweepable(heap, marked, at)
          /\ heap' = [heap EXCEPT ![at] = Swept(@)]
          /\ free' = Append(free, at)
       \/ /\ ~Sweepable(heap, marked, at)
          /\ UNCHANGED <<heap, free>>
    /\ at' = at + 1
    /\ UNCHANGED <<since, program, phase, marked, pending>>

Finish ==
    /\ phase = "sweep"
    /\ at > Len(heap)
    /\ since' = 0
    /\ phase' = "run"
    /\ marked' = {} /\ at' = 1
    /\ UNCHANGED <<heap, free, program, pending>>

Collector == Collect \/ CollectNothing \/ Mark \/ Marked \/ Sweep \/ Finish

Lens == 0 .. MaxLen

Next ==
    \/ \E c, d \in Cells, len \in Lens : Make(c, d, len)
    \/ \E c \in Cells, of \in 0 .. MaxDepth - 1, len \in Lens :
         \E ds \in [1 .. len -> Cells] : Of(c, of, ds)
    \/ \E c, d \in Cells, k \in 1 .. MaxLen : Read(c, k, d) \/ Store(c, k, d)
    \/ \E c, d \in Cells : Push(c, d) \/ Move(c, d)
    \/ \E c \in Cells, n \in Data : Drop(c, n)
    \/ Clear
    \/ Collector

Spec == Init /\ [][Next]_vars

\* collect() is a function on one thread: once called, it runs.
FairSpec == Spec /\ WF_vars(Mark \/ Marked \/ Sweep \/ Finish)

-----------------------------------------------------------------------------
\* Every handle the program can get hold of, through any chain of elements,
\* names the array it was made for: no array in use is swept, and no slot in
\* use is handed out again ("never frees something live", the collector's one
\* duty, whatever order arrays are made, nested, dropped and collected in).
Safe ==
    /\ \A v \in CellValues : Good(heap, v)
    /\ \A i \in Live(heap, RootSlots) : \A v \in Elements(heap[i]) : Good(heap, v)

\* The free list never names a slot twice, and never one that is in use: a slot
\* handed out of it is nobody's.  The code's only guard is that a store it
\* sweeps is not empty, which an array in use may be too.
FreeListSound ==
    /\ \A j, k \in DOMAIN free : j # k => free[j] # free[k]
    /\ \A j \in DOMAIN free :
         /\ heap[free[j]].store = <<>>
         /\ free[j] \notin Live(heap, RootSlots)

\* When the sweep begins, and until it ends, exactly the slots a root can reach
\* are marked: the sweep takes what reference counting would have taken, no
\* more and no less.
MarkedIsLive == phase = "sweep" => marked = Live(heap, RootSlots)

\* A collection gives back every byte nothing can reach: where it ends, each
\* slot with elements is reachable.
SweptClean ==
    [][Finish => \A i \in Slots : heap[i].store # <<>> => i \in Live(heap, RootSlots)]_vars

\* A collection that has begun ends: a slot is pending at most once.
CollectionEnds == (phase # "run") ~> (phase = "run")

=============================================================================
