----------------------------- MODULE HeapRefines -----------------------------
(***************************************************************************)
(* Heap implements ArrayStore.  A handle stands for the array in its slot; *)
(* the arrays are those a root reaches; every collector step is a stutter. *)
(***************************************************************************)
EXTENDS Heap

\* A value and an array as the program means them: by identity, not by slot.
AbsValue(h, v) ==
    [depth |-> v.depth,
     what  |-> IF IsArray(v) THEN h[v.bits].id ELSE v.bits]

AbsStore(h, a) ==
    [of |-> a.of, store |-> [k \in 1 .. Len(a.store) |-> AbsValue(h, a.store[k])]]

\* The arrays in the slots of L, by identity.
SlotOf(h, L, id) == CHOOSE i \in L : h[i].id = id

AbsArraysIn(h, L) ==
    [id \in {h[i].id : i \in L} |-> AbsStore(h, h[SlotOf(h, L, id)])]

Reached == Live(heap, RootSlots)

AbsCells  == [c \in Cells |-> AbsValue(heap, cells[c])]
AbsArrays == AbsArraysIn(heap, Reached)

Promised == INSTANCE ArrayStore WITH
    Ids  <- 1 .. MaxMade,
    vals <- AbsCells,
    objs <- AbsArrays

\* Every behaviour of the slots, the free list and the collector is one of
\* arrays that keep their identity and contents for as long as they are in
\* reach: no collection, and no reuse of a slot, is ever seen by the program.
ImplementsArrayStore == Promised!Spec

=============================================================================
