----------------------------- MODULE ArrayStore -----------------------------
(***************************************************************************)
(* What the array heap promises a program: arrays with an identity and     *)
(* contents, that last exactly as long as the program can reach them.      *)
(* There are no slots, no free list and no collector here; an array out of *)
(* reach is simply no longer there.  Luarust's README has it in two        *)
(* sentences: "Nothing is copied.  A handle is what travels", and          *)
(* "collecting changes no output".                                         *)
(***************************************************************************)
EXTENDS Naturals, Sequences

CONSTANTS Cells, Data, Ids, MaxLen, MaxDepth

VARIABLES
    vals,       \* what each cell holds: a number, or an array by its identity
    objs        \* the arrays in reach: identity -> element type and contents

avars == <<vals, objs>>

NumV(n) == [depth |-> 0, what |-> n]
ArrV(depth, id) == [depth |-> depth, what |-> id]
Named(S) == {v.what : v \in {w \in S : w.depth > 0}}
Contents(o) == {o.store[k] : k \in 1 .. Len(o.store)}

\* The arrays that can be reached from the values in vs.
Reach(vs, os) ==
    {i \in DOMAIN os :
        \A T \in SUBSET DOMAIN os :
            /\ Named({vs[c] : c \in Cells}) \subseteq T
            /\ \A j \in T : Named(Contents(os[j])) \subseteq T
            => i \in T}

\* The program's cells and the arrays change; what is out of reach is gone.
Becomes(vs, os) ==
    /\ vals' = vs
    /\ objs' = [i \in Reach(vs, os) |-> os[i]]

Init == vals = [c \in Cells |-> NumV(0)] /\ objs = [i \in {} |-> 0]

\* A new array, an identity nothing in reach has, contents taken from cells.
New(c, id, of, ds) ==
    /\ id \notin DOMAIN objs
    /\ \A k \in DOMAIN ds : vals[ds[k]].depth = of
    /\ Becomes([vals EXCEPT ![c] = ArrV(of + 1, id)],
               [i \in DOMAIN objs \cup {id} |->
                   IF i = id THEN [of |-> of, store |-> [k \in DOMAIN ds |-> vals[ds[k]]]]
                             ELSE objs[i]])

Get(c, k, d) ==
    /\ vals[c].depth > 0
    /\ k \in 1 .. Len(objs[vals[c].what].store)
    /\ Becomes([vals EXCEPT ![d] = objs[vals[c].what].store[k]], objs)

Put(c, k, d) ==
    /\ vals[c].depth > 0
    /\ k \in 1 .. Len(objs[vals[c].what].store)
    /\ vals[d].depth = objs[vals[c].what].of
    /\ Becomes(vals, [objs EXCEPT ![vals[c].what].store[k] = vals[d]])

Extend(c, d) ==
    /\ vals[c].depth > 0
    /\ vals[d].depth = objs[vals[c].what].of
    /\ Becomes(vals, [objs EXCEPT ![vals[c].what].store = Append(@, vals[d])])

Copy(c, d) == Becomes([vals EXCEPT ![d] = vals[c]], objs)

Forget(c, n) == Becomes([vals EXCEPT ![c] = NumV(n)], objs)

Restart == vals' = [c \in Cells |-> NumV(0)] /\ objs' = [i \in {} |-> 0]

Next ==
    \/ \E c \in Cells, id \in Ids, of \in 0 .. MaxDepth - 1, len \in 0 .. MaxLen :
         \E ds \in [1 .. len -> Cells] : New(c, id, of, ds)
    \/ \E c, d \in Cells, k \in 1 .. MaxLen : Get(c, k, d) \/ Put(c, k, d)
    \/ \E c, d \in Cells : Extend(c, d) \/ Copy(c, d)
    \/ \E c \in Cells, n \in Data : Forget(c, n)
    \/ Restart

Spec == Init /\ [][Next]_avars

=============================================================================
