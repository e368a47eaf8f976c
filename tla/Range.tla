------------------------------- MODULE Range -------------------------------
(* The walk that works out where every slot of a checked program can be      *)
(* (luarust-check/range.rs), and marks the divisions whose operands it has   *)
(* proved not negative. The walk carries one record:                         *)
(*   state    an interval per slot;                                          *)
(*   breaks   per loop open, the hull of the states at its `break`s, a       *)
(*            sequence of none or one;                                       *)
(*   commit   whether what is proved counts;                                 *)
(*   proven   the nodes marked, `nonnegative` of `Expr::Binary`.             *)
EXTENDS RangeOps, SequencesExt

LOCAL With(w, Rest(_)) == Rest(w)

RECURSIVE RangeOf(_, _, _), ProvenIn(_, _, _)

\* `eval`, what it answers.
RangeOf(e, state, p) ==
    CASE e.k = "const" ->
            IF IsInteger(e.value.ty) THEN Between(NumberOf(e.value), NumberOf(e.value)) ELSE Anything
      [] e.k = "load" -> IF state[e.slot].known THEN state[e.slot] ELSE TyRange(e.ty)
      [] e.k = "binary" ->
            BinaryRange(e.op, e.ty, RangeOf(e.lhs, state, p), RangeOf(e.rhs, state, p), p)
      [] e.k = "neg" -> NegateRange(e.ty, RangeOf(e.operand, state, p), p)
      [] e.k \in {"call", "at"} -> TyRange(e.ty)
      [] e.k = "count" -> IF IsInteger(e.ty) THEN Between(0, Highest(e.ty)) ELSE Anything
      [] OTHER -> Anything

\* The expressions an expression is made of.
Parts(e) ==
    CASE e.k \in {"const", "load"} -> {}
      [] e.k \in {"neg", "not"} -> {e.operand}
      [] e.k \in {"binary", "compare", "logic"} -> {e.lhs, e.rhs}
      [] e.k = "call" -> ToSet(e.args)
      [] e.k = "newarray" -> ToSet(e.items)
      [] e.k = "filled" -> {e.length, e.value}
      [] e.k = "at" -> {e.array} \cup ToSet(e.at)
      [] e.k = "count" -> {e.array}

\* `eval`, what it marks.
ProvenIn(e, state, p) ==
    UNION {ProvenIn(part, state, p) : part \in Parts(e)}
    \cup (IF e.k = "binary" /\ Proves(e.op, e.ty, RangeOf(e.lhs, state, p), RangeOf(e.rhs, state, p))
          THEN {e} ELSE {})

\* Evaluate in turn: nothing but the marks can change.
Learns(w, es, p) ==
    IF w.commit
    THEN [w EXCEPT !.proven = @ \cup UNION {ProvenIn(es[i], w.state, p) : i \in DOMAIN es}]
    ELSE w

\* Every slot that statements can store to, loops and arms included.
RECURSIVE StoredSlots(_)
StoredSlots(stmts) ==
    UNION {CASE s.k = "store" -> {s.slot}
             [] s.k = "loop" -> {s.slot} \cup StoredSlots(s.body)
             [] s.k = "while" -> ToSet(s.counter) \cup StoredSlots(s.body)
             [] s.k = "if" -> StoredSlots(s.otherwise)
                              \cup UNION {StoredSlots(s.arms[i].body) : i \in DOMAIN s.arms}
             [] OTHER -> {}
           : s \in {stmts[i] : i \in DOMAIN stmts}}
Forget(w, slots) ==
    [w EXCEPT !.state = [slot \in DOMAIN @ |-> IF slot \in slots THEN Anything ELSE @[slot]]]

\* One more state among those seen, of which there may be none yet.
Folded(seen, state) == IF seen = <<>> THEN <<state>> ELSE <<HullStates(seen[1], state)>>

\* The largest number of any type, (1 << 64) - 1.
AnySize == Highest("nat")

\* What to try next in the search for a state a body does not widen: the hull
\* itself three times, a guess once, and then nothing of what still moves.
Widening(settled, merged, round) ==
    IF round < 3 THEN merged
    ELSE [slot \in DOMAIN settled |->
            IF settled[slot] = merged[slot] THEN settled[slot]
            ELSE IF round = 3 /\ merged[slot].known /\ merged[slot].lo >= 0
                 THEN Between(0, AnySize)
            ELSE Anything]

RECURSIVE Through(_, _, _), Passed(_, _, _), Branches(_, _, _, _, _), Search(_, _, _, _, _, _)

\* A body once from a state, with the counter, if it has one, pinned.
Around(w, state, body, seed, p) ==
    Through([w EXCEPT !.state = IF seed = <<>> THEN state
                                ELSE [state EXCEPT ![seed[1].slot] = seed[1].range],
                      !.breaks = Append(@, <<>>)],
            body, p)

Search(w, settled, body, seed, round, p) ==
    With(HullStates(settled, Around([w EXCEPT !.commit = FALSE], settled, body, seed, p).state),
         LAMBDA merged :
         IF merged = settled THEN settled
         ELSE Search(w, Widening(settled, merged, round), body, seed, round + 1, p))

\* Mutant: what held at a `break` is forgotten.
FixedPointFallingOut(w, body, seed, p) ==
    With(Around(w, Search(w, w.state, body, seed, 0, p), body, seed, p), LAMBDA last :
         [last EXCEPT !.breaks = Front(@), !.state = HullStates(w.state, @)])

\* After the loop: no passes at all, the body's end, or any of its breaks.
FixedPoint(w, body, seed, p) ==
    With(Around(w, Search(w, w.state, body, seed, 0, p), body, seed, p), LAMBDA last :
         LET ended == HullStates(w.state, last.state)
         IN  [last EXCEPT !.breaks = Front(@),
                          !.state = IF Last(last.breaks) = <<>> THEN ended
                                    ELSE HullStates(ended, Last(last.breaks)[1])])

\* Inside the body the counter is between the bounds, or else in its type.
CounterRange(s, state, p) ==
    LET from == RangeOf(s.from, state, p)
        to == RangeOf(s.to, state, p)
    IN  IF from.known /\ to.known THEN Between(from.lo, to.hi) ELSE TyRange(s.ty)

\* Every way through an `if` starts from the same state.
Branches(w, entry, bodies, exit, p) ==
    IF bodies = <<>> THEN [w EXCEPT !.state = exit[1]]
    ELSE With(Through([w EXCEPT !.state = entry], Head(bodies), p), LAMBDA ran :
              Branches(ran, entry, Tail(bodies), Folded(exit, ran.state), p))

Passed(w, s, p) ==
    CASE s.k = "store" ->
            [Learns(w, <<s.value>>, p) EXCEPT !.state[s.slot] = RangeOf(s.value, w.state, p)]
      [] s.k = "print" -> Learns(w, s.items, p)
      [] s.k = "call" -> Learns(w, s.args, p)
      [] s.k = "return" -> Learns(w, s.value, p)
      [] s.k = "storeat" -> Learns(w, <<s.array>> \o s.at \o <<s.value>>, p)
      [] s.k = "break" -> [w EXCEPT !.breaks[Len(w.breaks)] = Folded(@, w.state)]
      [] s.k = "loop" ->
            Forget(FixedPoint(Learns(w, <<s.from, s.to>>, p), s.body,
                              <<[slot |-> s.slot, range |-> CounterRange(s, w.state, p)]>>, p),
                   {s.slot})
      [] s.k = "while" ->
            FixedPoint(Learns(Forget(w, StoredSlots(s.body) \cup ToSet(s.counter)),
                              <<s.condition>>, p),
                       s.body, <<>>, p)
      [] s.k = "if" ->
            Branches(Learns(w, [i \in DOMAIN s.arms |-> s.arms[i].condition], p), w.state,
                     [i \in DOMAIN s.arms |-> s.arms[i].body] \o <<s.otherwise>>, <<>>, p)

Through(w, stmts, p) ==
    IF stmts = <<>> THEN w ELSE Through(Passed(w, Head(stmts), p), Tail(stmts), p)

\* What a body proves by itself, its parameters anything of their types.
ProvenBy(slots, params, stmts, p) ==
    Through([state |-> [slot \in 0 .. slots - 1 |->
                          IF slot < Len(params) THEN TyRange(params[slot + 1]) ELSE Anything],
             breaks |-> <<>>, commit |-> TRUE, proven |-> {}],
            stmts, p).proven

\* `flag`.
Flag(program) ==
    [program EXCEPT !.proven =
        ProvenBy(program.slots, <<>>, program.stmts, program)
        \cup UNION {ProvenBy(f.slots, f.params, f.body, program)
                    : f \in {program.funcs[i] : i \in DOMAIN program.funcs}}]
============================================================================
