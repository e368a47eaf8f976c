------------------------------ MODULE TreeWalk ------------------------------
(* The tree-walking interpreter (luarust-interp/lib.rs), the definition of   *)
(* what a program prints. It carries one record through the tree:            *)
(*   slots, depth     `Machine`;                                             *)
(*   heap             the arrays made, a handle being an index;              *)
(*   out              what was printed;                                      *)
(*   fault            the `Stopped` it ended with, or NoFault;               *)
(*   val, vals, flat  what the last `eval`, list of them, or `offset`        *)
(*                    answered;                                              *)
(*   flow, answer     the `Flow` of the last statement.                      *)
(* A program that never ends has no meaning here. *)
EXTENDS Lang

Start(program) ==
    [slots |-> [s \in 0 .. program.slots - 1 |-> Unset], depth |-> 0,
     heap |-> <<>>, out |-> <<>>, fault |-> NoFault,
     val |-> Unset, vals |-> <<>>, flat |-> 0, flow |-> "went", answer |-> Unset]

Stopped(m) == m.fault # NoFault
Stop(m, code, span) == [m EXCEPT !.fault = [code |-> code, span |-> span]]
\* `?`: what follows, unless the program has stopped.
Then(m, Rest(_)) == IF Stopped(m) THEN m ELSE Rest(m)

\* An answer of the arithmetic, or the fault at this node.
Settle(m, answer, span) ==
    IF answer.code = "none" THEN [m EXCEPT !.val = answer.value] ELSE Stop(m, answer.code, span)

Printed(m, item) == [m EXCEPT !.out = Append(@, item)]
Went(m) == [m EXCEPT !.flow = "went"]

NewHandle(m, ty, elements) ==
    [m EXCEPT !.heap = Append(@, elements), !.val = [ty |-> ty, bits |-> Len(m.heap) + 1]]

\* The operands an expression evaluates before anything else, in order.
Operands(e) ==
    CASE e.k \in {"neg", "not"} -> <<e.operand>>
      [] e.k \in {"binary", "compare"} -> <<e.lhs, e.rhs>>
      [] e.k = "call" -> e.args
      [] e.k = "newarray" -> e.items
      [] e.k = "filled" -> <<e.length, e.value>>
      [] e.k = "count" -> <<e.array>>

RECURSIVE Eval(_, _, _), EvalAll(_, _, _), Offset(_, _, _, _, _, _), Block(_, _, _), Stmt(_, _, _)

\* Evaluate one after another into `vals`, stopping at the first fault.
EvalAll(p, es, m) ==
    IF es = <<>> THEN [m EXCEPT !.vals = <<>>]
    ELSE Then(Eval(p, Head(es), m), LAMBDA first :
         Then(EvalAll(p, Tail(es), first), LAMBDA rest :
              [rest EXCEPT !.vals = <<first.val>> \o @]))

\* Where an index lands. Each index is evaluated, and checked against its
\* dimension, before the next is evaluated.
Offset(p, ty, handle, at, m, span) ==
    IF at = <<>> THEN m
    ELSE Then(Eval(p, Head(at), m), LAMBDA held :
         LET place == Len(Dims(ty)) - Len(at) + 1
             past == IF Dims(ty) = <<>> THEN Len(m.heap[handle]) ELSE Dims(ty)[place]
             wide == IF Dims(ty) = <<>> THEN 1 ELSE Dims(ty)[place]
             index == NumberOf(held.val)
         IN  IF index < 1 \/ index > past THEN Stop(held, "R0015", span)
             ELSE Offset(p, ty, handle, Tail(at),
                         [held EXCEPT !.flat = m.flat * wide + index - 1], span))

\* Run one function on values; the caller's slots are set aside meanwhile.
CallFunction(p, func, m, span) ==
    LET f == p.funcs[func]
        inner == [m EXCEPT !.depth = @ + 1,
                           !.slots = [s \in 0 .. f.slots - 1 |->
                                        IF s < Len(m.vals) THEN m.vals[s + 1] ELSE Unset]]
    IN  IF m.depth >= DepthLimit THEN Stop(m, "R0011", span)
        ELSE Then(Block(p, f.body, inner), LAMBDA done :
                  [done EXCEPT !.depth = m.depth, !.slots = m.slots,
                               !.val = IF done.flow = "returned" THEN done.answer ELSE Unset,
                               !.flow = "went"])

\* `eval` of everything whose operands come first.
Apply(p, e, m) ==
    CASE e.k = "neg" -> Settle(m, Negate(m.vals[1], p), e)
      [] e.k = "not" -> [m EXCEPT !.val = Bool(~Truth(m.vals[1]))]
      [] e.k = "binary" -> Settle(m, BinaryOp(e.op, m.vals[1], m.vals[2], p), e)
      [] e.k = "compare" -> [m EXCEPT !.val = Bool(Holds(e.op, Compare(m.vals[1], m.vals[2])))]
      [] e.k = "call" -> CallFunction(p, e.func, m, e)
      [] e.k = "newarray" -> NewHandle(m, e.ty, m.vals)
      [] e.k = "filled" ->
            IF NumberOf(m.vals[1]) < 0 THEN Stop(m, "R0014", e)
            ELSE NewHandle(m, e.ty, [i \in 1 .. NumberOf(m.vals[1]) |-> m.vals[2]])
      [] e.k = "count" -> [m EXCEPT !.val = Whole(e.ty, Len(m.heap[m.vals[1].bits]))]

Eval(p, e, m) ==
    CASE e.k = "const" -> [m EXCEPT !.val = e.value]
      [] e.k = "load" ->
            IF m.slots[e.slot] = Unset THEN Stop(m, "R0009", e)
            ELSE [m EXCEPT !.val = m.slots[e.slot]]
      [] e.k = "logic" ->
            Then(Eval(p, e.lhs, m), LAMBDA lhs :
                 IF Truth(lhs.val) = (e.op = "or") THEN lhs ELSE Eval(p, e.rhs, lhs))
      [] e.k = "at" ->
            Then(Eval(p, e.array, m), LAMBDA held :
            Then(Offset(p, TypeOf(e.array), held.val.bits, e.at, [held EXCEPT !.flat = 0], e),
                 LAMBDA found :
                     [found EXCEPT !.val = found.heap[held.val.bits][found.flat + 1]]))
      [] OTHER -> Then(EvalAll(p, Operands(e), m), LAMBDA ready : Apply(p, e, ready))

Block(p, stmts, m) ==
    IF stmts = <<>> THEN Went(m)
    ELSE Then(Stmt(p, Head(stmts), m), LAMBDA done :
              IF done.flow # "went" THEN done ELSE Block(p, Tail(stmts), done))

\* A body has run once: out of the loop, or what comes next in it.
Round(done, Again(_)) ==
    IF Stopped(done) \/ done.flow = "returned" THEN done
    ELSE IF done.flow = "broke" THEN Went(done)
    ELSE Again(done)

RECURSIVE Count(_, _, _, _, _), Passes(_, _, _), Arms(_, _, _, _), Items(_, _, _)

\* One pass of a counting loop and those after it.
Count(p, s, current, to, m) ==
    Round(Block(p, s.body, [m EXCEPT !.slots[s.slot] = current]), LAMBDA done :
          IF Compare(current, to) # "less" THEN done
          ELSE Count(p, s, BinaryOp("add", current, OneOf(s.ty), [p EXCEPT !.overflow = "wrap"]).value, to, done))

\* The counter of a `while`, a sequence of none or one slots, one higher.
Counted(p, s, m) ==
    IF s.counter = <<>> THEN m
    ELSE LET slot == s.counter[1]
             next == BinaryOp("add", m.slots[slot], OneOf("int"), p)
         IN  IF next.code # "none" THEN Stop(m, next.code, s)
             ELSE [m EXCEPT !.slots[slot] = next.value]

\* One pass of a `while` and those after it.
Passes(p, s, m) ==
    Then(Eval(p, s.condition, m), LAMBDA asked :
         IF ~Truth(asked.val) THEN Went(asked)
         ELSE Then(Counted(p, s, asked), LAMBDA counted :
                   Round(Block(p, s.body, counted), LAMBDA done : Passes(p, s, done))))

Arms(p, arms, otherwise, m) ==
    IF arms = <<>> THEN Block(p, otherwise, m)
    ELSE Then(Eval(p, Head(arms).condition, m), LAMBDA asked :
              IF Truth(asked.val) THEN Block(p, Head(arms).body, asked)
              ELSE Arms(p, Tail(arms), otherwise, asked))

Items(p, items, m) ==
    IF items = <<>> THEN Went(m)
    ELSE Then(Eval(p, Head(items), m), LAMBDA held :
              Items(p, Tail(items), Printed(held, held.val)))

Stmt(p, s, m) ==
    CASE s.k = "store" ->
            Then(Eval(p, s.value, m), LAMBDA held : Went([held EXCEPT !.slots[s.slot] = held.val]))
      [] s.k = "print" -> Items(p, s.items, m)
      [] s.k = "loop" ->
            Then(EvalAll(p, <<s.from, s.to>>, m), LAMBDA bounds :
                 IF Compare(bounds.vals[1], bounds.vals[2]) = "greater" THEN Went(bounds)
                 ELSE Count(p, s, bounds.vals[1], bounds.vals[2], bounds))
      [] s.k = "if" -> Arms(p, s.arms, s.otherwise, m)
      [] s.k = "call" ->
            Then(EvalAll(p, s.args, m), LAMBDA ready : CallFunction(p, s.func, ready, s))
      [] s.k = "while" ->
            Passes(p, s, IF s.counter = <<>> THEN m
                         ELSE [m EXCEPT !.slots[s.counter[1]] = Zero("int")])
      [] s.k = "break" -> [m EXCEPT !.flow = "broke"]
      [] s.k = "storeat" ->
            Then(EvalAll(p, <<s.array, s.value>>, m), LAMBDA both :
            Then(Offset(p, TypeOf(s.array), both.vals[1].bits, s.at, [both EXCEPT !.flat = 0], s),
                 LAMBDA found :
                     Went([found EXCEPT
                              !.heap[both.vals[1].bits][found.flat + 1] = both.vals[2]])))
      [] s.k = "return" ->
            Then(EvalAll(p, s.value, m), LAMBDA ready :
                 [ready EXCEPT !.flow = "returned",
                               !.answer = IF s.value = <<>> THEN Unset ELSE ready.vals[1]])

\* `run`: the whole program from nothing.
Walk(program) == Block(program, program.stmts, Start(program))
=============================================================================
