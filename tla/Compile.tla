------------------------------ MODULE Compile ------------------------------
(* The compiler (luarust-vm/compile.rs): a checked program into bytecode.    *)
(* The compiler's state is a record handed from node to node:                *)
(*   code, consts, registers       of `Chunk`;                               *)
(*   floor, next, breaks, base, preloaded   of `Compiler`;                   *)
(*   reg                           what temp, konst, operand or arguments    *)
(*                                 answered.                                 *)
(* Registers and constants count from 0 as in the code; the places of code,  *)
(* and so the targets of jumps, count from 1. The pool of texts and the      *)
(* settings a chunk carries along are left out. `span` of an instruction is  *)
(* the node that made it.                                                    *)
EXTENDS Lang

LOCAL Max(a, b) == IF a >= b THEN a ELSE b
\* What follows, with the compiler as a step has left it: never with more
\* registers in use than the chunk claims.
With(c, Rest(_)) == CASE c.next <= c.registers -> Rest(c)

\* `new`: room for the program's variables, then for the constants known.
New(slots, consts, preloaded) ==
    [code |-> <<>>, consts |-> consts, registers |-> slots + preloaded,
     floor |-> slots + preloaded, next |-> slots + preloaded, breaks |-> <<>>,
     base |-> slots, preloaded |-> preloaded, reg |-> 0]

\* `for_function`: nothing is preloaded inside a function.
ForFunction(func, consts) == New(func.slots, consts, 0)

Emit(c, op) == [c EXCEPT !.code = Append(@, op)]
Here(c) == Len(c.code) + 1

\* Point a jump written earlier at here.
Land(c, at) == [c EXCEPT !.code[at].target = Here(c)]
LandAll(c, jumps) ==
    [c EXCEPT !.code = [i \in DOMAIN @ |->
                          IF i \in jumps THEN [@[i] EXCEPT !.target = Here(c)] ELSE @[i]]]

Temp(c) == [c EXCEPT !.reg = c.next, !.next = @ + 1, !.registers = Max(@, c.next + 1)]
Release(c) == [c EXCEPT !.next = c.floor]

\* Two constants are one when their type and bits are: `identical`.
Identical(a, b) == a = b

\* The index of a constant in the pool, added when it is new.
Konst(c, value) ==
    LET found == {i \in DOMAIN c.consts : Identical(c.consts[i], value)}
    IN  IF found # {} THEN [c EXCEPT !.reg = (CHOOSE i \in found : \A j \in found : i <= j) - 1]
        ELSE [c EXCEPT !.consts = Append(@, value), !.reg = Len(c.consts)]

ConstInto(c, value, dst, span) ==
    With(Konst(c, value), LAMBDA pooled :
         Emit(pooled, [k |-> "const", dst |-> dst, konst |-> pooled.reg, span |-> span]))

\* The register a constant lives in already, or a fresh one it is loaded into.
ConstOperand(c, value, span) ==
    With(Konst(c, value), LAMBDA pooled :
         IF pooled.reg < c.preloaded THEN [pooled EXCEPT !.reg = c.base + @]
         ELSE With(Temp(pooled), LAMBDA room :
                   Emit(room, [k |-> "const", dst |-> room.reg, konst |-> pooled.reg,
                               span |-> span])))

Jump(target, span) == [k |-> "jump", target |-> target, span |-> span]

\* The step of a loop's counter.
Step(ty, counter, step, span) ==
    [k |-> "binary", op |-> "add", ty |-> ty, dst |-> counter, lhs |-> counter, rhs |-> step,
     span |-> span]

\* Past the right side of an `and` or `or`, when the left one settled it.
ShortCircuit(e, held) ==
    [k |-> IF e.op = "and" THEN "jumpiffalse" ELSE "jumpiftrue", cond |-> held, target |-> 0,
     span |-> e]

RECURSIVE ExprInto(_, _, _, _), Fill(_, _, _, _, _), Body(_, _), Statement(_, _),
          CompileArms(_, _, _, _), PrintItems(_, _, _)

\* A register holding the value, without a copy when there is one already.
Operand(c, e, span) ==
    IF e.k = "load" THEN [c EXCEPT !.reg = e.slot]
    ELSE IF e.k = "const" THEN ConstOperand(c, e.value, span)
    ELSE With(Temp(c), LAMBDA room :
              [ExprInto(room, e, room.reg, span) EXCEPT !.reg = room.reg])

\* Consecutive registers for the arguments, all claimed before any is filled.
Claimed(c, n) == [c EXCEPT !.next = @ + n, !.registers = Max(@, IF n = 0 THEN 0 ELSE c.next + n)]
Fill(c, es, reg, mark, span) ==
    IF es = <<>> THEN c
    ELSE Fill([ExprInto(c, Head(es), reg, span) EXCEPT !.next = mark],
              Tail(es), reg + 1, mark, span)
Arguments(c, es, span) ==
    With(Claimed(c, Len(es)), LAMBDA room :
         [Fill(room, es, c.next, room.next, span) EXCEPT !.reg = c.next])

\* Mutant: the left side's answer goes straight into dst.
LogicStraight(c, e, dst) ==
    With(Emit(ExprInto(c, e.lhs, dst, e), ShortCircuit(e, dst)), LAMBDA asked :
         Land(ExprInto(asked, e.rhs, dst, e), Len(asked.code)))

\* The answer is built in a register of its own: dst may be a variable that
\* the right side reads.
LogicInto(c, e, dst) ==
    With(Temp(c), LAMBDA room :
    With(Emit(ExprInto(room, e.lhs, room.reg, e), ShortCircuit(e, room.reg)), LAMBDA asked :
         Emit(Land(ExprInto(asked, e.rhs, room.reg, e), Len(asked.code)),
              [k |-> "move", dst |-> dst, src |-> room.reg, ty |-> "bool", span |-> e])))

\* Whatever puts this expression's value in dst, its temporaries given back.
ExprInto(c, e, dst, span) ==
    CASE e.k = "const" -> ConstInto(c, e.value, dst, span)
      [] e.k = "load" ->
            IF e.slot = dst THEN c
            ELSE Emit(c, [k |-> "move", dst |-> dst, src |-> e.slot, ty |-> e.ty, span |-> span])
      [] e.k = "logic" -> [LogicInto(c, e, dst) EXCEPT !.next = c.next]
      [] e.k \in {"neg", "not", "count"} ->
            With(Operand(c, IF e.k = "count" THEN e.array ELSE e.operand, e), LAMBDA x :
                 [Emit(x, [k |-> e.k, dst |-> dst, src |-> x.reg, ty |-> TypeOf(e), span |-> e])
                     EXCEPT !.next = c.next])
      [] e.k \in {"binary", "compare"} ->
            With(Operand(c, e.lhs, e), LAMBDA x :
            With(Operand(x, e.rhs, e), LAMBDA y :
                 [Emit(y, [k |-> e.k, op |-> e.op, dst |-> dst, lhs |-> x.reg, rhs |-> y.reg,
                           ty |-> IF e.k = "binary" THEN e.ty ELSE TypeOf(e.lhs), span |-> e])
                     EXCEPT !.next = c.next]))
      [] e.k = "filled" ->
            With(Operand(c, e.length, e), LAMBDA x :
            With(Operand(x, e.value, e), LAMBDA y :
                 [Emit(y, [k |-> "filled", ty |-> e.ty, dst |-> dst, length |-> x.reg,
                           value |-> y.reg, span |-> e]) EXCEPT !.next = c.next]))
      [] e.k = "call" ->
            With(Arguments(c, e.args, e), LAMBDA x :
                 [Emit(x, [k |-> "call", func |-> e.func, base |-> x.reg, argc |-> Len(e.args),
                           dst |-> dst, span |-> e]) EXCEPT !.next = c.next])
      [] e.k = "newarray" ->
            With(Arguments(c, e.items, e), LAMBDA x :
                 [Emit(x, [k |-> "newarray", ty |-> e.ty, dst |-> dst, items |-> x.reg,
                           count |-> Len(e.items), span |-> e]) EXCEPT !.next = c.next])
      [] e.k = "at" ->
            With(Operand(c, e.array, e), LAMBDA x :
            With(Arguments(x, e.at, e), LAMBDA y :
                 [Emit(y, [k |-> "at", ty |-> TypeOf(e.array), dst |-> dst, array |-> x.reg,
                           at |-> y.reg, rank |-> Len(e.at), span |-> e]) EXCEPT !.next = c.next]))

\* `block`: every temporary is given back between statements.
Body(c, stmts) ==
    IF stmts = <<>> THEN c ELSE Body(Release(Statement(c, Head(stmts))), Tail(stmts))

\* A body compiled above whatever is still being held.
Above(c, stmts) == [Body([c EXCEPT !.floor = c.next], stmts) EXCEPT !.floor = c.floor]

\* The same for the body of a loop, whose breaks are landed after `close`.
Opened(c) == [c EXCEPT !.floor = c.next, !.breaks = Append(@, {})]
Closed(c, outer, jumps) ==
    LET breaks == c.breaks[Len(c.breaks)]
    IN  Release([LandAll(c, jumps \cup breaks)
                    EXCEPT !.breaks = SubSeq(@, 1, Len(@) - 1), !.floor = outer.floor])

\* A jump when the counter is past the bound, or has met it.
Meets(k, limit, s) ==
    [k |-> k, lhs |-> s.slot, rhs |-> limit, ty |-> s.ty, target |-> 0, span |-> s]

\* A counting loop: leave an empty range at once; step only when the counter
\* has not reached the bound, so that no step goes past the top of the type.
Loop(c, s) ==
    With(ExprInto(c, s.from, s.slot, s), LAMBDA from :
    With(Operand(from, s.to, s), LAMBDA limit :
    With(ConstOperand(limit, OneOf(s.ty), s), LAMBDA step :
    With(Emit(Opened(step), Meets("jumpifgreater", limit.reg, s)), LAMBDA skip :
    With(Emit(Body(skip, s.body), Meets("jumpifequal", limit.reg, s)), LAMBDA done :
    With(Emit(done, Step(s.ty, s.slot, step.reg, s)), LAMBDA stepped :
         Closed(Emit(stepped, Jump(Here(skip), s)), c, {Len(skip.code), Len(done.code)})))))))

\* The counter of a `while` is none or one slot, at nought first.
Zeroed(c, s) == IF s.counter = <<>> THEN c ELSE ConstInto(c, Zero("int"), s.counter[1], s)
\* Out of a loop or an arm when the condition did not hold.
Unless(c, cond, s) ==
    Emit(c, [k |-> "jumpiffalse", cond |-> cond, target |-> 0, span |-> s])
\* One higher, after the condition.
Counts(c, s) ==
    With(ConstOperand(c, OneOf("int"), s), LAMBDA step :
         IF s.counter = <<>> THEN c ELSE Emit(step, Step("int", s.counter[1], step.reg, s)))

\* The condition before every pass, and the counter one higher after it.
While(c, s) ==
    With(Opened(Zeroed(c, s)), LAMBDA opened :
    With(Operand(opened, s.condition, s), LAMBDA held :
    With([Unless(held, held.reg, s) EXCEPT !.next = opened.next], LAMBDA done :
         Closed(Emit(Body(Counts(done, s), s.body), Jump(Here(opened), s)), c,
                {Len(done.code)}))))

\* Each arm jumps over the next when its condition held. `leaving` is the
\* jumps that leave, to be landed at the end; a lone arm has none.
CompileArms(c, s, arms, leaving) ==
    IF arms = <<>> THEN Release(LandAll(Above(c, s.otherwise), leaving))
    ELSE With(Operand(c, Head(arms).condition, s), LAMBDA held :
         With([Unless(held, held.reg, s) EXCEPT !.next = c.next], LAMBDA skip :
         With(Above(skip, Head(arms).body), LAMBDA ran :
              IF Len(s.arms) = 1 /\ s.otherwise = <<>>
              THEN CompileArms(Land(ran, Len(skip.code)), s, <<>>, {})
              ELSE CompileArms(Land(Emit(ran, Jump(0, s)), Len(skip.code)), s, Tail(arms),
                               leaving \cup {Len(ran.code) + 1}))))

PrintItems(c, items, s) ==
    IF items = <<>> THEN c
    ELSE With(Operand(c, Head(items), s), LAMBDA x :
              PrintItems(Release(Emit(x, [k |-> "print", src |-> x.reg, ty |-> TypeOf(Head(items)),
                                          span |-> s])),
                         Tail(items), s))

StoreAt(c, s) ==
    With(Operand(c, s.array, s), LAMBDA target :
    With(Arguments(target, s.at, s), LAMBDA base :
    With(Operand(base, s.value, s), LAMBDA held :
         [Emit(held, [k |-> "storeat", array |-> target.reg, at |-> base.reg, rank |-> Len(s.at),
                      value |-> held.reg, ty |-> TypeOf(s.array), span |-> s])
             EXCEPT !.next = c.next])))

Statement(c, s) ==
    CASE s.k = "store" -> ExprInto(c, s.value, s.slot, s)
      [] s.k = "print" -> PrintItems(c, s.items, s)
      [] s.k = "loop" -> Loop(c, s)
      [] s.k = "if" -> CompileArms(c, s, s.arms, {})
      [] s.k = "while" -> While(c, s)
      [] s.k = "storeat" -> StoreAt(c, s)
      [] s.k = "break" ->
            [Emit(c, Jump(0, s)) EXCEPT !.breaks[Len(c.breaks)] = @ \cup {Here(c)}]
      [] s.k = "return" /\ s.value = <<>> -> Emit(c, [k |-> "returnnothing", span |-> s])
      [] s.k = "return" /\ s.value # <<>> ->
            With(Operand(c, s.value[1], s), LAMBDA x :
                 [Emit(x, [k |-> "return", src |-> x.reg, ty |-> TypeOf(s.value[1]), span |-> s])
                     EXCEPT !.next = c.next])
      [] s.k = "call" ->
            With(Arguments(c, s.args, s), LAMBDA x :
            With(Temp(x), LAMBDA room :
                 [Emit(room, [k |-> "call", func |-> s.func, base |-> x.reg, argc |-> Len(s.args),
                              dst |-> room.reg, span |-> s]) EXCEPT !.next = c.next]))

\* `run`: the constants known, each into its register, then the program.
Top(program, consts) ==
    With(New(program.slots, consts, Len(consts)), LAMBDA c :
         Emit(Body([c EXCEPT !.code =
                       [i \in DOMAIN consts |->
                          [k |-> "const", dst |-> c.base + i - 1, konst |-> i - 1,
                           span |-> NoFault.span]]],
                   program.stmts),
              [k |-> "halt", span |-> NoFault.span]))

\* A function that answers nothing returns at its end.
Finished(func, body) ==
    IF func.returns # "nothing" THEN body ELSE Emit(body, [k |-> "returnnothing", span |-> NoFault.span])

RECURSIVE Functions(_, _, _)

\* One function after another, the pool of constants handed along.
Functions(funcs, consts, done) ==
    IF funcs = <<>> THEN [funcs |-> done, consts |-> consts]
    ELSE With(Finished(Head(funcs), Body(ForFunction(Head(funcs), consts), Head(funcs).body)),
              LAMBDA whole :
              Functions(Tail(funcs), whole.consts,
                        Append(done, [code |-> whole.code, registers |-> whole.registers,
                                      params |-> Head(funcs).params,
                                      returns |-> Head(funcs).returns])))

\* The chunk of a program whose constants are known.
ChunkOf(program, known) ==
    With(Top(program, known), LAMBDA top :
         LET rest == Functions(program.funcs, top.consts, <<>>)
         IN  [code |-> top.code, registers |-> top.registers, base |-> program.slots,
              preloaded |-> Len(known), consts |-> rest.consts, funcs |-> rest.funcs,
              overflow |-> program.overflow, division |-> program.division,
              proven |-> program.proven])

\* `compile`: twice over the program, the first time for its constants.
CompileProgram(program) == ChunkOf(program, Top(program, <<>>).consts)
============================================================================
