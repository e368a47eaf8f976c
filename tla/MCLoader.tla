------------------------------ MODULE MCLoader ------------------------------
(* Loader on chunks the compiler made and on small ones written by hand.      *)
EXTENDS Loader, MCSamples

\* A chunk as it is written: of an instruction, what its layout names, and
\* whether its division is proven. Its node becomes a span.
ForFile(op, proven) ==
    LET named == {FieldOf(op.k, NameIn(op, f)) : f \in Range(Layout[op.k][2])}
    IN  [field \in named \cup {"k"} |->
            IF field = "nonnegative" THEN op.span \in proven ELSE op[field]]
CodeForFile(code, proven) == [at \in DOMAIN code |-> ForFile(code[at], proven)]
Spans(code) == [at \in DOMAIN code |-> at]
FromCompiler(c) ==
    [overflow |-> c.overflow, division |-> c.division, registers |-> c.registers,
     consts |-> c.consts, texts |-> <<>>, code |-> CodeForFile(c.code, c.proven),
     spans |-> Spans(c.code),
     funcs |-> [f \in DOMAIN c.funcs |->
        [registers |-> c.funcs[f].registers, params |-> c.funcs[f].params,
         returns |-> c.funcs[f].returns, code |-> CodeForFile(c.funcs[f].code, c.proven),
         spans |-> Spans(c.funcs[f].code)]]]

\* Every so many of the programs of MCSamples.
Every == 15
Chosen == LET all == MCPrograms IN {all[n * Every] : n \in 1 .. Len(all) \div Every}
MCCompiled == {FromCompiler(CompileProgram(Flag(program))) : program \in Chosen}

-----------------------------------------------------------------------------
(* By hand: a routine that takes a bool, its second register put to different *)
(* uses on different ways through it.                                         *)

Const(dst, konst) == [k |-> "const", dst |-> dst, konst |-> konst]
Shows(src, ty) == [k |-> "print", src |-> src, ty |-> ty]
To(target) == [k |-> "jump", target |-> target]
If(target) == [k |-> "jumpiftrue", cond |-> 0, target |-> target]
GoBack == [k |-> "returnnothing"]

HandRoutine(registers, params, returns, code, spans) ==
    [registers |-> registers, params |-> params, returns |-> returns, code |-> code,
     spans |-> spans]
HandChunk(routines) ==
    [overflow |-> "trap", division |-> "euclidean", registers |-> 0,
     consts |-> <<[ty |-> "int", bits |-> 2], [ty |-> "nat", bits |-> 3]>>, texts |-> <<<<7, 8>>>>,
     code |-> <<[k |-> "printtext", text |-> 0], [k |-> "halt"]>>, spans |-> <<1, 2>>,
     funcs |-> routines]
Wandering(code) == HandChunk(<<HandRoutine(2, <<"bool">>, "nothing", code, Spans(code))>>)

\* How it begins, what the middle instructions may be, and how it ends: the
\* last may be run past.
Firsts == {Const(1, 0), If(3)}
Middle == {Const(1, 0), Const(1, 1), Shows(1, "int"), To(2), To(5), If(2), If(4), If(5)}
Endings == {GoBack, Shows(1, "int")}
Wanderings ==
    {Wandering(<<first, a, b, c, last>>) : first \in Firsts, a, b, c \in Middle, last \in Endings}

\* One instruction of each kind that reads an array or calls, on registers
\* that hold a bool, an int, an array and a nat.
Alone(op) ==
    HandChunk(<<HandRoutine(5, <<"bool", "int", "ints", "nat">>, "nothing",
                         <<op, Shows(4, "int"), GoBack>>, <<1, 2, 3>>),
             HandRoutine(2, <<"int", "ints">>, "int", <<[k |-> "return", src |-> 0, ty |-> "int"]>>, <<1>>),
             HandRoutine(0, <<>>, "nothing", <<GoBack>>, <<1>>)>>)
Regs == 0 .. 5
Oddities ==
    {Alone(op) : op \in
        UNION {
            {[k |-> "at", dst |-> 4, array |-> a, at |-> i, rank |-> 1, ty |-> t] :
                a \in Regs, i \in Regs, t \in {"ints", "int"}},
            {[k |-> "count", dst |-> 4, src |-> a, ty |-> t] : a \in Regs, t \in {"int", "nat"}},
            {[k |-> "newarray", dst |-> d, items |-> i, count |-> n, ty |-> t] :
                d \in {2, 4}, i \in {1, 4, 5}, n \in 0 .. 2, t \in {"ints", "nat"}},
            {[k |-> "filled", dst |-> 4, length |-> l, value |-> v, ty |-> "ints"] : l, v \in Regs},
            {[k |-> "call", func |-> f, base |-> b, argc |-> n, dst |-> d] :
                f \in 2 .. 4, b \in {0, 1, 4}, n \in {0, 2}, d \in {1, 4, 5}},
            {[k |-> "compare", op |-> "le", ty |-> "int", dst |-> 4, lhs |-> l, rhs |-> 1] : l \in Regs},
            {[k |-> "timenow", dst |-> 4, ty |-> t] : t \in {"int", "float"}},
            {[k |-> "const", dst |-> 4, konst |-> c] : c \in 0 .. 2},
            {[k |-> "printtext", text |-> t] : t \in 0 .. 1}}}

\* A register that holds one array or another, by the way it was come to, counted.
NewArray(ty) == [k |-> "newarray", dst |-> 1, items |-> 0, count |-> 0, ty |-> ty]
CountsEither(one, other) ==
    HandChunk(<<HandRoutine(3, <<"bool">>, "nothing",
                         <<NewArray(one), If(4), NewArray(other),
                           [k |-> "count", dst |-> 2, src |-> 1, ty |-> "int"], GoBack>>,
                         <<1, 2, 3, 4, 5>>)>>)
CountedEither == {CountsEither(one, other) : one, other \in {"ints", "grid"}}

\* A body with every register an instruction can name: the first as given, an
\* array in the second and in the third, and ints to the last.
Brimming(first, op) ==
    HandChunk(<<HandRoutine(RegMax + 1, <<first, "grid", "ints">> \o [r \in 1 .. RegMax - 2 |-> "int"],
                         "nothing", <<op, GoBack>>, <<1, 2>>),
             HandRoutine(2, <<"int", "int">>, "nothing", <<GoBack>>, <<1>>)>>)
\* Runs of registers there that end at the last one, and that go round.
Rounds ==
    {Brimming(first, op) : first \in {"int", "bool"}, op \in
        UNION {
            {[k |-> "newarray", dst |-> 3, items |-> i, count |-> n, ty |-> "ints"] :
                i \in {RegMax - 1, RegMax}, n \in 1 .. 3},
            {[k |-> "at", dst |-> 3, array |-> 1, at |-> i, rank |-> n, ty |-> "grid"] :
                i \in {RegMax - 1, RegMax}, n \in 1 .. 2},
            {[k |-> "call", func |-> 2, base |-> b, argc |-> 2, dst |-> 3] :
                b \in {RegMax - 1, RegMax}}}}

\* More registers than an instruction can name.
Crowded == HandChunk(<<HandRoutine(RegMax + 2, <<>>, "nothing", <<GoBack>>, <<1>>)>>)

MCByHand == Wanderings \cup Oddities \cup CountedEither \cup Rounds \cup {Crowded}

\* Chunks that meet accidents.
MCFragile ==
    {Wandering(<<Const(1, 0), If(4), Const(1, 1), Shows(1, "nat"), GoBack>>),
     Alone([k |-> "at", dst |-> 4, array |-> 2, at |-> 1, rank |-> 1, ty |-> "ints"])}
MCDamage == {0, 1, 11, 17, 200}
=============================================================================
