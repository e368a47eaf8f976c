----------------------------- MODULE ChunkFile -----------------------------
(* A chunk written to a file and read back (luarust-vm/serialize.rs). A file  *)
(* is a sequence of cells, and every number the writer puts is one of them,   *)
(* however many bytes it has in the code; a cell is a byte's worth. A span is *)
(* one number, a text one cell for each of its bytes after its length. The    *)
(* instructions and types are Lang's, with the tags they have in the code.    *)
(*   A chunk here has: overflow, division, registers, source, consts, texts,  *)
(* code, spans, funcs, of [registers, params, returns, code, spans]. Its only *)
(* shapes of array are Lang's. The settings no engine here acts upon, the     *)
(* path, and numbers of more than one limb are left out.                      *)
(*   Reading carries a cursor: the cells, `at`, `broken` ("no" or why) and    *)
(* `val`, what was read last.                                                 *)
EXTENDS Lang, SequencesExt, Bitwise

Magic == 76
Version == 16
ArrayTag == 200
MaxRank == 3
Newline == 10

\* FNV-1a, of which these are the low eight bits: each step mixes a byte into
\* the low eight and multiplies, so that they depend on nothing above them.
RECURSIVE SummedOn(_, _, _, _)
SummedOn(sum, cells, from, to) ==
    IF from > to THEN sum
    ELSE IF from = to THEN ((sum ^^ cells[from]) * 179) % 256
    ELSE LET middle == (from + to) \div 2
             before == SummedOn(sum, cells, from, middle)
         IN  CASE before \in 0 .. 255 -> SummedOn(before, cells, middle + 1, to)
Summed(cells) == SummedOn(37, cells, 1, Len(cells))

\* Where each line of a text begins, counted in bytes from nought.
LineStarts(text) == <<0>> \o SelectSeq([i \in DOMAIN text |-> IF text[i] = Newline THEN i ELSE 0],
                                       LAMBDA start : start # 0)

\* Sequences one after another, by halves so that long files are no deeper.
RECURSIVE Joined(_)
Joined(parts) ==
    IF parts = <<>> THEN <<>>
    ELSE IF Len(parts) = 1 THEN parts[1]
    ELSE LET half == Len(parts) \div 2
         IN  Joined(SubSeq(parts, 1, half)) \o Joined(SubSeq(parts, half + 1, Len(parts)))

Tagged(names, tag) == names[tag + 1]
TagOf(names, name) == (CHOOSE i \in DOMAIN names : names[i] = name) - 1
ScalarTag == [float |-> 2, int |-> 11, nat |-> 15, bool |-> 17]
BinOps == <<"add", "sub", "mul", "div", "mod", "pow">>
CmpOps == <<"lt", "gt", "eq", "le", "ge", "ne">>
DivisionTags == <<"floored", "truncated", "euclidean">>
Overflows == <<"wrap", "trap">>

-----------------------------------------------------------------------------
(* Writing *)

\* The tag of an instruction and what follows it, in order (put_op).
Layout == [
    const |-> <<0, <<"dst", "konst">>>>,
    move |-> <<1, <<"dst", "src", "ty">>>>,
    binary |-> <<2, <<"binop", "ty", "dst", "lhs", "rhs", "flag">>>>,
    neg |-> <<3, <<"dst", "src", "ty">>>>,
    timenow |-> <<4, <<"dst", "ty">>>>,
    printtext |-> <<5, <<"text">>>>,
    print |-> <<6, <<"src", "ty">>>>,
    jumpifgreater |-> <<7, <<"lhs", "rhs", "ty", "target">>>>,
    jumpifequal |-> <<8, <<"lhs", "rhs", "ty", "target">>>>,
    jump |-> <<9, <<"target">>>>,
    halt |-> <<10, <<>>>>,
    compare |-> <<11, <<"cmp", "ty", "dst", "lhs", "rhs">>>>,
    not |-> <<12, <<"dst", "src">>>>,
    jumpiffalse |-> <<13, <<"cond", "target">>>>,
    jumpiftrue |-> <<14, <<"cond", "target">>>>,
    call |-> <<15, <<"func", "base", "argc", "dst">>>>,
    return |-> <<16, <<"src", "ty">>>>,
    returnnothing |-> <<17, <<>>>>,
    newarray |-> <<18, <<"dst", "items", "count", "ty">>>>,
    filled |-> <<19, <<"dst", "length", "value", "ty">>>>,
    at |-> <<20, <<"dst", "array", "at", "rank", "ty">>>>,
    storeat |-> <<21, <<"array", "at", "rank", "value", "ty">>>>,
    count |-> <<22, <<"dst", "array", "ty">>>>]

\* The register a count reads is called `array` in a file and src in a chunk.
NameIn(op, field) == IF op.k = "count" /\ field = "array" THEN "src" ELSE field

PutTy(ty) ==
    CASE ty \in DOMAIN ScalarTag -> <<ScalarTag[ty]>>
      [] ty \in {"ints", "grid"} ->
            <<ArrayTag, ScalarTag["int"], Len(Dims(ty))>> \o Dims(ty)

PutField(op, field) ==
    CASE field = "ty" -> PutTy(op.ty)
      [] field = "binop" -> <<TagOf(BinOps, op.op)>>
      [] field = "cmp" -> <<TagOf(CmpOps, op.op)>>
      [] field = "flag" -> <<IF op.nonnegative THEN 1 ELSE 0>>
      [] OTHER -> <<op[NameIn(op, field)]>>

PutOp(op) ==
    LET layout == Layout[op.k]
    IN  <<layout[1]>>
        \o Joined([i \in DOMAIN layout[2] |-> PutField(op, layout[2][i])])

PutValue(v) ==
    IF v.ty = "bool" THEN <<2, v.bits>> ELSE <<0>> \o PutTy(v.ty) \o <<v.bits>>

PutMany(Put(_), items) ==
    <<Len(items)>> \o Joined([i \in DOMAIN items |-> Put(items[i])])
PutNumbers(numbers) == <<Len(numbers)>> \o numbers

PutFunc(f) ==
    <<f.registers>> \o PutMany(PutTy, f.params)
    \o (IF f.returns = "nothing" THEN <<0>> ELSE <<1>> \o PutTy(f.returns))
    \o PutMany(PutOp, f.code) \o PutNumbers(f.spans)

\* The text itself, or where its lines begin and how long it is.
PutSource(text, embed) ==
    IF embed THEN <<1>> \o PutNumbers(text)
    ELSE <<0>> \o PutNumbers(LineStarts(text)) \o <<Len(text)>>

\* `write_with`.
Write(chunk, text, embed) ==
    LET body == <<TagOf(Overflows, chunk.overflow), TagOf(DivisionTags, chunk.division),
                  chunk.registers>>
                \o PutSource(text, embed)
                \o PutMany(PutValue, chunk.consts) \o PutMany(PutNumbers, chunk.texts)
                \o PutMany(PutOp, chunk.code) \o PutNumbers(chunk.spans)
                \o PutMany(PutFunc, chunk.funcs)
    IN  <<Magic, Version, Summed(body)>> \o body

-----------------------------------------------------------------------------
(* Reading *)

Cursor(cells) == [cells |-> cells, at |-> 1, broken |-> "no", val |-> 0]
Broke(c, why) == [c EXCEPT !.broken = why]
Onto(c, Rest(_)) == IF c.broken # "no" THEN c ELSE Rest(c)
Gives(c, val) == [c EXCEPT !.val = val]

Take(c) ==
    IF c.at > Len(c.cells) THEN Broke(c, "truncated")
    ELSE [c EXCEPT !.at = @ + 1, !.val = c.cells[c.at]]

\* What a tag names, when it names anything.
Known(c, names) ==
    Onto(Take(c), LAMBDA got :
         IF got.val < Len(names) THEN Gives(got, Tagged(names, got.val))
         ELSE Broke(got, "unknown"))

\* The tag of an instruction and the fields read after it (`Cursor::op`).
Reading == <<
    [k |-> "const", fields |-> <<"dst", "konst">>],
    [k |-> "move", fields |-> <<"dst", "src", "ty">>],
    [k |-> "binary", fields |-> <<"binop", "ty", "dst", "lhs", "rhs", "flag">>],
    [k |-> "neg", fields |-> <<"dst", "src", "ty">>],
    [k |-> "timenow", fields |-> <<"dst", "ty">>],
    [k |-> "printtext", fields |-> <<"text">>],
    [k |-> "print", fields |-> <<"src", "ty">>],
    [k |-> "jumpifgreater", fields |-> <<"lhs", "rhs", "ty", "target">>],
    [k |-> "jumpifequal", fields |-> <<"lhs", "rhs", "ty", "target">>],
    [k |-> "jump", fields |-> <<"target">>],
    [k |-> "halt", fields |-> <<>>],
    [k |-> "compare", fields |-> <<"cmp", "ty", "dst", "lhs", "rhs">>],
    [k |-> "not", fields |-> <<"dst", "src">>],
    [k |-> "jumpiffalse", fields |-> <<"cond", "target">>],
    [k |-> "jumpiftrue", fields |-> <<"cond", "target">>],
    [k |-> "call", fields |-> <<"func", "base", "argc", "dst">>],
    [k |-> "return", fields |-> <<"src", "ty">>],
    [k |-> "returnnothing", fields |-> <<>>],
    [k |-> "newarray", fields |-> <<"dst", "items", "count", "ty">>],
    [k |-> "filled", fields |-> <<"dst", "length", "value", "ty">>],
    [k |-> "at", fields |-> <<"dst", "array", "at", "rank", "ty">>],
    [k |-> "storeat", fields |-> <<"array", "at", "rank", "value", "ty">>],
    [k |-> "count", fields |-> <<"dst", "array", "ty">>]>>

\* Many of a kind of item, into a sequence; and one (`Many` is `for _ in`).
RECURSIVE Many(_, _, _), Item(_, _), Fields(_, _, _)
Many(c, n, kind) ==
    IF n = 0 THEN Gives(c, <<>>)
    ELSE IF n = 1 THEN Onto(Item(c, kind), LAMBDA one : Gives(one, <<one.val>>))
    ELSE Onto(Many(c, n \div 2, kind), LAMBDA some :
         Onto(Many(some, n - n \div 2, kind), LAMBDA rest : Gives(rest, some.val \o rest.val)))

\* As many as the number that comes first says.
AfterCount(c, kind) == Onto(Take(c), LAMBDA count : Many(count, count.val, kind))

Scalars == DOMAIN ScalarTag
ReadTy(c) ==
    Onto(Take(c), LAMBDA tag :
         IF tag.val = ArrayTag
         THEN Onto(Take(tag), LAMBDA element :
              Onto(Take(element), LAMBDA rank :
                   IF rank.val > MaxRank THEN Broke(rank, "unknown")
                   ELSE Onto(Many(rank, rank.val, "number"), LAMBDA dims :
                             IF element.val # ScalarTag["int"] THEN Broke(dims, "unknown")
                             ELSE IF dims.val = <<>> THEN Gives(dims, "ints")
                             ELSE IF dims.val = Grid THEN Gives(dims, "grid")
                             ELSE Broke(dims, "unknown"))))
         ELSE IF \E ty \in Scalars : ScalarTag[ty] = tag.val
         THEN Gives(tag, CHOOSE ty \in Scalars : ScalarTag[ty] = tag.val)
         ELSE Broke(tag, "unknown"))

ReadFlag(c) ==
    Onto(Take(c), LAMBDA got :
         IF got.val > 1 THEN Broke(got, "unknown") ELSE Gives(got, got.val = 1))

ReadField(c, field) ==
    CASE field = "ty" -> ReadTy(c)
      [] field = "binop" -> Known(c, BinOps)
      [] field = "cmp" -> Known(c, CmpOps)
      [] field = "flag" -> ReadFlag(c)
      [] OTHER -> Take(c)

\* Mutant: the two sides of an operation, read in the other order.
FieldOfSwapped(k, field) ==
    CASE field \in {"binop", "cmp"} -> "op"
      [] field = "flag" -> "nonnegative"
      [] field = "array" /\ k = "count" -> "src"
      [] field = "lhs" -> "rhs"
      [] field = "rhs" -> "lhs"
      [] OTHER -> field

\* What a field is called in a chunk.
FieldOf(k, field) ==
    CASE field \in {"binop", "cmp"} -> "op"
      [] field = "flag" -> "nonnegative"
      [] field = "array" /\ k = "count" -> "src"
      [] OTHER -> field

\* The fields of an instruction, one after another, into the record `op`.
Fields(c, fields, op) ==
    IF fields = <<>> THEN Gives(c, op)
    ELSE Onto(ReadField(c, Head(fields)), LAMBDA got :
              Fields(got, Tail(fields),
                     [name \in DOMAIN op \cup {FieldOf(op.k, Head(fields))} |->
                        IF name \in DOMAIN op THEN op[name] ELSE got.val]))

ReadOp(c) ==
    Onto(Take(c), LAMBDA tag :
         IF tag.val >= Len(Reading) THEN Broke(tag, "unknown")
         ELSE LET reading == Reading[tag.val + 1]
              IN  Fields(tag, reading.fields, [k |-> reading.k]))

ReadValue(c) ==
    Onto(Take(c), LAMBDA kind :
         IF kind.val = 0
         THEN Onto(ReadTy(kind), LAMBDA ty :
              Onto(Take(ty), LAMBDA bits : Gives(bits, [ty |-> ty.val, bits |-> bits.val])))
         ELSE IF kind.val = 2
         THEN Onto(Take(kind), LAMBDA bit : Gives(bit, Bool(bit.val # 0)))
         ELSE Broke(kind, "unknown"))

ReadReturns(c) ==
    Onto(Take(c), LAMBDA any : IF any.val = 0 THEN Gives(any, "nothing") ELSE ReadTy(any))

ReadFunc(c) ==
    Onto(Take(c), LAMBDA registers :
    Onto(AfterCount(registers, "ty"), LAMBDA params :
    Onto(ReadReturns(params), LAMBDA returns :
    Onto(AfterCount(returns, "op"), LAMBDA code :
    Onto(AfterCount(code, "number"), LAMBDA spans :
         Gives(spans, [registers |-> registers.val, params |-> params.val,
                      returns |-> returns.val, code |-> code.val, spans |-> spans.val]))))))

Item(c, kind) ==
    CASE kind = "number" -> Take(c)
      [] kind = "ty" -> ReadTy(c)
      [] kind = "value" -> ReadValue(c)
      [] kind = "text" -> AfterCount(c, "number")
      [] kind = "op" -> ReadOp(c)
      [] kind = "func" -> ReadFunc(c)

\* A line table that runs backwards, or off the end of its file, is refused.
LinesHold(starts, length) ==
    /\ starts # <<>>
    /\ starts[1] = 0
    /\ \A i \in DOMAIN starts : i > 1 => starts[i - 1] < starts[i]
    /\ starts[Len(starts)] <= length

ReadSource(c) ==
    Onto(Take(c), LAMBDA kind :
         IF kind.val = 1
         THEN Onto(AfterCount(kind, "number"), LAMBDA text :
                   Gives(text, [k |-> "text", text |-> text.val]))
         ELSE IF kind.val = 0
         THEN Onto(AfterCount(kind, "number"), LAMBDA starts :
              Onto(Take(starts), LAMBDA length :
                   IF ~LinesHold(starts.val, length.val) THEN Broke(length, "out of range")
                   ELSE Gives(length, [k |-> "lines", starts |-> starts.val, len |-> length.val])))
         ELSE Broke(kind, "unknown"))

\* Mutant: the sum is read and not compared.
IdentifiedTrusting(cells) == Take(Onto(Take(Cursor(cells)), LAMBDA magic : Take(magic)))

\* The sum is checked before anything else is believed.
Identified(cells) ==
    Onto(Take(Cursor(cells)), LAMBDA magic :
         IF magic.val # Magic THEN Broke(magic, "not a chunk")
         ELSE Onto(Take(magic), LAMBDA version :
              IF version.val # Version THEN Broke(version, "version")
              ELSE Onto(Take(version), LAMBDA sum :
                        IF Summed(SubSeq(cells, sum.at, Len(cells))) # sum.val
                        THEN Broke(sum, "damaged") ELSE sum)))

\* Anything but nought is trapping.
ReadOverflow(c) ==
    Onto(Take(c), LAMBDA tag : Gives(tag, IF tag.val = 0 THEN "wrap" ELSE "trap"))

\* Everything after the sum, in order.
Contents(c) ==
    Onto(ReadOverflow(c), LAMBDA overflow :
    Onto(Known(overflow, DivisionTags), LAMBDA division :
    Onto(Take(division), LAMBDA registers :
    Onto(ReadSource(registers), LAMBDA source :
    Onto(AfterCount(source, "value"), LAMBDA consts :
    Onto(AfterCount(consts, "text"), LAMBDA texts :
    Onto(AfterCount(texts, "op"), LAMBDA code :
    Onto(AfterCount(code, "number"), LAMBDA spans :
    Onto(AfterCount(spans, "func"), LAMBDA funcs :
         Gives(funcs, [overflow |-> overflow.val, division |-> division.val,
                      registers |-> registers.val, source |-> source.val,
                      consts |-> consts.val, texts |-> texts.val, code |-> code.val,
                      spans |-> spans.val, funcs |-> funcs.val]))))))))))
============================================================================
