------------------------------ MODULE Machine ------------------------------
(* The machine that runs bytecode (luarust-vm/lib.rs: `widen`, `engine`,     *)
(* `offset`), on the chunks it is given and beside the answers of the        *)
(* tree-walker for the same programs. Roots and collections are module VM's  *)
(* and tiers are module Tiered's; here is what the instructions compute,     *)
(* which registers they read, and where control goes.                        *)
EXTENDS Slots, SequencesExt

CONSTANTS
    Chunks,       \* a sequence of chunks, what `Compile` makes of programs that end,
                  \* with the blocks compiled code has for each as `native`
    Expected,     \* what `TreeWalk` prints for each, and the fault it ends with
    Known,        \* what is known of the registers of each, at every place of a
                  \* body that can be come to
    MaxOut,       \* bound on what a run prints, past every program's output
    MaxArrays     \* bound on the arrays a run makes, likewise

ASSUME MachineAssumption ==
    /\ MaxOut \in Nat /\ MaxArrays \in Nat
    /\ Len(Chunks) = Len(Expected) /\ Len(Chunks) = Len(Known)

VARIABLES
    chunk,    \* the chunk run, widened
    expected, \* what the tree-walker answers for its program
    frames,   \* the open calls, innermost last
    arrays,   \* the heap: a handle is an index
    printed,  \* what was written out
    ended     \* "no", "yes", or "fault"
VARIABLE fault   \* what it stopped with

vars == <<chunk, expected, frames, arrays, printed, ended, fault>>

-----------------------------------------------------------------------------
(* Widening *)

\* Where jumps land.
Landed(code) == {code[i].target : i \in {j \in DOMAIN code : code[j].k \in Jumps}}

\* The tail of a counting loop, whole: leave, or step and go round.
IsTail(code, here) ==
    /\ here + 2 \in DOMAIN code
    /\ code[here].k = "jumpifequal"
    /\ IsInteger(code[here].ty)
    /\ code[here].target = here + 3
    /\ {here + 1, here + 2} \cap Landed(code) = {}
    /\ code[here + 1].k = "binary"
    /\ code[here + 1].op = "add"
    /\ code[here + 1].ty = code[here].ty
    /\ code[here + 1].dst = code[here].lhs
    /\ code[here + 1].lhs = code[here].lhs
    /\ code[here + 2].k = "jump"
    /\ code[here + 2].target <= here

\* The copy in front of a one-dimensional index.
IsStaged(code, here) ==
    /\ here + 1 \in DOMAIN code
    /\ code[here].k = "move"
    /\ here + 1 \notin Landed(code)
    /\ code[here + 1].k = "at"
    /\ code[here + 1].rank = 1
    /\ code[here + 1].at = code[here].dst

\* One for one: every target stays what it was.
Widen(code, fused) ==
    [here \in DOMAIN code |->
        LET op == code[here] IN
        IF fused /\ IsTail(code, here)
        THEN [k |-> "tail", ty |-> op.ty, counter |-> op.lhs, limit |-> op.rhs,
              step |-> code[here + 1].rhs, span |-> op.span]
        ELSE IF fused /\ IsStaged(code, here)
        THEN [k |-> "atone", dst |-> code[here + 1].dst, array |-> code[here + 1].array,
              at |-> op.src, rank |-> 1, ty |-> code[here + 1].ty, span |-> code[here + 1].span]
        ELSE op]

\* A body widened, or the top level.
WidenIn(body, fused) == [body EXCEPT !.code = Widen(@, fused)]

\* A chunk widened, its loop tails and staged indices fused or not.
Widened(compiled, fused) ==
    [WidenIn(compiled, fused) EXCEPT !.funcs = [f \in DOMAIN @ |-> WidenIn(@[f], fused)]]

-----------------------------------------------------------------------------
(* What the machine takes a chunk to be. *)

Instructions ==
    Jumps \cup {"const", "move", "binary", "neg", "not", "compare", "print", "newarray", "filled",
               "count", "at", "storeat", "call", "return", "returnnothing", "halt"}
Numeric == {"int", "nat", "float"}
Operators == {"add", "sub", "mul", "div", "mod"}
Conventions == {"floored", "truncated", "euclidean"}
Registers(c, b) == 0 .. RegistersOf(c, b) - 1

\* An instruction of a body is one of the machine's, names what is there, and
\* its types are types there is an answer for. An index has no more parts than
\* the array has dimensions, the arguments of a call do not go past the last
\* register, and a body answers what it says it does.
Formed(c, b, op) ==
    /\ op.k \in Instructions
    /\ \A part \in Claims(c, op) \cup Writes(c, op) : part[2] \in Kinds \ {"unset"}
    /\ op.k = "const" => op.konst + 1 \in DOMAIN c.consts
    /\ op.k \in {"binary", "neg"} => op.ty \in Numeric
    /\ op.k = "binary" => op.op \in Operators
    /\ op.k = "count" => IsInteger(op.ty)
    /\ op.k = "newarray" => op.items \in Nat /\ op.count \in Nat
    /\ op.k \in {"at", "storeat"} =>
        op.at \in Nat /\ op.rank \in {1, 2} /\ (op.rank = 2 => Len(Dims(op.ty)) >= 2)
    /\ op.k = "call" => op.func \in DOMAIN c.funcs /\ op.base \in Nat /\ op.dst \in Registers(c, b)
    /\ ~Overruns(op)
    /\ op.k = "return" => b # 0 /\ op.ty = c.funcs[b].returns
    /\ op.k = "returnnothing" => b # 0 /\ c.funcs[b].returns = "nothing"

\* Past a fused index the copy in front of it counts for nothing: "the compiler
\* never reads a temp it has not just written" (vm/lib.rs:204).
Forgets(code, known) ==
    \A here \in DOMAIN known :
        LET copy == code[here].dst IN
        IsStaged(code, here) /\ copy # code[here + 1].dst =>
            known[here + 2][copy] \in {known[here][copy], "clash"}

\* A chunk whose types are shown by what is known of its registers, which is
\* what the loader establishes (module Typed), and which besides keeps to what
\* the compiler makes.
Shown(c, known) ==
    /\ {"code", "registers", "consts", "funcs", "division"} \subseteq DOMAIN c /\ IsList(c.funcs)
    /\ c.division \in Conventions
    /\ \A n \in DOMAIN c.consts : c.consts[n] \in [ty : Numeric \cup {"bool"}, bits : Nat]
    /\ \A b \in 0 .. Len(c.funcs) :
        /\ b # 0 => {"code", "registers", "params", "returns"} \subseteq DOMAIN c.funcs[b]
        /\ b # 0 => IsList(c.funcs[b].params)
        /\ IsList(CodeOf(c, b)) /\ RegistersOf(c, b) \in 0 .. RegMax + 1
        /\ Demonstrates(c, b, known[b])
        /\ \A at \in DOMAIN known[b] : Formed(c, b, CodeOf(c, b)[at])
        /\ Forgets(CodeOf(c, b), known[b])

ASSUME ChunksAssumption == \A p \in DOMAIN Chunks : Shown(Chunks[p], Known[p])

-----------------------------------------------------------------------------
(* Frames and registers *)

Frame(routine, registers, dst) ==
    [routine |-> routine, at |-> 1, file |-> [r \in 0 .. registers - 1 |-> Unset], dst |-> dst]

Depth == Len(frames)
Current == frames[Depth]
\* Routine 0 is the program's top level.
Code == CodeOf(chunk, Current.routine)
Op == Code[Current.at]
Reg(r) == Current.file[r]

Init ==
    /\ \E p \in DOMAIN Chunks, fused \in BOOLEAN :
        chunk = Widened(Chunks[p], fused) /\ expected = Expected[p]
    /\ frames = <<Frame(0, chunk.registers, 0)>>
    /\ arrays = <<>>
    /\ printed = <<>>
    /\ ended = "no"
    /\ fault = NoFault

Running(ks) == ended = "no" /\ Op.k \in ks

Goto(at) == frames' = [frames EXCEPT ![Depth].at = at]
\* Mutant: the step on is left out.
Next1Standing == Current.at
Next1 == Current.at + 1
\* A value in a register, and on to the place given.
PutAt(r, v, at) ==
    frames' = [frames EXCEPT ![Depth].file[r] = v, ![Depth].at = at]
Put(r, v) == PutAt(r, v, Next1)

Faults(code, span) ==
    /\ ended' = "fault"
    /\ fault' = [code |-> code, span |-> span]
    /\ UNCHANGED <<chunk, expected, frames, arrays, printed>>

Goes == UNCHANGED <<chunk, expected, printed, ended, fault>>
Steps == Goes /\ UNCHANGED arrays

\* An answer of the arithmetic into a register, or the fault here.
Settles(r, answer, at) ==
    IF answer.code = "none" THEN PutAt(r, answer.value, at) /\ Steps
    ELSE Faults(answer.code, Op.span)

-----------------------------------------------------------------------------
(* Instructions *)

Const == Running({"const"}) /\ Put(Op.dst, chunk.consts[Op.konst + 1]) /\ Steps
Move == Running({"move"}) /\ Put(Op.dst, Reg(Op.src)) /\ Steps

Binary ==
    /\ Running({"binary"})
    /\ Settles(Op.dst, BinaryOp(Op.op, Reg(Op.lhs), Reg(Op.rhs), chunk), Next1)
Neg == Running({"neg"}) /\ Settles(Op.dst, Negate(Reg(Op.src), chunk), Next1)
Not == Running({"not"}) /\ Put(Op.dst, Bool(~Truth(Reg(Op.src)))) /\ Steps
Comparing ==
    /\ Running({"compare"})
    /\ Put(Op.dst, Bool(Holds(Op.op, Compare(Reg(Op.lhs), Reg(Op.rhs)))))
    /\ Steps

\* Whether a jump with a condition is taken. Whole numbers are equal when
\* their bits are.
Taken ==
    CASE Op.k = "jump" -> TRUE
      [] Op.k = "jumpiffalse" -> ~Truth(Reg(Op.cond))
      [] Op.k = "jumpiftrue" -> Truth(Reg(Op.cond))
      [] Op.k = "jumpifgreater" -> Compare(Reg(Op.lhs), Reg(Op.rhs)) = "greater"
      [] Op.k = "jumpifequal" -> Compare(Reg(Op.lhs), Reg(Op.rhs)) = "equal"
Jumping == Running(Jumps) /\ Goto(IF Taken THEN Op.target ELSE Next1) /\ Steps

\* Mutant: the leap over the tail is counted from its second instruction.
TailLeavesFar ==
    /\ Running({"tail"})
    /\ Reg(Op.counter).bits = Reg(Op.limit).bits
    /\ Goto(Next1 + 3)
    /\ Steps

\* The fused tail. The jump back is read from two places on.
TailLeaves ==
    /\ Running({"tail"})
    /\ Reg(Op.counter).bits = Reg(Op.limit).bits
    /\ Goto(Current.at + 3)
    /\ Steps
TailRound ==
    /\ Running({"tail"})
    /\ Reg(Op.counter).bits # Reg(Op.limit).bits
    /\ Settles(Op.counter,
               BinaryOp("add", Reg(Op.counter), Reg(Op.step), chunk),
               Code[Current.at + 2].target)

Printing ==
    /\ Running({"print"})
    /\ Len(printed) < MaxOut
    /\ printed' = Append(printed, Reg(Op.src))
    /\ Goto(Next1)
    /\ UNCHANGED <<chunk, expected, arrays, ended, fault>>

Makes(elements) ==
    /\ Len(arrays) < MaxArrays
    /\ arrays' = Append(arrays, elements)
    /\ Put(Op.dst, [ty |-> Op.ty, bits |-> Len(arrays) + 1])
    /\ Goes
NewArray == Running({"newarray"}) /\ Makes([i \in 1 .. Op.count |-> Reg(Nth(Op.items, i - 1))])
Filled ==
    /\ Running({"filled"})
    /\ LET length == NumberOf(Reg(Op.length))
       IN  IF length < 0 THEN Faults("R0014", Op.span)
           ELSE Makes([i \in 1 .. length |-> Reg(Op.value)])
Counting ==
    Running({"count"}) /\ Put(Op.dst, Whole(Op.ty, Len(arrays[Reg(Op.src).bits]))) /\ Steps

\* `offset`. The upper bound of an array that grows is left to the heap.
Index(place) == NumberOf(Reg(Nth(Op.at, place - 1)))
InShape ==
    \A place \in 1 .. Op.rank :
        /\ Index(place) >= 1
        /\ Dims(Op.ty) # <<>> => Index(place) <= Dims(Op.ty)[place]
Element ==
    IF Op.rank = 1 THEN Index(1) ELSE (Index(1) - 1) * Dims(Op.ty)[2] + Index(2)
Elements == arrays[Reg(Op.array).bits]
InRange == InShape /\ Element <= Len(Elements)

\* One element, its index staged or, fused, where it lives.
At ==
    /\ Running({"at", "atone"})
    /\ IF InRange
       THEN PutAt(Op.dst, Elements[Element], Current.at + IF Op.k = "atone" THEN 2 ELSE 1) /\ Steps
       ELSE Faults("R0015", Op.span)
StoringAt ==
    /\ Running({"storeat"})
    /\ IF InRange
       THEN /\ arrays' = [arrays EXCEPT ![Reg(Op.array).bits][Element] = Reg(Op.value)]
            /\ Goto(Next1)
            /\ Goes
       ELSE Faults("R0015", Op.span)

\* Mutant: the last argument is left behind.
SuppliedShort(fresh) ==
    [fresh EXCEPT !.file = [r \in DOMAIN @ |-> IF r + 1 < Op.argc THEN Reg(Op.base + r) ELSE @[r]]]

\* The arguments in the first registers of a new frame.
Supplied(fresh) ==
    [fresh EXCEPT !.file = [r \in DOMAIN @ |-> IF r < Op.argc THEN Reg(Op.base + r) ELSE @[r]]]

\* A call: a new frame over this one, which goes on after it.
Call ==
    /\ Running({"call"})
    /\ Depth - 1 < DepthLimit
    /\ frames' = Append([frames EXCEPT ![Depth].at = Next1],
                        Supplied(Frame(Op.func, chunk.funcs[Op.func].registers, Op.dst)))
    /\ Steps
CallTooDeep == Running({"call"}) /\ Depth - 1 >= DepthLimit /\ Faults("R0011", Op.span)

Callers == SubSeq(frames, 1, Depth - 1)
Return ==
    /\ Running({"return"})
    /\ frames' = [Callers EXCEPT ![Depth - 1].file[Current.dst] = Reg(Op.src)]
    /\ Steps
ReturnNothing == Running({"returnnothing"}) /\ frames' = Callers /\ Steps

Halt ==
    /\ Running({"halt"})
    /\ ended' = "yes"
    /\ UNCHANGED <<chunk, expected, frames, arrays, printed, fault>>

Next ==
    \/ Const \/ Move \/ Binary \/ Neg \/ Not \/ Comparing \/ Jumping \/ TailLeaves \/ TailRound
    \/ Printing \/ NewArray \/ Filled \/ Counting \/ At \/ StoringAt
    \/ Call \/ CallTooDeep \/ Return \/ ReturnNothing \/ Halt

Spec == Init /\ [][Next]_vars
\* The machine is a loop on the only thread: it takes its next instruction.
FairSpec == Spec /\ WF_vars(Next)

-----------------------------------------------------------------------------
(* Properties *)

\* What compiled code answers where the checker proved its operands: the
\* division of their bits.
DividedUnsigned ==
    LET dividend == Reg(Op.lhs).bits
        divisor == Reg(Op.rhs).bits
    IN  [ty |-> Op.ty,
         bits |-> IF Op.op = "div" THEN dividend \div divisor ELSE dividend % divisor]

\* The registers an instruction reads.
Reads ==
    CASE Op.k \in {"move", "neg", "not", "count", "print", "return"} -> {Op.src}
      [] Op.k \in {"binary", "compare", "jumpifgreater", "jumpifequal"} -> {Op.lhs, Op.rhs}
      [] Op.k \in {"jumpiffalse", "jumpiftrue"} -> {Op.cond}
      [] Op.k = "tail" -> {Op.counter, Op.limit, Op.step}
      [] Op.k = "newarray" -> Run(Op.items, Op.count)
      [] Op.k = "filled" -> {Op.length, Op.value}
      [] Op.k \in {"at", "atone"} -> {Op.array} \cup Run(Op.at, Op.rank)
      [] Op.k = "storeat" -> {Op.array, Op.value} \cup Run(Op.at, Op.rank)
      [] Op.k = "call" -> Op.base .. Op.base + Op.argc - 1
      [] OTHER -> {}

\* Control is always at an instruction of the routine that runs, an answer
\* has a register of its caller to land in, and values have their types.
MTypeOK ==
    /\ ended \in {"no", "yes", "fault"} /\ (ended = "fault") = (fault # NoFault)
    /\ \A i \in DOMAIN frames :
        /\ frames[i].routine \in 0 .. Len(chunk.funcs)
        /\ frames[i].at \in DOMAIN CodeOf(chunk, frames[i].routine)
        /\ i > 1 => frames[i].dst \in DOMAIN frames[i - 1].file
        /\ \A r \in DOMAIN frames[i].file :
            frames[i].file[r].ty \in {"unset", "int", "nat", "float", "bool", "ints", "grid"}

\* What is printed is what the tree-walker prints, in its order, and a run
\* that ends has printed all of it and ended the same way: nowhere, or with
\* the same fault at the same place. (vm/lib.rs:4: "two implementations that
\* must produce the same answers".)
AgreesSoFar ==
    /\ IsPrefix(printed, expected.out)
    /\ ended = "yes" => printed = expected.out /\ expected.fault = NoFault
    /\ ended = "fault" => printed = expected.out /\ expected.fault = fault

\* No instruction reads a register that nothing has written in this call:
\* temporaries are handed out and given back, arguments staged, copies
\* swallowed, and no path through the jumps gets round the write.
RegistersWritten ==
    ended = "no" => \A r \in Reads : r \in DOMAIN Current.file /\ Reg(r) # Unset

\* Wherever the machine is, compiled code that was entered at the head of any
\* loop this can be reached from, or at the start, has the instruction in one
\* of its blocks, goes on from there to where the machine goes, back past the
\* entry included, and has a body for the routine that is called. The tier
\* runs over instructions that are not fused (luarust-jit/blocks.rs:72,
\* lib.rs:1303: "the two agree by construction").
FollowsMachine ==
    [][Op.k \notin {"tail", "atone"} =>
       LET native == chunk.native[Current.routine] IN
       \A entry \in DOMAIN native : Current.at \in DOMAIN native[entry].ways =>
          LET way == native[entry].ways[Current.at] IN
          /\ Op.k = "call" => Op.func \in native[entry].calls
          /\ ended' = "no" /\ Len(frames') >= Depth =>
                frames'[Depth].at = IF Op.k \in Jumps /\ Taken THEN way.taken ELSE way.onward]_vars

\* Where the checker proved that a dividend is not negative and its divisor
\* above nought, they are, and the division that compiled code does there,
\* unsigned and unguarded whatever the convention (luarust-jit/lib.rs:2415),
\* answers what this machine does.
ProofsHold ==
    Running({"binary"}) /\ Op.span \in chunk.proven =>
        /\ NumberOf(Reg(Op.lhs)) >= 0 /\ NumberOf(Reg(Op.rhs)) >= 1
        /\ BinaryOp(Op.op, Reg(Op.lhs), Reg(Op.rhs), chunk) = Answered(DividedUnsigned)

\* A program that ends on the tree-walker ends on the machine.
Ends == <>(ended # "no")
============================================================================
