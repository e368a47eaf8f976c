------------------------------- MODULE Words -------------------------------
(* An accumulator of one format, which takes what a program writes and what  *)
(* an operation on it and an operand answers; and the operations of one of   *)
(* its formats, the integers of the machine's width. The engines share their *)
(* arithmetic (luarust-core/value.rs, `binary_op` and what it calls), and    *)
(* compiled code has its own of module Native. Module Numbers adds the       *)
(* formats that are not integers.                                            *)
EXTENDS Native

CONSTANTS
    Formats,          \* the formats, each a record with its `unit`
    Constants(_),     \* the values of a format a program writes
    Fetches(_, _)     \* what may be fetched beside a value of it: [op, mode, by, with]

VARIABLES fmt, acc, todo, said
vars == <<fmt, acc, todo, said>>
Idle == [op |-> "none"]

Init == fmt \in Formats /\ acc \in Constants(fmt) /\ todo = Idle /\ said = "none"

Waiting == todo = Idle /\ said = "none"
\* A variable is given what was written.
Take == Waiting /\ acc' \in Constants(fmt) /\ UNCHANGED <<fmt, todo, said>>
Fetch == Waiting /\ todo' \in Fetches(fmt, acc) /\ UNCHANGED <<fmt, acc, said>>
\* A comparison's answer goes to the branch that asked for it.
Branch == said # "none" /\ said' = "none" /\ UNCHANGED <<fmt, acc, todo>>

Given(op) == todo.op = op
Becomes(value) == acc' = value /\ todo' = Idle /\ UNCHANGED <<fmt, said>>
Tells(ordering) == said' = ordering /\ todo' = Idle /\ UNCHANGED <<fmt, acc>>

\* The format of an integer has the settings of the project that divides it.
\* What the engines answer, and what compiled code does; a fault is its code.
Project == [overflow |-> fmt.overflow, division |-> fmt.division]
WordAnswer(answer) == IF answer.code = "none" THEN Becomes(answer.value.bits) ELSE Tells(answer.code)
WordValue(bits) == Kept(fmt.ty, bits)
WordOps == {"add", "sub", "mul", "div", "mod", "pow"}
Fetched(ops, native) == todo.op \in ops /\ todo.by.native = native
WordShared == Fetched(WordOps, FALSE) /\ WordAnswer(Shared(todo.op, fmt.ty, acc, todo.with, Project))
WordNative ==
    /\ Fetched(WordOps, TRUE)
    /\ WordAnswer(Arithmetic(todo.op, fmt.ty, acc, todo.with, todo.by.proved, Project))
WordNegate == Fetched({"neg"}, FALSE) /\ WordAnswer(Negate(WordValue(acc), Project))
WordNegateNative == Fetched({"neg"}, TRUE) /\ WordAnswer(Negated(fmt.ty, acc, Project))
Relations == {"lt", "gt", "le", "ge", "eq", "ne"}
TellsWhether(truth) == Tells(IF truth THEN "true" ELSE "false")
WordRelation ==
    /\ Fetched(Relations, FALSE)
    /\ TellsWhether(Holds(todo.op, Compare(WordValue(acc), WordValue(todo.with))))
WordRelationNative == Fetched(Relations, TRUE) /\ TellsWhether(Stands(todo.op, fmt.ty, acc, todo.with))

OfWords == fmt.unit = "word" /\
    (WordShared \/ WordNative \/ WordNegate \/ WordNegateNative \/ WordRelation \/ WordRelationNative)
Next == Take \/ Fetch \/ Branch \/ OfWords
Spec == Init /\ [][Next]_vars

\* What is fetched beside an integer: an operation of integers and a word, from
\* one of the two engines; and a division the checker marks has operands it
\* proved at or above nought and above it (range.rs, `proves`).
Marked(op, ty, x, y) == op \in {"div", "mod"} /\ ty = "int" => Signed(x) >= 0 /\ Signed(y) > 0
Fetchable(f, x, item) ==
    /\ item.op \in WordOps \cup Relations \cup {"neg"}
    /\ item.with \in Word
    /\ item.by \in [native : BOOLEAN, proved : BOOLEAN]
    /\ item.by.proved => Marked(item.op, f.ty, x, item.with)
\* The formats of integers are the projects there are, and what they are given
\* is theirs. An integer is wider than its sign.
WordsGiven ==
    /\ Half # 1
    /\ \A f \in Formats : f.unit = "word" =>
        /\ f.ty \in {"int", "nat"}
        /\ f.overflow \in {"wrap", "trap"}
        /\ f.division \in {"floored", "truncated", "euclidean"}
        /\ Constants(f) \subseteq Word
        /\ \A x \in Word : \A item \in Fetches(f, x) : Fetchable(f, x, item)

ASSUME WordsAssumption == WordsGiven

-----------------------------------------------------------------------------
(* What the operations answer *)

Worked(unit) == fmt.unit = unit /\ todo.op # "none"
Magnitude(n) == IF n < 0 THEN -n ELSE n

\* The integer a word stands for, and the quotient of the convention: the one
\* whose remainder is nearer nought than the divisor and on the right side.
Meant(bits) == IF fmt.ty = "int" /\ bits >= Half THEN bits - 2 * Half ELSE bits
ConventionSide(a, b, left) ==
    CASE fmt.ty = "nat" \/ fmt.division = "euclidean" -> left >= 0
      [] fmt.ty = "int" /\ fmt.division = "floored" -> left = 0 \/ (left < 0) = (b < 0)
      [] fmt.ty = "int" /\ fmt.division = "truncated" -> left = 0 \/ (left < 0) = (a < 0)
Parted(a, b) == CHOOSE q \in -2 * Half..2 * Half : Magnitude(a - q * b) < Magnitude(b) /\ ConventionSide(a, b, a - q * b)
Raised(a, b) == LET raised[n \in Nat] == IF n = 0 THEN 1 ELSE raised[n - 1] * a IN raised[b]
Sought(a, b) ==
    CASE Given("add") -> a + b
      [] Given("sub") -> a - b
      [] Given("mul") -> a * b
      [] Given("div") -> Parted(a, b)
      [] Given("mod") -> a - Parted(a, b) * b
      [] Given("pow") -> Raised(a, b)
      [] Given("neg") -> -a
Relates(a, b) ==
    CASE Given("lt") -> a < b
      [] Given("gt") -> a > b
      [] Given("le") -> a <= b
      [] Given("ge") -> a >= b
      [] Given("eq") -> a = b
      [] Given("ne") -> a # b
Faulty(a, b) ==
    CASE Given("div") /\ b = 0 -> "R0002"
      [] Given("mod") /\ b = 0 -> "R0003"
      [] Given("pow") /\ b < 0 -> "R0004"
      [] OTHER -> IF fmt.overflow = "trap" /\ ~Fits(fmt.ty, Sought(a, b)) THEN "R0005" ELSE "none"
WordRight(a, b) ==
    IF todo.op \in Relations THEN said' = IF Relates(a, b) THEN "true" ELSE "false"
    ELSE IF Faulty(a, b) # "none" THEN said' = Faulty(a, b)
    ELSE /\ said' = "none"
         /\ (Given("pow") => Magnitude(Sought(a, b)) < Widest) => acc' = Sought(a, b) % (2 * Half)

\* An integer operation answers what the integers do, cut to the width, or
\* stops with the fault that says why not: on the engines that share their
\* arithmetic and in compiled code, which has its own, guards what the
\* processor cannot be asked, and leaves the guard out where the checker proved
\* its operands (value.rs, int_op; luarust-jit/lib.rs, int_division). A power
\* that wraps is one that i128 holds.
EnginesCompute == [][Worked("word") => WordRight(Meant(acc), Meant(todo.with))]_vars
=============================================================================
