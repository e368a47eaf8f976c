------------------------------- MODULE Slots -------------------------------
(* What the instructions of a chunk say of the registers they read and write *)
(* (luarust-vm/typed.rs, `step`, `targets_of`), and what it is to have that   *)
(* shown. What is known of a register at a place is its type, or              *)
(*   "unset"   never written on any way here;                                *)
(*   "clash"   written as different types on different ways here.            *)
(* Registers count from 0 and the places of code from 1, as in module         *)
(* Compile. `c` is the chunk, and its body 0 is the top level.                *)
EXTENDS Lang

CONSTANT RegMax   \* Reg::MAX, the last register an instruction can name

ASSUME RegMaxAssumption == RegMax \in Nat

Arrays == {"ints", "grid"}
ElementTy == "int"
\* The type of an index: u32 in the code. Here an "int", so that an index can
\* be below the first.
IndexTy == "int"

IsList(s) == s \in Seq({s[i] : i \in DOMAIN s})

\* What a register may be known to hold where no two ways disagree.
Kinds == {"int", "nat", "float", "bool", "ints", "grid", "unset"}

Jumps == {"jump", "jumpiffalse", "jumpiftrue", "jumpifgreater", "jumpifequal"}
Stops == {"jump", "return", "returnnothing", "halt"}

CodeOf(c, b) == IF b = 0 THEN c.code ELSE c.funcs[b].code
RegistersOf(c, b) == IF b = 0 THEN c.registers ELSE c.funcs[b].registers

\* The register n after one. The addition is done in a register's own sixteen
\* bits, and goes round.
Nth(first, n) == (first + n) % (RegMax + 1)
Run(first, count) == {Nth(first, n) : n \in 0 .. count - 1}

\* The registers an instruction reads, each with the type it says it has.
Claims(c, op) ==
    CASE op.k \in {"move", "neg", "print", "return"} -> {<<op.src, op.ty>>}
      [] op.k \in {"binary", "compare", "jumpifgreater", "jumpifequal"} ->
            {<<op.lhs, op.ty>>, <<op.rhs, op.ty>>}
      [] op.k = "not" -> {<<op.src, "bool">>}
      [] op.k \in {"jumpiffalse", "jumpiftrue"} -> {<<op.cond, "bool">>}
      [] op.k = "call" ->
            {<<Nth(op.base, n - 1), c.funcs[op.func].params[n]>> : n \in 1 .. op.argc}
      [] op.k = "newarray" -> {<<r, ElementTy>> : r \in Run(op.items, op.count)}
      [] op.k = "filled" -> {<<op.length, IndexTy>>, <<op.value, ElementTy>>}
      [] op.k = "at" -> {<<op.array, op.ty>>} \cup {<<r, IndexTy>> : r \in Run(op.at, op.rank)}
      [] op.k = "storeat" ->
            {<<op.array, op.ty>>, <<op.value, ElementTy>>}
            \cup {<<r, IndexTy>> : r \in Run(op.at, op.rank)}
      [] OTHER -> {}

\* A call whose run of arguments goes round. What loads it looks at the first
\* registers for the rest of them; the machine that makes it counts them in
\* usize (vm/lib.rs:974), and there is no such register.
Overruns(op) == op.k = "call" /\ op.base + op.argc > RegMax + 1

\* The register it writes, with the type it then has: none or one.
Writes(c, op) ==
    CASE op.k = "const" -> {<<op.dst, c.consts[op.konst + 1].ty>>}
      [] op.k \in {"move", "binary", "neg", "timenow", "newarray", "filled", "count"} -> {<<op.dst, op.ty>>}
      [] op.k \in {"compare", "not"} -> {<<op.dst, "bool">>}
      [] op.k = "at" -> {<<op.dst, ElementTy>>}
      [] op.k = "call" /\ c.funcs[op.func].returns # "nothing" ->
            {<<op.dst, c.funcs[op.func].returns>>}
      [] OTHER -> {}

\* An instruction that could not be right whatever its registers hold.
Malformed(c, op) ==
    \/ op.k \in {"newarray", "filled", "at", "storeat"} /\ op.ty \notin Arrays
    \/ op.k = "call" /\ Len(c.funcs[op.func].params) # op.argc

\* An instruction disagrees with what its registers are known to hold.
Misreads(c, op, held) ==
    \/ Malformed(c, op)
    \/ \E claim \in Claims(c, op) : claim[1] \notin DOMAIN held \/ held[claim[1]] # claim[2]
    \/ op.k = "count" /\ (op.src \notin DOMAIN held \/ held[op.src] \notin Arrays)
    \/ \E write \in Writes(c, op) : write[1] \notin DOMAIN held

\* What is known after it.
After(c, op, held) ==
    LET written == Writes(c, op) IN
    IF written = {} THEN held
    ELSE LET write == CHOOSE w \in written : TRUE IN [held EXCEPT ![write[1]] = write[2]]

\* Mutant: what was not written on one way is taken from the other.
JoinTrusting(a, b) == IF a = b \/ b = "unset" THEN a ELSE IF a = "unset" THEN b ELSE "clash"

Join(a, b) == IF a = b THEN a ELSE "clash"

\* The places control goes to from one.
Ways(c, b, at) ==
    LET op == CodeOf(c, b)[at]
    IN  (IF op.k \in Jumps THEN {op.target} ELSE {})
        \cup (IF op.k \in Stops THEN {} ELSE {at + 1})

\* Mutant: nothing is known of a body's parameters.
EntryBare(c, b) == [r \in 0 .. RegistersOf(c, b) - 1 |-> "unset"]

\* What a body begins with: its parameters are the first registers.
Entry(c, b) ==
    [r \in 0 .. RegistersOf(c, b) - 1 |->
        IF b # 0 /\ r < Len(c.funcs[b].params) THEN c.funcs[b].params[r + 1]
        ELSE "unset"]

\* t knows no more than s: where it says a type at all, it is the same.
Weaker(s, t) == \A r \in DOMAIN s : t[r] = s[r] \/ t[r] = "clash"

\* What is known at the places a body can come to shows its types: no
\* instruction misreads what is known where it is, and what it leaves is known
\* wherever it goes.
Demonstrates(c, b, known) ==
    /\ DOMAIN known \subseteq DOMAIN CodeOf(c, b)
    /\ \A at \in DOMAIN known :
        known[at] \in [0 .. RegistersOf(c, b) - 1 -> Kinds \cup {"clash"}]
    /\ 1 \in DOMAIN known /\ Weaker(Entry(c, b), known[1])
    /\ \A at \in DOMAIN known :
        /\ ~Misreads(c, CodeOf(c, b)[at], known[at])
        /\ \A next \in Ways(c, b, at) :
            next \in DOMAIN known /\ Weaker(After(c, CodeOf(c, b)[at], known[at]), known[next])
============================================================================
