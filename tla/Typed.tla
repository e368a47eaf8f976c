------------------------------- MODULE Typed -------------------------------
(* Whether a chunk's instructions agree about what its registers hold        *)
(* (luarust-vm/typed.rs): a dataflow over each body, to a fixed point, of     *)
(* what module Slots says of its instructions. States are kept at the doors  *)
(* of a body, where ways meet, and threaded through the straight code        *)
(* between them.                                                             *)
EXTENDS Slots, FiniteSets

VARIABLES
    chunk,    \* the chunk looked at
    body,     \* which of its bodies: 0 is the top level, then the routines
    atDoor,   \* at each place, none or one state
    asking,   \* the doors whose state has changed since they were walked from
    here,     \* where the walk is, or 0 between walks
    state,    \* what it knows there, register by register
    verdict   \* "reading", "open", "refused" or "loaded"

typedVars == <<chunk, body, atDoor, asking, here, state, verdict>>

Code == CodeOf(chunk, body)

\* Where ways can meet: the entry and every place a jump lands.
Doors(code) ==
    {1} \cup {code[i].target : i \in {j \in DOMAIN code : code[j].k \in Jumps}}

\* What a door knows once a state has arrived there.
Merged(door, with) ==
    IF atDoor[door] = <<>> THEN <<with>>
    ELSE <<[r \in DOMAIN with |-> Join(atDoor[door][1][r], with[r])]>>

-----------------------------------------------------------------------------

\* No door of body b has been arrived at but its entry.
Doorways(b) == [at \in DOMAIN CodeOf(chunk, b) |-> IF at = 1 THEN <<Entry(chunk, b)>> ELSE <<>>]

\* A walk of body b from its entry.
Enter(b) ==
    /\ body' = b
    /\ atDoor' = Doorways(b)
    /\ asking' = {1}
    /\ here' = 0
    /\ state' = <<>>
    /\ UNCHANGED <<chunk, verdict>>

\* The lowest door that is asked for.
AskDoor ==
    /\ verdict = "open" /\ here = 0 /\ asking # {}
    /\ LET lowest == CHOOSE door \in asking : \A other \in asking : door <= other
       IN  /\ here' = lowest
           /\ state' = atDoor[lowest][1]
           /\ asking' = asking \ {lowest}
    /\ UNCHANGED <<chunk, body, atDoor, verdict>>

\* One instruction: refused, or its state handed to where it jumps, and to
\* the next instruction, which is walked at once unless it is a door.
Refuse ==
    /\ verdict = "open" /\ here # 0
    /\ Misreads(chunk, Code[here], state)
    /\ verdict' = "refused"
    /\ UNCHANGED <<chunk, body, atDoor, asking, here, state>>

FallsTo == IF Code[here].k \in Stops \/ here = Len(Code) THEN {} ELSE {here + 1}
JumpsTo == IF Code[here].k \in Jumps THEN {Code[here].target} ELSE {}
Arrives == JumpsTo \cup (FallsTo \cap Doors(Code))

\* Mutant: every door arrived at is asked for, changed or not.
ChangedAlways(with) == Arrives

\* The doors arrived at that know something else from then on.
Changed(with) == {door \in Arrives : Merged(door, with) # atDoor[door]}

WalkOne ==
    /\ verdict = "open" /\ here # 0
    /\ ~Misreads(chunk, Code[here], state)
    /\ LET with == After(chunk, Code[here], state)
           changed == Changed(with)
           on == FallsTo \ Doors(Code)
       IN  /\ atDoor' = [at \in DOMAIN atDoor |->
                            IF at \in changed THEN Merged(at, with) ELSE atDoor[at]]
           /\ asking' = asking \cup changed
           /\ here' = IF on = {} THEN 0 ELSE here + 1
           /\ state' = IF on = {} THEN <<>> ELSE with
    /\ UNCHANGED <<chunk, body, verdict>>

\* A body is at its fixed point: the next one, or the chunk is believed.
NextBody ==
    /\ verdict = "open" /\ here = 0 /\ asking = {}
    /\ body < Len(chunk.funcs)
    /\ Enter(body + 1)
Believe ==
    /\ verdict = "open" /\ here = 0 /\ asking = {}
    /\ body = Len(chunk.funcs)
    /\ verdict' = "loaded"
    /\ UNCHANGED <<chunk, body, atDoor, asking, here, state>>

Typing == AskDoor \/ Refuse \/ WalkOne \/ NextBody \/ Believe

-----------------------------------------------------------------------------
(* Where it begins: with what serialize.rs, `check`, has made sure of. *)

\* The registers an instruction names.
Named(op) ==
    {op[field] : field \in DOMAIN op \cap {"dst", "src", "lhs", "rhs", "cond", "length", "value", "array"}}
    \cup CASE op.k = "call" -> Run(op.base, op.argc)
           [] op.k = "newarray" -> Run(op.items, op.count)
           [] op.k \in {"at", "storeat"} -> Run(op.at, op.rank)
           [] OTHER -> {}

\* Everything an instruction names is there. Functions count from 1 here.
Placed(op, b) ==
    /\ Named(op) \subseteq 0 .. RegistersOf(chunk, b) - 1
    /\ op.k = "const" => op.konst < Len(chunk.consts)
    /\ op.k = "printtext" => op.text < Len(chunk.texts)
    /\ op.k \in Jumps => op.target \in DOMAIN CodeOf(chunk, b)
    /\ op.k = "call" => op.func \in DOMAIN chunk.funcs /\ op.argc = Len(chunk.funcs[op.func].params)

\* One span for each instruction, and no way to run off the end.
EndsRightly(b) ==
    LET code == CodeOf(chunk, b)
        spans == IF b = 0 THEN chunk.spans ELSE chunk.funcs[b].spans
    IN  /\ Len(spans) = Len(code)
        /\ code # <<>>
        /\ code[Len(code)].k \in (IF b = 0 THEN {"halt"} ELSE {"return", "returnnothing"})

CheckedBody(b) ==
    /\ EndsRightly(b)
    /\ \A at \in DOMAIN CodeOf(chunk, b) : Placed(CodeOf(chunk, b)[at], b)
    /\ b # 0 => Len(chunk.funcs[b].params) <= RegistersOf(chunk, b)

\* Every body is one that was checked, and the types it speaks of are types.
WellFormed ==
    /\ IsList(chunk.funcs)
    /\ \A b \in 0 .. Len(chunk.funcs) :
        /\ IsList(CodeOf(chunk, b)) /\ CheckedBody(b)
        /\ \A r \in DOMAIN Entry(chunk, b) : Entry(chunk, b)[r] \in Kinds
        /\ \A at \in DOMAIN CodeOf(chunk, b) :
            \A part \in Claims(chunk, CodeOf(chunk, b)[at]) \cup Writes(chunk, CodeOf(chunk, b)[at]) : part[2] \in Kinds

TypedInit ==
    /\ WellFormed
    /\ verdict = "open" /\ body = 0 /\ here = 0 /\ state = <<>>
    /\ atDoor = Doorways(0) /\ asking = {1}

TypedSpec == TypedInit /\ [][Typing]_typedVars

-----------------------------------------------------------------------------
(* What a body may do, path by path, its calls answering what they say. *)

\* A configuration is a place and what each register really holds there.
Now(at, held) == [at |-> at, held |-> held]
\* The machine has nothing right to do there: it is outside the code, or is to
\* read a register that does not hold what the instruction says, or one that is
\* not there at all.
Wrong(b, now) ==
    \/ now.at \notin DOMAIN CodeOf(chunk, b)
    \/ Misreads(chunk, CodeOf(chunk, b)[now.at], now.held)
    \/ Overruns(CodeOf(chunk, b)[now.at])
Following(b, now) ==
    LET op == CodeOf(chunk, b)[now.at]
        held == After(chunk, op, now.held)
    IN  (IF op.k \in Jumps THEN {Now(op.target, held)} ELSE {})
        \cup (IF op.k \in Stops THEN {} ELSE {Now(now.at + 1, held)})

\* A search of its configurations: those gone on from, and those just come to.
Begun(b) == [seen |-> {}, fresh |-> {Now(1, Entry(chunk, b))}]
Further(b, s) ==
    LET next == UNION {Following(b, now) : now \in {n \in s.fresh : ~Wrong(b, n)}}
    IN  [seen |-> s.seen \cup s.fresh, fresh |-> next \ (s.seen \cup s.fresh)]

\* The configurations a body comes to in at most n steps.
Within(b, n) ==
    LET search[i \in 0 .. n] == IF i = 0 THEN Begun(b) ELSE Further(b, search[i - 1])
    IN  search[n].seen \cup search[n].fresh

\* None of them reads a register that does not hold what the instruction says,
\* or leaves the code; and a count, which says no type, finds one type only.
HonestWithin(b, n) ==
    /\ \A now \in Within(b, n) : ~Wrong(b, now)
    /\ \A one, other \in Within(b, n) :
        one.at = other.at /\ CodeOf(chunk, b)[one.at].k = "count" =>
            LET src == CodeOf(chunk, b)[one.at].src IN one.held[src] = other.held[src]

\* As many steps as it takes for one register to have held, at every place,
\* whatever it ever holds there.
Patience(b) == Len(CodeOf(chunk, b)) * Cardinality(Kinds)
HonestBody(b) == HonestWithin(b, Patience(b))

-----------------------------------------------------------------------------
(* Properties *)

\* No call of a body takes arguments past the last register there is a name for.
Contained(b) == \A at \in DOMAIN CodeOf(chunk, b) : ~Overruns(CodeOf(chunk, b)[at])

\* The dataflow refuses exactly the chunks of which some path reads a
\* register that does not hold what the instruction says, or leaves its code.
\* One thing it lets by: a call whose arguments go round past the last register
\* (typed.rs:236, serialize.rs:836), where the machine looks outside its frame.
LoadedIsHonest ==
    /\ verdict = "loaded" => \A b \in 0 .. Len(chunk.funcs) : Contained(b) => HonestBody(b)
    /\ verdict = "refused" /\ here # 0 => ~HonestBody(body)
=============================================================================
