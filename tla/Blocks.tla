------------------------------- MODULE Blocks -------------------------------
(* The graph of blocks compiled code is emitted into                         *)
(* (luarust-jit/blocks.rs; luarust-jit/lib.rs, `emit`, `walk`): which        *)
(* instructions an entry can reach, where blocks begin, what is emitted into *)
(* each, and where control goes from there. Bytecode is `Compile`'s, places  *)
(* in code counting from 1.                                                  *)
EXTENDS Slots, SequencesExt

Conditional == {"jumpiffalse", "jumpiftrue", "jumpifgreater", "jumpifequal"}
Leaves == {"return", "returnnothing", "halt"}

\* leaders: the first instruction, what is jumped to, and what follows a jump
\* or a way out.
Leaders(code) ==
    LET lands == {code[at].target : at \in {n \in DOMAIN code : code[n].k \in Jumps}}
        after == {at + 1 : at \in {n \in DOMAIN code : code[n].k \in Jumps \cup Leaves}}
    IN  ({1} \cup lands \cup after) \cap DOMAIN code

Onto(op, at) ==
    (IF op.k \in Jumps THEN {op.target} ELSE {}) \cup (IF op.k \in Leaves \cup {"jump"} THEN {} ELSE {at + 1})

\* Mutant: what comes before the entry is taken for dead.
ReachableAfter(code, entry) == entry .. Len(code)

\* reachable: what is to be looked at, until nothing is.
RECURSIVE Explored(_, _, _)
Explored(code, seen, todo) ==
    IF todo = {} THEN seen
    ELSE LET at == CHOOSE n \in todo : TRUE
             further == Onto(code[at], at) \cap DOMAIN code
         IN  Explored(code, seen \cup {at}, (todo \cup further) \ (seen \cup {at}))
Reachable(code, entry) == Explored(code, {}, {entry} \cap DOMAIN code)

CallsFrom(code, entry) == {code[at].func : at \in {n \in Reachable(code, entry) : code[n].k = "call"}}

\* The routines that get a body: those called from the entry, and from them.
RECURSIVE Bodies(_, _, _)
Bodies(chunk, seen, pending) ==
    IF pending = {} THEN seen
    ELSE LET f == CHOOSE x \in pending : TRUE
         IN  Bodies(chunk, seen \cup {f}, (pending \cup CallsFrom(chunk.funcs[f].code, 1)) \ (seen \cup {f}))
Called(chunk, code, entry) == Bodies(chunk, {}, CallsFrom(code, entry))

-----------------------------------------------------------------------------
(* A block is what was emitted into it: instructions, by their places, and   *)
(* branches the bytecode has none of, whose place is 0. `to` is where a jump *)
(* lands if taken first, and onward last. A leader's block has its place for *)
(* a name, the one a jump goes on in the negative, and the entry's 0.        *)

Lead(at) == at
Fresh(at) == -at
Item(at, ends, to) == [at |-> at, ends |-> ends, to |-> to]
Branch(to) == Item(0, TRUE, <<to>>)

\* The current block: whether it has its terminator, and one item more in it.
\* `found` is where each instruction went.
Ended(w) == w.blocks[w.here] # <<>> /\ Last(w.blocks[w.here]).ends
Emitting(w, item) ==
    [w EXCEPT !.blocks[w.here] = Append(@, item),
              !.found[item.at] = <<w.here, Len(w.blocks[w.here]) + 1>>]

\* What `op` emits of control: a jump ends its block, and goes on in a new one
\* when it has a condition.
Instruction(w, op, at) ==
    CASE op.k = "jump" -> Emitting(w, Item(at, TRUE, <<Lead(op.target)>>))
      [] op.k \in Conditional ->
            [Emitting(w, Item(at, TRUE, <<Lead(op.target), Fresh(at)>>)) EXCEPT !.here = Fresh(at)]
      [] op.k \in Leaves -> Emitting(w, Item(at, TRUE, <<>>))
      [] OTHER -> Emitting(w, Item(at, FALSE, <<>>))

\* Falling into a block from one that is open is a jump.
Positioned(w, at) ==
    IF Lead(at) \notin DOMAIN w.blocks THEN w
    ELSE [(IF Ended(w) THEN w ELSE Emitting(w, Branch(Lead(at)))) EXCEPT !.here = Lead(at)]

\* walk: the live instructions in order, each into the block it belongs to.
Graph(code, entry) ==
    LET live == Reachable(code, entry)
        made == {Lead(at) : at \in Leaders(code) \cap live}
        onward == {Fresh(at) : at \in {n \in live : code[n].k \in Conditional}}
        start == [here |-> 0,
                  blocks |-> [b \in {0} \cup made \cup onward |-> <<>>],
                  found |-> [at \in live \cup {0} |-> <<>>]]
        into == Emitting(start, Branch(Lead(entry)))
        all == FoldLeft(LAMBDA w, at : IF at \in live THEN Instruction(Positioned(w, at), code[at], at) ELSE w,
                        into, [at \in DOMAIN code |-> at])
    IN  IF Ended(all) THEN all ELSE Emitting(all, Item(0, TRUE, <<>>))

-----------------------------------------------------------------------------
(* Where control goes in what was emitted. 0 is nowhere.                     *)

RECURSIVE Landing(_, _, _)
Landing(blocks, b, i) ==
    IF b \notin DOMAIN blocks THEN 0
    ELSE IF i \notin DOMAIN blocks[b] THEN 0
    ELSE IF blocks[b][i].at # 0 THEN blocks[b][i].at
    ELSE IF blocks[b][i].to = <<>> THEN 0
    ELSE Landing(blocks, blocks[b][i].to[1], 1)

\* After an instruction: where its jump is taken to, and where it goes otherwise.
From(blocks, b, i) ==
    LET to == blocks[b][i].to IN
    IF ~blocks[b][i].ends THEN [taken |-> 0, onward |-> Landing(blocks, b, i + 1)]
    ELSE IF to = <<>> THEN [taken |-> 0, onward |-> 0]
    ELSE [taken |-> Landing(blocks, to[1], 1), onward |-> Landing(blocks, Last(to), 1)]

Flow(w) ==
    [at \in DOMAIN w.found |->
        IF at = 0 THEN [taken |-> 0, onward |-> 0] ELSE From(w.blocks, w.found[at][1], w.found[at][2])]

\* Where the machine may hand over: at the start, and at the head of a loop.
Entries(code) == {1} \cup {code[at].target : at \in {n \in DOMAIN code : code[n].k = "jump" /\ code[n].target <= n}}

\* What is compiled for each entry of a routine, of a chunk.
Bodied(chunk, code) ==
    [entry \in Entries(code) |-> [ways |-> Flow(Graph(code, entry)), calls |-> Called(chunk, code, entry)]]
Emitted(chunk) ==
    [routine \in {0} \cup Called(chunk, chunk.code, 1) |->
        Bodied(chunk, IF routine = 0 THEN chunk.code ELSE chunk.funcs[routine].code)]
=============================================================================
