# Luarust in TLA+

Luarust is a small statically typed language whose programs run on three
paths that are promised to agree: a tree-walking interpreter, a register
bytecode VM, and an LLVM JIT, the last either for the whole program or taking
over the VM's hot loops and hot routines. This directory models it from the
characters of a source to the words its registers hold, checks the models with
TLC on small instances, and proves with TLAPS, for every size, what the array
heap, the VM and the tier above it promise, that the heap implements an abstract
one, that the loader's dataflow refuses what it should and nothing else, that the
bytecode machine run on what shows its types is type safe, that
the interval arithmetic of the range analysis is sound, and that compiled code's
integer arithmetic is the shared one.

## The system

| part | state it keeps | operations | talks to |
| --- | --- | --- | --- |
| array heap (`luarust-core/heap.rs`) | slots, free list, bytes handed out, threshold | make, of, read, store, push, collect, clear | every engine: a handle is a slot number |
| VM (`luarust-vm/lib.rs`) | open frames, each with a register file (boxed values, or words beside cells); where each is up to | one per instruction, call, return, collect, hand over | heap, tier |
| tier (`luarust-jit`, `Compiling`) | counters of loops, compiled routines kept | `hot`, `keeps`, `call` | VM above, JIT below |
| compiled code (`luarust-jit`, `luarust-runtime`) | machine registers; frames of cells, staged arguments, answers, lent frames, installed tables | one per instruction, through the runtime's functions | heap, and the VM's frames while it runs |
| interpreter (`luarust-interp`) | slots of the open calls, depth | evaluates the checked tree | heap (never collects) |
| compiler (`luarust-vm/compile.rs`) | next temporary, floor, open breaks | one per node of the checked tree | makes the chunk the VM runs |
| loader (`luarust-vm/serialize.rs`, `typed.rs`) | what each register holds at each instruction | check, fixed point | refuses chunks the VM could not run |
| checker (`luarust-check`) | scopes, slots | one per declaration and statement | makes the checked tree |
| range analysis (`luarust-check/range.rs`) | an interval per slot | fixed point over loops | tells the compiler which checks can go |
| numbers (`luarust-core/value.rs`, `luarust-num`) | none | integers of 8 to 64 bits, floats of 16 to 256, decimals, exact rationals | every engine |
| lexer (`luarust-lex`) | where it is in the text | one token a turn | hands its tokens to the parser, if it had no complaint |
| parser (`luarust-parse`) | where it is in the tokens, complaints | one per form of the grammar, and recovery | makes the tree the checker reads |
| diagnostics, configuration, command line | | | |

Everything runs on one thread. What is hard about it is that the same state is
seen from several sides: a handle is a slot number held in registers, cells,
elements, lent frames and arguments at once; the collector is shown a different
copy of the registers on every path; control moves between the VM and compiled
code in the middle of loops and calls; and three implementations of one
language must give one answer.

What makes each part correct:

- **heap**: no array in use is freed or handed out again; what cannot be
  reached is given back; the program cannot tell when a collection ran.
- **VM**: the roots it shows the collector cover every register of every open
  call; an answer lands where its caller wants it; the heap stays within the
  threshold.
- **tier and compiled code**: the same for any mixture of interpreted, taken
  over and kept calls; tables and lent frames are those of the call that runs;
  the depth limit holds across all of them; a loop is offered once.
- **lexer and parser**: what is read is what was written; what is wrong in one
  place costs nothing elsewhere; any text is read to its end.
- **checker**: what a program does by slots and settled types is what it means
  by its names; what has a meaning is accepted.
- **compiler**: bytecode prints what the tree-walker prints.
- **loader**: a file is read as the chunk that was written or refused; an
  accepted chunk never reads a register as what it is not.
- **range analysis**: every value a slot takes lies in its interval.
- **numbers**: an answer is the exact one, rounded once.

## Modules

| module | models | of |
| --- | --- | --- |
| `HeapOps` | one slot, placing, marking, sweeping, as operators | `heap.rs` |
| `Heap` | the heap as a machine, the collector one loop turn at a time | `heap.rs` |
| `ArrayStore` | what the heap promises: arrays with identity that last while in reach | (abstract) |
| `HeapRefines` | the mapping under which `Heap` implements `ArrayStore` | |
| `HeapProofs` | the inductive invariant of `Heap` and its theorems, and that `Heap` implements `ArrayStore`, step by step | |
| `HeapFacts` | what the operators of `HeapOps` do to a heap, for the proofs of the modules that use them | |
| `NatFacts` | induction over the numbers, and what is defined by it | |
| `VM` | frames, the two register files, calls, returns, arrays, collections | `luarust-vm/lib.rs` |
| `VMProofs` | its inductive invariant and theorems | |
| `Tiered` | the VM on boxed registers with compiled code above it | `luarust-vm/lib.rs`, `luarust-jit`, `luarust-runtime` |
| `TieredProofs` | its inductive invariants and theorems | |
| `Lexer` | characters into tokens | `luarust-lex` |
| `Parser` | tokens into a tree, with recovery | `luarust-parse` |
| `Syntax` | a source read to its end by the two | `luarust-cli/main.rs` |
| `Checker` | the rule for every statement and expression of a tree | `luarust-check/lib.rs` |
| `Checking` | its passes over a program, a statement at a time | `check_with` |
| `Named` | what a program means by its names | (abstract) |
| `Lang` | values, arithmetic, comparisons, shared by the ones around it | `luarust-core/value.rs` |
| `TreeWalk` | the tree-walking interpreter | `luarust-interp` |
| `RangeOps` | intervals and the arithmetic on them | `luarust-check/range.rs` |
| `Range` | the walk that works out an interval per slot and marks divisions | `luarust-check/range.rs` |
| `ArithmeticProofs` | that those intervals hold what the arithmetic answers, and that compiled code answers the same | |
| `Compile` | the compiler from checked tree to bytecode | `luarust-vm/compile.rs` |
| `Blocks` | the graph of blocks compiled code is emitted into | `luarust-jit/blocks.rs`, `luarust-jit/lib.rs` |
| `Machine` | widening, and what every instruction computes, beside the tree-walker's answer | `luarust-vm/lib.rs` |
| `MachineProofs` | that the machine is type safe | |
| `ChunkFile` | a chunk written to a file and read back | `luarust-vm/serialize.rs` |
| `Slots` | what each instruction says of the registers it reads and writes, and what it is to have that shown | `luarust-vm/typed.rs` |
| `Typed` | the dataflow that makes a chunk demonstrate its types | `luarust-vm/typed.rs` |
| `TypedProofs` | that the dataflow is sound and complete | |
| `Loader` | a file identified, read, held against its contents and typed | `serialize.rs`, `typed.rs` |
| `Floats` | binary floats of any format | `luarust-num/binary`, `value.rs` |
| `Decimals` | decimal floats, in both encodings | `luarust-num/decimal`, `serialize.rs`, `value.rs` |
| `WideInts` | whole numbers over limbs | `luarust-num/uint.rs` |
| `Native` | integer arithmetic as compiled code does it | `luarust-jit/lib.rs`, and the VM's for powers, `value.rs` |
| `Ratios` | exact rationals | `exact.rs`, `big.rs`, `value.rs` |
| `Rounding`, `DecRounding` | the nearest number of a format, said from the numbers alone | (abstract) |
| `Words` | an accumulator of one format, and the integers on both engines | `value.rs`, `luarust-jit/lib.rs` |
| `Numbers` | the same with the other number types, and the limbs under them | `value.rs`, `exact.rs`, `uint.rs` |
| `MCSyntax`, `MCChecker`, `MCSamples` with `MCCompile` and `MCLoader`, `MCNumbers` | small instances; those of `heap`, `vm` and `tiered` need no definitions, and run `HeapRefines`, `VM` and `Tiered` themselves | |

`Heap` and `VM` extend `HeapOps`; `Tiered` extends `VM`; `HeapRefines` puts
`Heap` and `ArrayStore` together. `Syntax` extends `Lexer` and has an instance
of `Parser`; `Checking` extends `Checker`, whose answer `MCChecker` gives to
`TreeWalk` and holds against `Named`. `Range` extends `RangeOps`; `MCSamples`
extends `Compile`, `TreeWalk` and `Range` and gives `Machine` and `Loader` their
chunks as constants, those of `Machine` with the graphs of `Blocks` and with what is
known of their registers. `Machine`, `Blocks` and `Typed` extend `Slots`;
`Loader` extends `ChunkFile` and `Typed`. `Numbers` extends the number
modules and `Words`, which extends `Native` and so `Lang`. `HeapProofs`
extends `HeapRefines`, `VMProofs` extends `VM` and `HeapFacts`, `TieredProofs`
extends `Tiered` and `VMProofs`, `MachineProofs` extends `Machine`,
`ArithmeticProofs` extends `RangeOps` and `Words`, and `TypedProofs` extends
`Typed`; `HeapFacts`, `TypedProofs` and `ArithmeticProofs` rest on `NatFacts`. The modules that
are recursive over a tree, as the code is, are for TLC only; `RangeOps` is apart
from `Range` so that it can be proved about.

### Heap

`heap`, `free` and `since` are the thread-locals `HEAP`, `FREE` and `SINCE`;
`cells` is whatever the program holds values in. `make`, `of`, `read`, `store`,
`push` and `clear` are one action each. `collect` is split into its entry
(`Collect`, or `CollectNothing` on an empty heap), one turn of its marking loop
(`Mark`), the end of it (`Marked`), one turn of its sweep (`Sweep`) and its
return (`Finish`), because the invariant worth having is the one that holds
between those turns. The program does not run meanwhile (`phase = "run"` guards
its actions): `collect` is a function.

A type is its depth of nesting, an element is one byte wide, and the packing of
elements (`Store`, `read_bits`, `base_of`) is left out: it is layout. `id` and
`born` are ghosts that say which array a slot holds and which one a handle was
made for; no guard reads them. Slots count from 1.

`HeapRefines` maps a heap to the store by those ghosts: an array is its `id`,
whatever slot it lies in, and a handle is the `id` it was made for. The store has
the arrays that can be reached from the cells and no others, so a collection is a
step of the store in which nothing happens.

### VM

A frame is its registers twice over: `raw`, the words of the split file or the
values of the boxed one, and `cells`, the split file's boxed side. `ty` is what
the checked program knows a register to hold, so that a program reads only what
it wrote: the actions are those of every well-typed program. Every instruction
that computes a number or a text is `Load`; those that move handles, call,
return or make arrays are actions of their own. A call passes any number of
arguments: `Args` is the lists of registers a program may write at one, `Fits`
what the checker holds against the routine it calls, and `Passed` the registers
the routine begins with. `VMAssumption` says that there is a register, that
registers are numbered from 1, and that the threshold, where there is one, is a
number of bytes the saturating count can reach. A collection is the VM's:
`NewArray` stores the handle, asks the heap, and the next step is `Collecting`
with every frame's roots. Arrays hold no arrays here; `Heap` has those. Values
of numbers, output, jumps and fused instructions are left out of this module.

### Tiered

`VM` on boxed registers, and compiled code with its own frames (`compiled`, the
runtime's `FRAMES`) in which a register is a machine word and a handle is also
in the cell of the same number. `mode` says who runs and how it was entered:
the whole program, a loop of the top level to the program's end, a loop of a
routine to that call's return, or a kept routine from its start. `lent` is how
many of the VM's frames are borrowed (`BORROWED`), `tables` whose constants and
templates are really installed, `installed` whose the runtime believes they are
(`INSTALLED`). `Hot` may be taken or declined and `Keep` may compile or refuse,
since LLVM may fail at either; declining stops a program that requires its
engine. `CompiledArrayCalls` says whether the program has compiled code call
routines that answer arrays: see the first finding.

### Lang, TreeWalk, Compile, Machine, Blocks

The two implementations side by side. `TreeWalk` carries one record (the fields
of its `Machine`, the heap, what was printed, the fault) through the tree, one
operator per function of the interpreter, `Then` being the code's `?`. `Compile`
carries another (the fields of `Compiler` and its `Chunk`) through the same
tree, one operator per function or per arm of `stmt` and `expr`: `mark` and
`self.next = mark` are the `EXCEPT !.next = c.next` at the end of an arm,
`release` is `Release`, a floor raised and put back is `Above` or `Opened` and
`Closed`. `Machine` widens the code it is given, with the fused loop tail and
the fused index or without, and runs it, one action per instruction. Its
`expected` is what `TreeWalk` answers for the same program; `AgreesSoFar`
compares the two after every step, faults and where they happen included.

A checked program is the records of `ir.rs`. A span is the node it belongs to,
so that two faults at different places differ. Registers and constants count
from 0 as in the code, places in code from 1. Values are those of a signed and
an unsigned integer of 2 * `Half` values each, a bool, an array that grows, an
array of the fixed shape `Grid`, and a float of halves with two noughts, which
is enough for a counter to miss its bound and for a constant to have a twin that
compares equal. The one name with no counterpart is `Unset`, what a register of
a fresh frame holds: the code's hold `false`, or a nought word, and
`RegistersWritten` says that nobody looks. Here nothing is collected (that is
`VM`'s). Texts, `time.now` and powers are left out.

What the machine takes a chunk to be is `ChunksAssumption`. A chunk comes with
`Known`, what is known of each register at every place of a body that can be
come to, and this shows the types (`Demonstrates`, of `Slots`): no
instruction misreads what is known where it is, and what it leaves is known
wherever it goes. That is what the loader establishes. The rest is what the
compiler keeps to and nothing looks at again: instructions, constants and
functions that exist, numbers where arithmetic is done, an index with no more parts
than its array has dimensions, a call whose arguments do not run past the last
register there is a name for (`Overruns`), a return of the type the routine says it answers,
and a copy in front of a fused index that is forgotten (`Forgets`). `MCCompile`
works `Known` out for every one of the 1319 programs, and TLC evaluates the
assumption on them.

`Blocks` works out, for each place the machine may hand over at (the start and
every loop's head), what can be reached from there, which routines get a body,
and what `walk` emits into which block, with the branches it adds between them.
`Machine` carries that beside its chunk, as `native`: for each instruction, where
control goes in compiled code. It holds it against where it goes itself. What the
instructions compute there is `Tiered`'s and `Native`'s.

### Range

`RangeOf` is what `eval` answers and `ProvenIn` what it marks: `eval` changes no
state, so the two are apart. The walk carries `state`, `breaks` and `commit` as
the code does, and `proven`, the set of nodes whose `nonnegative` is set;
`Flag` puts that set in the program, `Compile` hands it to the chunk. Two equal
divisions at two places would be one node, so every division in the samples
that matters has a `line` of its own. `Search` is the loop of `fixed_point`
with its rounds, `Around` one pass. The largest of the unsigned type stands for
2 ^ 64 - 1.

### Lexer, Parser, Syntax

A lexer is the record of `Lexer`'s fields and `Turn` one turn of the loop in
`run`; a character is a string of one, over a few letters and digits. The
parser is recursive descent over a cursor: `out` holds the parts read so far,
the latest last, and `failed` is the code's `Err`, passed over by every step
after it, which is what `?` does. One operator is one function; a node is
`[k, text, parts]`. `Syntax` runs the lexer a token at a time and, if it had no
complaint, the parser a statement at a time: `Accept` keeps a statement,
`PassOver` is `recover`. Spans and wording are left out; complaints are kept by
their codes.

### Checker, Checking, Named

`Checker` carries one record (the fields of its `Checker`, with `got` for what
the last thing asked for became) and takes `Parser`'s trees to `Lang`'s
programs, with every `E` code the code reports. `Checking` is `check_with`: one
step for each `defaults`, header, body and statement. `Named` is no part of the
code. It runs a tree by its names, with every rule looked at when running comes
to it and no settled slots or types, so that it shares nothing with what it is
held against. "misused" is what it answers for the programs the checker is known
to accept and `Named` not to have a meaning for (see the findings), and "not run
here" for what no run of this size can show.

### ChunkFile, Typed, Loader

A file is a sequence of cells; a number is one cell however many bytes it has.
`Layout` says, for each instruction, its tag and the fields it is written with,
as the two `match`es of the code do. `Loader` writes a chunk (with its source or
with the starts of its lines), lets at most one accident happen on the way (a
cell changed, or the end missing), identifies, reads, checks the counts and each
body's indices, and then types it: `atDoor` is the map of states at the places
where ways meet, `asking` the work list, one instruction a step. `Typed` begins with
what the checks before it have made sure of (`WellFormed`), which `ReadsBack` holds
of every chunk `Loader` hands it.

What it is held against follows every path with what registers really hold:
`Within` is the configurations, a place and the registers' contents, that a body
comes to in so many steps, and `HonestWithin` says that none of them reads a
register that is not what the instruction says. A run of registers, the items of an
array or the parts of an index, is counted in the sixteen bits of a register, by
`check_code`, the dataflow and the machine alike, and goes round past the last one,
`RegMax` (`Nth`, `Run`; in a build without overflow checks, as a release is). A
call's arguments are counted that way by the first two and not by the machine, so
a configuration at a call whose run passes `RegMax` is wrong whatever it holds
(`Overruns`), and `LoadedIsHonest` speaks of the bodies that have none
(`Contained`): see the findings. A count says no type, only that
there is an array, and the walk refuses one of a register that holds two kinds
of array on two ways, so `HonestWithin` asks of a count that it finds one type
only. `Patience` is the number of steps after which a longer search finds no new
disagreement. A call is taken to answer what its routine says it answers, as the
code takes it: see the findings.

### Floats, Decimals, WideInts, Ratios, Native, Words, Numbers

An encoding is the number its bits spell, a format a record; every operation
unpacks, makes one exact integer and exponent, and rounds, with the code's own
guard bits, sticky bits, caps on shifts and special cases. The binary and
decimal floats compute on TLA+'s integers cut to their width; the limb loops
under them are `WideInts`, apart, where a limb may look no further than its
carry. `Words` is an accumulator of one format, to which `Fetch` brings an
operand and an operation and `Take` a new value; every operation is an action of
its own, and `Branch` takes a comparison's answer. Its operations are those of the
integers, apart so that they can be proved about; `Numbers` adds the rest. A wide integer's square root
in `Floats` is `Isqrt`, checked as `UintRoot` in `WideInts`. `Rounding` lists a
format's magnitudes in quanta of its smallest and picks the nearest with no
shifting, and `DecRounding` does the same with decimal digits. A power of a
float is multiplied out and one of a decimal squared and multiplied, rounded at
every step, as in the code: it is held against the exact power where the format
holds every product on the way.

The integers are worked out twice, by what the interpreter and the
VM share (`Lang`) and by `Native`, what `int_division`, `int_arith` and the
relations of the JIT ask of the processor. A division there has its divisor
replaced before the instruction and its answer chosen after it, leans to the
project's convention, and is done on the bits where the checker proved its
operands; a division the processor cannot do is a fault of the model
(`Dies`), so that an unguarded one cannot pass.

## Runs

| run | configuration | shows |
| --- | --- | --- |
| `heap` | two cells, three arrays of up to two elements, arrays of arrays, a byte count that saturates at 1 | `Safe`, `FreeListSound`, `MarkedIsLive`, `SweptClean`, `CollectionEnds`, and that `Heap` implements `ArrayStore` |
| `vm` | split file of two registers, one call deep, three arrays, threshold 2 | `RegistersGood` (the roots shown to the collector included), `HeapBounded`, `CallersKeepRegisters` |
| `tiered` | one register, two routines, three calls deep, two arrays, a collection asked for at every byte, loops hot the first time round | `HandlesGood`, `NoDeeper`, `LentWhileKept`, `OfferedOnce`, `TablesMatch` |
| `jit_unrooted_answer` | two registers, compiled calls that answer arrays | `HandlesGood` fails |
| `syntax` | every text of up to 3 to 5 characters over five alphabets; every statement form, every math block two operators deep, and each statement with one token gone or another in its place | `RoundTrip`, `NeighboursKept`, `MovesForward`, `TokensStandAlone`, `CommentsCover`, `LinesStandAlone` |
| `checker` | some thirteen thousand programs, visibility required and not | `SlotsMeanTheNames`, `StraightIsAccepted` |
| `bare_number` | three declarations of an array | `NeverPanics` fails |
| `compile` | 1319 programs, each fused and not; integers of 3 bits (`Half` 4), calls 3 deep, shape 2 by 2 | `AgreesSoFar`, `RegistersWritten`, `ProofsHold`, `Ends`, `FollowsMachine` |
| `live_bound` | `compile` on one program: the far bound is a variable the body assigns | `AgreesSoFar` fails |
| `loader` | every fifteenth chunk of `compile`; a routine of five instructions in every order; each instruction on the wrong registers; counts of a register that holds one array or another; a routine with every register there is, and runs of them that go round; two chunks with an accident at each cell | `ReadsBack`, `DamageRefused`, `LoadedIsHonest`, `CompiledLoads`, `LoadEnds` |
| `numbers` | floats of 6 and 7 bits, decimals of 1, 2 and 4 digits, three limbs of two bits, quarters, integers of 3 bits | `FloatsRoundOnce`, `DecimalsInReach`, `NothingIsLost`, `EnginesCompute` |
| `decimals` | `numbers` on the decimals of one digit | `SumsReachAnywhere` fails |

`TypeOK`, `TTypeOK` and `MTypeOK` are checked beside them.

Why these bounds are enough to be interesting. Two cells hold an array and an
array that contains it; three arrays are needed for a slot to be swept, handed
out, and looked at through an old handle. Two registers in `vm` let a frame hold
a live handle while the other is reused; a third array beyond two lets a slot be
taken back in between. Three calls deep lets compiled code call compiled code
above a lent frame with the VM beneath both; two routines let one's tables
replace the other's. `UsizeMax` is small so that the saturating count saturates.
Threshold 1 makes every loop turn a chance to hand over.

The texts of `syntax` are long enough for a comment that counts two lines with
text below them, a number that might be a shape with more than one `x`, and a
quote with an escape that ends with the line. `MostLines` (12), `MaxRank` (3)
and `MaxDim` (9) put the limits of a comment and a shape within reach. Its
programs are put together, not listed: `MCSyntax` writes trees out by a table of
how tightly things bind, which the parser does not have.

The programs of `checker` are pairs too: every expression of one operator on
fourteen atoms, and two operators on five, printed and put in variables of five
types; lists, indices and counts of arrays in each other's places; bodies of
functions, uses of them, and declarations in the scopes of loops and branches in
each other's way. `Half` is 8 so that literals are in and out of range.

The programs of `compile`: eleven integer expressions paired with each other
under subtraction, in array literals, as elements and indices; five conditions
paired under `and` and `or`, and those again to the right of the variable the
answer is stored in; nine loop bodies in pairs after one another, and after
eight inner loops; trapping and wrapping. Every instruction, fused ones
included, is reached on both outcomes, and so is every fault. The loops inside
loops have their outer head behind the inner one, which is what `FollowsMachine`
needs. Ten loop bodies that move two variables about, in pairs, with divisions
inside and after the loop, under the three conventions, are for `ProofsHold`; a
variable that lags behind another is what reaches the guess of the fourth round.
Integers of 3 bits put the top of the type within reach of a counter; a call
depth of 3 is passed by a function that calls itself. `MaxOut` (20) and
`MaxArrays` (4) are above what any of the programs prints and makes, so that
they stop only one that went wrong. Programs of the disagreements below are kept
out of this run; so are element assignments with effects in both their index and
their value, and a later index with an effect after one that is out of range,
about which the two are known to disagree as well.

`RegMax` is 65535 in `compile`, as in the code: nothing is enumerated up to it. In
`loader` it is 63, so that a routine can have every register an instruction can
name, and one more. Its chunks of that kind have arrays made of, and indices and calls
taken from, the last registers and the first, which hold what the instruction says
or do not: those are loaded or refused, and the calls that go round are loaded.

The formats of `numbers` are the smallest with all that the code distinguishes:
a float of two bits of precision and a long range, where the shift of a sum is
capped, and one of four bits with a deep subnormal range; decimals far enough
apart to leave each other's reach, a declet of three digits with eights and
nines in every place; a divisor that fills every bit of every limb. Every pair
of values of the first float is added, subtracted, multiplied and divided under
all five modes. Every pair of integers of 3 bits (`Half` 4), signed and
unsigned, meets every operation on both engines, trapping and wrapping and under
the three conventions. A power of a float counts to `CountLimit` (17; 4096 in
the code) and of a decimal to `MostTimes` (9; 100000). `LimbBits` and `WideBits`
(4, 20) keep every intermediate number inside TLC's integers.

Deadlock is checked where the system cannot stop: in `syntax` and `checker`,
where every program must come to an end that is named, and in `numbers`. The
other runs end with their programs, or at the bound on arrays made.

**Fairness** is assumed in three places. `FairSpec` of `Machine` is weak fairness
of `Next`: `engine` is a loop on the only thread, and takes its next
instruction. `FairSpec` of `Heap` has weak fairness on the collector's own
steps, and `FairSpec` of `Loader` on the dataflow's. Both are functions on the
only thread, with no early way out and nothing else running, so once entered
their loops run; nothing is assumed about when a program calls them. `VM`,
`Tiered`, `Syntax`, `Checking`, `Words` and `Numbers` state safety only: that reading
ends is `MovesForward`, which asks more of each step than fairness would.

## What is proved

`HeapProofs`, for any set of cells, any data, any number of arrays, lengths and
depths, and any width of the byte count (`HeapAssumption`, `UsizeMaxAssumption`
are all it rests on):

- `TypesHold`: `Spec => []TypeOK`;
- `NeverFreesLive`: `Spec => []Safe`;
- `FreeListIsSound`: `Spec => []FreeListSound`;
- `MarksExactly`: `Spec => []MarkedIsLive`;
- `SweepsClean`: `Spec => SweptClean`.

All follow from `Inductive`: `Spec => []IInv`. `Safe` is not inductive: that a
reachable handle is good now does not say that the sweep's next turn spares it.
`IInv` adds what the code relies on without saying it. `FreeInv`: a slot is on
the free list once, and only if it is empty and nobody's (its `id` is 0), which
is what makes handing it out safe. `HandleInv`: *every* handle in a cell or an
element, reachable or not, names the array it was made for, except in the
arrays a sweep under way has found dead. `ElementInv`: an array whose element
type is no array holds no handles, which is why marking may pass over it.
`MarkInv`: the roots are marked, and what is marked and no longer pending has
had its elements marked, so that with nothing pending the marked set is closed.
`LeastInv`: the marked set lies inside every closed set with the roots, so it
is the least. `SweepInv`: behind the sweep, what is not marked is empty. TLC
checks `IInv` cheaply on the instance of `heap`; then each action has one lemma
that it keeps `IInv`.

`ArithmeticProofs`, for every width (`HalfAssumption`), convention and overflow
mode:

- `BinaryRangeSound`, `NegateRangeSound`: what an operation answers, when it is
  not refused, lies in the interval worked out for it;
- `HullSound`: merging loses no value;
- `ProvenDividesUnsigned`: where a division is marked, its operands are what
  they are claimed to be, nothing is refused, and every convention answers the
  quotient or remainder of the bits.

The argument: `ExactHolds` says that before the type has its say the interval
holds the integer answer (the corners of a product, the monotony of quotients,
the size and side of remainders under each convention); `AnswerCut` that the
answer is that integer cut to the type, and has room when the program traps;
`HeldHolds` that `held` allows for the cut. That a slot holds what its interval
says is then a matter of the walk, which is `ProofsHold` and TLC's.

In the same module, for integers of more than one bit, any set of projects, any
words written and any operations fetched (`WordsAssumption`, which TLC evaluates
for the run `numbers`):

- `EnginesComputeAlways`: `Spec => EnginesCompute`, of `Words`. Every integer
  operation, on either engine, answers what the integers do, cut to the width,
  or stops with the fault that says why not;

- `CompiledComputes`: `Native`'s arithmetic answers what `Lang`'s does, value and
  fault, for every operation and every pair of words. A division the checker
  marked goes unguarded, and the hypothesis is what `ProvenDividesUnsigned` gives:
  that its operands are what they are claimed to be;
- `CompiledNegates`, `CompiledRelates`: the same for negation and relations.

Both rest on `CutAlike`: numbers a whole modulus apart have one word, which is
why sums and products need not know the sign (`WordsCutAlike`). `LeansRight` is
the step from the processor's quotient to the convention's, taken on words;
`MinusOne` and `SignedAnswers` are the divisor that is diverted. A power, and
everything when the program traps, goes back to the shared arithmetic, and there
is nothing to prove.

`EnginesComputeAlways` joins the three to what the shared arithmetic answers.
`PartedIs`: there is one quotient whose remainder is nearer nought than the
divisor and on the side the convention asks for, and `Quotient` is it, though it
gets there from the quotient toward nought by a step. `PowerIs`: the product that
is multiplied up and held at the bound of `i128` is the power whenever the power
is below the bound, and otherwise is at it, or at its negation; so it fits the
type exactly when the power does. The invariant is `Fetching`: what waits in the
accumulator is what `Fetchable` says, so that a division done unguarded has the
operands it was marked for.

`HeapProofs` besides, from the same assumptions:

- `Implements`: `Spec => ImplementsArrayStore`. The program sees arrays that keep
  their identity and contents for as long as it can reach them, whatever slots
  they lie in and whenever the collector runs.

The mapping takes an array by its `id`, so it needs `IdInv` (`IdsHold`): no two
slots in use hold the same array, and none holds one yet to be made. Three lemmas
carry the rest. `CellStep` and `WriteStep`: a cell or an array that is given
what was in reach brings nothing else into reach, so the store a step leaves is
the one it found, changed there, less what was lost. `SweepStutters`: a slot the
sweep takes is not marked, so by `MarkInv` it was not in reach, and the store
does not change.

`VMProofs`, for either register file, any registers, arguments, depth, number and
length of arrays, threshold and byte count (`VMAssumption`,
`UsizeMaxAssumption`):

- `TypesHold`: `Spec => []TypeOK`;
- `HandlesHold`: `Spec => []RegistersGood`;
- `BoundHolds`: `Spec => []HeapBounded`;
- `CallersHold`: `Spec => CallersKeepRegisters`.

`RegistersGood` is about the registers a program may read. It is not inductive in
the split file: `SplitGood` adds that *no* cell, stale ones included, holds a
handle to a slot since given to another array (the collector is shown every
cell, so a stale handle keeps its array), and that a register that holds an
array has the same handle on both sides.
`FreeSound` is the free list's. `HeapBounded` needs `BytesInv`: what was
handed out since the last collection covers the growth of the heap, or the
count is stuck at its end, and between two instructions it is below the
threshold. Each step is a lemma; `HeapFacts` says of a heap as a whole what
placing an array (`Placed`, `PlacedGood`, `PlacedBytes`) and a collection
(`Collected` and those after it) do to it.

`TieredProofs`, under `TieredAssumption` besides:

- `TypesHoldTiered`, `DepthHolds` (`NoDeeper`), `LendingHolds`
  (`LentWhileKept`), `TablesHold` (`TablesMatch`), `OfferHolds` (`OfferedOnce`);
- `HandlesHoldTiered`: `TSpec => []HandlesGood`, for programs in which compiled
  code calls no routine that answers an array. Without that it is false, which
  is the first finding.

The first five follow from `ShapeInv` (`ShapeHolds`), in which `StacksInv` says
how the two stacks stand to each other in each mode (a routine taken over has all
the VM's frames under it, so it cannot come back to fewer), `ModeInv` who runs and
whose tables are installed, *when the runtime believes any are*, and `LoopInv`
that a loop already offered has its counter at its end, from where it never
reaches the threshold again. `HandlesGood` needs `TInv`: `GoodInv`, that the
frames that code may still read are good ones as a whole (stale cells included,
as above), and `CarriedInv`, that compiled code still has of a routine's callers
just what it was handed; their frames were not shown to the collector while it
ran, and it is from what it was handed that they were.

`TypedProofs`, for any chunk whose indices have been checked (`TypedInit`), with
any number of bodies, instructions and registers:

- `TypesHonestly`: `TypedSpec => []LoadedIsHonest`. A chunk that is loaded is
  honest in every body whose calls keep within the registers (`Contained`), and a
  body that is refused is not honest: the dataflow refuses what it should and
  nothing else.
- `LoadedIsSound`: such a loaded body is honest for any number of steps, so the bound
  `Patience` of the run leaves nothing out.
- `LoadedDemonstrates`: of every body of a loaded chunk something is known that
  `Demonstrates` its types, which is what the machine takes of one.

The inductive invariant is `TInv`. `Shape` keeps the types. `Walk` is what makes it
sound: at each place there is what was known when the walk was last there,
and what that hands on is no more precise than what is known where it leads, unless
that place is still asked for or is the one the walk is at. With nothing asked
for this is a certificate (`Certified`), and `CertifiedHonest` shows by induction
on the steps that no configuration disagrees with one. `AllBacked` is what makes
it complete: whatever is known of a register at a place is in *every* set of
places and contents that has the entry and follows the ways
(`Closed`), so a clash is two contents that some ways really bring. It speaks of
one register at a time, since no instruction's answer depends on another's
contents. The set that is used in the end is that of the configurations within
`Patience` steps, which is closed because it stops growing (`Stabilises`,
by counting places and kinds), or a shorter way already misreads.

`MachineProofs`, for any number of chunks, of any size, whose types are shown
(`MachineAssumption`, `ChunksAssumption`), fused and not, integers of any width
(`HalfAssumption`) and any depth of calls:

- `MachineTyped`: `Spec => []MTypeOK`. The machine stays in the code of its
  routines, values have their types, and an answer has a register of its caller to
  land in;
- `MachineWritten`: `Spec => []RegistersWritten`. No instruction reads a register
  that nothing has written in its call.

Neither is inductive: that a register is written says nothing of the other ways to
the place. `MachineInv` (`MachineSafe`) ties the run to what is known of its
chunk. Every open call is at a place that is known of, and each of its registers
holds what is known there, unless that is a clash. For a call that waits the
place is the one after its call, where the answer is already known to be in, so
`Holding` is the type a register *will* have: its own, or that of the answer on its
way. A call checks its arguments against the parameters (`SuppliedIs`) and leaves
its own frame waiting (`CallKeeps`); a return hands back what `Holding` had promised
(`ReturnKeeps`), which is where a return must be of the type its routine says.
Handles are within the heap and every element is one of the heap's. Each action has
a lemma that it keeps this; `GoIs` and `PutIs` are what they share, a step
along one of the `Ways` with one register changed. The chunk that runs is the
widened one and what is known is of the one before: `WidenedIs`, `TailIs` and
`AtoneIs` say what the fused instructions stand for. The tail does three
instructions' worth at once, and the index that is fused leaves the copy in front
of it undone, so that its register may be other than what is known where the
two meet again, if anything but a clash were: hence `Forgets`.

What loading and running need to meet: `LoadedDemonstrates` gives the largest part of
`ChunksAssumption`. What it does not give is listed with the findings.

## What is only checked

Liveness (`CollectionEnds`, `Ends`, `LoadEnds`) is out of the prover's reach,
and so is anything about `Lexer`, `Parser`, `Checker`, `Compile`, `TreeWalk`,
the reading and writing of a file and the walk of `Range`, which recurse over
texts and trees: so `AgreesSoFar`, `FollowsMachine` and `ProofsHold` of `Machine`,
whose chunks come from there (and `ChunksAssumption` for the chunks the compiler makes),
and `ReadsBack`, `DamageRefused` and `CompiledLoads` of `Loader`. `NatFacts` has what induction is needed from the least number
of a set (`LeastNatural`), by which sums and folds over a heap, the steps of
a body and powers are reasoned about. That a chunk which was read and checked is
`WellFormed`, from where `TypedProofs` begins, is `ReadsBack` and TLC's. The
floats, decimals, limbs and rationals are checked on the instances above and not
proved yet.

## Findings

Each of these has a run that shows it.

1. **An array answered by a compiled call is not rooted.** `emit_call` stores
   the answer in the register and never mirrors it into its cell, which the
   collector reads. A later collection in compiled code frees the array.
   `jit_unrooted_answer` has the trace.
2. **A counting loop's far bound is read live.** `operand` answers a variable's
   own register (`compile.rs:249`, `437`), so a body that assigns the variable
   moves the bound; the tree-walker evaluates it once. `live_bound`.
3. **A bare number for an array makes the checker panic.** `literal` takes
   what is no text, bool, rational or float for an integer, and asks an array
   for its width (`luarust-check/lib.rs:1398`). `bare_number`.
4. **The sum of two decimals far apart is wrong.** `add` scales the larger one
   by less than the gap and keeps the smaller one's exponent
   (`decimal/ops.rs:48`): 1E30 + 1 in `d32` is 1E16, and so is 1E30 + 0.
   `decimals`.

These came up while modelling and have no run; the models do what the code
does, and the properties are stated so as to leave them aside.

- *Tiers.* Compiled code stops one call earlier: `guard_depth` counts the
  program's own frame. Empty arrays keep their slots, which the sweep takes for
  free ones.
- *Bytecode against the tree-walker.* A float counter that steps over its bound
  never stops (`compile.rs:267`). A counter that outlives an empty range has a
  value (`compile.rs:244`). A count may not fit the type that asks for it, and
  the range analysis takes it to be at nought or above (`range.rs:390`). An
  element assignment evaluates its indices before the value (`compile.rs:358`)
  or after it (`luarust-interp/src/lib.rs:172`), and checks each as it comes or all
  at the end.
- *Loader.* What a `return` hands back is held against the type the instruction
  says and never against what its routine says it answers (`typed.rs:242`), which
  is what a call takes it for (`:238`); the comment at the top says "the whole
  claim is established here" (`:7`). A count of a register that holds an array on every
  way is refused when they are arrays of two types, though only the array is looked for.
  Runs of registers are added up in `u16` by `check_code` (`serialize.rs:836`, `:850`,
  `:862`, `:869`) and by the dataflow (`typed.rs:236`, `:249`, `:306`), and a chunk may have
  65536 registers (`serialize.rs:665`). In a build with overflow checks a run that
  passes the last panics in the loader. In a release it goes round, and of a call with two
  arguments from register 65535 both look at register 0 for the second. The VM counts
  them in `usize` (`luarust-vm/src/lib.rs:974`), looks for register 65536 and panics on a
  frame that has none; compiled code takes register 0 (`luarust-jit/src/lib.rs:1885`).
  "Every argument register, not only the first, since the call reads the whole run of
  them" is the comment (`serialize.rs:833`), and the check is "where that promise is
  either kept or refused" (`:674`). The models load such a chunk, `LoadedIsHonest`
  leaves its bodies aside, and `ChunksAssumption` has none.
  Of what the machine needs and its theorems assume of a chunk, these are not
  looked at in one from a file either: that an index has no more parts than the
  array's shape, that what is added or negated is a number, that a call's arguments
  keep within the registers, and that nothing reads the copy in front of an index
  `widen` fuses, which the machine then does not make (`luarust-vm/src/lib.rs:203`);
  the loader types the instructions as they were before fusing.
- *Lexer.* An unknown escape inside a text takes the end of the line for the
  character it escapes, and the text goes on below (`luarust-lex/src/lib.rs:281`).
- *Parser.* `recover` at the last statement of a body eats the brace that closes
  the body (`luarust-parse/src/lib.rs:121`). `array` followed by no dotted type is dropped
  without a complaint (`:970`), as is `array` after the type. A word of a chain
  said twice, in a loop or a function, is taken the second way.
- *Checker.* `handback` is accepted between two texts, bools or arrays, though
  it is said to be a sum (`:379`, `:399`). So are a unary minus on a text, a bool or an array,
  and a `while` that counts in no number. A `fn` or `defaults` inside a body is
  passed over in silence. The counter of a `loop.perm`, and a parameter named
  twice, hide an earlier name without E0203. A function called `count` or
  `filled` can be called as a statement and not as a value.
- *Decimals.* `compare` of two that are far apart forgets the nought its comment
  names (`ops.rs:306`), so 1E-30 is below 0, and `leaning`'s questions about a
  tiny value with it. `div` keeps too few digits of a quotient by a long
  divisor, and a mark that falls on an odd digit is lost (`:148`). `rem` of two
  far apart answers zero, or the dividend, whichever is larger. `round_and_pack` rounds
  twice below the smallest exponent, and its `room` underflows in `u32` when a
  carry meets the largest (`mod.rs:274`; as modelled, the answer of a build
  without that check).
- *Decimal powers.* A product is rounded once more by its significand alone, and
  an infinite one has significand 0 (`ops.rs:233`): in `d32` 1E90 ** 2 is 0, where
  1E90 * 1E90 is infinite as the README of the language says (`README.md:997`),
  and the comment above the loop that the two agree (`ops.rs:215`).
- *Floats.* Adding the divisor back to a remainder is not exact, as it is said to be
  (`value.rs:1028`), when the remainder is much the smaller: -1e-20 mod 1 is 1,
  and from there 0 under the truncated convention.
- *Integers.* A power that leaves `i128` saturates before it is cut to its
  width (`value.rs:935`), so under wrap it is not the power modulo the
  width (`README.md:1001`: "An integer wraps.").

## What is not modelled, and the plan

In the order they are worth having:

1. Proofs: `DamageRefused`, once the sum of a file is apart from its bits: it is an
   exclusive or, for which the provers have no arithmetic.
2. Numbers written out as text (`binary/text.rs`, `decimal/text.rs`);
   conversions between types; powers in `Lang` and the programs of `compile`.
3. The JIT's float instructions; the order of output between the VM and compiled code.
4. Exact and decimal numbers, texts and `time.now` in `Lang` and the checker;
   the table that interns shapes (`ty.rs`); the limbs of `big.rs`.
5. The configuration search.

Left out for good: the rendering of diagnostics (text in, text
out, no state that outlives a call), LLVM itself, the program generator, the
editor extension, and the command line's file handling.
