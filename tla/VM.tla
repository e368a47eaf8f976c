--------------------------------- MODULE VM ---------------------------------
(***************************************************************************)
(* The frames of the bytecode VM (luarust-vm/src/lib.rs) over the array    *)
(* heap: registers in either arrangement of a register file, calls,        *)
(* returns, arrays made and moved, and the collection an array asks for.   *)
(*                                                                         *)
(* The program is any well-typed one: each frame carries the type the      *)
(* checked code gives each register at this point (ty), and an instruction *)
(* reads only registers that hold what it expects.  What numbers and texts *)
(* are makes no difference to any of this, so there is one of each; what   *)
(* an array contains is modelled in Heap, so here it has only a length.    *)
(***************************************************************************)
EXTENDS HeapOps, FiniteSets, SequencesExt

CONSTANTS
    File,           \* the register file: "boxed" or "split"
    Regs,           \* registers of a frame, 1 .. n
    Funcs,          \* the routines
    DepthLimit,     \* DEPTH_LIMIT
    Scalars,        \* bound: which of "num" and "text" the program computes
    Limit,          \* the collection threshold: {} or {bytes}
    MaxMade,        \* bound: arrays made
    MaxLen          \* bound: elements in one array

ASSUME VMAssumption ==
    /\ File \in {"boxed", "split"} /\ Scalars \subseteq {"num", "text"}
    /\ 1 \in Regs /\ Regs = 1 .. Cardinality(Regs)
    /\ DepthLimit \in Nat /\ MaxMade \in Nat /\ MaxLen \in Nat
    /\ Limit = {} \/ \E l \in 1 .. UsizeMax : Limit = {l}

VARIABLES
    heap, free, since,      \* the array heap, as in Heap
    made,                   \* arrays made so far
    kept,                   \* bytes the last collection left (0 before any)
    frames,                 \* every open call, outermost first
    step                    \* "run", "collect", or "stopped"

heapVars == <<heap, free, since, made, kept>>

Top == "top"                \* the routine of the outermost frame
Blank == Num(0)

\* A frame with nothing in it.  A register nothing has written yet counts as one
\* holding a number: the checker proves it is written before it is read.  (The
\* split file grows its cells on first use; until then they read as the same
\* placeholders.)
Fresh(fn, dst) ==
    [fn |-> fn, dst |-> dst,
     ty    |-> [r \in Regs |-> "num"],
     raw   |-> [r \in Regs |-> Blank],
     cells |-> [r \in Regs |-> Blank]]

\* Mutant: a handle is written to its word and not to its cell.
PutUnmirrored(f, r, t, v) ==
    [f EXCEPT !.ty[r]    = t,
              !.raw[r]   = IF t = "text" THEN @ ELSE v,
              !.cells[r] = IF t = "text" THEN v ELSE @]

\* A value of this type into a register: of a file of words beside cells, and
\* of a file of values.
PutSplit(f, r, t, v) ==
    [f EXCEPT !.ty[r]    = t,
              !.raw[r]   = IF t = "text" THEN @ ELSE v,
              !.cells[r] = IF t = "num" THEN @ ELSE v]

PutBoxed(f, r, t, v) == [f EXCEPT !.ty[r] = t, !.raw[r] = v]

Put(f, r, t, v) == IF File = "boxed" THEN PutBoxed(f, r, t, v) ELSE PutSplit(f, r, t, v)

\* What a register holds, read as what it is.
HeldSplit(f, r) == IF f.ty[r] = "text" THEN f.cells[r] ELSE f.raw[r]

Held(f, r) == IF File = "boxed" THEN f.raw[r] ELSE HeldSplit(f, r)

\* What a frame shows a collection.
CellRoots(f) == {f.cells[r] : r \in Regs}
FileRoots(f) == IF File = "boxed" THEN {f.raw[r] : r \in Regs} ELSE CellRoots(f)

\* Where the arguments of a call are: in argc registers from base on.
Fits(base, argc) == \A n \in 1 .. argc : base + n - 1 \in Regs

\* One side of a fresh frame with the arguments in its first registers.
Passed(fresh, from, base, argc) ==
    [r \in Regs |-> IF r \in 1 .. argc THEN from[base + r - 1] ELSE fresh[r]]

\* The frame of a call: both sides of a split register go over, whichever of
\* them is the argument.
Called(fn, from, base, argc, dst) ==
    [Fresh(fn, dst) EXCEPT
        !.ty    = Passed(@, from.ty, base, argc),
        !.raw   = Passed(@, from.raw, base, argc),
        !.cells = IF File = "boxed" THEN @ ELSE Passed(@, from.cells, base, argc)]

Current == frames[Len(frames)]
WithCurrent(f) == [frames EXCEPT ![Len(frames)] = f]

Init ==
    /\ heap = <<>> /\ free = <<>> /\ since = 0 /\ made = 0 /\ kept = 0
    /\ frames = <<Fresh(Top, 1)>>
    /\ step = "run"

-----------------------------------------------------------------------------
\* make and of: len elements that are not arrays, put in this heap.
NewArrayRec(len) == Array(0, [k \in 1 .. len |-> Blank], made + 1)

MadeIn(h, fr, s, len) ==
    /\ made < MaxMade
    /\ heap' = PlacedHeap(h, fr, NewArrayRec(len))
    /\ free' = PlacedFree(fr)
    /\ since' = Charged(s, NewArrayRec(len))
    /\ made' = made + 1

NewHandle(h, fr) == HandleOf(1, PlaceAt(h, fr), made + 1)

-----------------------------------------------------------------------------
(* One action per instruction that matters to frames and arrays. *)

Running == step = "run"

\* The program is over, by its end or a fault; the frames go with the engine.
Ended == step' = "stopped" /\ frames' = <<>>

\* Const, arithmetic, comparisons, reading an element, the clock: a number or a
\* text into a register.
Load(dst, t) ==
    /\ Running
    /\ frames' = WithCurrent(Put(Current, dst, t, Blank))
    /\ UNCHANGED <<heapVars, step>>

Move(dst, src) ==
    /\ Running
    /\ frames' = WithCurrent(Put(Current, dst, Current.ty[src], Held(Current, src)))
    /\ UNCHANGED <<heapVars, step>>

\* NewArray and Filled: the array is made and its handle put away, and only then
\* is the heap asked whether it wants collecting.
NewArray(dst, len) ==
    /\ Running
    /\ MadeIn(heap, free, since, len)
    /\ kept' = kept
    /\ frames' = WithCurrent(Put(Current, dst, "array", NewHandle(heap, free)))
    /\ step' = IF Wants(Limit, since') THEN "collect" ELSE "run"

\* Step::Collecting: every root of every frame.
Roots == UNION {FileRoots(frames[i]) : i \in DOMAIN frames}

Collecting ==
    /\ step = "collect"
    /\ heap' = SweptHeap(heap, Roots)
    /\ free' = SweptFree(heap, free, Roots)
    /\ since' = 0
    /\ kept' = TotalBytes(heap')
    /\ step' = "run"
    /\ UNCHANGED <<made, frames>>

\* At, Count and StoreAt reach into an array and stop the program where the
\* element is not there; an element read goes into a register.
At(dst, src, k) ==
    /\ Running
    /\ Current.ty[src] = "array"
    /\ IF k \in 1 .. Len(heap[Held(Current, src).bits].store)
       THEN /\ frames' = WithCurrent(Put(Current, dst, "num", Blank))
            /\ step' = "run"
       ELSE Ended
    /\ UNCHANGED heapVars

\* Call, up to where the frame is pushed (or, with a tier, handed over).
Calling(base, argc) ==
    /\ Running
    /\ Fits(base, argc)

TooDeep == Len(frames) - 1 >= DepthLimit

Call(fn, base, argc, dst) ==
    /\ Calling(base, argc)
    /\ ~TooDeep
    /\ frames' = Append(frames, Called(fn, Current, base, argc, dst))
    /\ UNCHANGED <<heapVars, step>>

\* R0011.
CallTooDeep ==
    /\ Running
    /\ TooDeep
    /\ Ended
    /\ UNCHANGED heapVars

\* Mutant: the answer goes where the caller's own caller wants its answer.
AnsweredBelow(t, v) ==
    LET under == Front(frames) IN
    [under EXCEPT ![Len(under)] = Put(@, @.dst, t, v)]

\* The frame underneath, with an answer where the call wanted it.
Answered(t, v) ==
    LET under == Front(frames) IN
    [under EXCEPT ![Len(under)] = Put(@, Current.dst, t, v)]

Return(src) ==
    /\ Running
    /\ Len(frames) > 1
    /\ frames' = Answered(Current.ty[src], Held(Current, src))
    /\ UNCHANGED <<heapVars, step>>

\* Mutant: a return is not asked whether anybody called.
ReturnFromTop ==
    /\ Running
    /\ frames' = Front(frames)
    /\ UNCHANGED <<heapVars, step>>

ReturnNothing ==
    /\ Running
    /\ Len(frames) > 1
    /\ frames' = Front(frames)
    /\ UNCHANGED <<heapVars, step>>

\* Halt, and every fault that is not above.
Halt ==
    /\ Running
    /\ Ended
    /\ UNCHANGED heapVars

Args == 0 .. Cardinality(Regs)

Instruction ==
    \/ \E dst \in Regs, t \in Scalars : Load(dst, t)
    \/ \E dst, src \in Regs : Move(dst, src)
    \/ \E dst \in Regs, len \in 0 .. MaxLen : NewArray(dst, len)
    \/ \E dst, src \in Regs, k \in 1 .. MaxLen + 1 : At(dst, src, k)
    \/ Collecting
    \/ CallTooDeep
    \/ \E src \in Regs : Return(src)
    \/ ReturnNothing
    \/ Halt

Next ==
    \/ Instruction
    \/ \E fn \in Funcs, base, dst \in Regs, argc \in Args : Call(fn, base, argc, dst)

vars == <<heapVars, frames, step>>

Spec == Init /\ [][Next]_vars

-----------------------------------------------------------------------------
TypeOK ==
    /\ heap \in Seq([of : {0}, store : Seq({Blank}), id : Nat])
    /\ free \in Seq(1 .. Len(heap))
    /\ since \in 0 .. UsizeMax /\ made \in Nat /\ kept \in Nat
    /\ frames = <<>> <=> step = "stopped"
    /\ \A i \in DOMAIN frames :
         /\ frames[i].fn \in Funcs \cup {Top}
         /\ frames[i].dst \in Regs
         /\ \A r \in Regs : frames[i].ty[r] \in {"num", "text", "array"}
    /\ step \in {"run", "collect", "stopped"}

\* Every handle a register holds, in every open call, names the array it was
\* made for: whatever was made, moved, passed, answered and collected since,
\* the root set the file showed the collector was enough. Nor has anything a
\* collection walks come loose: a stale cell of a register since reused still
\* names an array that was kept for it, never a slot handed to another.
RegistersGood ==
    \A i \in DOMAIN frames :
        /\ \A r \in Regs :
            frames[i].ty[r] = "array" =>
                IsArray(Held(frames[i], r)) /\ Good(heap, Held(frames[i], r))
        /\ \A v \in FileRoots(frames[i]) : Good(heap, v)

\* Between instructions the heap is never more than the threshold past what the
\* last collection kept: a loop that makes and forgets does not grow.
HeapBounded ==
    step = "run" => \A l \in Limit : TotalBytes(heap) < kept + l

\* The answer of a call goes to the frame that made it, and a collection or a
\* return disturbs no other register of an open call.
CallersKeepRegisters ==
    [][ \A i \in DOMAIN frames \ {Len(frames)} :
          i \in DOMAIN frames' =>
             \A r \in Regs :
                \/ frames'[i].raw[r] = frames[i].raw[r] /\ frames'[i].cells[r] = frames[i].cells[r]
                \/ Len(frames') = i /\ r = frames[i + 1].dst ]_vars

=============================================================================
