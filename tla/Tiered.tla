------------------------------- MODULE Tiered -------------------------------
(***************************************************************************)
(* The tiered machine: the VM on boxed registers, and compiled code        *)
(* (luarust-jit/src/lib.rs) with the frames of cells it runs on            *)
(* (luarust-runtime/src/lib.rs).  Compiled code takes over                 *)
(*   - a loop of the top level that went hot, to the program's end;        *)
(*   - a loop of a routine that went hot, to that call's return; and       *)
(*   - every later call of a routine that is being kept, for which the VM  *)
(*     lends its frames instead of copying them;                           *)
(* or runs the whole program from the start (the plain JIT).  The heap is  *)
(* one and the same throughout.                                            *)
(***************************************************************************)
EXTENDS VM

CONSTANTS
    Threshold,              \* times round a loop before the tier is asked
    CompiledArrayCalls      \* TRUE: compiled code calls routines that answer
                            \* an array

VARIABLES
    mode,           \* who runs: "vm", or compiled code entered as "whole",
                    \* "top", "routine" or "kept"
    compiled,       \* FRAMES: the calls compiled code has open
    lent,           \* BORROWED: how many of the VM's frames are lent to it
    counters,       \* times round the loop of each routine
    asked,          \* loops the tier has been asked about (read by no guard)
    keeping,        \* each routine's standing with the cache of compiled code
    tables,         \* whose constants and templates are installed, and
    installed       \* INSTALLED: whose the runtime believes they are

loopVars == <<counters, asked>>
tierVars == <<loopVars, keeping>>
moduleVars == <<tables, installed>>
entryVars == <<mode, lent, moduleVars>>
tvars == <<vars, entryVars, compiled, tierVars>>

Loops == Funcs \cup {Top}       \* one loop each, in the top level and in a routine
Fired == Threshold + 1          \* u32::MAX: past any threshold
OneShot == "one-shot"           \* a module compiled for one handover
NoModule == "none"

ASSUME TieredAssumption ==
    /\ File = "boxed" /\ Threshold \in Nat \ {0} /\ CompiledArrayCalls \in BOOLEAN
    /\ {Top, OneShot, NoModule} \cap Funcs = {}

TInit ==
    /\ Init
    /\ \/ mode = "vm"    /\ compiled = <<>>              /\ tables = NoModule
       \/ mode = "whole" /\ compiled = <<Fresh(Top, 1)>> /\ tables = OneShot
    /\ lent = 0
    /\ counters = [l \in Loops |-> 0]
    /\ asked = {}
    /\ keeping = [fn \in Funcs |-> "unasked"]
    /\ installed = NoModule

-----------------------------------------------------------------------------
(* The VM's side. *)

VMRuns == mode = "vm" /\ UNCHANGED <<entryVars, compiled>>

VMInstruction == VMRuns /\ Instruction /\ UNCHANGED tierVars

CallInterpreted(fn, base, argc, dst) ==
    /\ VMRuns
    /\ keeping[fn] # "code"
    /\ Call(fn, base, argc, dst)
    /\ UNCHANGED tierVars

\* Mutant: the counter wraps.
HitsWrapped(n) == IF n = Fired THEN 0 ELSE n + 1

\* Back: the counter is raised and saturates; at the threshold, exactly, the
\* tier is asked.
Hits(n) == IF n = Fired THEN n ELSE n + 1

Back ==
    LET l == Current.fn IN
    /\ VMRuns /\ Running
    /\ counters' = [counters EXCEPT ![l] = Hits(@)]
    /\ step' = IF Hits(counters[l]) = Threshold THEN "hot" ELSE "run"
    /\ UNCHANGED <<heapVars, frames, asked, keeping>>

\* A frame of a boxed VM as a frame of cells, the values a machine register can
\* hold loaded out of them.
Carried(f) == [f EXCEPT !.cells = f.raw]

\* Mutant: the tables are replaced and the token still names their old owner.
ResumeTrusted(how) ==
    /\ mode' = how
    /\ compiled' = [i \in DOMAIN frames |-> Carried(frames[i])]
    /\ lent' = 0
    /\ tables' = OneShot
    /\ UNCHANGED installed

\* resume: a copy of every frame, nothing lent, tables nobody else may trust.
Resume(how) ==
    /\ mode' = how
    /\ compiled' = [i \in DOMAIN frames |-> Carried(frames[i])]
    /\ lent' = 0
    /\ tables' = OneShot
    /\ installed' = NoModule

\* A routine is compiled for keeps the first time a loop of it goes hot.
Keep(l) ==
    IF l \in Funcs /\ keeping[l] = "unasked"
    THEN \E now \in {"code", "refused"} : keeping' = [keeping EXCEPT ![l] = now]
    ELSE UNCHANGED keeping

\* Declined: the loop goes on, or, in a program that requires the engine, stops.
Declined ==
    \/ step' = "run" /\ frames' = frames
    \/ Ended

\* Step::Hot: taken over, or declined.
Hot ==
    LET l == Current.fn IN
    /\ step = "hot"
    /\ counters' = [counters EXCEPT ![l] = Fired]
    /\ asked' = asked \cup {l}
    /\ Keep(l)
    /\ \/ /\ Resume(IF l = Top THEN "top" ELSE "routine")
          /\ step' = "run" /\ frames' = frames
       \/ VMRuns /\ Declined
    /\ UNCHANGED heapVars

\* Mutant: the callee's own frame is lent along with its callers'.
ReenterLendsOwn(fn, fresh) ==
    /\ mode' = "kept"
    /\ compiled' = <<Carried(fresh)>>
    /\ lent' = Len(frames) + 1
    /\ tables' = IF installed = fn THEN tables ELSE fn
    /\ installed' = fn

\* reenter: the VM's frames are lent and the call's own is handed over.
Reenter(fn, fresh) ==
    /\ mode' = "kept"
    /\ compiled' = <<Carried(fresh)>>
    /\ lent' = Len(frames)
    /\ tables' = IF installed = fn THEN tables ELSE fn
    /\ installed' = fn

CallKept(fn, base, argc, dst) ==
    /\ mode = "vm"
    /\ keeping[fn] = "code"
    /\ Calling(base, argc)
    /\ ~TooDeep
    /\ Reenter(fn, Called(fn, Current, base, argc, dst))
    /\ UNCHANGED <<heapVars, frames, step, tierVars>>

-----------------------------------------------------------------------------
(* Compiled code's side.  A register is a machine word, a text is in its      *)
(* cell, and a handle is written to both.                                     *)

CompiledRuns == mode # "vm" /\ Running /\ UNCHANGED tierVars

\* An instruction that stays inside compiled code.
Inside == CompiledRuns /\ UNCHANGED <<entryVars, frames, step>>

Innermost == compiled[Len(compiled)]
WithInnermost(f) == [compiled EXCEPT ![Len(compiled)] = f]

\* The frame compiled code was entered in.
Entry == IF mode = "routine" THEN Len(frames) ELSE 1

JLoad(dst, t) ==
    /\ Inside
    /\ compiled' = WithInnermost(PutSplit(Innermost, dst, t, Blank))
    /\ UNCHANGED heapVars

JMove(dst, src) ==
    /\ Inside
    /\ compiled' = WithInnermost(
           PutSplit(Innermost, dst, Innermost.ty[src], HeldSplit(Innermost, src)))
    /\ UNCHANGED heapVars

\* Mutant: the collector is shown compiled code's frames and not its callers'.
CompiledRootsOwn(fs) == UNION {CellRoots(fs[i]) : i \in DOMAIN fs}

\* sweep_if_asked: the frames that are lent, and every frame's cells.
CompiledRoots(fs) ==
    (UNION {FileRoots(frames[i]) : i \in 1 .. lent})
        \cup (UNION {CellRoots(fs[i]) : i \in DOMAIN fs})

\* NewArray and Filled: a sweep if the heap has asked for one, and then the
\* array.  A packed element is staged in the cell that shares its register's
\* number.
JNewArray(dst, item, len) ==
    LET staged == IF len > 0 /\ Innermost.ty[item] = "num"
                  THEN [Innermost EXCEPT !.cells[item] = Blank] ELSE Innermost
        roots == CompiledRoots(WithInnermost(staged))
        sweeps == Wants(Limit, since)
        h  == IF sweeps THEN SweptHeap(heap, roots) ELSE heap
        fr == IF sweeps THEN SweptFree(heap, free, roots) ELSE free
    IN /\ Inside
       /\ len > 0 => Innermost.ty[item] # "array"
       /\ MadeIn(h, fr, IF sweeps THEN 0 ELSE since, len)
       /\ kept' = IF sweeps THEN TotalBytes(h) ELSE kept
       /\ compiled' = WithInnermost(PutSplit(staged, dst, "array", NewHandle(h, fr)))

\* emit_call and emit_routine: a template frame, texts unstaged into its cells,
\* machine arguments into its registers and handles mirrored.
JEntered(fn, base, argc, dst) ==
    LET fresh == Fresh(fn, dst)
        ty == Passed(fresh.ty, Innermost.ty, base, argc)
        held == Passed(fresh.raw, [r \in Regs |-> HeldSplit(Innermost, r)], base, argc)
    IN [fresh EXCEPT !.ty    = ty,
                     !.raw   = [r \in Regs |-> IF ty[r] = "text" THEN @[r] ELSE held[r]],
                     !.cells = [r \in Regs |-> IF ty[r] = "num" THEN @[r] ELSE held[r]]]

\* Mutant: the depth of FRAMES alone.
JTooDeepOwn == Len(compiled) + 1 > DepthLimit

\* guard_depth, asked once the frame is there.
JTooDeep == lent + Len(compiled) + 1 > DepthLimit

JCall(fn, base, argc, dst) ==
    /\ Inside
    /\ Fits(base, argc)
    /\ ~JTooDeep
    /\ compiled' = Append(compiled, JEntered(fn, base, argc, dst))
    /\ UNCHANGED heapVars

\* What emit_call does with an answer: a text is taken into the cell, anything
\* else is stored in the register.
JAnswered(f, r, t, v) ==
    [f EXCEPT !.ty[r] = t,
              !.raw[r]   = IF t = "text" THEN @ ELSE v,
              !.cells[r] = IF t = "text" THEN v ELSE @]

JReturn(src) ==
    LET t == Innermost.ty[src]
        under == Front(compiled)
    IN /\ Inside
       /\ Len(compiled) > Entry
       /\ t = "array" => CompiledArrayCalls
       /\ compiled' = [under EXCEPT ![Len(under)] =
                           JAnswered(@, Innermost.dst, t, HeldSplit(Innermost, src))]
       /\ UNCHANGED heapVars

JReturnNothing ==
    /\ Inside
    /\ Len(compiled) > Entry
    /\ compiled' = Front(compiled)
    /\ UNCHANGED heapVars

\* Mutant: nothing is retired on the way back.
Back2VMUnretired(became) ==
    /\ CompiledRuns
    /\ Len(compiled) = Entry
    /\ mode' = "vm" /\ compiled' = <<>>
    /\ frames' = became
    /\ UNCHANGED <<heapVars, step, lent, moduleVars>>

\* A return out of the frame compiled code was entered in, with the answer in
\* some register or without one.  What is left of FRAMES is read by nobody
\* before the next handover replaces it.
Back2VM(became) ==
    /\ CompiledRuns
    /\ Len(compiled) = Entry
    /\ mode' = "vm" /\ lent' = 0 /\ compiled' = <<>>
    /\ frames' = became
    /\ UNCHANGED <<heapVars, step, moduleVars>>

\* Taken::Returned: the VM pops the frame that was taken over.
RoutineReturns ==
    /\ mode = "routine"
    /\ \/ \E src \in Regs : Back2VM(Answered(Innermost.ty[src], HeldSplit(Innermost, src)))
       \/ Back2VM(Front(frames))

\* The end of a kept call: its frame was never pushed.
KeptReturns ==
    /\ mode = "kept"
    /\ \/ \E src \in Regs :
            Back2VM(WithCurrent(Put(Current, Innermost.dst, Innermost.ty[src],
                                    HeldSplit(Innermost, src))))
       \/ Back2VM(frames)

\* The end of the program, or a fault, which every open call carries out: a
\* lent frame is given back all the same.
Stops ==
    /\ Ended
    /\ lent' = 0 /\ compiled' = <<>>
    /\ UNCHANGED <<heapVars, mode, moduleVars>>

JStop == CompiledRuns /\ Stops

JCallTooDeep == CompiledRuns /\ JTooDeep /\ Stops

-----------------------------------------------------------------------------
CompiledInstruction ==
    \/ \E dst \in Regs, t \in Scalars : JLoad(dst, t)
    \/ \E dst, src \in Regs : JMove(dst, src)
    \/ \E dst, item \in Regs, len \in 0 .. MaxLen : JNewArray(dst, item, len)
    \/ \E fn \in Funcs, base, dst \in Regs, argc \in Args : JCall(fn, base, argc, dst)
    \/ \E src \in Regs : JReturn(src)
    \/ JReturnNothing
    \/ RoutineReturns
    \/ KeptReturns
    \/ JStop
    \/ JCallTooDeep

TNext ==
    \/ VMInstruction
    \/ \E fn \in Funcs, base, dst \in Regs, argc \in Args :
         CallInterpreted(fn, base, argc, dst) \/ CallKept(fn, base, argc, dst)
    \/ Back
    \/ Hot
    \/ CompiledInstruction

TSpec == TInit /\ [][TNext]_tvars

-----------------------------------------------------------------------------
TTypeOK ==
    /\ heap \in Seq([of : {0}, store : Seq({Blank}), id : Nat])
    /\ free \in Seq(1 .. Len(heap))
    /\ step \in {"run", "collect", "hot", "stopped"}
    /\ mode \in {"vm", "whole", "top", "routine", "kept"}
    /\ lent \in 0 .. Len(frames)
    /\ counters \in [Loops -> 0 .. Fired]
    /\ keeping \in [Funcs -> {"unasked", "code", "refused"}]
    /\ {tables, installed} \subseteq Funcs \cup {OneShot, NoModule}

\* The VM's frames something will go back to: all of them while it runs or has
\* lent them; all but the one taken over while a routine's loop is elsewhere.
Waiting ==
    IF mode \in {"vm", "kept"} THEN DOMAIN frames
    ELSE IF mode = "routine" THEN 1 .. Len(frames) - 1 ELSE {}

\* Every handle in a register that code may still read -- the VM's, or one
\* waiting for compiled code to come back, or compiled code's own -- names the
\* array it was made for.  The roots are somebody else's copy of the registers
\* on every one of these paths.
HandlesGood ==
    /\ \A i \in Waiting, r \in Regs :
         frames[i].ty[r] = "array" => Good(heap, frames[i].raw[r])
    /\ \A i \in DOMAIN compiled, r \in Regs :
         compiled[i].ty[r] = "array" => Good(heap, compiled[i].raw[r])

\* A kept call runs on its own module's constants and templates, whatever was
\* installed by the handovers since it last ran.
TablesMatch ==
    /\ mode = "kept" /\ Running => tables = compiled[1].fn
    /\ mode \in {"whole", "top", "routine"} => tables = OneShot

\* How many calls are open, whoever runs them.  (What is left of the VM's frames
\* after they were copied is not.)
Open == Len(compiled) + IF mode \in {"vm", "kept"} THEN Len(frames) ELSE 0

\* No mixture of interpreted, resumed and kept calls goes deeper than the VM
\* alone would let it.
NoDeeper == Open <= DepthLimit + 1

\* Frames are lent while a kept call runs, all of them, and never otherwise: no
\* borrowed pointer outlives the call it was taken for.
LentWhileKept ==
    lent = IF mode = "kept" /\ Running THEN Len(frames) ELSE 0

\* A loop is offered to the tier at most once, however many activations go round
\* it and whatever the answer was.
OfferedOnce == step = "hot" => Current.fn \notin asked

=============================================================================
