---------------------------- MODULE TieredProofs ----------------------------
(***************************************************************************)
(* Proofs about Tiered: the types; how deep the mixture of engines goes,   *)
(* whose frames are lent, whose tables are installed and how often a loop  *)
(* is offered, for every program; and that every handle code may still     *)
(* read is good, for programs in which compiled code calls no routine that *)
(* answers an array.                                                       *)
(***************************************************************************)
EXTENDS Tiered, VMProofs

-----------------------------------------------------------------------------
(* The inductive invariant, part by part. *)

\* The two stacks.
StacksInv ==
    /\ frames \in Seq(Frame) /\ compiled \in Seq(Frame)
    /\ frames = <<>> <=> step = "stopped"
    /\ frames # <<>> => frames[1].fn = Top
    /\ compiled = <<>> <=> mode = "vm" \/ step = "stopped"
    /\ mode = "routine" /\ step # "stopped" => Len(frames) > 1 /\ Len(compiled) >= Len(frames)

\* Who runs, what is lent to it and whose tables it runs on.
ModeInv ==
    /\ step \in {"run", "collect", "hot", "stopped"}
    /\ mode \in {"vm", "whole", "top", "routine", "kept"}
    /\ mode # "vm" => step \in {"run", "stopped"}
    /\ LentWhileKept
    /\ tables \in Funcs \cup {OneShot, NoModule} /\ installed \in Funcs \cup {NoModule}
    /\ installed # NoModule => tables = installed
    /\ TablesMatch

\* A loop that was asked about is past its threshold for good.
LoopInv ==
    /\ counters \in [Loops -> 0 .. Fired] /\ asked \subseteq Loops
    /\ keeping \in [Funcs -> {"unasked", "code", "refused"}]
    /\ \A l \in asked : counters[l] = Fired
    /\ step = "hot" => counters[Current.fn] = Threshold

ShapeInv == HeapInv /\ StacksInv /\ ModeInv /\ LoopInv /\ NoDeeper

\* What compiled code was handed of a routine's callers, it still has.
CarriedInv ==
    mode = "routine" /\ step # "stopped" =>
        \A i \in 1 .. Len(frames) - 1 : compiled[i] = Carried(frames[i])

\* The frames that code may still read are good.
GoodInv ==
    /\ \A i \in Waiting : frames[i] \in Frames(heap)
    /\ \A i \in DOMAIN compiled : compiled[i] \in SplitFrames(heap)

TInv == ShapeInv /\ CarriedInv /\ GoodInv

-----------------------------------------------------------------------------
(* Frames of compiled code. *)

\* A frame handed over is one, of the same routine.
LEMMA CarriedFrame ==
    ASSUME NEW f \in Frame
    PROVE  /\ Carried(f) \in Frame /\ Carried(f).fn = f.fn /\ Carried(f).dst = f.dst
           /\ Carried(f).ty = f.ty /\ Carried(f).raw = f.raw /\ Carried(f).cells = f.raw
BY DEF Carried, Frame

\* An answer in a register of one.
LEMMA JAnsweredFrame ==
    ASSUME NEW f \in Frame, NEW r \in Regs, NEW t \in Types, NEW v \in Value
    PROVE  /\ OnlyAt(JAnswered(f, r, t, v), f, r, t)
           /\ JAnswered(f, r, t, v).raw[r] = IF t = "text" THEN f.raw[r] ELSE v
           /\ JAnswered(f, r, t, v).cells[r] = IF t = "text" THEN v ELSE f.cells[r]
<1> DEFINE x == IF t = "text" THEN f.raw[r] ELSE v
           y == IF t = "text" THEN v ELSE f.cells[r]
<1>1. x \in Value /\ y \in Value
  BY FrameFields
<1>2. JAnswered(f, r, t, v) = Patched(f, r, t, x, y)
  BY DEF JAnswered, Patched, Frame
<1> HIDE DEF x, y
<1>3. OnlyAt(JAnswered(f, r, t, v), f, r, t)
      /\ JAnswered(f, r, t, v).raw[r] = x /\ JAnswered(f, r, t, v).cells[r] = y
  BY <1>1, <1>2, PatchedFrame
<1> QED  BY <1>3 DEF x, y

\* The frame of a call from compiled code: each register is a fresh frame's, or has
\* what an argument's register holds, in the word, the cell or both.
LEMMA JEnteredFrame ==
    ASSUME NEW fn \in Funcs, NEW base \in Regs, NEW argc, Fits(base, argc),
           NEW dst \in Regs, Innermost \in Frame
    PROVE  LET g == JEntered(fn, base, argc, dst) IN
           /\ g \in Frame /\ g.fn = fn /\ g.dst = dst
           /\ \A r \in Regs :
                \/ g.ty[r] = "num" /\ g.raw[r] = Blank /\ g.cells[r] = Blank
                \/ \E q \in Regs :
                     /\ g.ty[r] = Innermost.ty[q]
                     /\ g.raw[r] = IF g.ty[r] = "text" THEN Blank ELSE HeldSplit(Innermost, q)
                     /\ g.cells[r] = IF g.ty[r] = "num" THEN Blank ELSE HeldSplit(Innermost, q)
<1> DEFINE e == Fresh(fn, dst)
           g == JEntered(fn, base, argc, dst)
           from == [r \in Regs |-> HeldSplit(Innermost, r)]
           ty == Passed(e.ty, Innermost.ty, base, argc)
           held == Passed(e.raw, from, base, argc)
           raw == [r \in Regs |-> IF ty[r] = "text" THEN e.raw[r] ELSE held[r]]
           cells == [r \in Regs |-> IF ty[r] = "num" THEN e.cells[r] ELSE held[r]]
<1>1. /\ e \in Frame /\ e.dst = dst /\ e.fn = fn
      /\ \A r \in Regs : e.ty[r] = "num" /\ e.raw[r] = Blank /\ e.cells[r] = Blank
  BY FreshFrame DEF Fresh
<1>2. \A r \in 1 .. argc : base + r - 1 \in Regs
  BY DEF Fits
<1>3. g = [e EXCEPT !.ty = ty, !.raw = raw, !.cells = cells]
  BY <1>1 DEF JEntered, Frame
<1> HIDE DEF e, g
<1>4. \A r \in Regs : /\ Innermost.ty[r] \in Types /\ HeldSplit(Innermost, r) \in Value
                      /\ from[r] = HeldSplit(Innermost, r)
  BY FrameFields
<1> HIDE DEF from
<1>5. /\ ty \in [Regs -> Types]
      /\ \A r \in Regs : ty[r] = IF r \in 1 .. argc THEN Innermost.ty[base + r - 1] ELSE "num"
  BY <1>1, <1>2, <1>4 DEF Passed, Types
<1>6. /\ held \in [Regs -> Value]
      /\ \A r \in Regs : held[r] = IF r \in 1 .. argc
                                   THEN HeldSplit(Innermost, base + r - 1) ELSE Blank
  BY <1>1, <1>2, <1>4, BlankFits DEF Passed
<1> HIDE DEF ty, held
<1>7. /\ raw \in [Regs -> Value] /\ cells \in [Regs -> Value]
      /\ \A r \in Regs : /\ raw[r] = IF ty[r] = "text" THEN Blank ELSE held[r]
                         /\ cells[r] = IF ty[r] = "num" THEN Blank ELSE held[r]
  BY <1>1, <1>6, BlankFits
<1> HIDE DEF raw, cells
<1>8. /\ g \in Frame /\ g.fn = fn /\ g.dst = dst
      /\ g.ty = ty /\ g.raw = raw /\ g.cells = cells
  BY <1>1, <1>3, <1>5, <1>7 DEF Frame
<1>9. ASSUME NEW r \in Regs
      PROVE  \/ g.ty[r] = "num" /\ g.raw[r] = Blank /\ g.cells[r] = Blank
             \/ \E q \in Regs :
                  /\ g.ty[r] = Innermost.ty[q]
                  /\ g.raw[r] = IF g.ty[r] = "text" THEN Blank ELSE HeldSplit(Innermost, q)
                  /\ g.cells[r] = IF g.ty[r] = "num" THEN Blank ELSE HeldSplit(Innermost, q)
  <2>1. CASE r \in 1 .. argc
    <3>1. base + r - 1 \in Regs
      BY <1>2, <2>1
    <3> QED  BY <1>5, <1>6, <1>7, <1>8, <2>1, <3>1
  <2>2. CASE r \notin 1 .. argc
    BY <1>5, <1>6, <1>7, <1>8, <2>2
  <2> QED  BY <2>1, <2>2
<1> QED  BY <1>8, <1>9 DEF g

-----------------------------------------------------------------------------
(* The shape of the VM's side. *)

\* The frames of a VM that a step or an exit of compiled code leaves.
StackShape(fs) ==
    fs \in Seq(Frame) /\ fs # <<>> /\ fs[1].fn = Top

\* A frame put in the place of the innermost, of the same routine.
LEMMA ShapeReplaced ==
    ASSUME NEW fs, StackShape(fs), NEW g \in Frame, g.fn = fs[Len(fs)].fn
    PROVE  StackShape(Replaced(fs, g)) /\ Len(Replaced(fs, g)) = Len(fs)
<1>1. fs \in Seq(Frame) /\ fs # <<>> /\ fs[1].fn = Top
  BY DEF StackShape
<1>2. Len(fs) \in Nat \ {0} /\ 1 \in DOMAIN fs
  BY <1>1, LastOf
<1>3. /\ Replaced(fs, g) \in Seq(Frame) /\ Replaced(fs, g) # <<>>
      /\ Len(Replaced(fs, g)) = Len(fs)
      /\ Replaced(fs, g)[Len(fs)] = g
      /\ \A i \in DOMAIN fs : i # Len(fs) => Replaced(fs, g)[i] = fs[i]
  BY <1>1, LastReplaced
<1> QED  BY <1>1, <1>2, <1>3 DEF StackShape

\* One frame more,
LEMMA ShapeAdded ==
    ASSUME NEW fs, StackShape(fs), NEW g \in Frame
    PROVE  StackShape(Append(fs, g)) /\ Len(Append(fs, g)) = Len(fs) + 1
<1>1. fs \in Seq(Frame) /\ fs # <<>> /\ fs[1].fn = Top
  BY DEF StackShape
<1>2. 1 \in DOMAIN fs
  BY <1>1, LastOf
<1> QED  BY <1>1, <1>2, LastAdded DEF StackShape

\* and one less.
LEMMA ShapeFront ==
    ASSUME NEW fs, StackShape(fs), Len(fs) > 1
    PROVE  StackShape(Front(fs)) /\ Len(Front(fs)) = Len(fs) - 1
<1>1. fs \in Seq(Frame) /\ fs[1].fn = Top
  BY DEF StackShape
<1>2. /\ Front(fs) \in Seq(Frame) /\ Front(fs) # <<>>
      /\ Len(fs) \in Nat /\ Len(Front(fs)) = Len(fs) - 1
      /\ \A i \in 1 .. Len(fs) - 1 : Front(fs)[i] = fs[i]
  BY <1>1, FrontOf
<1>3. 1 \in 1 .. Len(fs) - 1
  BY <1>2
<1> QED  BY <1>1, <1>2, <1>3 DEF StackShape

\* A value of any kind put in a register of a boxed frame,
LEMMA PutShape ==
    ASSUME NEW f \in Frame, NEW r \in Regs, NEW t \in Types, NEW v \in Value
    PROVE  Put(f, r, t, v) \in Frame /\ Put(f, r, t, v).fn = f.fn
BY BoxedPut, TieredAssumption DEF Put, TieredAssumption, OnlyAt

\* and in the innermost frame of the VM's.
LEMMA CurrentShape ==
    ASSUME StackShape(frames)
    PROVE  /\ Current \in Frame
           /\ \A r \in Regs, t \in Types, v \in Value :
                /\ StackShape(WithCurrent(Put(Current, r, t, v)))
                /\ Len(WithCurrent(Put(Current, r, t, v))) = Len(frames)
<1>1. Current \in Frame
  BY LastOf DEF StackShape, Current
<1>2. ASSUME NEW r \in Regs, NEW t \in Types, NEW v \in Value
      PROVE  /\ StackShape(WithCurrent(Put(Current, r, t, v)))
             /\ Len(WithCurrent(Put(Current, r, t, v))) = Len(frames)
  <2> DEFINE g == Put(Current, r, t, v)
  <2>1. g \in Frame /\ g.fn = frames[Len(frames)].fn
    BY <1>1, PutShape DEF Current
  <2> HIDE DEF g
  <2>2. WithCurrent(g) = Replaced(frames, g)
    BY DEF WithCurrent, Replaced
  <2> QED  BY <2>1, <2>2, ShapeReplaced DEF g
<1> QED  BY <1>1, <1>2

\* An answer to the frame underneath.
LEMMA AnsweredShape ==
    ASSUME StackShape(frames), Len(frames) > 1, NEW t \in Types, NEW v \in Value
    PROVE  StackShape(Answered(t, v)) /\ Len(Answered(t, v)) = Len(frames) - 1
<1> DEFINE under == Front(frames)
           b == under[Len(under)]
           g == Put(b, Current.dst, t, v)
<1>1. StackShape(under) /\ Len(under) = Len(frames) - 1
  BY ShapeFront
<1>2. Current.dst \in Regs
  BY CurrentShape DEF Frame
<1>3. Answered(t, v) = Replaced(under, g)
  BY Zenon DEF Answered, Replaced
<1> HIDE DEF under
<1>4. b \in Frame
  BY <1>1, LastOf DEF StackShape
<1>5. g \in Frame /\ g.fn = under[Len(under)].fn
  <2> HIDE DEF b
  <2>1. g \in Frame /\ g.fn = b.fn
    BY <1>2, <1>4, PutShape
  <2> QED  BY <2>1 DEF b
<1> HIDE DEF g
<1> QED  BY <1>1, <1>3, <1>5, ShapeReplaced

\* What the VM's instructions leave: the program over, or a stack no deeper.
LEMMA InstructionShape ==
    ASSUME HeapInv, StackShape(frames), Instruction
    PROVE  /\ HeapInv'
           /\ \/ frames' = <<>> /\ step' = "stopped"
              \/ /\ StackShape(frames') /\ Len(frames') \in Nat /\ Len(frames') <= Len(frames)
                 /\ step' \in {"run", "collect"}
<1> DEFINE Over == frames' = <<>> /\ step' = "stopped"
           On == /\ StackShape(frames') /\ Len(frames') \in Nat /\ Len(frames') <= Len(frames)
                 /\ step' \in {"run", "collect"}
<1>1. UNCHANGED heapVars => HeapInv'
  BY DEF heapVars, HeapInv
<1>2. Ended => Over
  BY DEF Ended
<1>3. Len(frames) \in Nat
  BY DEF StackShape
<1>4. ASSUME NEW r \in Regs, NEW t \in Types, NEW v \in Value, step' \in {"run", "collect"},
             frames' = WithCurrent(Put(Current, r, t, v))
      PROVE  On
  BY <1>3, <1>4, CurrentShape
<1>5. Current \in Frame /\ Blank \in Value
  BY CurrentShape, BlankFits
<1>6. CASE \E dst \in Regs, t \in Scalars : Load(dst, t)
  <2>1. PICK dst \in Regs, t \in Scalars : Load(dst, t)
    BY <1>6
  <2>2. t \in Types /\ step' = "run"
    BY <2>1, VMAssumption DEF VMAssumption, Types, Load, Running
  <2>3. On
    BY <1>4, <1>5, <2>1, <2>2 DEF Load
  <2> QED  BY <1>1, <2>1, <2>3 DEF Load
<1>7. CASE \E dst, src \in Regs : Move(dst, src)
  <2>1. PICK dst \in Regs, src \in Regs : Move(dst, src)
    BY <1>7
  <2>2. Current.ty[src] \in Types /\ Held(Current, src) \in Value
    BY <1>5, FrameFields
  <2>3. On
    BY <1>4, <2>1, <2>2 DEF Move, Running
  <2> QED  BY <1>1, <2>1, <2>3 DEF Move
<1>8. CASE \E dst \in Regs, len \in 0 .. MaxLen : NewArray(dst, len)
  <2>1. PICK dst \in Regs, len \in 0 .. MaxLen : NewArray(dst, len)
    BY <1>8
  <2>2. /\ heap' \in Seq(Slots) /\ FreeSound(heap', free')
        /\ made' \in Nat /\ since' \in 0 .. UsizeMax
        /\ NewHandle(heap, free) \in Value
    <3>1. len \in Nat /\ MadeIn(heap, free, since, len)
      BY <2>1, VMAssumption DEF VMAssumption, NewArray
    <3> QED  BY <3>1, Made DEF HeapInv
  <2>3. HeapInv'
    BY <2>1, <2>2 DEF HeapInv, NewArray
  <2>4. step' \in {"run", "collect"} /\ "array" \in Types
    BY <2>1 DEF NewArray, Types
  <2>5. On
    BY <1>4, <2>1, <2>2, <2>4 DEF NewArray
  <2> QED  BY <2>3, <2>5
<1>9. CASE \E dst, src \in Regs, k \in 1 .. MaxLen + 1 : At(dst, src, k)
  <2>1. PICK dst \in Regs, src \in Regs, k \in 1 .. MaxLen + 1 : At(dst, src, k)
    BY <1>9
  <2>2. UNCHANGED heapVars
    BY <2>1 DEF At
  <2>3. CASE frames' = WithCurrent(Put(Current, dst, "num", Blank)) /\ step' = "run"
    <3>1. "num" \in Types
      BY DEF Types
    <3> QED  BY <1>1, <1>4, <1>5, <2>2, <2>3, <3>1
  <2> QED  BY <1>1, <1>2, <2>1, <2>2, <2>3 DEF At
<1>10. CASE Collecting
  <2>1. /\ heap' = SweptHeap(heap, Roots) /\ free' = SweptFree(heap, free, Roots)
        /\ since' = 0 /\ kept' = TotalBytes(heap') /\ step' = "run"
        /\ made' = made /\ frames' = frames
    BY <1>10 DEF Collecting
  <2>2. heap' \in Seq(Slots) /\ FreeSound(heap', free')
    BY <2>1, Collected DEF HeapInv, Slots
  <2>3. TotalBytes(heap') \in Nat
    BY <2>2, BytesNatural DEF Slots
  <2>4. HeapInv'
    BY <2>1, <2>2, <2>3, UsizeMaxAssumption DEF HeapInv
  <2> QED  BY <1>3, <2>1, <2>4
<1>11. CASE CallTooDeep \/ Halt
  BY <1>1, <1>2, <1>11 DEF CallTooDeep, Halt
<1>12. CASE \E src \in Regs : Return(src)
  <2>1. PICK src \in Regs : Return(src)
    BY <1>12
  <2>2. Current.ty[src] \in Types /\ Held(Current, src) \in Value
    BY <1>5, FrameFields
  <2>3. On
    BY <1>3, <2>1, <2>2, AnsweredShape DEF Return, Running
  <2> QED  BY <1>1, <2>1, <2>3 DEF Return
<1>13. CASE ReturnNothing
  <2>1. On
    BY <1>3, <1>13, ShapeFront DEF ReturnNothing, Running
  <2> QED  BY <1>1, <1>13, <2>1 DEF ReturnNothing
<1> QED  BY <1>6, <1>7, <1>8, <1>9, <1>10, <1>11, <1>12, <1>13 DEF Instruction

-----------------------------------------------------------------------------
(* The shape of the whole, kept by every step of the VM's side. *)

\* While the VM runs, it has a frame and nobody else has.
LEMMA VMHas ==
    ASSUME ShapeInv, mode = "vm", step # "stopped"
    PROVE  /\ StackShape(frames) /\ Len(frames) \in Nat \ {0} /\ Len(frames) <= DepthLimit + 1
           /\ compiled = <<>> /\ lent = 0
<1>1. /\ frames \in Seq(Frame) /\ frames # <<>> /\ frames[1].fn = Top
      /\ compiled = <<>>
  BY DEF ShapeInv, StacksInv
<1>2. lent = 0
  BY DEF ShapeInv, ModeInv, LentWhileKept
<1>3. Len(frames) \in Nat \ {0}
  BY <1>1, LastOf
<1>4. Len(frames) <= DepthLimit + 1
  BY <1>1, <1>3 DEF ShapeInv, NoDeeper, Open
<1> QED  BY <1>1, <1>2, <1>3, <1>4 DEF StackShape

\* A step of the VM on its own frames.
LEMMA VMStep ==
    ASSUME ShapeInv, HeapInv', mode = "vm", UNCHANGED <<entryVars, compiled>>,
           step # "stopped", LoopInv',
           \/ frames' = <<>> /\ step' = "stopped"
           \/ /\ StackShape(frames') /\ Len(frames') \in Nat /\ Len(frames') <= DepthLimit + 1
              /\ step' \in {"run", "collect", "hot"}
    PROVE  ShapeInv'
<1>1. compiled = <<>> /\ lent = 0
  BY VMHas
<1>2. /\ mode' = "vm" /\ lent' = 0 /\ compiled' = <<>>
      /\ tables' = tables /\ installed' = installed
  BY <1>1 DEF entryVars, moduleVars
<1>3. StacksInv'
  <2>1. CASE frames' = <<>> /\ step' = "stopped"
    <3>1. frames' \in Seq(Frame) /\ compiled' \in Seq(Frame)
      BY <1>2, <2>1
    <3> QED  BY <1>2, <2>1, <3>1 DEF StacksInv
  <2>2. CASE StackShape(frames') /\ step' \in {"run", "collect", "hot"}
    <3>1. /\ frames' \in Seq(Frame) /\ frames' # <<>> /\ frames'[1].fn = Top
          /\ compiled' \in Seq(Frame) /\ step' # "stopped"
      BY <1>2, <2>2 DEF StackShape
    <3> QED  BY <1>2, <3>1 DEF StacksInv
  <2> QED  BY <2>1, <2>2
<1>4. ModeInv'
  BY <1>2 DEF ShapeInv, ModeInv, LentWhileKept, TablesMatch
<1>5. NoDeeper'
  <2>1. Len(frames') \in Nat /\ Len(frames') <= DepthLimit + 1
    BY VMAssumption DEF VMAssumption
  <2> QED  BY <1>2, <2>1 DEF NoDeeper, Open
<1> QED  BY <1>3, <1>4, <1>5 DEF ShapeInv

\* An instruction,
LEMMA VMInstructionShape == ShapeInv /\ VMInstruction => ShapeInv'
<1> SUFFICES ASSUME ShapeInv, VMInstruction  PROVE ShapeInv'
  OBVIOUS
<1>1. /\ mode = "vm" /\ UNCHANGED <<entryVars, compiled>> /\ Instruction
      /\ UNCHANGED tierVars
  BY DEF VMInstruction, VMRuns
<1>2. step \in {"run", "collect"}
  BY <1>1 DEF Instruction, Load, Move, NewArray, At, Collecting, CallTooDeep, Return,
     ReturnNothing, Halt, Running
<1>3. StackShape(frames) /\ Len(frames) \in Nat \ {0} /\ Len(frames) <= DepthLimit + 1
  BY <1>1, <1>2, VMHas
<1>4. /\ HeapInv'
      /\ \/ frames' = <<>> /\ step' = "stopped"
         \/ /\ StackShape(frames') /\ Len(frames') \in Nat /\ Len(frames') <= Len(frames)
            /\ step' \in {"run", "collect"}
  BY <1>1, <1>3, InstructionShape DEF ShapeInv
<1>5. LoopInv'
  BY <1>1, <1>4 DEF ShapeInv, LoopInv, tierVars, loopVars
<1>6. Len(frames') \in Nat /\ Len(frames') <= Len(frames) => Len(frames') <= DepthLimit + 1
  BY <1>3, VMAssumption DEF VMAssumption
<1> QED  BY <1>1, <1>2, <1>4, <1>5, <1>6, VMStep

\* a call it runs itself,
LEMMA CallInterpretedShape ==
    ASSUME ShapeInv, NEW fn \in Funcs, NEW base \in Regs, NEW dst \in Regs, NEW argc,
           CallInterpreted(fn, base, argc, dst)
    PROVE  ShapeInv'
<1> DEFINE g == Called(fn, Current, base, argc, dst)
<1>1. /\ mode = "vm" /\ UNCHANGED <<entryVars, compiled>> /\ UNCHANGED tierVars
      /\ Running /\ Fits(base, argc) /\ ~TooDeep
      /\ frames' = Append(frames, g) /\ UNCHANGED <<heapVars, step>>
  BY DEF CallInterpreted, VMRuns, Call, Calling
<1>2. StackShape(frames) /\ Len(frames) \in Nat \ {0}
  BY <1>1, VMHas DEF Running
<1>3. g \in Frame
  BY <1>1, <1>2, CurrentShape, CalledTakes
<1> HIDE DEF g
<1>4. StackShape(frames') /\ Len(frames') = Len(frames) + 1
  BY <1>1, <1>2, <1>3, ShapeAdded
<1>5. Len(frames') \in Nat /\ Len(frames') <= DepthLimit + 1
  BY <1>1, <1>2, <1>4, VMAssumption DEF VMAssumption, TooDeep
<1>6. HeapInv' /\ LoopInv'
  BY <1>1 DEF ShapeInv, HeapInv, LoopInv, tierVars, loopVars, heapVars, Running
<1> QED  BY <1>1, <1>4, <1>5, <1>6, VMStep DEF Running

\* and a time round a loop.
LEMMA BackShape == ShapeInv /\ Back => ShapeInv'
<1> SUFFICES ASSUME ShapeInv, Back  PROVE ShapeInv'
  OBVIOUS
<1> DEFINE l == Current.fn
<1>1. /\ mode = "vm" /\ UNCHANGED <<entryVars, compiled>> /\ Running
      /\ counters' = [counters EXCEPT ![l] = Hits(@)]
      /\ step' = IF Hits(counters[l]) = Threshold THEN "hot" ELSE "run"
      /\ UNCHANGED <<heapVars, frames, asked, keeping>>
  BY DEF Back, VMRuns
<1>2. StackShape(frames) /\ Len(frames) \in Nat \ {0} /\ Len(frames) <= DepthLimit + 1
  BY <1>1, VMHas DEF Running
<1>3. l \in Loops
  BY <1>2, CurrentShape DEF Frame, Loops
<1>4. Threshold \in Nat \ {0} /\ Fired = Threshold + 1
  BY TieredAssumption DEF TieredAssumption, Fired
<1>5. Current' = Current
  BY <1>1 DEF Current
<1> HIDE DEF l
<1>6. LoopInv'
  <2>1. /\ counters \in [Loops -> 0 .. Fired] /\ asked \subseteq Loops
        /\ \A k \in asked : counters[k] = Fired
    BY DEF ShapeInv, LoopInv
  <2>2. counters' \in [Loops -> 0 .. Fired] /\ \A k \in asked : counters'[k] = Fired
    BY <1>1, <1>3, <1>4, <2>1 DEF Hits
  <2>3. step' = "hot" => counters'[l] = Threshold
    BY <1>1, <1>3, <1>4, <2>1
  <2> QED  BY <1>1, <1>5, <2>2, <2>3 DEF ShapeInv, LoopInv, l
<1>7. HeapInv'
  BY <1>1 DEF ShapeInv, HeapInv, heapVars
<1> QED  BY <1>1, <1>2, <1>6, <1>7, VMStep DEF Running

\* A loop that is offered is past its threshold from then on.
LEMMA OfferedLoop == ShapeInv /\ Hot => LoopInv'
<1> SUFFICES ASSUME ShapeInv, Hot  PROVE LoopInv'
  OBVIOUS
<1> DEFINE l == Current.fn
<1>1. /\ step = "hot" /\ Keep(l)
      /\ counters' = [counters EXCEPT ![l] = Fired] /\ asked' = asked \cup {l}
  BY DEF Hot
<1>2. mode = "vm"
  BY <1>1 DEF ShapeInv, ModeInv
<1>3. StackShape(frames)
  BY <1>1, <1>2, VMHas
<1>4. l \in Loops
  BY <1>3, CurrentShape DEF Frame, Loops
<1>5. step' # "hot"
  BY DEF Hot, Declined, Ended
<1>6. Threshold \in Nat \ {0} /\ Fired = Threshold + 1
  BY TieredAssumption DEF TieredAssumption, Fired
<1> HIDE DEF l
<1>7. /\ counters \in [Loops -> 0 .. Fired] /\ asked \subseteq Loops
      /\ \A k \in asked : counters[k] = Fired
      /\ keeping \in [Funcs -> {"unasked", "code", "refused"}]
  BY DEF ShapeInv, LoopInv
<1>8. /\ counters' \in [Loops -> 0 .. Fired] /\ asked' \subseteq Loops
      /\ \A k \in asked' : counters'[k] = Fired
  BY <1>1, <1>4, <1>6, <1>7
<1>9. keeping' \in [Funcs -> {"unasked", "code", "refused"}]
  BY <1>1, <1>7 DEF Keep
<1> QED  BY <1>5, <1>8, <1>9 DEF LoopInv

\* Every frame handed over as one of cells.
LEMMA CarriedStack ==
    ASSUME NEW fs \in Seq(Frame), fs # <<>>
    PROVE  LET cs == [i \in DOMAIN fs |-> Carried(fs[i])] IN
           /\ cs \in Seq(Frame) /\ cs # <<>> /\ Len(cs) = Len(fs) /\ Len(cs) \in Nat \ {0}
           /\ \A i \in 1 .. Len(fs) : cs[i] = Carried(fs[i])
<1> DEFINE cs == [i \in DOMAIN fs |-> Carried(fs[i])]
<1>1. Len(fs) \in Nat \ {0} /\ DOMAIN fs = 1 .. Len(fs) /\ \A i \in DOMAIN fs : fs[i] \in Frame
  OBVIOUS
<1>2. \A i \in DOMAIN fs : Carried(fs[i]) \in Frame
  BY <1>1, CarriedFrame
<1>3. cs \in [1 .. Len(fs) -> Frame] /\ \A i \in 1 .. Len(fs) : cs[i] = Carried(fs[i])
  BY <1>1, <1>2
<1> HIDE DEF cs
<1>4. cs \in Seq(Frame) /\ Len(cs) = Len(fs)
  BY <1>1, <1>3
<1>5. cs # <<>>
  BY <1>1, <1>4
<1> QED  BY <1>1, <1>3, <1>4, <1>5 DEF cs

\* A loop taken over, or declined.
LEMMA HotShape == ShapeInv /\ Hot => ShapeInv'
<1> SUFFICES ASSUME ShapeInv, Hot  PROVE ShapeInv'
  OBVIOUS
<1> DEFINE l == Current.fn
           how == IF l = Top THEN "top" ELSE "routine"
<1>1. step = "hot" /\ mode = "vm" /\ UNCHANGED heapVars
  BY DEF Hot, ShapeInv, ModeInv
<1>2. /\ StackShape(frames) /\ Len(frames) \in Nat \ {0} /\ Len(frames) <= DepthLimit + 1
      /\ compiled = <<>> /\ lent = 0
  BY <1>1, VMHas
<1>3. HeapInv'
  BY <1>1 DEF ShapeInv, HeapInv, heapVars
<1>4. LoopInv'
  BY OfferedLoop
<1>5. CASE VMRuns /\ Declined
  <2>1. UNCHANGED <<entryVars, compiled>>
    BY <1>5 DEF VMRuns
  <2>2. \/ frames' = <<>> /\ step' = "stopped"
        \/ StackShape(frames') /\ frames' = frames /\ step' = "run"
    BY <1>2, <1>5 DEF Declined, Ended
  <2> QED  BY <1>1, <1>2, <1>3, <1>4, <2>1, <2>2, VMStep
<1>6. CASE Resume(how) /\ step' = "run" /\ frames' = frames
  <2>1. frames \in Seq(Frame) /\ frames # <<>> /\ frames[1].fn = Top
    BY <1>2 DEF StackShape
  <2>2. /\ mode' = how /\ lent' = 0 /\ tables' = OneShot /\ installed' = NoModule
        /\ compiled' = [i \in DOMAIN frames |-> Carried(frames[i])]
    BY <1>6 DEF Resume
  <2>3. /\ compiled' \in Seq(Frame) /\ compiled' # <<>> /\ Len(compiled') = Len(frames)
        /\ Len(compiled') \in Nat \ {0}
    BY <2>1, <2>2, CarriedStack
  <2>4. how = "routine" => Len(frames) > 1
    BY <1>2, <2>1 DEF Current
  <2>5. how \in {"top", "routine"}
    OBVIOUS
  <2> HIDE DEF how
  <2>6. StacksInv'
    <3>1. /\ frames' \in Seq(Frame) /\ frames' # <<>> /\ frames'[1].fn = Top
          /\ Len(frames') = Len(frames) /\ step' # "stopped" /\ mode' # "vm"
      BY <1>6, <2>1, <2>2, <2>5
    <3>2. mode' = "routine" => Len(frames') > 1 /\ Len(compiled') >= Len(frames')
      BY <1>2, <2>2, <2>3, <2>4, <3>1
    <3> QED  BY <2>3, <3>1, <3>2 DEF StacksInv
  <2>7. ModeInv'
    BY <1>6, <2>2, <2>5 DEF ModeInv, LentWhileKept, TablesMatch
  <2>8. NoDeeper'
    <3>1. Len(compiled') + 0 <= DepthLimit + 1
      BY <1>2, <2>3
    <3> QED  BY <2>2, <2>5, <3>1 DEF NoDeeper, Open
  <2> QED  BY <1>3, <1>4, <2>6, <2>7, <2>8 DEF ShapeInv
<1> QED  BY <1>5, <1>6 DEF Hot

\* A call of a routine that is kept: its frame alone, on all of the VM's.
LEMMA CallKeptShape ==
    ASSUME ShapeInv, NEW fn \in Funcs, NEW base \in Regs, NEW dst \in Regs, NEW argc,
           CallKept(fn, base, argc, dst)
    PROVE  ShapeInv'
<1> DEFINE g == Called(fn, Current, base, argc, dst)
<1>1. /\ mode = "vm" /\ Running /\ Fits(base, argc) /\ ~TooDeep /\ Reenter(fn, g)
      /\ UNCHANGED <<heapVars, frames, step, tierVars>>
  BY DEF CallKept, Calling
<1>2. StackShape(frames) /\ Len(frames) \in Nat \ {0}
  BY <1>1, VMHas DEF Running
<1>3. g \in Frame /\ g.fn = fn
  BY <1>1, <1>2, CurrentShape, CalledTakes
<1> HIDE DEF g
<1>4. /\ mode' = "kept" /\ lent' = Len(frames) /\ installed' = fn
      /\ tables' = IF installed = fn THEN tables ELSE fn
      /\ compiled' = <<Carried(g)>>
  BY <1>1 DEF Reenter
<1>5. Carried(g) \in Frame /\ Carried(g).fn = fn
  BY <1>3, CarriedFrame
<1>6. /\ compiled' \in Seq(Frame) /\ compiled' # <<>> /\ Len(compiled') = 1
      /\ compiled'[1] = Carried(g)
  BY <1>4, <1>5
<1>7. HeapInv' /\ LoopInv'
  BY <1>1 DEF ShapeInv, HeapInv, LoopInv, tierVars, loopVars, heapVars, Running
<1>8. StacksInv'
  <2>1. frames \in Seq(Frame) /\ frames # <<>> /\ frames[1].fn = Top
    BY <1>2 DEF StackShape
  <2> QED  BY <1>1, <1>4, <1>6, <2>1 DEF StacksInv, Running
<1>9. fn \notin {OneShot, NoModule} /\ tables' = fn
  BY <1>4, TieredAssumption DEF TieredAssumption, ShapeInv, ModeInv
<1>10. ModeInv'
  BY <1>1, <1>4, <1>5, <1>6, <1>9 DEF ModeInv, LentWhileKept, TablesMatch, Running
<1>11. NoDeeper'
  BY <1>1, <1>2, <1>4, <1>6, VMAssumption DEF VMAssumption, NoDeeper, Open, TooDeep
<1> QED  BY <1>7, <1>8, <1>10, <1>11 DEF ShapeInv

-----------------------------------------------------------------------------
(* The shape of the whole, kept by every step of compiled code. *)

\* How deep compiled code may still go.
Beneath == IF mode = "kept" THEN Len(frames) ELSE 0

\* While compiled code runs, it has a frame, and the VM's are still there.
LEMMA CompiledHas ==
    ASSUME ShapeInv, CompiledRuns
    PROVE  /\ compiled \in Seq(Frame) /\ compiled # <<>> /\ Len(compiled) \in Nat \ {0}
           /\ Innermost \in Frame /\ 1 \in DOMAIN compiled
           /\ StackShape(frames) /\ Len(frames) \in Nat \ {0}
           /\ lent = Beneath /\ Beneath \in Nat /\ Len(compiled) + Beneath <= DepthLimit + 1
           /\ mode = "routine" => Len(frames) > 1 /\ Len(compiled) >= Len(frames)
           /\ step = "run"
<1>1. mode # "vm" /\ step = "run"
  BY DEF CompiledRuns, Running
<1>2. /\ compiled \in Seq(Frame) /\ compiled # <<>>
      /\ frames \in Seq(Frame) /\ frames # <<>> /\ frames[1].fn = Top
      /\ mode = "routine" => Len(frames) > 1 /\ Len(compiled) >= Len(frames)
  BY <1>1 DEF ShapeInv, StacksInv
<1>3. Len(compiled) \in Nat \ {0} /\ Len(frames) \in Nat \ {0} /\ Innermost \in Frame
  BY <1>2, LastOf DEF Innermost
<1>4. 1 \in DOMAIN compiled
  BY <1>2
<1>5. lent = Beneath /\ Beneath \in Nat
  BY <1>1, <1>3 DEF ShapeInv, ModeInv, LentWhileKept, Beneath, Running
<1>6. Len(compiled) + Beneath <= DepthLimit + 1
  BY <1>1 DEF ShapeInv, NoDeeper, Open, Beneath
<1> QED  BY <1>1, <1>2, <1>3, <1>4, <1>5, <1>6 DEF StackShape

\* A step that stays inside compiled code.
LEMMA InsideShape ==
    ASSUME ShapeInv, Inside, HeapInv', compiled' \in Seq(Frame), compiled' # <<>>,
           compiled'[1].fn = compiled[1].fn,
           mode = "routine" => Len(compiled') >= Len(frames),
           Len(compiled') + Beneath <= DepthLimit + 1
    PROVE  ShapeInv'
<1>1. /\ mode # "vm" /\ step = "run" /\ CompiledRuns
      /\ mode' = mode /\ lent' = lent /\ tables' = tables /\ installed' = installed
      /\ frames' = frames /\ step' = step /\ UNCHANGED tierVars
  BY DEF Inside, CompiledRuns, Running, entryVars, moduleVars
<1>2. StacksInv'
  BY <1>1 DEF ShapeInv, StacksInv
<1>3. ModeInv'
  BY <1>1 DEF ShapeInv, ModeInv, LentWhileKept, TablesMatch, Running
<1>4. LoopInv'
  BY <1>1 DEF ShapeInv, LoopInv, tierVars, loopVars, Current
<1>5. NoDeeper'
  <2>1. Len(compiled') + Beneath' <= DepthLimit + 1
    BY <1>1 DEF Beneath
  <2> QED  BY <1>1, <2>1 DEF NoDeeper, Open, Beneath
<1> QED  BY <1>2, <1>3, <1>4, <1>5 DEF ShapeInv

\* Another frame in the place of the innermost, of the same routine.
LEMMA InnermostShape ==
    ASSUME ShapeInv, Inside, HeapInv', NEW g \in Frame, g.fn = Innermost.fn,
           compiled' = WithInnermost(g)
    PROVE  ShapeInv'
<1>1. /\ compiled \in Seq(Frame) /\ compiled # <<>> /\ Len(compiled) \in Nat \ {0}
      /\ Len(compiled) + Beneath <= DepthLimit + 1 /\ 1 \in DOMAIN compiled
      /\ mode = "routine" => Len(compiled) >= Len(frames)
  BY CompiledHas DEF Inside
<1>2. compiled' = Replaced(compiled, g)
  BY DEF WithInnermost, Replaced
<1> DEFINE new == Replaced(compiled, g)
<1>3. /\ new \in Seq(Frame) /\ new # <<>> /\ Len(new) = Len(compiled)
      /\ new[Len(compiled)] = g
      /\ \A i \in DOMAIN compiled : i # Len(compiled) => new[i] = compiled[i]
  BY <1>1, LastReplaced
<1> HIDE DEF new
<1>4. new[1].fn = compiled[1].fn
  BY <1>1, <1>3 DEF Innermost
<1> QED  BY <1>1, <1>2, <1>3, <1>4, InsideShape DEF new

\* What compiled code sweeps with when it makes an array: the element it makes it of
\* is in its cell by then, if it is a word.
Staged(item, len) ==
    IF len > 0 /\ Innermost.ty[item] = "num"
    THEN [Innermost EXCEPT !.cells[item] = Blank] ELSE Innermost

StagedRoots(item, len) == CompiledRoots(WithInnermost(Staged(item, len)))

\* It is a frame of the same routine and of the same registers.
LEMMA StagedFrame ==
    ASSUME Innermost \in Frame, NEW item \in Regs, NEW len
    PROVE  LET g == Staged(item, len) IN
           /\ g \in Frame /\ g.fn = Innermost.fn /\ g.dst = Innermost.dst
           /\ g.ty = Innermost.ty /\ g.raw = Innermost.raw
           /\ \A r \in Regs : \/ g.cells[r] = Innermost.cells[r]
                              \/ r = item /\ g.ty[r] = "num" /\ g.cells[r] = Blank
<1>1. CASE len > 0 /\ Innermost.ty[item] = "num"
  <2> DEFINE cells == [Innermost.cells EXCEPT ![item] = Blank]
  <2>1. /\ cells \in [Regs -> Value] /\ cells[item] = Blank
        /\ \A r \in Regs : r # item => cells[r] = Innermost.cells[r]
    BY BlankFits DEF Frame
  <2>2. Staged(item, len) = [Innermost EXCEPT !.cells = cells]
    BY <1>1 DEF Staged, Frame
  <2> HIDE DEF cells
  <2> QED  BY <1>1, <2>1, <2>2 DEF Frame
<1>2. CASE ~(len > 0 /\ Innermost.ty[item] = "num")
  BY <1>2 DEF Staged
<1> QED  BY <1>1, <1>2

\* An array made by compiled code: the heap is sound after it, nothing the sweep was
\* shown has been lost, and the handle that is put away is good.
LEMMA JNewArrayStep ==
    ASSUME HeapInv, NEW dst, NEW item, NEW len \in Nat, JNewArray(dst, item, len)
    PROVE  /\ HeapInv'
           /\ \A v \in StagedRoots(item, len) : Good(heap, v) => Good(heap', v)
           /\ \E v \in Value :
                /\ Fit(heap', "array", v)
                /\ compiled' = WithInnermost(PutSplit(Staged(item, len), dst, "array", v))
<1> DEFINE roots == StagedRoots(item, len)
           sweeps == Wants(Limit, since)
           h  == IF sweeps THEN SweptHeap(heap, roots) ELSE heap
           fr == IF sweeps THEN SweptFree(heap, free, roots) ELSE free
           s  == IF sweeps THEN 0 ELSE since
           v  == NewHandle(h, fr)
           g  == PutSplit(Staged(item, len), dst, "array", v)
<1>1. /\ MadeIn(h, fr, s, len)
      /\ kept' = IF sweeps THEN TotalBytes(h) ELSE kept
      /\ compiled' = WithInnermost(g)
  BY DEF JNewArray, Staged, StagedRoots
<1>2. /\ heap \in Seq(Slots) /\ FreeSound(heap, free)
      /\ since \in 0 .. UsizeMax /\ made \in Nat /\ kept \in Nat
  BY DEF HeapInv
<1> HIDE DEF roots, g
<1>3. /\ h \in Seq(Slots) /\ FreeSound(h, fr)
      /\ \A w \in roots : Good(heap, w) => Good(h, w)
  <2>1. CASE sweeps
    BY <1>2, <2>1, Collected DEF Slots
  <2>2. CASE ~sweeps
    BY <1>2, <2>2
  <2> QED  BY <2>1, <2>2
<1>4. s \in 0 .. UsizeMax
  BY <1>2, UsizeMaxAssumption
<1> HIDE DEF sweeps, h, fr, s
<1>5. /\ heap' \in Seq(Slots) /\ FreeSound(heap', free')
      /\ made' \in Nat /\ since' \in 0 .. UsizeMax
      /\ \A w : Good(h, w) => Good(heap', w)
      /\ v \in Value /\ Fit(heap', "array", v)
  BY <1>1, <1>2, <1>3, <1>4, Made
<1>6. kept' \in Nat
  <2>1. TotalBytes(h) \in Nat
    BY <1>3, BytesNatural DEF Slots
  <2> QED  BY <1>1, <1>2, <2>1
<1>7. HeapInv'
  BY <1>5, <1>6 DEF HeapInv
<1> HIDE DEF v
<1>8. \E w \in Value :
        /\ Fit(heap', "array", w)
        /\ compiled' = WithInnermost(PutSplit(Staged(item, len), dst, "array", w))
  BY <1>1, <1>5 DEF g
<1>9. \A w \in roots : Good(heap, w) => Good(heap', w)
  BY <1>3, <1>5
<1> QED  BY <1>7, <1>8, <1>9 DEF roots

\* A number or a text loaded, and a value moved,
LEMMA JPutShape ==
    ASSUME ShapeInv, Inside, UNCHANGED heapVars,
           NEW r \in Regs, NEW t \in Types, NEW v \in Value,
           compiled' = WithInnermost(PutSplit(Innermost, r, t, v))
    PROVE  ShapeInv'
<1> DEFINE g == PutSplit(Innermost, r, t, v)
<1>1. Innermost \in Frame
  BY CompiledHas DEF Inside
<1>2. g \in Frame /\ g.fn = Innermost.fn
  BY <1>1, SplitPut DEF OnlyAt
<1>3. HeapInv'
  BY DEF ShapeInv, HeapInv, heapVars
<1> HIDE DEF g
<1> QED  BY <1>2, <1>3, InnermostShape DEF g

\* an array made,
LEMMA JNewArrayShape ==
    ASSUME ShapeInv, NEW dst \in Regs, NEW item \in Regs, NEW len \in Nat,
           JNewArray(dst, item, len)
    PROVE  ShapeInv'
<1>1. Inside
  BY DEF JNewArray
<1>2. HeapInv' /\ \E v \in Value :
        compiled' = WithInnermost(PutSplit(Staged(item, len), dst, "array", v))
  BY JNewArrayStep DEF ShapeInv
<1>3. PICK v \in Value : compiled' = WithInnermost(PutSplit(Staged(item, len), dst, "array", v))
  BY <1>2
<1> DEFINE f == Staged(item, len)
           g == PutSplit(f, dst, "array", v)
<1>4. Innermost \in Frame
  BY <1>1, CompiledHas DEF Inside
<1>5. f \in Frame /\ f.fn = Innermost.fn
  BY <1>4, StagedFrame
<1>6. "array" \in Types
  BY DEF Types
<1> HIDE DEF f
<1>7. g \in Frame /\ g.fn = Innermost.fn
  BY <1>5, <1>6, SplitPut DEF OnlyAt
<1>8. compiled' = WithInnermost(g)
  BY <1>3 DEF f
<1> HIDE DEF g
<1> QED  BY <1>1, <1>2, <1>7, <1>8, InnermostShape

\* a call,
LEMMA JCallShape ==
    ASSUME ShapeInv, NEW fn \in Funcs, NEW base \in Regs, NEW dst \in Regs, NEW argc,
           JCall(fn, base, argc, dst)
    PROVE  ShapeInv'
<1> DEFINE g == JEntered(fn, base, argc, dst)
           new == Append(compiled, g)
<1>1. /\ Inside /\ Fits(base, argc) /\ ~JTooDeep /\ compiled' = new /\ UNCHANGED heapVars
  BY DEF JCall
<1>2. /\ compiled \in Seq(Frame) /\ Innermost \in Frame /\ 1 \in DOMAIN compiled
      /\ Len(compiled) \in Nat \ {0} /\ Len(frames) \in Nat
      /\ lent = Beneath /\ Beneath \in Nat
      /\ mode = "routine" => Len(compiled) >= Len(frames)
  BY <1>1, CompiledHas DEF Inside
<1>3. g \in Frame
  BY <1>1, <1>2, JEnteredFrame
<1> HIDE DEF g
<1>4. /\ new \in Seq(Frame) /\ new # <<>> /\ Len(new) = Len(compiled) + 1
      /\ \A i \in DOMAIN compiled : new[i] = compiled[i]
  BY <1>2, <1>3, LastAdded
<1> HIDE DEF new
<1>5. new[1].fn = compiled[1].fn
  BY <1>2, <1>4
<1>6. Len(new) + Beneath <= DepthLimit + 1
  BY <1>1, <1>2, <1>4, VMAssumption DEF VMAssumption, JTooDeep
<1>7. mode = "routine" => Len(new) >= Len(frames)
  BY <1>2, <1>4
<1>8. HeapInv'
  BY <1>1 DEF ShapeInv, HeapInv, heapVars
<1> QED  BY <1>1, <1>4, <1>5, <1>6, <1>7, <1>8, InsideShape

\* Compiled code goes back from a call of its own only to a call of its own.
LEMMA EntryHas ==
    ASSUME ShapeInv, CompiledRuns
    PROVE  /\ Entry \in Nat \ {0}
           /\ Len(compiled) > Entry => Len(compiled) > 1
           /\ mode = "routine" => Entry = Len(frames)
BY CompiledHas DEF Entry

\* and a return, with an answer or without.
LEMMA JReturnShape ==
    ASSUME ShapeInv, Inside, Len(compiled) > Entry, UNCHANGED heapVars,
           NEW new, new \in Seq(Frame), new # <<>>, Len(new) = Len(compiled) - 1,
           new[1].fn = compiled[1].fn, compiled' = new
    PROVE  ShapeInv'
<1>1. /\ Len(compiled) \in Nat \ {0} /\ Len(frames) \in Nat /\ Beneath \in Nat
      /\ Len(compiled) + Beneath <= DepthLimit + 1 /\ DepthLimit \in Nat
  BY CompiledHas, VMAssumption DEF VMAssumption, Inside
<1>2. Entry \in Nat /\ (mode = "routine" => Entry = Len(frames))
  BY EntryHas DEF Inside
<1>3. HeapInv'
  BY DEF ShapeInv, HeapInv, heapVars
<1>4. Len(new) + Beneath <= DepthLimit + 1 /\ (mode = "routine" => Len(new) >= Len(frames))
  BY <1>1, <1>2
<1> QED  BY <1>3, <1>4, InsideShape

\* What is underneath the innermost frame.
LEMMA UnderHas ==
    ASSUME ShapeInv, CompiledRuns, Len(compiled) > Entry, NEW under, under = Front(compiled)
    PROVE  /\ under \in Seq(Frame) /\ under # <<>> /\ Len(under) \in Nat \ {0}
           /\ Len(under) = Len(compiled) - 1
           /\ under[Len(under)] \in Frame /\ 1 \in DOMAIN under
           /\ DOMAIN under = 1 .. Len(compiled) - 1
           /\ \A i \in DOMAIN under : i \in DOMAIN compiled /\ under[i] = compiled[i]
<1>1. compiled \in Seq(Frame) /\ Len(compiled) \in Nat /\ Len(compiled) > 1
  BY CompiledHas, EntryHas
<1>2. /\ under \in Seq(Frame) /\ under # <<>> /\ Len(under) = Len(compiled) - 1
      /\ \A i \in 1 .. Len(compiled) - 1 : under[i] = compiled[i]
  BY <1>1, FrontOf
<1>3. Len(under) \in Nat \ {0} /\ under[Len(under)] \in Frame
  BY <1>2, LastOf
<1>4. DOMAIN under = 1 .. Len(under) /\ DOMAIN compiled = 1 .. Len(compiled)
  BY <1>1, <1>2
<1> QED  BY <1>1, <1>2, <1>3, <1>4

\* With an answer,
LEMMA JReturnAnswers ==
    ASSUME ShapeInv, NEW src \in Regs, JReturn(src)
    PROVE  ShapeInv'
<1> DEFINE under == Front(compiled)
           f == under[Len(under)]
           t == Innermost.ty[src]
           v == HeldSplit(Innermost, src)
           g == JAnswered(f, Innermost.dst, t, v)
           new == Replaced(under, g)
<1>1. Inside /\ Len(compiled) > Entry /\ UNCHANGED heapVars /\ compiled' = new
  BY Zenon DEF JReturn, Replaced
<1>2. CompiledRuns /\ Innermost \in Frame
  BY <1>1, CompiledHas DEF Inside
<1>3. t \in Types /\ v \in Value /\ Innermost.dst \in Regs
  BY <1>2, FrameFields
<1>4. /\ under \in Seq(Frame) /\ under # <<>> /\ Len(under) = Len(compiled) - 1
      /\ f \in Frame /\ 1 \in DOMAIN under /\ under[1] = compiled[1]
  BY <1>1, <1>2, UnderHas
<1> HIDE DEF under, t, v
<1>5. g \in Frame /\ g.fn = f.fn
  BY <1>3, <1>4, JAnsweredFrame DEF OnlyAt
<1> HIDE DEF g
<1>6. /\ new \in Seq(Frame) /\ new # <<>> /\ Len(new) = Len(under)
      /\ new[Len(under)] = g
      /\ \A i \in DOMAIN under : i # Len(under) => new[i] = under[i]
  <2>1. under \in Seq(Frame) /\ under # <<>> /\ g \in Frame
    BY <1>4, <1>5
  <2> QED  BY <2>1, LastReplaced
<1> HIDE DEF new
<1>7. new[1].fn = compiled[1].fn
  BY <1>4, <1>5, <1>6
<1>8. Len(new) = Len(compiled) - 1
  BY <1>4, <1>6
<1> QED  BY <1>1, <1>6, <1>7, <1>8, JReturnShape

\* or without.
LEMMA JReturnNothingShape == ShapeInv /\ JReturnNothing => ShapeInv'
<1> SUFFICES ASSUME ShapeInv, JReturnNothing  PROVE ShapeInv'
  OBVIOUS
<1> DEFINE under == Front(compiled)
<1>1. Inside /\ Len(compiled) > Entry /\ UNCHANGED heapVars /\ compiled' = under
  BY DEF JReturnNothing
<1>2. CompiledRuns
  BY <1>1 DEF Inside
<1>3. /\ under \in Seq(Frame) /\ under # <<>> /\ Len(under) = Len(compiled) - 1
      /\ under[1] = compiled[1]
  BY <1>1, <1>2, UnderHas
<1> HIDE DEF under
<1> QED  BY <1>1, <1>3, JReturnShape

\* Back to the VM, with a stack it could have had.
LEMMA BackToVM ==
    ASSUME ShapeInv, NEW became, Back2VM(became), StackShape(became),
           Len(became) \in Nat, Len(became) <= DepthLimit + 1
    PROVE  ShapeInv'
<1>1. /\ step = "run" /\ mode' = "vm" /\ lent' = 0 /\ compiled' = <<>> /\ frames' = became
      /\ UNCHANGED <<heapVars, step, tables, installed, tierVars>>
  BY DEF Back2VM, CompiledRuns, Running, moduleVars
<1>2. HeapInv' /\ LoopInv'
  BY <1>1 DEF ShapeInv, HeapInv, LoopInv, heapVars, tierVars, loopVars
<1>3. StacksInv'
  <2>1. became \in Seq(Frame) /\ became # <<>> /\ became[1].fn = Top /\ compiled' \in Seq(Frame)
    BY <1>1 DEF StackShape
  <2> QED  BY <1>1, <2>1 DEF StacksInv
<1>4. ModeInv'
  BY <1>1 DEF ShapeInv, ModeInv, LentWhileKept, TablesMatch
<1>5. NoDeeper'
  <2>1. Len(compiled') = 0
    BY <1>1
  <2> QED  BY <1>1, <2>1 DEF NoDeeper, Open
<1> QED  BY <1>2, <1>3, <1>4, <1>5 DEF ShapeInv

\* The end of the call whose loop was taken over,
LEMMA RoutineReturnsShape == ShapeInv /\ RoutineReturns => ShapeInv'
<1> SUFFICES ASSUME ShapeInv, RoutineReturns  PROVE ShapeInv'
  OBVIOUS
<1>1. /\ mode = "routine" /\ CompiledRuns /\ Len(compiled) = Entry
  BY DEF RoutineReturns, Back2VM
<1>2. /\ StackShape(frames) /\ Len(frames) \in Nat /\ Len(frames) > 1
      /\ Len(frames) <= DepthLimit + 1 /\ DepthLimit \in Nat /\ Innermost \in Frame
  BY <1>1, CompiledHas, VMAssumption DEF Entry, VMAssumption
<1>3. ASSUME NEW src \in Regs,
             Back2VM(Answered(Innermost.ty[src], HeldSplit(Innermost, src)))
      PROVE  ShapeInv'
  <2> DEFINE new == Answered(Innermost.ty[src], HeldSplit(Innermost, src))
  <2>1. Innermost.ty[src] \in Types /\ HeldSplit(Innermost, src) \in Value
    BY <1>2, FrameFields
  <2>2. StackShape(new) /\ Len(new) = Len(frames) - 1
    BY <1>2, <2>1, AnsweredShape
  <2>3. Back2VM(new)
    BY <1>3
  <2> HIDE DEF new
  <2>4. Len(new) \in Nat /\ Len(new) <= DepthLimit + 1
    BY <1>2, <2>2
  <2> QED  BY <2>2, <2>3, <2>4, BackToVM
<1>4. ASSUME Back2VM(Front(frames))  PROVE ShapeInv'
  <2> DEFINE new == Front(frames)
  <2>1. StackShape(new) /\ Len(new) = Len(frames) - 1
    BY <1>2, ShapeFront
  <2>2. Back2VM(new)
    BY <1>4
  <2> HIDE DEF new
  <2>3. Len(new) \in Nat /\ Len(new) <= DepthLimit + 1
    BY <1>2, <2>1
  <2> QED  BY <2>1, <2>2, <2>3, BackToVM
<1> QED  BY <1>3, <1>4 DEF RoutineReturns

\* and of a kept call.
LEMMA KeptReturnsShape == ShapeInv /\ KeptReturns => ShapeInv'
<1> SUFFICES ASSUME ShapeInv, KeptReturns  PROVE ShapeInv'
  OBVIOUS
<1>1. mode = "kept" /\ CompiledRuns
  BY DEF KeptReturns, Back2VM
<1>2. /\ StackShape(frames) /\ Len(frames) \in Nat
      /\ Len(frames) <= DepthLimit + 1 /\ Innermost \in Frame
  BY <1>1, CompiledHas, VMAssumption DEF Beneath, VMAssumption
<1>3. ASSUME NEW src \in Regs,
             Back2VM(WithCurrent(Put(Current, Innermost.dst, Innermost.ty[src],
                                     HeldSplit(Innermost, src))))
      PROVE  ShapeInv'
  <2> DEFINE new == WithCurrent(Put(Current, Innermost.dst, Innermost.ty[src],
                                    HeldSplit(Innermost, src)))
  <2>1. /\ Innermost.ty[src] \in Types /\ HeldSplit(Innermost, src) \in Value
        /\ Innermost.dst \in Regs
    BY <1>2, FrameFields
  <2>2. StackShape(new) /\ Len(new) = Len(frames)
    BY <1>2, <2>1, CurrentShape
  <2>3. Back2VM(new)
    BY <1>3
  <2> HIDE DEF new
  <2> QED  BY <1>2, <2>2, <2>3, BackToVM
<1>4. ASSUME Back2VM(frames)  PROVE ShapeInv'
  BY <1>2, <1>4, BackToVM
<1> QED  BY <1>3, <1>4 DEF KeptReturns

\* The end of the program.
LEMMA StopsShape ==
    ASSUME ShapeInv, CompiledRuns, Stops
    PROVE  ShapeInv'
<1>1. /\ step = "run" /\ step' = "stopped" /\ frames' = <<>> /\ lent' = 0 /\ compiled' = <<>>
      /\ UNCHANGED <<heapVars, mode, tables, installed, tierVars>>
  BY DEF CompiledRuns, Running, Stops, Ended, moduleVars
<1>2. HeapInv' /\ LoopInv'
  BY <1>1 DEF ShapeInv, HeapInv, LoopInv, heapVars, tierVars, loopVars
<1>3. StacksInv'
  <2>1. frames' \in Seq(Frame) /\ compiled' \in Seq(Frame)
    BY <1>1
  <2> QED  BY <1>1, <2>1 DEF StacksInv
<1>4. ModeInv'
  BY <1>1 DEF ShapeInv, ModeInv, LentWhileKept, TablesMatch, Running
<1>5. NoDeeper'
  <2>1. Len(compiled') = 0 /\ Len(frames') = 0
    BY <1>1
  <2> QED  BY <2>1, VMAssumption DEF VMAssumption, NoDeeper, Open
<1> QED  BY <1>2, <1>3, <1>4, <1>5 DEF ShapeInv

\* Every step of compiled code.
LEMMA CompiledShape == ShapeInv /\ CompiledInstruction => ShapeInv'
<1> SUFFICES ASSUME ShapeInv, CompiledInstruction  PROVE ShapeInv'
  OBVIOUS
<1>1. CASE \E dst \in Regs, t \in Scalars : JLoad(dst, t)
  <2>1. PICK dst \in Regs, t \in Scalars : JLoad(dst, t)
    BY <1>1
  <2>2. t \in Types /\ Blank \in Value
    BY VMAssumption, BlankFits DEF VMAssumption, Types
  <2> QED  BY <2>1, <2>2, JPutShape DEF JLoad
<1>2. CASE \E dst, src \in Regs : JMove(dst, src)
  <2>1. PICK dst \in Regs, src \in Regs : JMove(dst, src)
    BY <1>2
  <2>2. Innermost.ty[src] \in Types /\ HeldSplit(Innermost, src) \in Value
    BY <2>1, CompiledHas, FrameFields DEF JMove, Inside
  <2> QED  BY <2>1, <2>2, JPutShape DEF JMove
<1>3. CASE \E dst, item \in Regs, len \in 0 .. MaxLen : JNewArray(dst, item, len)
  <2>1. PICK dst \in Regs, item \in Regs, len \in 0 .. MaxLen : JNewArray(dst, item, len)
    BY <1>3
  <2>2. len \in Nat
    BY VMAssumption DEF VMAssumption
  <2> QED  BY <2>1, <2>2, JNewArrayShape
<1>4. CASE \E fn \in Funcs, base, dst \in Regs, argc \in Args : JCall(fn, base, argc, dst)
  BY <1>4, JCallShape
<1>5. CASE \E src \in Regs : JReturn(src)
  BY <1>5, JReturnAnswers
<1>6. CASE JReturnNothing \/ RoutineReturns \/ KeptReturns
  BY <1>6, JReturnNothingShape, RoutineReturnsShape, KeptReturnsShape
<1>7. CASE JStop \/ JCallTooDeep
  BY <1>7, StopsShape DEF JStop, JCallTooDeep
<1> QED  BY <1>1, <1>2, <1>3, <1>4, <1>5, <1>6, <1>7 DEF CompiledInstruction

\* Every step of either.
LEMMA ShapeNext == ShapeInv /\ [TNext]_tvars => ShapeInv'
<1> SUFFICES ASSUME ShapeInv, [TNext]_tvars  PROVE ShapeInv'
  OBVIOUS
<1>1. CASE VMInstruction \/ Back \/ Hot \/ CompiledInstruction
  BY <1>1, VMInstructionShape, BackShape, HotShape, CompiledShape
<1>2. CASE \E fn \in Funcs, base, dst \in Regs, argc \in Args :
              CallInterpreted(fn, base, argc, dst) \/ CallKept(fn, base, argc, dst)
  BY <1>2, CallInterpretedShape, CallKeptShape
<1>3. CASE UNCHANGED tvars
  BY <1>3 DEF tvars, vars, heapVars, entryVars, moduleVars, tierVars, loopVars, ShapeInv,
     HeapInv, StacksInv, ModeInv, LoopInv, LentWhileKept, TablesMatch, NoDeeper, Open,
     Running, Current
<1> QED  BY <1>1, <1>2, <1>3 DEF TNext

\* The start, on the VM or compiled as a whole.
LEMMA ShapeInit == TInit => ShapeInv
<1> SUFFICES ASSUME TInit  PROVE ShapeInv
  OBVIOUS
<1> DEFINE f == Fresh(Top, 1)
<1>1. /\ heap = <<>> /\ free = <<>> /\ since = 0 /\ made = 0 /\ kept = 0 /\ step = "run"
      /\ frames = <<f>>
      /\ \/ mode = "vm"    /\ compiled = <<>> /\ tables = NoModule
         \/ mode = "whole" /\ compiled = <<f>> /\ tables = OneShot
      /\ lent = 0 /\ counters = [l \in Loops |-> 0] /\ asked = {}
      /\ keeping = [fn \in Funcs |-> "unasked"] /\ installed = NoModule
  BY DEF TInit, Init
<1>2. f \in Frame /\ f.fn = Top
  BY FreshFrame, VMAssumption DEF VMAssumption
<1> HIDE DEF f
<1>3. HeapInv
  BY <1>1, UsizeMaxAssumption DEF HeapInv, FreeSound
<1>4. /\ frames \in Seq(Frame) /\ frames # <<>> /\ frames[1].fn = Top /\ Len(frames) = 1
      /\ compiled \in Seq(Frame)
  <2>1. /\ <<f>> \in Seq(Frame) /\ <<f>> # <<>> /\ <<f>>[1] = f /\ Len(<<f>>) = 1
        /\ <<>> \in Seq(Frame)
    BY <1>2
  <2> QED  BY <1>1, <1>2, <2>1
<1>5. \/ mode = "vm" /\ compiled = <<>> /\ Len(compiled) = 0
      \/ mode = "whole" /\ compiled # <<>> /\ Len(compiled) = 1
  BY <1>1
<1>6. StacksInv
  BY <1>1, <1>4, <1>5 DEF StacksInv
<1>7. ModeInv
  BY <1>1, <1>4 DEF ModeInv, LentWhileKept, TablesMatch
<1>8. LoopInv
  BY <1>1, TieredAssumption DEF LoopInv, TieredAssumption, Fired
<1>9. NoDeeper
  <2>1. Open = 1
    BY <1>4, <1>5 DEF Open
  <2> QED  BY <2>1, VMAssumption DEF NoDeeper, VMAssumption
<1> QED  BY <1>3, <1>6, <1>7, <1>8, <1>9 DEF ShapeInv

-----------------------------------------------------------------------------
(* What holds of every program. *)

\* The shape of the two stacks, of what is lent and of the counters is kept by every
\* step of the mixture.
THEOREM ShapeHolds == TSpec => []ShapeInv
BY ShapeInit, ShapeNext, PTL DEF TSpec

\* The heap, the counters, the standings and the tables have their types, and no more
\* frames are lent than there are.
THEOREM TypesHoldTiered == TSpec => []TTypeOK
<1>1. ShapeInv => TTypeOK
  <2> SUFFICES ASSUME ShapeInv  PROVE TTypeOK
    OBVIOUS
  <2>1. heap \in Seq([of : {0}, store : Seq({Blank}), id : Nat]) /\ free \in Seq(1 .. Len(heap))
    BY DEF ShapeInv, HeapInv, Slots, Slot, FreeSound
  <2>2. lent \in 0 .. Len(frames)
    BY DEF ShapeInv, StacksInv, ModeInv, LentWhileKept
  <2>3. {tables, installed} \subseteq Funcs \cup {OneShot, NoModule}
    BY DEF ShapeInv, ModeInv
  <2> QED  BY <2>1, <2>2, <2>3 DEF TTypeOK, ShapeInv, ModeInv, LoopInv
<1> QED  BY <1>1, ShapeHolds, PTL

\* No mixture of interpreted, resumed and kept calls goes deeper than the VM's limit.
THEOREM DepthHolds == TSpec => []NoDeeper
<1>1. ShapeInv => NoDeeper
  BY DEF ShapeInv
<1> QED  BY <1>1, ShapeHolds, PTL

\* Frames are lent exactly while a kept call runs, and given back however it ends.
THEOREM LendingHolds == TSpec => []LentWhileKept
<1>1. ShapeInv => LentWhileKept
  BY DEF ShapeInv, ModeInv
<1> QED  BY <1>1, ShapeHolds, PTL

\* Compiled code runs on the constants and templates of the module it is part of.
THEOREM TablesHold == TSpec => []TablesMatch
<1>1. ShapeInv => TablesMatch
  BY DEF ShapeInv, ModeInv
<1> QED  BY <1>1, ShapeHolds, PTL

\* A loop is offered to the tier at most once: it is past the threshold from then on,
\* and the counter, which saturates there, never comes back to it.
THEOREM OfferHolds == TSpec => []OfferedOnce
<1>1. ShapeInv => OfferedOnce
  <2> SUFFICES ASSUME ShapeInv, step = "hot"  PROVE Current.fn \notin asked
    BY DEF OfferedOnce
  <2>1. counters[Current.fn] = Threshold /\ \A l \in asked : counters[l] = Fired
    BY DEF ShapeInv, LoopInv
  <2>2. Threshold # Fired
    BY TieredAssumption DEF TieredAssumption, Fired
  <2> QED  BY <2>1, <2>2
<1> QED  BY <1>1, ShapeHolds, PTL

-----------------------------------------------------------------------------
(* The handles, where compiled code calls no routine that answers an array. *)

\* A frame of values is good as it is handed over.
LEMMA CarriedGood ==
    ASSUME NEW h, NEW f \in Frames(h)
    PROVE  f \in Frame /\ Carried(f) \in SplitFrames(h)
<1> DEFINE g == Carried(f)
<1>1. f \in Frame /\ BoxedGood(h, f)
  BY TieredAssumption DEF Frames, TieredAssumption
<1>2. g \in Frame /\ g.ty = f.ty /\ g.raw = f.raw /\ g.cells = f.raw
  BY <1>1, CarriedFrame
<1> HIDE DEF g
<1>3. BoxedGood(h, g) /\ \A r \in Regs : g.cells[r] = g.raw[r]
  BY <1>1, <1>2 DEF BoxedGood
<1>4. g \in SplitFrames(h)
  BY <1>2, <1>3, BoxedIsSplit
<1> QED  BY <1>1, <1>4 DEF g

\* An answer that is no array leaves a frame good.
LEMMA JAnsweredGood ==
    ASSUME NEW h, NEW f \in SplitFrames(h), NEW r \in Regs, NEW t \in Types, NEW v \in Value,
           Fit(h, t, v), t # "array"
    PROVE  JAnswered(f, r, t, v) \in SplitFrames(h)
<1> DEFINE g == JAnswered(f, r, t, v)
<1>1. f \in Frame /\ SplitGood(h, f)
  BY DEF SplitFrames
<1>2. /\ OnlyAt(g, f, r, t)
      /\ g.raw[r] = IF t = "text" THEN f.raw[r] ELSE v
      /\ g.cells[r] = IF t = "text" THEN v ELSE f.cells[r]
  BY <1>1, JAnsweredFrame
<1> HIDE DEF g
<1>3. g \in Frame /\ g.ty[r] = t
  BY <1>2 DEF OnlyAt
<1>4. ASSUME NEW q \in Regs
      PROVE  /\ Fit(h, g.ty[q], HeldSplit(g, q)) /\ Good(h, g.cells[q])
             /\ g.ty[q] = "array" => g.cells[q] = g.raw[q]
  <2>1. CASE q = r
    <3>1. HeldSplit(g, q) = v
      BY <1>2, <1>3, <2>1 DEF HeldSplit
    <3>2. Good(h, g.cells[q])
      BY <1>1, <1>2, <2>1 DEF SplitGood, Fit
    <3> QED  BY <1>3, <2>1, <3>1, <3>2
  <2>2. CASE q # r
    <3>1. g.ty[q] = f.ty[q] /\ g.raw[q] = f.raw[q] /\ g.cells[q] = f.cells[q]
      BY <1>2, <2>2 DEF OnlyAt
    <3> QED  BY <1>1, <3>1 DEF SplitGood, HeldSplit
  <2> QED  BY <2>1, <2>2
<1>5. g \in SplitFrames(h)
  BY <1>3, <1>4 DEF SplitFrames, SplitGood
<1> QED  BY <1>5 DEF g

\* The frame of a call from compiled code is good if the caller's is.
LEMMA JEnteredGood ==
    ASSUME NEW h, Innermost \in SplitFrames(h), NEW fn \in Funcs, NEW base \in Regs,
           NEW argc, Fits(base, argc), NEW dst \in Regs
    PROVE  JEntered(fn, base, argc, dst) \in SplitFrames(h)
<1> DEFINE g == JEntered(fn, base, argc, dst)
<1>1. Innermost \in Frame
  BY DEF SplitFrames
<1>2. /\ g \in Frame
      /\ \A r \in Regs :
           \/ g.ty[r] = "num" /\ g.raw[r] = Blank /\ g.cells[r] = Blank
           \/ \E q \in Regs :
                /\ g.ty[r] = Innermost.ty[q]
                /\ g.raw[r] = IF g.ty[r] = "text" THEN Blank ELSE HeldSplit(Innermost, q)
                /\ g.cells[r] = IF g.ty[r] = "num" THEN Blank ELSE HeldSplit(Innermost, q)
  BY <1>1, JEnteredFrame
<1> HIDE DEF g
<1>3. Good(h, Blank) /\ Fit(h, "num", Blank)
  BY BlankFits
<1>4. ASSUME NEW r \in Regs
      PROVE  /\ Fit(h, g.ty[r], HeldSplit(g, r)) /\ Good(h, g.cells[r])
             /\ g.ty[r] = "array" => g.cells[r] = g.raw[r]
  <2>1. CASE g.ty[r] = "num" /\ g.raw[r] = Blank /\ g.cells[r] = Blank
    BY <1>3, <2>1 DEF HeldSplit
  <2>2. CASE \E q \in Regs :
                /\ g.ty[r] = Innermost.ty[q]
                /\ g.raw[r] = IF g.ty[r] = "text" THEN Blank ELSE HeldSplit(Innermost, q)
                /\ g.cells[r] = IF g.ty[r] = "num" THEN Blank ELSE HeldSplit(Innermost, q)
    <3>1. PICK q \in Regs :
                /\ g.ty[r] = Innermost.ty[q]
                /\ g.raw[r] = IF g.ty[r] = "text" THEN Blank ELSE HeldSplit(Innermost, q)
                /\ g.cells[r] = IF g.ty[r] = "num" THEN Blank ELSE HeldSplit(Innermost, q)
      BY <2>2
    <3> DEFINE v == HeldSplit(Innermost, q)
    <3>2. Fit(h, g.ty[r], v) /\ Good(h, v)
      BY <3>1, SplitFits DEF Fit
    <3>3. /\ g.raw[r] = IF g.ty[r] = "text" THEN Blank ELSE v
          /\ g.cells[r] = IF g.ty[r] = "num" THEN Blank ELSE v
      BY <3>1
    <3> HIDE DEF v
    <3>4. HeldSplit(g, r) = v
      BY <3>3 DEF HeldSplit
    <3> QED  BY <1>3, <3>2, <3>3, <3>4
  <2> QED  BY <1>2, <2>1, <2>2
<1>5. g \in SplitFrames(h)
  BY <1>2, <1>4 DEF SplitFrames, SplitGood
<1> QED  BY <1>5 DEF g

\* The frame that is swept with is good if the innermost is.
LEMMA StagedGood ==
    ASSUME NEW h, Innermost \in SplitFrames(h), NEW item \in Regs, NEW len
    PROVE  Staged(item, len) \in SplitFrames(h)
<1> DEFINE g == Staged(item, len)
<1>1. Innermost \in Frame /\ SplitGood(h, Innermost)
  BY DEF SplitFrames
<1>2. /\ g \in Frame /\ g.ty = Innermost.ty /\ g.raw = Innermost.raw
      /\ \A r \in Regs : \/ g.cells[r] = Innermost.cells[r]
                         \/ r = item /\ g.ty[r] = "num" /\ g.cells[r] = Blank
  BY <1>1, StagedFrame
<1> HIDE DEF g
<1>3. Good(h, Blank) /\ Fit(h, "num", Blank)
  BY BlankFits
<1>4. ASSUME NEW r \in Regs
      PROVE  /\ Fit(h, g.ty[r], HeldSplit(g, r)) /\ Good(h, g.cells[r])
             /\ g.ty[r] = "array" => g.cells[r] = g.raw[r]
  BY <1>1, <1>2, <1>3 DEF SplitGood, HeldSplit
<1>5. g \in SplitFrames(h)
  BY <1>2, <1>4 DEF SplitFrames, SplitGood
<1> QED  BY <1>5 DEF g

\* While the VM runs or has lent its frames, all of them are good;
LEMMA VMGood ==
    ASSUME ShapeInv, GoodInv, mode \in {"vm", "kept"}
    PROVE  frames \in Seq(Frames(heap)) /\ (mode = "vm" => MachineInv)
<1>1. \A i \in DOMAIN frames : frames[i] \in Frames(heap)
  BY DEF GoodInv, Waiting
<1>2. frames \in Seq(Frame)
  BY DEF ShapeInv, StacksInv
<1>3. frames \in Seq(Frames(heap))
  <2>1. Len(frames) \in Nat /\ frames \in [1 .. Len(frames) -> Frames(heap)]
    BY <1>1, <1>2
  <2> QED  BY <2>1
<1>4. MachineInv
  BY <1>3 DEF MachineInv, StackInv, ShapeInv, StacksInv
<1> QED  BY <1>3, <1>4

\* and that is all there is to it when it runs.
LEMMA VMKeeps ==
    ASSUME mode' = "vm", compiled' = <<>>, frames' \in Seq(Frames(heap'))
    PROVE  CarriedInv' /\ GoodInv'
<1>1. CarriedInv'
  BY DEF CarriedInv
<1>2. \A i \in DOMAIN frames' : frames'[i] \in Frames(heap')
  OBVIOUS
<1>3. GoodInv'
  BY <1>2 DEF GoodInv, Waiting
<1> QED  BY <1>1, <1>3

\* The VM's own steps keep them so,
LEMMA VMSideGood ==
    ASSUME TInv, ShapeInv',
           \/ VMInstruction \/ Back
           \/ \E fn \in Funcs, base, dst \in Regs, argc \in Args :
                CallInterpreted(fn, base, argc, dst)
    PROVE  CarriedInv' /\ GoodInv'
<1>1. ShapeInv /\ GoodInv
  BY DEF TInv
<1>2. /\ mode = "vm" /\ mode' = "vm" /\ compiled' = compiled
  BY DEF VMInstruction, Back, CallInterpreted, VMRuns, entryVars
<1>3. MachineInv /\ compiled = <<>>
  BY <1>1, <1>2, VMGood DEF ShapeInv, StacksInv
<1>4. CASE VMInstruction
  BY <1>2, <1>3, <1>4, MachineInstruction, VMKeeps DEF VMInstruction, MachineInv, StackInv
<1>5. CASE Back
  <2>1. frames' = frames /\ heap' = heap
    BY <1>5 DEF Back, heapVars
  <2> QED  BY <1>2, <1>3, <2>1, VMKeeps DEF MachineInv, StackInv
<1>6. CASE \E fn \in Funcs, base, dst \in Regs, argc \in Args :
             CallInterpreted(fn, base, argc, dst)
  <2>1. PICK fn \in Funcs, base \in Regs, dst \in Regs, argc \in Args :
             Call(fn, base, argc, dst)
    BY <1>6 DEF CallInterpreted
  <2>2. MachineInv'
    BY <1>3, <2>1, MachineCall
  <2> QED  BY <1>2, <1>3, <2>2, VMKeeps DEF MachineInv, StackInv
<1> QED  BY <1>4, <1>5, <1>6

\* a loop handed over is handed good frames,
LEMMA HotGood ==
    ASSUME TInv, Hot
    PROVE  CarriedInv' /\ GoodInv'
<1> DEFINE how == IF Current.fn = Top THEN "top" ELSE "routine"
<1>1. ShapeInv /\ GoodInv
  BY DEF TInv
<1>2. step = "hot" /\ mode = "vm" /\ heap' = heap
  BY <1>1 DEF Hot, ShapeInv, ModeInv, heapVars
<1>3. frames \in Seq(Frames(heap)) /\ compiled = <<>> /\ frames \in Seq(Frame) /\ frames # <<>>
  BY <1>1, <1>2, VMGood DEF ShapeInv, StacksInv
<1>4. CASE VMRuns /\ Declined
  <2>1. mode' = "vm" /\ compiled' = <<>>
    BY <1>3, <1>4 DEF VMRuns, entryVars
  <2>2. frames' \in Seq(Frames(heap'))
    <3>1. <<>> \in Seq(Frames(heap))
      OBVIOUS
    <3>2. frames' = frames \/ frames' = <<>>
      BY <1>4 DEF Declined, Ended
    <3> QED  BY <1>2, <1>3, <3>1, <3>2
  <2> QED  BY <2>1, <2>2, VMKeeps
<1>5. CASE Resume(how) /\ step' = "run" /\ frames' = frames
  <2>1. /\ mode' \in {"top", "routine"}
        /\ compiled' = [i \in DOMAIN frames |-> Carried(frames[i])]
    BY <1>5 DEF Resume
  <2> HIDE DEF how
  <2>2. Len(frames) \in Nat /\ DOMAIN frames = 1 .. Len(frames)
    BY <1>3
  <2>3. \A i \in DOMAIN frames : frames[i] \in Frames(heap)
    BY <1>3
  <2>4. DOMAIN compiled' = DOMAIN frames
        /\ \A i \in DOMAIN frames : compiled'[i] = Carried(frames[i])
    BY <2>1
  <2>5. CarriedInv'
    <3>1. \A i \in 1 .. Len(frames) - 1 : compiled'[i] = Carried(frames[i])
      BY <2>2, <2>4
    <3> QED  BY <1>5, <3>1 DEF CarriedInv
  <2>6. \A i \in DOMAIN compiled' : compiled'[i] \in SplitFrames(heap')
    BY <1>2, <2>3, <2>4, CarriedGood
  <2>7. \A i \in Waiting' : frames'[i] \in Frames(heap')
    <3>1. Waiting' \subseteq DOMAIN frames
      BY <1>5, <2>1, <2>2 DEF Waiting
    <3> QED  BY <1>2, <1>5, <2>3, <3>1
  <2> QED  BY <2>5, <2>6, <2>7 DEF GoodInv
<1> QED  BY <1>4, <1>5 DEF Hot

\* and so is a call of a routine that is kept.
LEMMA CallKeptGood ==
    ASSUME TInv, NEW fn \in Funcs, NEW base \in Regs, NEW dst \in Regs, NEW argc,
           CallKept(fn, base, argc, dst)
    PROVE  CarriedInv' /\ GoodInv'
<1> DEFINE g == Called(fn, Current, base, argc, dst)
<1>1. ShapeInv /\ GoodInv
  BY DEF TInv
<1>2. /\ mode = "vm" /\ Running /\ Fits(base, argc) /\ heap' = heap /\ frames' = frames
      /\ mode' = "kept" /\ compiled' = <<Carried(g)>>
  BY DEF CallKept, Calling, Reenter, heapVars
<1>3. frames \in Seq(Frames(heap)) /\ Current \in Frames(heap)
  BY <1>1, <1>2, VMGood, RunningHas
<1>4. g \in Frames(heap)
  BY <1>2, <1>3, CalledGood
<1> HIDE DEF g
<1>5. Carried(g) \in SplitFrames(heap')
  BY <1>2, <1>4, CarriedGood
<1>6. \A i \in DOMAIN compiled' : compiled'[i] \in SplitFrames(heap')
  BY <1>2, <1>5
<1>7. \A i \in Waiting' : frames'[i] \in Frames(heap')
  BY <1>2, <1>3 DEF Waiting
<1>8. CarriedInv'
  BY <1>2 DEF CarriedInv
<1> QED  BY <1>6, <1>7, <1>8 DEF GoodInv

\* A step inside compiled code that leaves the heap alone and the frames under its
\* entry.
LEMMA InsideGood ==
    ASSUME TInv, Inside, heap' = heap,
           \A i \in DOMAIN compiled' : compiled'[i] \in SplitFrames(heap),
           mode = "routine" => \A i \in 1 .. Len(frames) - 1 : compiled'[i] = compiled[i]
    PROVE  CarriedInv' /\ GoodInv'
<1>1. /\ mode' = mode /\ frames' = frames /\ step' = step /\ step # "stopped"
  BY DEF Inside, CompiledRuns, Running, entryVars
<1>2. CarriedInv'
  BY <1>1 DEF TInv, CarriedInv
<1>3. Waiting' = Waiting
  BY <1>1 DEF Waiting
<1> QED  BY <1>1, <1>2, <1>3 DEF TInv, GoodInv

\* While compiled code runs, its frames are good, and whoever waits for it waits on
\* good ones.
LEMMA CompiledGood ==
    ASSUME TInv, CompiledRuns
    PROVE  /\ ShapeInv /\ Innermost \in SplitFrames(heap) /\ Innermost \in Frame
           /\ \A i \in DOMAIN compiled : compiled[i] \in SplitFrames(heap)
           /\ DOMAIN compiled = 1 .. Len(compiled)
           /\ mode = "routine" => /\ Entry = Len(frames) /\ Len(frames) <= Len(compiled)
                                  /\ \A i \in 1 .. Len(frames) - 1 :
                                       /\ frames[i] \in Frames(heap)
                                       /\ compiled[i] = Carried(frames[i])
<1>1. ShapeInv /\ CarriedInv /\ GoodInv
  BY DEF TInv
<1>2. /\ compiled \in Seq(Frame) /\ Len(compiled) \in DOMAIN compiled
      /\ DOMAIN compiled = 1 .. Len(compiled) /\ Innermost \in Frame
  BY <1>1, CompiledHas, LastOf
<1>3. \A i \in DOMAIN compiled : compiled[i] \in SplitFrames(heap)
  BY <1>1 DEF GoodInv
<1>4. Innermost \in SplitFrames(heap)
  BY <1>2, <1>3 DEF Innermost
<1>5. ASSUME mode = "routine"
      PROVE  /\ Entry = Len(frames) /\ Len(frames) <= Len(compiled)
             /\ \A i \in 1 .. Len(frames) - 1 :
                  frames[i] \in Frames(heap) /\ compiled[i] = Carried(frames[i])
  <2>1. Waiting = 1 .. Len(frames) - 1
    BY <1>5 DEF Waiting
  <2>2. Entry = Len(frames) /\ Len(frames) <= Len(compiled) /\ Len(frames) \in Nat
        /\ Len(compiled) \in Nat
    BY <1>1, <1>5, CompiledHas DEF Entry
  <2>3. \A i \in 1 .. Len(frames) - 1 : compiled[i] = Carried(frames[i])
    BY <1>1, <1>5 DEF CarriedInv, CompiledRuns, Running
  <2> QED  BY <1>1, <2>1, <2>2, <2>3 DEF GoodInv
<1> QED  BY <1>1, <1>2, <1>3, <1>4, <1>5

\* A good frame in the place of the innermost.
LEMMA InnermostGood ==
    ASSUME TInv, Inside, heap' = heap, NEW g \in SplitFrames(heap),
           compiled' = WithInnermost(g)
    PROVE  CarriedInv' /\ GoodInv'
<1>1. /\ \A i \in DOMAIN compiled : compiled[i] \in SplitFrames(heap)
      /\ DOMAIN compiled = 1 .. Len(compiled)
      /\ mode = "routine" => Len(frames) <= Len(compiled)
      /\ Len(compiled) \in Nat /\ Len(frames) \in Nat
  BY CompiledGood, CompiledHas DEF Inside, TInv
<1>2. /\ DOMAIN compiled' = DOMAIN compiled
      /\ \A i \in DOMAIN compiled : compiled'[i] = IF i = Len(compiled) THEN g ELSE compiled[i]
  BY DEF WithInnermost
<1>3. \A i \in DOMAIN compiled' : compiled'[i] \in SplitFrames(heap)
  BY <1>1, <1>2
<1>4. mode = "routine" => \A i \in 1 .. Len(frames) - 1 : compiled'[i] = compiled[i]
  BY <1>1, <1>2
<1> QED  BY <1>3, <1>4, InsideGood

\* A value loaded or moved.
LEMMA JPutGood ==
    ASSUME TInv, Inside, UNCHANGED heapVars,
           NEW r \in Regs, NEW t \in Types, NEW v \in Value, Fit(heap, t, v),
           compiled' = WithInnermost(PutSplit(Innermost, r, t, v))
    PROVE  CarriedInv' /\ GoodInv'
<1> DEFINE g == PutSplit(Innermost, r, t, v)
<1>1. Innermost \in SplitFrames(heap) /\ heap' = heap
  BY CompiledGood DEF Inside, heapVars
<1>2. g \in SplitFrames(heap)
  BY <1>1, SplitPutGood
<1>3. compiled' = WithInnermost(g)
  OBVIOUS
<1> HIDE DEF g
<1> QED  BY <1>1, <1>2, <1>3, InnermostGood

\* The sweep is shown every frame of compiled code, and every one that waits for it:
\* the ones that are lent to it, and its own copies of the ones it took over.
LEMMA SweepIsShown ==
    ASSUME TInv, CompiledRuns, NEW item, NEW len
    PROVE  /\ \A i \in DOMAIN compiled : i # Len(compiled) =>
                \A v \in CellRoots(compiled[i]) : v \in StagedRoots(item, len)
           /\ \A v \in CellRoots(Staged(item, len)) : v \in StagedRoots(item, len)
           /\ \A i \in Waiting : \A v \in FileRoots(frames[i]) : v \in StagedRoots(item, len)
<1> DEFINE s == Staged(item, len)
           new == WithInnermost(s)
           n == Len(compiled)
<1>1. /\ ShapeInv /\ n \in Nat \ {0} /\ n \in DOMAIN compiled /\ DOMAIN compiled = 1 .. n
      /\ Len(frames) \in Nat
  BY CompiledHas, CompiledGood
<1> HIDE DEF s
<1>2. DOMAIN new = DOMAIN compiled
      /\ \A i \in DOMAIN compiled : new[i] = IF i = n THEN s ELSE compiled[i]
  BY DEF WithInnermost
<1> HIDE DEF new, n
<1>3. /\ \A i \in DOMAIN new : \A v \in CellRoots(new[i]) : v \in StagedRoots(item, len)
      /\ \A i \in 1 .. lent : \A v \in FileRoots(frames[i]) : v \in StagedRoots(item, len)
  <2>1. StagedRoots(item, len) = CompiledRoots(new)
    BY DEF StagedRoots, new, s
  <2>2. ASSUME NEW i \in DOMAIN new, NEW v \in CellRoots(new[i])
        PROVE  v \in CompiledRoots(new)
    BY DEF CompiledRoots
  <2>3. ASSUME NEW i \in 1 .. lent, NEW v \in FileRoots(frames[i])
        PROVE  v \in CompiledRoots(new)
    BY DEF CompiledRoots
  <2> QED  BY <2>1, <2>2, <2>3
<1>4. \A i \in DOMAIN compiled : i # n =>
         \A v \in CellRoots(compiled[i]) : v \in StagedRoots(item, len)
  BY <1>2, <1>3
<1>5. \A v \in CellRoots(s) : v \in StagedRoots(item, len)
  BY <1>1, <1>2, <1>3
<1>6. ASSUME NEW i \in Waiting
      PROVE  \A v \in FileRoots(frames[i]) : v \in StagedRoots(item, len)
  <2>1. CASE mode = "kept"
    <3>1. lent = Len(frames) /\ DOMAIN frames = 1 .. Len(frames) /\ i \in DOMAIN frames
      BY <1>1, <2>1, CompiledHas DEF Beneath, Waiting, ShapeInv, StacksInv
    <3> QED  BY <1>3, <3>1
  <2>2. CASE mode = "routine"
    <3>1. i \in 1 .. Len(frames) - 1 /\ Len(frames) <= n
      BY <2>2, CompiledGood DEF Waiting, n
    <3>2. frames[i] \in Frames(heap) /\ compiled[i] = Carried(frames[i])
      BY <2>2, <3>1, CompiledGood
    <3>3. i \in 1 .. n /\ i # n
      BY <1>1, <3>1
    <3>4. CellRoots(compiled[i]) = FileRoots(frames[i])
      <4>1. frames[i] \in Frame
        BY <3>2, CarriedGood
      <4>2. compiled[i].cells = frames[i].raw
        BY <3>2, <4>1, CarriedFrame
      <4> QED  BY <4>2, TieredAssumption DEF CellRoots, FileRoots, TieredAssumption
    <3> QED  BY <1>1, <1>4, <3>3, <3>4
  <2>3. mode \in {"kept", "routine"}
    BY DEF Waiting, CompiledRuns
  <2> QED  BY <2>1, <2>2, <2>3
<1> QED  BY <1>4, <1>5, <1>6 DEF s, n

\* So an array made by compiled code loses nobody's.
LEMMA JNewArrayGood ==
    ASSUME TInv, NEW dst \in Regs, NEW item \in Regs, NEW len \in Nat,
           JNewArray(dst, item, len)
    PROVE  CarriedInv' /\ GoodInv'
<1> DEFINE s == Staged(item, len)
<1>1. Inside /\ CompiledRuns /\ HeapInv
  BY DEF JNewArray, Inside, TInv, ShapeInv
<1>2. /\ \A v \in StagedRoots(item, len) : Good(heap, v) => Good(heap', v)
      /\ \E v \in Value : /\ Fit(heap', "array", v)
                          /\ compiled' = WithInnermost(PutSplit(s, dst, "array", v))
  BY <1>1, JNewArrayStep
<1>3. PICK v \in Value : /\ Fit(heap', "array", v)
                         /\ compiled' = WithInnermost(PutSplit(s, dst, "array", v))
  BY <1>2
<1>4. /\ Innermost \in SplitFrames(heap)
      /\ \A i \in DOMAIN compiled : compiled[i] \in SplitFrames(heap)
      /\ DOMAIN compiled = 1 .. Len(compiled) /\ Len(compiled) \in Nat /\ Len(frames) \in Nat
      /\ mode = "routine" => Len(frames) <= Len(compiled)
  BY <1>1, CompiledGood, CompiledHas
<1>5. s \in SplitFrames(heap')
  <2>1. s \in SplitFrames(heap)
    BY <1>4, StagedGood
  <2>2. \A w \in CellRoots(s) : Good(heap, w) => Good(heap', w)
    BY <1>1, <1>2, SweepIsShown
  <2> HIDE DEF s
  <2> QED  BY <2>1, <2>2, SplitKept
<1> HIDE DEF s
<1> DEFINE g == PutSplit(s, dst, "array", v)
<1>6. g \in SplitFrames(heap')
  BY <1>3, <1>5, SplitPutGood DEF Types
<1> HIDE DEF g
<1>7. /\ DOMAIN compiled' = DOMAIN compiled
      /\ \A i \in DOMAIN compiled : compiled'[i] = IF i = Len(compiled) THEN g ELSE compiled[i]
  <2>1. compiled' = WithInnermost(g)
    BY <1>3 DEF g
  <2> QED  BY <2>1 DEF WithInnermost
<1>8. \A i \in DOMAIN compiled : i # Len(compiled) => compiled[i] \in SplitFrames(heap')
  <2> SUFFICES ASSUME NEW i \in DOMAIN compiled, i # Len(compiled)
               PROVE  compiled[i] \in SplitFrames(heap')
    OBVIOUS
  <2>1. \A w \in CellRoots(compiled[i]) : Good(heap, w) => Good(heap', w)
    BY <1>1, <1>2, SweepIsShown
  <2> QED  BY <1>4, <2>1, SplitKept
<1>9. \A i \in DOMAIN compiled' : compiled'[i] \in SplitFrames(heap')
  BY <1>6, <1>7, <1>8
<1>10. /\ mode' = mode /\ frames' = frames /\ step' = step /\ step # "stopped"
  BY <1>1 DEF Inside, CompiledRuns, Running, entryVars
<1>11. ASSUME NEW i \in Waiting
       PROVE  frames[i] \in Frames(heap')
  <2>1. \A w \in FileRoots(frames[i]) : Good(heap, w) => Good(heap', w)
    BY <1>1, <1>2, SweepIsShown
  <2>2. frames[i] \in Frames(heap)
    BY DEF TInv, GoodInv
  <2> QED  BY <2>1, <2>2, FrameKept
<1>12. GoodInv'
  <2>1. Waiting' = Waiting
    BY <1>10 DEF Waiting
  <2> QED  BY <1>9, <1>10, <1>11, <2>1 DEF GoodInv
<1>13. CarriedInv'
  <2>1. mode = "routine" => \A i \in 1 .. Len(frames) - 1 : compiled'[i] = compiled[i]
    BY <1>4, <1>7
  <2> QED  BY <1>10, <2>1 DEF TInv, CarriedInv
<1> QED  BY <1>12, <1>13

\* A call,
LEMMA JCallGood ==
    ASSUME TInv, NEW fn \in Funcs, NEW base \in Regs, NEW dst \in Regs, NEW argc,
           JCall(fn, base, argc, dst)
    PROVE  CarriedInv' /\ GoodInv'
<1> DEFINE g == JEntered(fn, base, argc, dst)
<1>1. Inside /\ Fits(base, argc) /\ compiled' = Append(compiled, g) /\ heap' = heap
  BY DEF JCall, heapVars
<1>2. /\ Innermost \in SplitFrames(heap)
      /\ \A i \in DOMAIN compiled : compiled[i] \in SplitFrames(heap)
      /\ DOMAIN compiled = 1 .. Len(compiled) /\ Len(compiled) \in Nat /\ Len(frames) \in Nat
      /\ mode = "routine" => Len(frames) <= Len(compiled)
      /\ compiled \in Seq(Frame)
  BY <1>1, CompiledGood, CompiledHas DEF Inside
<1>3. g \in SplitFrames(heap)
  BY <1>1, <1>2, JEnteredGood
<1> HIDE DEF g
<1>4. /\ DOMAIN compiled' = 1 .. Len(compiled) + 1
      /\ compiled'[Len(compiled) + 1] = g
      /\ \A i \in 1 .. Len(compiled) : compiled'[i] = compiled[i]
  BY <1>1, <1>2
<1>5. \A i \in DOMAIN compiled' : compiled'[i] \in SplitFrames(heap)
  BY <1>2, <1>3, <1>4
<1>6. mode = "routine" => \A i \in 1 .. Len(frames) - 1 : compiled'[i] = compiled[i]
  BY <1>2, <1>4
<1> QED  BY <1>1, <1>5, <1>6, InsideGood

\* a return with an answer that is not an array,
LEMMA JReturnGood ==
    ASSUME TInv, ~CompiledArrayCalls, NEW src \in Regs, JReturn(src)
    PROVE  CarriedInv' /\ GoodInv'
<1> DEFINE under == Front(compiled)
           f == under[Len(under)]
           t == Innermost.ty[src]
           v == HeldSplit(Innermost, src)
           g == JAnswered(f, Innermost.dst, t, v)
<1>1. Inside /\ Len(compiled) > Entry /\ heap' = heap /\ t # "array"
      /\ compiled' = [under EXCEPT ![Len(under)] = g]
  BY DEF JReturn, heapVars
<1>2. /\ CompiledRuns /\ ShapeInv /\ Innermost \in SplitFrames(heap) /\ Innermost \in Frame
      /\ \A i \in DOMAIN compiled : compiled[i] \in SplitFrames(heap)
      /\ mode = "routine" => Entry = Len(frames)
  BY <1>1, CompiledGood DEF Inside
<1>3. t \in Types /\ v \in Value /\ Innermost.dst \in Regs /\ Fit(heap, t, v)
  BY <1>2, FrameFields, SplitFits
<1>4. /\ Len(under) \in Nat \ {0} /\ Len(under) = Len(compiled) - 1
      /\ DOMAIN under = 1 .. Len(compiled) - 1
      /\ \A i \in DOMAIN under : i \in DOMAIN compiled /\ under[i] = compiled[i]
  BY <1>1, <1>2, UnderHas
<1> HIDE DEF under, t, v
<1>5. f \in SplitFrames(heap)
  <2>1. Len(under) \in DOMAIN under
    BY <1>4
  <2> QED  BY <1>2, <1>4, <2>1
<1>6. g \in SplitFrames(heap)
  <2> HIDE DEF f
  <2> QED  BY <1>1, <1>3, <1>5, JAnsweredGood
<1> HIDE DEF g, f
<1>7. DOMAIN compiled' = DOMAIN under
      /\ \A i \in DOMAIN under : compiled'[i] = IF i = Len(under) THEN g ELSE under[i]
  BY <1>1
<1>8. \A i \in DOMAIN compiled' : compiled'[i] \in SplitFrames(heap)
  <2>1. \A i \in DOMAIN under : under[i] \in SplitFrames(heap)
    BY Zenon, <1>2, <1>4
  <2> QED  BY Zenon, <1>6, <1>7, <2>1
<1>9. mode = "routine" => \A i \in 1 .. Len(frames) - 1 : compiled'[i] = compiled[i]
  <2>1. Len(frames) \in Nat /\ Len(compiled) \in Nat
    BY <1>2, CompiledHas
  <2>2. ASSUME mode = "routine", NEW i \in 1 .. Len(frames) - 1
        PROVE  i \in 1 .. Len(compiled) - 1 /\ i # Len(under)
    BY <1>1, <1>2, <1>4, <2>1, <2>2
  <2>3. ASSUME mode = "routine", NEW i \in 1 .. Len(frames) - 1
        PROVE  compiled'[i] = compiled[i]
    BY Zenon, <1>4, <1>7, <2>2, <2>3
  <2> QED  BY <2>3
<1> QED  BY <1>1, <1>8, <1>9, InsideGood

\* and one without an answer.
LEMMA JReturnNothingGood ==
    ASSUME TInv, JReturnNothing
    PROVE  CarriedInv' /\ GoodInv'
<1> DEFINE under == Front(compiled)
<1>1. Inside /\ Len(compiled) > Entry /\ heap' = heap /\ compiled' = under
  BY DEF JReturnNothing, heapVars
<1>2. /\ CompiledRuns /\ ShapeInv
      /\ \A i \in DOMAIN compiled : compiled[i] \in SplitFrames(heap)
      /\ mode = "routine" => Entry = Len(frames)
  BY <1>1, CompiledGood DEF Inside
<1>3. /\ DOMAIN under = 1 .. Len(compiled) - 1
      /\ \A i \in DOMAIN under : i \in DOMAIN compiled /\ under[i] = compiled[i]
  BY <1>1, <1>2, UnderHas
<1>4. Len(frames) \in Nat /\ Len(compiled) \in Nat
  BY <1>2, CompiledHas
<1> HIDE DEF under
<1>5. mode = "routine" => \A i \in 1 .. Len(frames) - 1 : compiled'[i] = compiled[i]
  <2>1. ASSUME mode = "routine", NEW i \in 1 .. Len(frames) - 1
        PROVE  i \in 1 .. Len(compiled) - 1
    BY <1>1, <1>2, <1>4, <2>1
  <2>2. ASSUME mode = "routine", NEW i \in 1 .. Len(frames) - 1
        PROVE  compiled'[i] = compiled[i]
    BY Zenon, <1>1, <1>3, <2>1, <2>2
  <2> QED  BY <2>2
<1>6. \A i \in DOMAIN compiled' : compiled'[i] \in SplitFrames(heap)
  BY Zenon, <1>1, <1>2, <1>3
<1> QED  BY <1>1, <1>5, <1>6, InsideGood

\* The way back to the VM hands it good frames: the callers' as they were, and the
\* answer where it was wanted.
LEMMA RoutineReturnsGood ==
    ASSUME TInv, RoutineReturns
    PROVE  CarriedInv' /\ GoodInv'
<1>1. mode = "routine" /\ CompiledRuns /\ mode' = "vm" /\ compiled' = <<>> /\ heap' = heap
  BY DEF RoutineReturns, Back2VM, heapVars
<1>2. /\ ShapeInv /\ Innermost \in SplitFrames(heap) /\ Innermost \in Frame
      /\ \A i \in 1 .. Len(frames) - 1 : frames[i] \in Frames(heap)
  BY <1>1, CompiledGood
<1>3. frames \in Seq(Frame) /\ Len(frames) \in Nat /\ Len(frames) > 1
  BY <1>1, <1>2, CompiledHas DEF StackShape
<1> DEFINE under == Front(frames)
<1>4. under \in Seq(Frames(heap))
  <2>1. /\ under \in Seq(Frame) /\ Len(under) = Len(frames) - 1
        /\ \A i \in 1 .. Len(frames) - 1 : under[i] = frames[i]
    BY <1>3, FrontOf
  <2> HIDE DEF under
  <2>2. DOMAIN under = 1 .. Len(under) /\ Len(under) \in Nat
    BY <2>1
  <2>3. under \in [1 .. Len(under) -> Frames(heap)]
    BY <1>2, <2>1, <2>2
  <2> QED  BY <2>2, <2>3
<1>5. ASSUME NEW src \in Regs,
             frames' = Answered(Innermost.ty[src], HeldSplit(Innermost, src))
      PROVE  frames' \in Seq(Frames(heap))
  <2> DEFINE t == Innermost.ty[src]
             v == HeldSplit(Innermost, src)
  <2>1. t \in Types /\ v \in Value /\ Fit(heap, t, v)
    BY <1>2, FrameFields, SplitFits
  <2>2. frames' = Answered(t, v)
    BY <1>5
  <2> HIDE DEF t, v
  <2>3. Answered(t, v) \in Seq(Frames(heap))
    BY <1>3, <1>4, <2>1, AnswerPut
  <2> QED  BY <2>2, <2>3
<1>6. frames' \in Seq(Frames(heap))
  BY <1>4, <1>5 DEF RoutineReturns, Back2VM
<1> QED  BY <1>1, <1>6, VMKeeps

\* and so does the end of a kept call, to frames that were lent and were swept with.
LEMMA KeptReturnsGood ==
    ASSUME TInv, KeptReturns
    PROVE  CarriedInv' /\ GoodInv'
<1>1. mode = "kept" /\ CompiledRuns /\ mode' = "vm" /\ compiled' = <<>> /\ heap' = heap
  BY DEF KeptReturns, Back2VM, heapVars
<1>2. /\ ShapeInv /\ Innermost \in SplitFrames(heap) /\ Innermost \in Frame
  BY <1>1, CompiledGood
<1>3. frames \in Seq(Frames(heap)) /\ frames # <<>>
  BY <1>1, <1>2, VMGood, CompiledHas DEF TInv, StackShape
<1>4. Current \in Frames(heap)
  BY <1>3, LastOf DEF Current
<1>5. ASSUME NEW src \in Regs,
             frames' = WithCurrent(Put(Current, Innermost.dst, Innermost.ty[src],
                                       HeldSplit(Innermost, src)))
      PROVE  frames' \in Seq(Frames(heap))
  <2> DEFINE g == Put(Current, Innermost.dst, Innermost.ty[src], HeldSplit(Innermost, src))
  <2>1. /\ Innermost.ty[src] \in Types /\ HeldSplit(Innermost, src) \in Value
        /\ Fit(heap, Innermost.ty[src], HeldSplit(Innermost, src)) /\ Innermost.dst \in Regs
    BY <1>2, FrameFields, SplitFits
  <2>2. g \in Frames(heap)
    BY <1>4, <2>1, PutGood
  <2>3. frames' = Replaced(frames, g)
    BY <1>5 DEF WithCurrent, Replaced
  <2> HIDE DEF g
  <2>4. Replaced(frames, g) \in Seq(Frames(heap))
    BY <1>3, <2>2, LastReplaced
  <2> QED  BY <2>3, <2>4
<1>6. frames' \in Seq(Frames(heap))
  BY <1>3, <1>5 DEF KeptReturns, Back2VM
<1> QED  BY <1>1, <1>6, VMKeeps

\* At the end of the program nobody waits for anything.
LEMMA StopsGood ==
    ASSUME Stops
    PROVE  CarriedInv' /\ GoodInv'
<1>1. frames' = <<>> /\ compiled' = <<>> /\ step' = "stopped"
  BY DEF Stops, Ended
<1>2. Waiting' = {}
  <2>1. DOMAIN <<>> = {} /\ Len(<<>>) = 0
    OBVIOUS
  <2> QED  BY <1>1, <2>1 DEF Waiting
<1>3. DOMAIN compiled' = {}
  BY <1>1
<1> QED  BY <1>1, <1>2, <1>3 DEF CarriedInv, GoodInv

\* Every step of compiled code that answers no array to compiled code,
LEMMA CompiledKeepsGood ==
    ASSUME TInv, ~CompiledArrayCalls, CompiledInstruction
    PROVE  CarriedInv' /\ GoodInv'
<1>1. CASE \E dst \in Regs, t \in Scalars : JLoad(dst, t)
  <2>1. PICK dst \in Regs, t \in Scalars : JLoad(dst, t)
    BY <1>1
  <2>2. t \in Types /\ t # "array"
    BY VMAssumption DEF VMAssumption, Types
  <2>3. Blank \in Value /\ Fit(heap, t, Blank)
    BY <2>2, BlankFits
  <2> QED  BY <2>1, <2>2, <2>3, JPutGood DEF JLoad
<1>2. CASE \E dst, src \in Regs : JMove(dst, src)
  <2>1. PICK dst \in Regs, src \in Regs : JMove(dst, src)
    BY <1>2
  <2>2. Innermost \in SplitFrames(heap) /\ Innermost \in Frame
    BY <2>1, CompiledGood DEF JMove, Inside
  <2>3. /\ Innermost.ty[src] \in Types /\ HeldSplit(Innermost, src) \in Value
        /\ Fit(heap, Innermost.ty[src], HeldSplit(Innermost, src))
    BY <2>2, FrameFields, SplitFits
  <2> QED  BY <2>1, <2>3, JPutGood DEF JMove
<1>3. CASE \E dst, item \in Regs, len \in 0 .. MaxLen : JNewArray(dst, item, len)
  <2>1. PICK dst \in Regs, item \in Regs, len \in 0 .. MaxLen : JNewArray(dst, item, len)
    BY <1>3
  <2>2. len \in Nat
    BY VMAssumption DEF VMAssumption
  <2> QED  BY <2>1, <2>2, JNewArrayGood
<1>4. CASE \E fn \in Funcs, base, dst \in Regs, argc \in Args : JCall(fn, base, argc, dst)
  BY <1>4, JCallGood
<1>5. CASE \E src \in Regs : JReturn(src)
  BY <1>5, JReturnGood
<1>6. CASE JReturnNothing \/ RoutineReturns \/ KeptReturns
  BY <1>6, JReturnNothingGood, RoutineReturnsGood, KeptReturnsGood
<1>7. CASE JStop \/ JCallTooDeep
  BY <1>7, StopsGood DEF JStop, JCallTooDeep
<1> QED  BY <1>1, <1>2, <1>3, <1>4, <1>5, <1>6, <1>7 DEF CompiledInstruction

\* and every step there is.
LEMMA TieredNext ==
    ASSUME TInv, ~CompiledArrayCalls, [TNext]_tvars
    PROVE  TInv'
<1>1. ShapeInv'
  BY ShapeNext DEF TInv
<1>2. CASE VMInstruction \/ Back
  BY <1>1, <1>2, VMSideGood DEF TInv
<1>3. CASE Hot \/ CompiledInstruction
  BY <1>1, <1>3, HotGood, CompiledKeepsGood DEF TInv
<1>4. CASE \E fn \in Funcs, base, dst \in Regs, argc \in Args :
              CallInterpreted(fn, base, argc, dst)
  BY <1>1, <1>4, VMSideGood DEF TInv
<1>5. CASE \E fn \in Funcs, base, dst \in Regs, argc \in Args :
              CallKept(fn, base, argc, dst)
  BY <1>1, <1>5, CallKeptGood DEF TInv
<1>6. CASE UNCHANGED tvars
  BY <1>1, <1>6 DEF tvars, vars, heapVars, entryVars, TInv, CarriedInv, GoodInv, Waiting
<1> QED  BY <1>2, <1>3, <1>4, <1>5, <1>6 DEF TNext

\* The start.
LEMMA TieredInit == TInit => TInv
<1> SUFFICES ASSUME TInit  PROVE TInv
  OBVIOUS
<1> DEFINE f == Fresh(Top, 1)
<1>1. ShapeInv
  BY ShapeInit
<1>2. f \in Frames(heap) /\ f \in SplitFrames(heap)
  BY FreshFrame, VMAssumption DEF VMAssumption
<1>3. /\ frames = <<f>> /\ mode \in {"vm", "whole"} /\ (compiled = <<>> \/ compiled = <<f>>)
  BY DEF TInit, Init
<1> HIDE DEF f
<1>4. /\ \A i \in DOMAIN frames : frames[i] \in Frames(heap)
      /\ \A i \in DOMAIN compiled : compiled[i] \in SplitFrames(heap)
  BY <1>2, <1>3
<1>5. Waiting \subseteq DOMAIN frames
  BY <1>3 DEF Waiting
<1> QED  BY <1>1, <1>3, <1>4, <1>5 DEF TInv, CarriedInv, GoodInv

\* Where compiled code calls no routine that answers an array, every handle that code
\* may still read names the array it was made for, in the VM's registers, in those
\* waiting for compiled code to come back, and in compiled code's own: what was
\* carried over and what was lent were enough to sweep with.
THEOREM HandlesHoldTiered ==
    ASSUME ~CompiledArrayCalls
    PROVE  TSpec => []HandlesGood
<1>1. TInv => HandlesGood
  <2> SUFFICES ASSUME TInv  PROVE HandlesGood
    OBVIOUS
  <2>1. ASSUME NEW i \in Waiting, NEW r \in Regs, frames[i].ty[r] = "array"
        PROVE  Good(heap, frames[i].raw[r])
    <3>1. frames[i] \in Frames(heap)
      BY DEF TInv, GoodInv
    <3> QED  BY <2>1, <3>1, TieredAssumption DEF TieredAssumption, Frames, BoxedGood, Fit
  <2>2. ASSUME NEW i \in DOMAIN compiled, NEW r \in Regs, compiled[i].ty[r] = "array"
        PROVE  Good(heap, compiled[i].raw[r])
    <3>1. compiled[i] \in SplitFrames(heap)
      BY DEF TInv, GoodInv
    <3> QED  BY <2>2, <3>1 DEF SplitFrames, SplitGood, Fit, HeldSplit
  <2> QED  BY <2>1, <2>2 DEF HandlesGood
<1>2. TInit => TInv
  BY TieredInit
<1>3. TInv /\ [TNext]_tvars => TInv'
  BY TieredNext
<1> QED  BY <1>1, <1>2, <1>3, PTL DEF TSpec

=============================================================================
