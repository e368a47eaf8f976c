------------------------------ MODULE VMProofs ------------------------------
(***************************************************************************)
(* Proofs about VM: whatever was made, moved, passed, answered and         *)
(* collected, every handle a register of an open call holds names the      *)
(* array it was made for; the heap does not outgrow its threshold; and a   *)
(* call disturbs no register of its callers but the one its answer goes    *)
(* to.  For any register file, any number of registers and calls, any      *)
(* threshold.                                                              *)
(***************************************************************************)
EXTENDS VM, HeapFacts

-----------------------------------------------------------------------------
(* Frames, and when they are good. *)

Types == {"num", "text", "array"}
Value == [depth : Nat, bits : Nat, born : Nat]

Frame == [fn : Funcs \cup {Top}, dst : Regs, ty : [Regs -> Types],
          raw : [Regs -> Value], cells : [Regs -> Value]]

Slots == Slot({0}, {Blank})

\* A value is a good handle or none, as its type says.
Fit(h, t, v) == Good(h, v) /\ (IsArray(v) <=> t = "array")

\* A frame of values.
BoxedGood(h, f) == \A r \in Regs : Fit(h, f.ty[r], f.raw[r])

\* A frame of words and cells: a handle is in both, and no cell, in use or not,
\* names a slot that has been handed to another array.
SplitGood(h, f) ==
    \A r \in Regs : /\ Fit(h, f.ty[r], HeldSplit(f, r))
                    /\ Good(h, f.cells[r])
                    /\ f.ty[r] = "array" => f.cells[r] = f.raw[r]

SplitFrames(h) == {f \in Frame : SplitGood(h, f)}

\* The frames of the VM, in whichever file it has.
Frames(h) == IF File = "boxed" THEN {f \in Frame : BoxedGood(h, f)} ELSE SplitFrames(h)

-----------------------------------------------------------------------------
(* The inductive invariant, part by part. *)

HeapInv ==
    /\ heap \in Seq(Slots) /\ FreeSound(heap, free)
    /\ since \in 0 .. UsizeMax /\ made \in Nat /\ kept \in Nat

StackInv ==
    /\ frames \in Seq(Frames(heap))
    /\ frames = <<>> <=> step = "stopped"

\* What a tier leaves true as well.
MachineInv == HeapInv /\ StackInv

\* The count of bytes handed out since the last collection covers what the heap
\* has grown by, unless it is stuck at its end; and between instructions it is
\* under the threshold.
BytesInv ==
    /\ step \in {"run", "collect", "stopped"}
    /\ since = UsizeMax \/ TotalBytes(heap) <= kept + since
    /\ step = "run" => \A l \in Limit : since < l

IInv == MachineInv /\ BytesInv

-----------------------------------------------------------------------------
(* Sequences used as stacks. *)

\* The innermost of a stack that has one.
LEMMA LastOf ==
    ASSUME NEW S, NEW s \in Seq(S), s # <<>>
    PROVE  Len(s) \in Nat \ {0} /\ Len(s) \in DOMAIN s /\ s[Len(s)] \in S
OBVIOUS

\* Another in its place.
Replaced(s, x) == [s EXCEPT ![Len(s)] = x]

\* The rest of the stack is as it was.
LEMMA LastReplaced ==
    ASSUME NEW S, NEW s \in Seq(S), s # <<>>, NEW x \in S
    PROVE  /\ Replaced(s, x) \in Seq(S) /\ Replaced(s, x) # <<>>
           /\ Len(Replaced(s, x)) = Len(s) /\ DOMAIN Replaced(s, x) = DOMAIN s
           /\ Replaced(s, x)[Len(s)] = x
           /\ \A i \in DOMAIN s : i # Len(s) => Replaced(s, x)[i] = s[i]
<1>1. Len(s) \in Nat /\ Len(s) \in DOMAIN s
  OBVIOUS
<1> QED  BY <1>1 DEF Replaced

\* One more.
LEMMA LastAdded ==
    ASSUME NEW S, NEW s \in Seq(S), NEW x \in S
    PROVE  /\ Append(s, x) \in Seq(S) /\ Append(s, x) # <<>>
           /\ Len(s) \in Nat /\ Len(Append(s, x)) = Len(s) + 1
           /\ Append(s, x)[Len(s) + 1] = x
           /\ \A i \in DOMAIN s : Append(s, x)[i] = s[i]
<1>1. /\ Append(s, x) \in Seq(S) /\ Len(s) \in Nat /\ Len(Append(s, x)) = Len(s) + 1
      /\ Append(s, x)[Len(s) + 1] = x
      /\ \A i \in DOMAIN s : Append(s, x)[i] = s[i]
  OBVIOUS
<1>2. Append(s, x) = <<>> => Len(Append(s, x)) = 0
  OBVIOUS
<1> QED  BY <1>1, <1>2

\* What is underneath.
LEMMA FrontOf ==
    ASSUME NEW S, NEW s \in Seq(S), Len(s) > 1
    PROVE  /\ Front(s) \in Seq(S) /\ Front(s) # <<>>
           /\ Len(s) \in Nat /\ Len(Front(s)) = Len(s) - 1
           /\ \A i \in 1 .. Len(s) - 1 : Front(s)[i] = s[i]
<1> DEFINE g == SubSeq(s, 1, Len(s) - 1)
<1>1. /\ g \in Seq(S) /\ Len(g) = Len(s) - 1 /\ Len(s) \in Nat
      /\ \A i \in 1 .. Len(s) - 1 : g[i] = s[i]
  OBVIOUS
<1>2. \A q : q = <<>> => Len(q) = 0
  OBVIOUS
<1>3. g # <<>>
  <2> HIDE DEF g
  <2> QED  BY <1>1, <1>2
<1> QED  BY <1>1, <1>3, Zenon DEF Front

-----------------------------------------------------------------------------
(* Registers. *)

\* A number, whatever its bits, fits any register that is not an array's.
LEMMA BlankFits ==
    ASSUME NEW h, NEW t, t # "array"
    PROVE  Blank \in Value /\ Good(h, Blank) /\ Fit(h, t, Blank)
BY DEF Blank, Num, Value, IsArray, Good, Fit

\* An empty frame is good in either file.
LEMMA FreshFrame ==
    ASSUME NEW h, NEW fn \in Funcs \cup {Top}, NEW dst \in Regs
    PROVE  /\ Fresh(fn, dst) \in Frame /\ Fresh(fn, dst) \in Frames(h)
           /\ Fresh(fn, dst) \in SplitFrames(h)
           /\ Fresh(fn, dst).fn = fn /\ Fresh(fn, dst).dst = dst
<1> DEFINE f == Fresh(fn, dst)
<1>1. Blank \in Value /\ Good(h, Blank) /\ Fit(h, "num", Blank)
  BY BlankFits
<1>2. f \in Frame /\ f.fn = fn /\ f.dst = dst
  BY <1>1 DEF Fresh, Frame, Types
<1>3. \A r \in Regs : f.raw[r] = Blank /\ f.cells[r] = Blank /\ f.ty[r] = "num"
  BY DEF Fresh
<1> HIDE DEF f
<1>4. BoxedGood(h, f) /\ SplitGood(h, f)
  BY <1>1, <1>3 DEF BoxedGood, SplitGood, HeldSplit
<1> QED  BY <1>2, <1>4 DEF Frames, SplitFrames, f

\* The fields of a frame.
LEMMA FrameFields ==
    ASSUME NEW f \in Frame, NEW r \in Regs
    PROVE  /\ f.fn \in Funcs \cup {Top} /\ f.dst \in Regs
           /\ f.ty[r] \in Types /\ f.raw[r] \in Value /\ f.cells[r] \in Value
           /\ Held(f, r) \in Value /\ HeldSplit(f, r) \in Value
<1>1. f.ty[r] \in Types /\ f.raw[r] \in Value /\ f.cells[r] \in Value
  BY DEF Frame
<1> QED  BY <1>1 DEF Frame, Held, HeldSplit

\* What a register holds may be put in another as what it is: of the VM,
LEMMA HeldFits ==
    ASSUME NEW h, NEW f \in Frames(h), NEW r \in Regs
    PROVE  f \in Frame /\ Fit(h, f.ty[r], Held(f, r))
BY DEF Frames, SplitFrames, BoxedGood, SplitGood, Held

\* and of words and cells.
LEMMA SplitFits ==
    ASSUME NEW h, NEW f \in SplitFrames(h), NEW r \in Regs
    PROVE  f \in Frame /\ Fit(h, f.ty[r], HeldSplit(f, r))
BY DEF SplitFrames, SplitGood

\* A frame like f, but for its register r, which is of type t now.
OnlyAt(g, f, r, t) ==
    /\ g \in Frame /\ g.fn = f.fn /\ g.dst = f.dst
    /\ g.ty[r] = t
    /\ \A q \in Regs : q # r => /\ g.ty[q] = f.ty[q] /\ g.raw[q] = f.raw[q]
                                /\ g.cells[q] = f.cells[q]

\* A frame with the three sides of one register replaced.
Patched(f, r, t, x, y) ==
    [f EXCEPT !.ty    = [f.ty EXCEPT ![r] = t],
              !.raw   = [f.raw EXCEPT ![r] = x],
              !.cells = [f.cells EXCEPT ![r] = y]]

\* It is such a frame.
LEMMA PatchedFrame ==
    ASSUME NEW f \in Frame, NEW r \in Regs, NEW t \in Types, NEW x \in Value, NEW y \in Value
    PROVE  /\ OnlyAt(Patched(f, r, t, x, y), f, r, t)
           /\ Patched(f, r, t, x, y).raw[r] = x /\ Patched(f, r, t, x, y).cells[r] = y
<1> DEFINE ty    == [f.ty EXCEPT ![r] = t]
           raw   == [f.raw EXCEPT ![r] = x]
           cells == [f.cells EXCEPT ![r] = y]
           g == [f EXCEPT !.ty = ty, !.raw = raw, !.cells = cells]
<1>1. f.ty \in [Regs -> Types] /\ f.raw \in [Regs -> Value] /\ f.cells \in [Regs -> Value]
  BY DEF Frame
<1>2. ty \in [Regs -> Types] /\ raw \in [Regs -> Value] /\ cells \in [Regs -> Value]
  BY <1>1
<1>3. /\ ty[r] = t /\ raw[r] = x /\ cells[r] = y
      /\ \A q \in Regs : q # r => ty[q] = f.ty[q] /\ raw[q] = f.raw[q] /\ cells[q] = f.cells[q]
  BY <1>1
<1>4. Patched(f, r, t, x, y) = g
  BY DEF Patched
<1> HIDE DEF ty, raw, cells
<1>5. g \in Frame /\ g.fn = f.fn /\ g.dst = f.dst /\ g.ty = ty /\ g.raw = raw /\ g.cells = cells
  BY <1>2 DEF Frame
<1> HIDE DEF g
<1>6. OnlyAt(g, f, r, t) /\ g.raw[r] = x /\ g.cells[r] = y
  BY <1>3, <1>5 DEF OnlyAt
<1> QED  BY <1>4, <1>6

\* What the three ways to put a value in a register do: to a file of values,
LEMMA BoxedPut ==
    ASSUME NEW f \in Frame, NEW r \in Regs, NEW t \in Types, NEW v \in Value
    PROVE  OnlyAt(PutBoxed(f, r, t, v), f, r, t) /\ PutBoxed(f, r, t, v).raw[r] = v
<1>1. f.cells[r] \in Value /\ f.cells = [f.cells EXCEPT ![r] = f.cells[r]]
  BY DEF Frame
<1>2. PutBoxed(f, r, t, v) = Patched(f, r, t, v, f.cells[r])
  BY <1>1 DEF PutBoxed, Patched, Frame
<1> QED  BY <1>1, <1>2, PatchedFrame

\* to one of words and cells,
LEMMA SplitPut ==
    ASSUME NEW f \in Frame, NEW r \in Regs, NEW t \in Types, NEW v \in Value
    PROVE  /\ OnlyAt(PutSplit(f, r, t, v), f, r, t)
           /\ PutSplit(f, r, t, v).raw[r] = IF t = "text" THEN f.raw[r] ELSE v
           /\ PutSplit(f, r, t, v).cells[r] = IF t = "num" THEN f.cells[r] ELSE v
<1> DEFINE x == IF t = "text" THEN f.raw[r] ELSE v
           y == IF t = "num" THEN f.cells[r] ELSE v
<1>1. x \in Value /\ y \in Value
  BY FrameFields
<1>2. PutSplit(f, r, t, v) = Patched(f, r, t, x, y)
  BY DEF PutSplit, Patched, Frame
<1> HIDE DEF x, y
<1>3. OnlyAt(PutSplit(f, r, t, v), f, r, t)
      /\ PutSplit(f, r, t, v).raw[r] = x /\ PutSplit(f, r, t, v).cells[r] = y
  BY <1>1, <1>2, PatchedFrame
<1> QED  BY <1>3 DEF x, y

\* which keeps it good,
LEMMA SplitPutGood ==
    ASSUME NEW h, NEW f \in SplitFrames(h), NEW r \in Regs, NEW t \in Types, NEW v \in Value,
           Fit(h, t, v)
    PROVE  /\ PutSplit(f, r, t, v) \in SplitFrames(h)
           /\ OnlyAt(PutSplit(f, r, t, v), f, r, t)
<1> DEFINE g == PutSplit(f, r, t, v)
<1>1. f \in Frame /\ SplitGood(h, f)
  BY DEF SplitFrames
<1>2. /\ OnlyAt(g, f, r, t)
      /\ g.raw[r] = IF t = "text" THEN f.raw[r] ELSE v
      /\ g.cells[r] = IF t = "num" THEN f.cells[r] ELSE v
  BY <1>1, SplitPut
<1> HIDE DEF g
<1>3. ASSUME NEW q \in Regs
      PROVE  /\ Fit(h, g.ty[q], HeldSplit(g, q)) /\ Good(h, g.cells[q])
             /\ g.ty[q] = "array" => g.cells[q] = g.raw[q]
  <2>1. CASE q = r
    BY <1>1, <1>2, <2>1 DEF OnlyAt, SplitGood, HeldSplit, Fit
  <2>2. CASE q # r
    BY <1>1, <1>2, <2>2 DEF OnlyAt, SplitGood, HeldSplit
  <2> QED  BY <2>1, <2>2
<1>4. g \in Frame /\ SplitGood(h, g)
  BY <1>2, <1>3 DEF OnlyAt, SplitGood
<1> QED  BY <1>2, <1>4 DEF SplitFrames, g

\* and to a file of the VM, whichever it is.
LEMMA PutGood ==
    ASSUME NEW h, NEW f \in Frames(h), NEW r \in Regs, NEW t \in Types, NEW v \in Value,
           Fit(h, t, v)
    PROVE  Put(f, r, t, v) \in Frames(h) /\ OnlyAt(Put(f, r, t, v), f, r, t)
<1>1. CASE File = "boxed"
  <2> DEFINE g == PutBoxed(f, r, t, v)
  <2>1. f \in Frame /\ BoxedGood(h, f)
    BY <1>1 DEF Frames
  <2>2. OnlyAt(g, f, r, t) /\ g.raw[r] = v
    BY <2>1, BoxedPut
  <2> HIDE DEF g
  <2>3. BoxedGood(h, g)
    BY <2>1, <2>2 DEF OnlyAt, BoxedGood
  <2>4. g \in Frames(h)
    BY <1>1, <2>2, <2>3 DEF Frames, OnlyAt
  <2> QED  BY <1>1, <2>2, <2>4 DEF Put, g
<1>2. CASE File # "boxed"
  <2>1. Frames(h) = SplitFrames(h) /\ Put(f, r, t, v) = PutSplit(f, r, t, v)
    BY <1>2 DEF Frames, Put
  <2>2. f \in SplitFrames(h)
    BY <2>1
  <2>3. /\ PutSplit(f, r, t, v) \in SplitFrames(h)
        /\ OnlyAt(PutSplit(f, r, t, v), f, r, t)
    BY <2>2, SplitPutGood
  <2> QED  BY <2>1, <2>3
<1> QED  BY <1>1, <1>2

\* What a frame of values holds, in words and cells: a value is a good thing to
\* have wherever it is looked for.
LEMMA BoxedIsSplit ==
    ASSUME NEW h, NEW f \in Frame, BoxedGood(h, f), \A r \in Regs : f.cells[r] = f.raw[r]
    PROVE  f \in SplitFrames(h)
BY DEF BoxedGood, SplitFrames, SplitGood, HeldSplit, Fit

\* The frame of a call takes its first registers from the caller's, whole, and the
\* others from a fresh frame.
LEMMA CalledTakes ==
    ASSUME NEW f \in Frame, NEW fn \in Funcs \cup {Top}, NEW base \in Regs,
           NEW argc, Fits(base, argc), NEW dst \in Regs
    PROVE  LET g == Called(fn, f, base, argc, dst)
               e == Fresh(fn, dst)
           IN /\ g \in Frame /\ g.fn = fn /\ g.dst = dst
              /\ \A r \in Regs : \E q \in Regs, o \in {e, f} :
                   /\ g.ty[r] = o.ty[q] /\ g.raw[r] = o.raw[q]
                   /\ File # "boxed" => g.cells[r] = o.cells[q]
<1> DEFINE e == Fresh(fn, dst)
           g == Called(fn, f, base, argc, dst)
<1>1. e \in Frame /\ e.dst = dst /\ e.fn = fn
  BY FreshFrame
<1>2. \A r \in 1 .. argc : base + r - 1 \in Regs
  BY DEF Fits
<1> HIDE DEF e
<1>3. /\ e.ty \in [Regs -> Types] /\ e.raw \in [Regs -> Value] /\ e.cells \in [Regs -> Value]
      /\ f.ty \in [Regs -> Types] /\ f.raw \in [Regs -> Value] /\ f.cells \in [Regs -> Value]
  BY <1>1 DEF Frame
<1> DEFINE ty    == Passed(e.ty, f.ty, base, argc)
           raw   == Passed(e.raw, f.raw, base, argc)
           cells == Passed(e.cells, f.cells, base, argc)
<1>4. g = [e EXCEPT !.ty = ty, !.raw = raw, !.cells = IF File = "boxed" THEN e.cells ELSE cells]
  BY <1>1 DEF Called, Frame, e
<1>5. /\ ty \in [Regs -> Types] /\ raw \in [Regs -> Value] /\ cells \in [Regs -> Value]
      /\ \A r \in Regs :
           /\ ty[r] = IF r \in 1 .. argc THEN f.ty[base + r - 1] ELSE e.ty[r]
           /\ raw[r] = IF r \in 1 .. argc THEN f.raw[base + r - 1] ELSE e.raw[r]
           /\ cells[r] = IF r \in 1 .. argc THEN f.cells[base + r - 1] ELSE e.cells[r]
  <2>1. /\ ty \in [Regs -> Types]
        /\ \A r \in Regs : ty[r] = IF r \in 1 .. argc THEN f.ty[base + r - 1] ELSE e.ty[r]
    BY <1>2, <1>3 DEF Passed
  <2>2. /\ raw \in [Regs -> Value]
        /\ \A r \in Regs : raw[r] = IF r \in 1 .. argc THEN f.raw[base + r - 1] ELSE e.raw[r]
    BY <1>2, <1>3 DEF Passed
  <2>3. /\ cells \in [Regs -> Value]
        /\ \A r \in Regs : cells[r] = IF r \in 1 .. argc THEN f.cells[base + r - 1]
                                      ELSE e.cells[r]
    BY <1>2, <1>3 DEF Passed
  <2> HIDE DEF ty, raw, cells
  <2> QED  BY <2>1, <2>2, <2>3
<1> HIDE DEF ty, raw, cells, g
<1>6. /\ g \in Frame /\ g.fn = fn /\ g.dst = dst
      /\ g.ty = ty /\ g.raw = raw /\ (File # "boxed" => g.cells = cells)
  BY <1>1, <1>3, <1>4, <1>5 DEF Frame
<1>7. ASSUME NEW r \in Regs
      PROVE  \E q \in Regs, o \in {e, f} :
               /\ g.ty[r] = o.ty[q] /\ g.raw[r] = o.raw[q]
               /\ File # "boxed" => g.cells[r] = o.cells[q]
  <2>1. CASE r \in 1 .. argc
    BY <1>2, <1>5, <1>6, <2>1
  <2>2. CASE r \notin 1 .. argc
    BY <1>5, <1>6, <2>2
  <2> QED  BY <2>1, <2>2
<1> QED  BY <1>6, <1>7 DEF g, e

\* So it is as good as the caller's.
LEMMA CalledGood ==
    ASSUME NEW h, NEW f \in Frames(h), NEW fn \in Funcs \cup {Top}, NEW base \in Regs,
           NEW argc, Fits(base, argc), NEW dst \in Regs
    PROVE  /\ Called(fn, f, base, argc, dst) \in Frames(h)
           /\ Called(fn, f, base, argc, dst).fn = fn
           /\ Called(fn, f, base, argc, dst).dst = dst
<1> DEFINE g == Called(fn, f, base, argc, dst)
           e == Fresh(fn, dst)
<1>1. f \in Frame /\ e \in Frames(h)
  BY FreshFrame DEF Frames, SplitFrames
<1>2. /\ g \in Frame /\ g.fn = fn /\ g.dst = dst
      /\ \A r \in Regs : \E q \in Regs, o \in {e, f} :
           /\ g.ty[r] = o.ty[q] /\ g.raw[r] = o.raw[q]
           /\ File # "boxed" => g.cells[r] = o.cells[q]
  BY <1>1, CalledTakes
<1> HIDE DEF g, e
<1>3. CASE File = "boxed"
  <2>1. BoxedGood(h, g)
    BY <1>1, <1>2, <1>3 DEF Frames, BoxedGood
  <2> QED  BY <1>2, <1>3, <2>1 DEF Frames, g
<1>4. CASE File # "boxed"
  <2>1. SplitGood(h, e) /\ SplitGood(h, f)
    BY <1>1, <1>4 DEF Frames, SplitFrames
  <2>2. ASSUME NEW r \in Regs
        PROVE  /\ Fit(h, g.ty[r], HeldSplit(g, r)) /\ Good(h, g.cells[r])
               /\ g.ty[r] = "array" => g.cells[r] = g.raw[r]
    <3>1. PICK q \in Regs, o \in {e, f} : g.ty[r] = o.ty[q] /\ g.raw[r] = o.raw[q]
                                          /\ g.cells[r] = o.cells[q]
      BY <1>2, <1>4
    <3>2. SplitGood(h, o)
      BY <2>1
    <3> QED  BY <3>1, <3>2 DEF SplitGood, HeldSplit
  <2>3. SplitGood(h, g)
    BY <2>2 DEF SplitGood
  <2> QED  BY <1>2, <1>4, <2>3 DEF Frames, SplitFrames, g
<1> QED  BY <1>3, <1>4

\* A frame of words and cells stays good in a heap that keeps what is in its cells,
LEMMA SplitKept ==
    ASSUME NEW h, NEW h2, NEW f \in SplitFrames(h),
           \A v \in CellRoots(f) : Good(h, v) => Good(h2, v)
    PROVE  f \in SplitFrames(h2)
<1>1. f \in Frame /\ SplitGood(h, f)
  BY DEF SplitFrames
<1>2. ASSUME NEW r \in Regs
      PROVE  /\ Fit(h2, f.ty[r], HeldSplit(f, r)) /\ Good(h2, f.cells[r])
             /\ f.ty[r] = "array" => f.cells[r] = f.raw[r]
  <2>1. Good(h2, f.cells[r])
    BY <1>1 DEF SplitGood, CellRoots
  <2>2. CASE f.ty[r] = "array"
    BY <1>1, <2>1, <2>2 DEF SplitGood, HeldSplit, Fit
  <2>3. CASE f.ty[r] # "array"
    BY <1>1, <2>1, <2>3 DEF SplitGood, Fit, Good
  <2> QED  BY <2>2, <2>3
<1> QED  BY <1>1, <1>2 DEF SplitFrames, SplitGood

\* and one of the VM in a heap that keeps what it shows.
LEMMA FrameKept ==
    ASSUME NEW h, NEW h2, NEW f \in Frames(h),
           \A v \in FileRoots(f) : Good(h, v) => Good(h2, v)
    PROVE  f \in Frames(h2)
<1>1. CASE File = "boxed"
  <2>1. f \in Frame /\ BoxedGood(h, f) /\ \A r \in Regs : f.raw[r] \in FileRoots(f)
    BY <1>1 DEF Frames, FileRoots
  <2>2. BoxedGood(h2, f)
    BY <2>1 DEF BoxedGood, Fit
  <2> QED  BY <1>1, <2>1, <2>2 DEF Frames
<1>2. CASE File # "boxed"
  BY <1>2, SplitKept DEF Frames, FileRoots
<1> QED  BY <1>1, <1>2

\* What a good frame shows a collection is good.
LEMMA ShownGood ==
    ASSUME NEW h, NEW f \in Frames(h)
    PROVE  \A v \in FileRoots(f) : Good(h, v)
BY DEF Frames, SplitFrames, BoxedGood, SplitGood, Fit, FileRoots, CellRoots

\* A stack of them, likewise.
LEMMA StackKept ==
    ASSUME NEW h, NEW h2, NEW fs \in Seq(Frames(h)),
           \A i \in DOMAIN fs : \A v \in FileRoots(fs[i]) : Good(h, v) => Good(h2, v)
    PROVE  fs \in Seq(Frames(h2))
<1>1. \A i \in DOMAIN fs : fs[i] \in Frames(h)
  OBVIOUS
<1>2. \A i \in DOMAIN fs : fs[i] \in Frames(h2)
  BY <1>1, FrameKept
<1>3. fs \in [1 .. Len(fs) -> Frames(h2)] /\ Len(fs) \in Nat
  BY <1>2
<1> QED  BY <1>3

-----------------------------------------------------------------------------
(* What the steps do to the machine. *)

\* The machine as it starts.
LEMMA MachineInit == Init => MachineInv
<1> SUFFICES ASSUME Init  PROVE MachineInv
  OBVIOUS
<1>1. /\ heap = <<>> /\ free = <<>> /\ since = 0 /\ made = 0 /\ kept = 0 /\ step = "run"
      /\ frames = <<Fresh(Top, 1)>>
  BY DEF Init
<1>2. FreeSound(<<>>, <<>>)
  BY DEF FreeSound
<1>3. Fresh(Top, 1) \in Frames(heap)
  BY FreshFrame, VMAssumption DEF VMAssumption
<1>4. StackInv
  BY <1>1, <1>3 DEF StackInv
<1>5. HeapInv
  BY <1>1, <1>2, UsizeMaxAssumption DEF HeapInv
<1> QED  BY <1>4, <1>5 DEF MachineInv

\* A step that leaves the heap alone, and a good stack.
LEMMA StackStep ==
    ASSUME MachineInv, UNCHANGED heapVars, frames' \in Seq(Frames(heap)),
           frames' = <<>> <=> step' = "stopped"
    PROVE  MachineInv'
BY DEF MachineInv, HeapInv, StackInv, heapVars

\* The end of the program.
LEMMA EndStep ==
    ASSUME MachineInv, UNCHANGED heapVars, Ended
    PROVE  MachineInv'
<1>1. frames' = <<>> /\ step' = "stopped"
  BY DEF Ended
<1>2. frames' \in Seq(Frames(heap))
  BY <1>1
<1> QED  BY <1>1, <1>2, StackStep

\* While the program runs it has a frame, and the innermost is a good one.
LEMMA RunningHas ==
    ASSUME MachineInv, Running
    PROVE  /\ frames \in Seq(Frames(heap)) /\ frames # <<>>
           /\ Current \in Frames(heap) /\ Current \in Frame
<1>1. frames \in Seq(Frames(heap)) /\ frames # <<>>
  BY DEF MachineInv, StackInv, Running
<1>2. Current \in Frames(heap)
  BY <1>1, LastOf DEF Current
<1> QED  BY <1>1, <1>2 DEF Frames, SplitFrames

\* A value put in a register of the innermost frame.
LEMMA PutStep ==
    ASSUME MachineInv, Running, UNCHANGED heapVars, step' = "run",
           NEW r \in Regs, NEW t \in Types, NEW v \in Value, Fit(heap, t, v),
           frames' = WithCurrent(Put(Current, r, t, v))
    PROVE  MachineInv'
<1> DEFINE g == Put(Current, r, t, v)
<1>1. frames \in Seq(Frames(heap)) /\ frames # <<>> /\ Current \in Frames(heap)
  BY RunningHas
<1>2. g \in Frames(heap)
  BY <1>1, PutGood
<1>3. frames' = Replaced(frames, g)
  BY DEF WithCurrent, Replaced
<1> HIDE DEF g
<1>4. frames' \in Seq(Frames(heap)) /\ frames' # <<>>
  BY <1>1, <1>2, <1>3, LastReplaced
<1> QED  BY <1>4, StackStep

\* The frames after an answer: those underneath, the answer where it was asked for.
LEMMA AnswerPut ==
    ASSUME NEW h, frames \in Seq(Frame), Len(frames) > 1,
           NEW under, under = Front(frames), under \in Seq(Frames(h)),
           NEW t \in Types, NEW v \in Value, Fit(h, t, v)
    PROVE  /\ Answered(t, v) \in Seq(Frames(h)) /\ Answered(t, v) # <<>>
           /\ Len(Answered(t, v)) = Len(under)
           /\ DOMAIN Answered(t, v) = DOMAIN under
           /\ OnlyAt(Answered(t, v)[Len(under)], under[Len(under)], Current.dst, t)
           /\ \A i \in DOMAIN under : i # Len(under) => Answered(t, v)[i] = under[i]
<1> DEFINE b == under[Len(under)]
           g == Put(b, Current.dst, t, v)
<1>1. under # <<>>
  BY FrontOf
<1>2. b \in Frames(h)
  BY <1>1, LastOf
<1>3. Current.dst \in Regs
  <2>1. frames # <<>>
    <3>1. \A s : s = <<>> => Len(s) = 0
      OBVIOUS
    <3> QED  BY <3>1
  <2>2. Current \in Frame
    BY <2>1, LastOf DEF Current
  <2> QED  BY <2>2 DEF Frame
<1>4. Answered(t, v) = Replaced(under, g)
  BY Zenon DEF Answered, Replaced
<1> HIDE DEF b
<1>5. g \in Frames(h) /\ OnlyAt(g, b, Current.dst, t)
  BY <1>2, <1>3, PutGood
<1> HIDE DEF g
<1>6. /\ Replaced(under, g) \in Seq(Frames(h)) /\ Replaced(under, g) # <<>>
      /\ Len(Replaced(under, g)) = Len(under) /\ DOMAIN Replaced(under, g) = DOMAIN under
      /\ Replaced(under, g)[Len(under)] = g
  <2>1. Replaced(under, g) \in Seq(Frames(h)) /\ Replaced(under, g) # <<>>
    BY <1>1, <1>5, LastReplaced
  <2>2. Len(under) \in DOMAIN under
    BY <1>1, LastOf
  <2> QED  BY <2>1, <2>2 DEF Replaced
<1>7. \A i \in DOMAIN under : i # Len(under) => Replaced(under, g)[i] = under[i]
  BY DEF Replaced
<1> QED  BY <1>4, <1>5, <1>6, <1>7 DEF b

\* A return.
LEMMA AnswerStep ==
    ASSUME MachineInv, NEW src \in Regs, Return(src)
    PROVE  MachineInv'
<1> DEFINE t == Current.ty[src]
           v == Held(Current, src)
<1>1. /\ Running /\ Len(frames) > 1 /\ frames' = Answered(t, v)
      /\ UNCHANGED heapVars /\ step' = "run"
  BY DEF Return, Running
<1>2. frames \in Seq(Frames(heap)) /\ Current \in Frames(heap) /\ Current \in Frame
  BY <1>1, RunningHas
<1>3. t \in Types /\ v \in Value /\ Fit(heap, t, v)
  BY <1>2, HeldFits, FrameFields
<1>4. frames \in Seq(Frame)
  <2>1. \A f \in Frames(heap) : f \in Frame
    BY DEF Frames, SplitFrames
  <2> QED  BY <1>2, <2>1
<1>5. Front(frames) \in Seq(Frames(heap))
  BY <1>1, <1>2, FrontOf
<1> HIDE DEF t, v
<1>6. frames' \in Seq(Frames(heap)) /\ frames' # <<>>
  BY <1>1, <1>3, <1>4, <1>5, AnswerPut
<1> QED  BY <1>1, <1>6, StackStep

\* Making an array, in this heap or in one a sweep has just left, keeps every handle
\* there was, and the new one is good.
LEMMA Made ==
    ASSUME NEW h \in Seq(Slots), NEW fr, FreeSound(h, fr), NEW s \in 0 .. UsizeMax,
           made \in Nat, NEW len \in Nat, MadeIn(h, fr, s, len)
    PROVE  /\ heap' \in Seq(Slots) /\ FreeSound(heap', free')
           /\ made' \in Nat /\ since' \in 0 .. UsizeMax
           /\ \A v : Good(h, v) => Good(heap', v)
           /\ NewHandle(h, fr) \in Value /\ Fit(heap', "array", NewHandle(h, fr))
           /\ TotalBytes(h) \in Nat
           /\ \A k \in Nat : (s = UsizeMax \/ TotalBytes(h) <= k + s)
                => (since' = UsizeMax \/ TotalBytes(heap') <= k + since')
<1> DEFINE a == NewArrayRec(len)
<1>2. /\ heap' = PlacedHeap(h, fr, a) /\ free' = PlacedFree(fr)
      /\ since' = Charged(s, a) /\ made' = made + 1
  BY DEF MadeIn
<1>3. a \in Slots /\ a.id = made + 1 /\ Bytes(a) \in Nat
  <2>1. [k \in 1 .. len |-> Blank] \in Seq({Blank}) /\ Len([k \in 1 .. len |-> Blank]) = len
    OBVIOUS
  <2>2. a = [of |-> 0, store |-> [k \in 1 .. len |-> Blank], id |-> made + 1]
    BY DEF NewArrayRec, Array
  <2> QED  BY <2>1, <2>2 DEF Slots, Slot, Bytes
<1> HIDE DEF a
<1>4. heap' \in Seq(Slots) /\ PlaceAt(h, fr) \in Nat
  <2>1. PlacedHeap(h, fr, a) \in Seq(Slots) /\ PlaceAt(h, fr) \in 1 .. Len(PlacedHeap(h, fr, a))
    BY <1>3, Placed DEF Slots
  <2> QED  BY <1>2, <2>1
<1>5. FreeSound(heap', free')
  BY <1>2, <1>3, PlacedFreeSound DEF Slots
<1>6. /\ \A v : Good(h, v) => Good(heap', v)
      /\ Good(heap', HandleOf(1, PlaceAt(h, fr), made + 1))
  <2>1. a.id # 0
    BY <1>3
  <2> QED  BY <1>2, <1>3, <2>1, PlacedGood DEF Slots
<1>7. NewHandle(h, fr) \in Value /\ Fit(heap', "array", NewHandle(h, fr))
  BY <1>4, <1>6 DEF NewHandle, HandleOf, Value, IsArray, Fit
<1>8. TotalBytes(h) \in Nat /\ TotalBytes(heap') = TotalBytes(h) + Bytes(a)
  BY <1>2, <1>3, PlacedBytes DEF Slots
<1>9. /\ since' \in 0 .. UsizeMax
      /\ since' = UsizeMax \/ since' = s + Bytes(a)
      /\ s = UsizeMax => since' = UsizeMax
  BY <1>2, <1>3, UsizeMaxAssumption DEF Charged
<1>10. \A k \in Nat : (s = UsizeMax \/ TotalBytes(h) <= k + s)
          => (since' = UsizeMax \/ TotalBytes(heap') <= k + since')
  BY <1>3, <1>8, <1>9
<1>11. made' \in Nat
  BY <1>2
<1> QED  BY <1>4, <1>5, <1>6, <1>7, <1>8, <1>9, <1>10, <1>11

\* A new array.
LEMMA NewArrayStep ==
    ASSUME MachineInv, NEW dst \in Regs, NEW len \in Nat, NewArray(dst, len)
    PROVE  MachineInv'
<1> DEFINE v == NewHandle(heap, free)
           g == Put(Current, dst, "array", v)
<1>1. /\ Running /\ MadeIn(heap, free, since, len) /\ kept' = kept
      /\ frames' = WithCurrent(g) /\ step' # "stopped"
  BY DEF NewArray
<1>2. /\ heap' \in Seq(Slots) /\ FreeSound(heap', free') /\ made' \in Nat
      /\ since' \in 0 .. UsizeMax
      /\ \A w : Good(heap, w) => Good(heap', w)
      /\ v \in Value /\ Fit(heap', "array", v)
  BY <1>1, Made DEF MachineInv, HeapInv
<1>3. frames \in Seq(Frames(heap')) /\ frames # <<>> /\ Current \in Frames(heap')
  <2>1. frames \in Seq(Frames(heap)) /\ frames # <<>>
    BY <1>1, RunningHas
  <2>2. frames \in Seq(Frames(heap'))
    BY <1>2, <2>1, StackKept
  <2> QED  BY <2>1, <2>2, LastOf DEF Current
<1> HIDE DEF v
<1>4. "array" \in Types
  BY DEF Types
<1>5. g \in Frames(heap')
  BY <1>2, <1>3, <1>4, PutGood
<1> HIDE DEF g
<1>6. frames' = Replaced(frames, g)
  BY <1>1 DEF WithCurrent, Replaced
<1>7. frames' \in Seq(Frames(heap')) /\ frames' # <<>>
  BY <1>3, <1>5, <1>6, LastReplaced
<1>8. kept' \in Nat
  BY <1>1 DEF MachineInv, HeapInv
<1> QED  BY <1>1, <1>2, <1>7, <1>8 DEF MachineInv, HeapInv, StackInv

\* A collection.
LEMMA CollectingStep ==
    ASSUME MachineInv, Collecting
    PROVE  MachineInv' /\ TotalBytes(heap') \in Nat
<1>1. /\ step = "collect" /\ heap' = SweptHeap(heap, Roots) /\ free' = SweptFree(heap, free, Roots)
      /\ since' = 0 /\ kept' = TotalBytes(heap') /\ step' = "run"
      /\ made' = made /\ frames' = frames
  BY DEF Collecting
<1>2. /\ heap \in Seq(Slots) /\ FreeSound(heap, free) /\ made \in Nat
      /\ frames \in Seq(Frames(heap)) /\ frames # <<>>
  BY <1>1 DEF MachineInv, HeapInv, StackInv
<1>3. /\ heap' \in Seq(Slots) /\ FreeSound(heap', free')
      /\ \A v \in Roots : Good(heap, v) => Good(heap', v)
  BY <1>1, <1>2, Collected DEF Slots
<1>4. \A i \in DOMAIN frames : \A v \in FileRoots(frames[i]) : v \in Roots
  BY DEF Roots
<1>5. frames \in Seq(Frames(heap'))
  BY <1>2, <1>3, <1>4, StackKept
<1>6. TotalBytes(heap') \in Nat
  BY <1>3, BytesNatural DEF Slots
<1>7. HeapInv'
  BY <1>1, <1>2, <1>3, <1>6, UsizeMaxAssumption DEF HeapInv
<1>8. StackInv'
  BY <1>1, <1>2, <1>5 DEF StackInv
<1> QED  BY <1>6, <1>7, <1>8 DEF MachineInv

\* Every instruction but a call, whoever runs calls.
LEMMA MachineInstruction == MachineInv /\ Instruction => MachineInv'
<1> SUFFICES ASSUME MachineInv, Instruction  PROVE MachineInv'
  OBVIOUS
<1>1. CASE \E dst \in Regs, t \in Scalars : Load(dst, t)
  <2>1. PICK dst \in Regs, t \in Scalars : Load(dst, t)
    BY <1>1
  <2>2. t \in Types /\ Fit(heap, t, Blank) /\ Blank \in Value
    <3>1. t \in Types /\ t # "array"
      BY VMAssumption DEF VMAssumption, Types
    <3> QED  BY <3>1, BlankFits
  <2>3. /\ Running /\ UNCHANGED heapVars /\ step' = "run"
        /\ frames' = WithCurrent(Put(Current, dst, t, Blank))
    BY <2>1 DEF Load, Running
  <2> QED  BY <2>2, <2>3, PutStep
<1>2. CASE \E dst, src \in Regs : Move(dst, src)
  <2>1. PICK dst \in Regs, src \in Regs : Move(dst, src)
    BY <1>2
  <2>2. /\ Running /\ UNCHANGED heapVars /\ step' = "run"
        /\ frames' = WithCurrent(Put(Current, dst, Current.ty[src], Held(Current, src)))
    BY <2>1 DEF Move, Running
  <2>3. /\ Current.ty[src] \in Types /\ Held(Current, src) \in Value
        /\ Fit(heap, Current.ty[src], Held(Current, src))
    BY <2>2, RunningHas, HeldFits, FrameFields
  <2> QED  BY <2>2, <2>3, PutStep
<1>3. CASE \E dst \in Regs, len \in 0 .. MaxLen : NewArray(dst, len)
  BY <1>3, NewArrayStep, VMAssumption DEF VMAssumption
<1>4. CASE \E dst, src \in Regs, k \in 1 .. MaxLen + 1 : At(dst, src, k)
  <2>1. PICK dst \in Regs, src \in Regs, k \in 1 .. MaxLen + 1 : At(dst, src, k)
    BY <1>4
  <2>2. Running /\ UNCHANGED heapVars
    BY <2>1 DEF At
  <2>3. CASE Ended
    BY <2>2, <2>3, EndStep
  <2>4. CASE frames' = WithCurrent(Put(Current, dst, "num", Blank)) /\ step' = "run"
    <3>1. "num" \in Types /\ Fit(heap, "num", Blank) /\ Blank \in Value
      BY BlankFits DEF Types
    <3> QED  BY <2>2, <2>4, <3>1, PutStep
  <2> QED  BY <2>1, <2>3, <2>4 DEF At
<1>5. CASE Collecting
  BY <1>5, CollectingStep
<1>6. CASE CallTooDeep
  BY <1>6, EndStep DEF CallTooDeep
<1>7. CASE \E src \in Regs : Return(src)
  BY <1>7, AnswerStep
<1>8. CASE ReturnNothing
  <2>1. Running /\ Len(frames) > 1 /\ frames' = Front(frames) /\ UNCHANGED <<heapVars, step>>
    BY <1>8 DEF ReturnNothing
  <2>2. frames' \in Seq(Frames(heap)) /\ frames' # <<>>
    BY <2>1, RunningHas, FrontOf
  <2> QED  BY <2>1, <2>2, StackStep DEF Running
<1>9. CASE Halt
  BY <1>9, EndStep DEF Halt
<1> QED  BY <1>1, <1>2, <1>3, <1>4, <1>5, <1>6, <1>7, <1>8, <1>9 DEF Instruction

\* A call.
LEMMA MachineCall ==
    ASSUME MachineInv, NEW fn \in Funcs, NEW base \in Regs, NEW dst \in Regs, NEW argc,
           Call(fn, base, argc, dst)
    PROVE  MachineInv'
<1> DEFINE g == Called(fn, Current, base, argc, dst)
<1>1. Running /\ Fits(base, argc) /\ frames' = Append(frames, g) /\ UNCHANGED <<heapVars, step>>
  BY DEF Call, Calling
<1>2. frames \in Seq(Frames(heap)) /\ Current \in Frames(heap)
  BY <1>1, RunningHas
<1>3. g \in Frames(heap)
  BY <1>1, <1>2, CalledGood
<1> HIDE DEF g
<1>4. frames' \in Seq(Frames(heap)) /\ frames' # <<>>
  BY <1>1, <1>2, <1>3, LastAdded
<1> QED  BY <1>1, <1>4, StackStep DEF Running

-----------------------------------------------------------------------------
(* The inductive invariant. *)

\* The invariant holds at first.
LEMMA InitInv == Init => IInv
<1> SUFFICES ASSUME Init  PROVE IInv
  OBVIOUS
<1>1. MachineInv /\ heap = <<>> /\ since = 0 /\ kept = 0 /\ step = "run"
  BY MachineInit DEF Init
<1>2. TotalBytes(heap) = 0
  BY <1>1, BytesNatural DEF MachineInv, HeapInv, Slots
<1>3. \A l \in Limit : 0 < l
  BY VMAssumption DEF VMAssumption
<1> QED  BY <1>1, <1>2, <1>3 DEF IInv, BytesInv

\* Every step keeps the count of bytes.
LEMMA BytesNext == IInv /\ [Next]_vars => BytesInv'
<1> SUFFICES ASSUME IInv, [Next]_vars  PROVE BytesInv'
  OBVIOUS
<1>1. ASSUME UNCHANGED heapVars, step' \in {"run", "stopped"}, step' = "run" => step = "run"
      PROVE  BytesInv'
  BY <1>1 DEF IInv, BytesInv, heapVars
<1>2. CASE \E dst \in Regs, len \in 0 .. MaxLen : NewArray(dst, len)
  <2>1. PICK len \in 0 .. MaxLen :
             /\ MadeIn(heap, free, since, len) /\ kept' = kept
             /\ step' = IF Wants(Limit, since') THEN "collect" ELSE "run"
    BY <1>2 DEF NewArray
  <2>2. len \in Nat
    BY VMAssumption DEF VMAssumption
  <2>3. /\ since' \in 0 .. UsizeMax /\ kept \in Nat
        /\ since' = UsizeMax \/ TotalBytes(heap') <= kept + since'
    BY <2>1, <2>2, Made DEF IInv, MachineInv, HeapInv, BytesInv
  <2>4. step' = "run" => \A l \in Limit : since' < l
    BY <2>1, <2>3, VMAssumption, UsizeMaxAssumption DEF Wants, VMAssumption
  <2> QED  BY <2>1, <2>3, <2>4 DEF BytesInv
<1>3. CASE Collecting
  <2>1. since' = 0 /\ kept' = TotalBytes(heap') /\ step' = "run" /\ TotalBytes(heap') \in Nat
    BY <1>3, CollectingStep DEF Collecting, IInv
  <2>2. \A l \in Limit : 0 < l
    BY VMAssumption DEF VMAssumption
  <2>3. TotalBytes(heap') <= kept' + since'
    BY <2>1
  <2> QED  BY <2>1, <2>2, <2>3 DEF BytesInv
<1>4. CASE \E dst \in Regs, t \in Scalars : Load(dst, t)
  BY <1>1, <1>4 DEF Load, Running
<1>5. CASE \E dst, src \in Regs : Move(dst, src)
  BY <1>1, <1>5 DEF Move, Running
<1>6. CASE \E dst, src \in Regs, k \in 1 .. MaxLen + 1 : At(dst, src, k)
  BY <1>1, <1>6 DEF At, Running, Ended
<1>7. CASE CallTooDeep \/ Halt
  BY <1>1, <1>7 DEF CallTooDeep, Halt, Ended
<1>8. CASE ReturnNothing \/ \E src \in Regs : Return(src)
  BY <1>1, <1>8 DEF ReturnNothing, Return, Running
<1>9. CASE \E fn \in Funcs, base, dst \in Regs, argc \in Args : Call(fn, base, argc, dst)
  BY <1>1, <1>9 DEF Call, Calling, Running
<1>10. CASE UNCHANGED vars
  BY <1>10 DEF vars, heapVars, IInv, BytesInv
<1> QED  BY <1>2, <1>3, <1>4, <1>5, <1>6, <1>7, <1>8, <1>9, <1>10 DEF Next, Instruction

\* Every step keeps the invariant.
LEMMA NextInv == IInv /\ [Next]_vars => IInv'
<1> SUFFICES ASSUME IInv, [Next]_vars  PROVE MachineInv'
  BY BytesNext DEF IInv
<1>1. CASE Next
  BY <1>1, MachineInstruction, MachineCall DEF Next, IInv
<1>2. CASE UNCHANGED vars
  BY <1>2 DEF vars, heapVars, IInv, MachineInv, HeapInv, StackInv
<1> QED  BY <1>1, <1>2

\* The invariant holds in every state of every run.
THEOREM Inductive == Spec => []IInv
<1>1. Init => IInv
  BY InitInv
<1>2. IInv /\ [Next]_vars => IInv'
  BY NextInv
<1> QED  BY <1>1, <1>2, PTL DEF Spec

\* The slots, the counters and the stack of calls of the VM have their types, and
\* the stack is empty exactly when the program is over.
THEOREM TypesHold == Spec => []TypeOK
<1>1. IInv => TypeOK
  <2> SUFFICES ASSUME IInv  PROVE TypeOK
    OBVIOUS
  <2>1. ASSUME NEW i \in DOMAIN frames
        PROVE  /\ frames[i].fn \in Funcs \cup {Top} /\ frames[i].dst \in Regs
               /\ \A r \in Regs : frames[i].ty[r] \in {"num", "text", "array"}
    <3>1. frames[i] \in Frames(heap)
      BY DEF IInv, MachineInv, StackInv
    <3>2. frames[i] \in Frame
      BY <3>1 DEF Frames, SplitFrames
    <3> QED  BY <3>2 DEF Frame, Types
  <2>2. free \in Seq(1 .. Len(heap))
    BY DEF IInv, MachineInv, HeapInv, FreeSound
  <2> QED  BY <2>1, <2>2
           DEF IInv, MachineInv, HeapInv, StackInv, BytesInv, TypeOK, Slots, Slot
<1> QED  BY <1>1, Inductive, PTL

\* No register of an open call is ever left with a handle whose slot was given to
\* another array: what the register file shows a collection (every value, or every
\* cell of a split file) is enough, and stays so through moves, calls and answers.
THEOREM HandlesHold == Spec => []RegistersGood
<1>1. IInv => RegistersGood
  <2> SUFFICES ASSUME IInv, NEW i \in DOMAIN frames
               PROVE  /\ \A r \in Regs :
                            frames[i].ty[r] = "array" =>
                              IsArray(Held(frames[i], r)) /\ Good(heap, Held(frames[i], r))
                      /\ \A v \in FileRoots(frames[i]) : Good(heap, v)
    BY DEF RegistersGood
  <2>1. frames[i] \in Frames(heap)
    BY DEF IInv, MachineInv, StackInv
  <2> QED  BY <2>1, HeldFits, ShownGood DEF Fit
<1> QED  BY <1>1, Inductive, PTL

\* Collecting when the threshold is reached, as an array is made, bounds the heap
\* between instructions: no more than the threshold past what the last collection
\* kept, although the count it is compared with saturates.
THEOREM BoundHolds == Spec => []HeapBounded
<1>1. IInv => HeapBounded
  <2> SUFFICES ASSUME IInv, step = "run", NEW l \in Limit  PROVE TotalBytes(heap) < kept + l
    BY DEF HeapBounded
  <2>1. l \in 1 .. UsizeMax
    BY VMAssumption DEF VMAssumption
  <2>2. /\ since \in 0 .. UsizeMax /\ kept \in Nat /\ since < l
        /\ since = UsizeMax \/ TotalBytes(heap) <= kept + since
    BY DEF IInv, MachineInv, HeapInv, BytesInv
  <2>3. TotalBytes(heap) \in Nat
    BY BytesNatural DEF IInv, MachineInv, HeapInv, Slots
  <2> QED  BY <2>1, <2>2, <2>3, UsizeMaxAssumption
<1> QED  BY <1>1, Inductive, PTL

-----------------------------------------------------------------------------
(* Callers. *)

\* What a step may do to a register of a caller.
Undisturbed(i, r) ==
    \/ frames'[i].raw[r] = frames[i].raw[r] /\ frames'[i].cells[r] = frames[i].cells[r]
    \/ Len(frames') = i /\ r = frames[i + 1].dst

\* A step that changes the innermost frame at most leaves the callers' alone.
LEMMA CallersApart ==
    ASSUME \A i \in DOMAIN frames \ {Len(frames)} : i \in DOMAIN frames' => frames'[i] = frames[i],
           NEW i \in DOMAIN frames \ {Len(frames)}, i \in DOMAIN frames', NEW r \in Regs
    PROVE  Undisturbed(i, r)
BY DEF Undisturbed

\* An answer is put where the call asked for it, in the frame that made it.
LEMMA AnswerLands ==
    ASSUME MachineInv, NEW src \in Regs, Return(src),
           NEW i \in DOMAIN frames \ {Len(frames)}, i \in DOMAIN frames', NEW r \in Regs
    PROVE  Undisturbed(i, r)
<1> DEFINE under == Front(frames)
           n == Len(under)
           t == Current.ty[src]
           v == Held(Current, src)
<1>1. Running /\ Len(frames) > 1 /\ frames' = Answered(t, v)
  BY DEF Return
<1>2. frames \in Seq(Frames(heap)) /\ Current \in Frames(heap) /\ Current \in Frame
  BY <1>1, RunningHas
<1>3. t \in Types /\ v \in Value /\ Fit(heap, t, v)
  BY <1>2, HeldFits, FrameFields
<1>4. frames \in Seq(Frame)
  <2>1. \A f \in Frames(heap) : f \in Frame
    BY DEF Frames, SplitFrames
  <2> QED  BY <1>2, <2>1
<1>5. /\ under \in Seq(Frames(heap)) /\ n = Len(frames) - 1 /\ Len(frames) \in Nat
      /\ \A k \in 1 .. n : under[k] = frames[k]
  BY <1>1, <1>2, FrontOf
<1>6. DOMAIN under = 1 .. n /\ n \in Nat
  BY <1>5
<1>7. frames[n + 1].dst = Current.dst
  BY <1>5 DEF Current
<1> HIDE DEF t, v
<1>8. /\ Len(Answered(t, v)) = n /\ DOMAIN Answered(t, v) = DOMAIN under
      /\ OnlyAt(Answered(t, v)[n], under[n], Current.dst, t)
      /\ \A k \in DOMAIN under : k # n => Answered(t, v)[k] = under[k]
  BY <1>1, <1>3, <1>4, <1>5, AnswerPut
<1> HIDE DEF under, n
<1>9. i \in 1 .. n
  BY <1>1, <1>6, <1>8
<1>10. CASE i = n
  <2>1. frames[n] = under[n]
    BY <1>5, <1>9, <1>10
  <2> QED  BY <1>1, <1>7, <1>8, <1>10, <2>1 DEF Undisturbed, OnlyAt
<1>11. CASE i # n
  <2>1. frames'[i] = frames[i]
    BY <1>1, <1>5, <1>6, <1>8, <1>9, <1>11
  <2> QED  BY <2>1 DEF Undisturbed
<1> QED  BY <1>10, <1>11

\* Every step keeps the callers' registers.
LEMMA CallersKept ==
    ASSUME MachineInv, [Next]_vars,
           NEW i \in DOMAIN frames \ {Len(frames)}, i \in DOMAIN frames', NEW r \in Regs
    PROVE  Undisturbed(i, r)
<1> DEFINE Apart == \A k \in DOMAIN frames \ {Len(frames)} :
                        k \in DOMAIN frames' => frames'[k] = frames[k]
<1>1. Apart => Undisturbed(i, r)
  BY CallersApart
<1>2. frames' = frames => Apart
  OBVIOUS
<1>3. ASSUME NEW f, frames' = WithCurrent(f)  PROVE Apart
  BY <1>3 DEF WithCurrent
<1>4. Ended => i \notin DOMAIN frames'
  BY DEF Ended
<1>5. Running => frames \in Seq(Frames(heap))
  BY RunningHas
<1> HIDE DEF Apart
<1>6. CASE \E dst \in Regs, t \in Scalars : Load(dst, t)
  BY <1>1, <1>3, <1>6 DEF Load
<1>7. CASE \E dst, src \in Regs : Move(dst, src)
  BY <1>1, <1>3, <1>7 DEF Move
<1>8. CASE \E dst \in Regs, len \in 0 .. MaxLen : NewArray(dst, len)
  BY <1>1, <1>3, <1>8 DEF NewArray
<1>9. CASE \E dst, src \in Regs, k \in 1 .. MaxLen + 1 : At(dst, src, k)
  BY <1>1, <1>3, <1>4, <1>9 DEF At
<1>10. CASE Collecting
  BY <1>1, <1>2, <1>10 DEF Collecting
<1>11. CASE CallTooDeep
  BY <1>4, <1>11 DEF CallTooDeep
<1>12. CASE \E src \in Regs : Return(src)
  BY <1>12, AnswerLands
<1>13. CASE ReturnNothing
  <2>1. Len(frames) > 1 /\ frames' = Front(frames) /\ frames \in Seq(Frames(heap))
    BY <1>5, <1>13 DEF ReturnNothing
  <2>2. /\ frames' \in Seq(Frames(heap)) /\ Len(frames') = Len(frames) - 1
        /\ \A k \in 1 .. Len(frames) - 1 : frames'[k] = frames[k]
    BY <2>1, FrontOf
  <2>3. Apart
    BY <2>2 DEF Apart
  <2> QED  BY <1>1, <2>3
<1>14. CASE Halt
  BY <1>4, <1>14 DEF Halt
<1>15. CASE \E fn \in Funcs, base, dst \in Regs, argc \in Args : Call(fn, base, argc, dst)
  <2>1. PICK f : Running /\ frames' = Append(frames, f)
    BY <1>15 DEF Call, Calling
  <2>2. Apart
    BY <1>5, <2>1 DEF Apart
  <2> QED  BY <1>1, <2>2
<1>16. CASE UNCHANGED vars
  BY <1>1, <1>2, <1>16 DEF vars
<1> QED  BY <1>6, <1>7, <1>8, <1>9, <1>10, <1>11, <1>12, <1>13, <1>14, <1>15, <1>16
         DEF Next, Instruction

\* Whatever runs inside a call, the registers of the frames underneath stay as they
\* were, but for the one the call said its answer goes to, and that one only as the
\* call returns to the frame it is in.
THEOREM CallersHold == Spec => CallersKeepRegisters
<1>1. IInv /\ [Next]_vars =>
        [ \A i \in DOMAIN frames \ {Len(frames)} :
            i \in DOMAIN frames' =>
               \A r \in Regs :
                  \/ frames'[i].raw[r] = frames[i].raw[r] /\ frames'[i].cells[r] = frames[i].cells[r]
                  \/ Len(frames') = i /\ r = frames[i + 1].dst ]_vars
  BY CallersKept DEF Undisturbed, IInv
<1> QED  BY <1>1, Inductive, PTL DEF Spec, CallersKeepRegisters
=============================================================================
