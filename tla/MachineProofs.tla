--------------------------- MODULE MachineProofs ---------------------------
(* Type safety of the machine: what is known of a chunk's registers at each  *)
(* place is what they hold whenever the machine is there, calls, fused tails *)
(* and fused indices included. The types of its values and the writing of    *)
(* what it reads follow.                                                     *)
EXTENDS Machine, TLAPS

-----------------------------------------------------------------------------
(* Values, frames, and what they keep. *)

\* A value, whatever its type, where n arrays have been made.
Cells == [ty : Kinds, bits : Nat]
IsValue(v, n) == v \in Cells /\ (v.ty \in Arrays => v.bits \in 1 .. n)
Ints == [ty : {ElementTy}, bits : Nat]

Bodies(c) == 0 .. Len(c.funcs)
FrameRecs(c) ==
    [routine : Bodies(c), at : Nat, file : UNION {[Registers(c, b) -> Cells] : b \in Bodies(c)}, dst : Nat]

\* The type a register of an open call will have when that call goes on: its
\* own, or that of the answer it waits for.
Holding(c, frs, i, r) ==
    IF i < Len(frs) /\ r = frs[i + 1].dst /\ c.funcs[frs[i + 1].routine].returns # "nothing"
    THEN c.funcs[frs[i + 1].routine].returns
    ELSE frs[i].file[r].ty

\* An open call is at a place that is known of, holds values, will hold what is
\* known there when it goes on, and answers into a register of its caller.
FrameInv(c, known, frs, n, i) ==
    /\ frs[i].routine \in Bodies(c) /\ (frs[i].routine = 0) = (i = 1)
    /\ frs[i].at \in DOMAIN known[frs[i].routine]
    /\ frs[i].file \in [Registers(c, frs[i].routine) -> Cells]
    /\ \A r \in Registers(c, frs[i].routine) :
        /\ IsValue(frs[i].file[r], n)
        /\ known[frs[i].routine][frs[i].at][r] \in {Holding(c, frs, i, r), "clash"}
    /\ i > 1 => frs[i].dst \in Registers(c, frs[i - 1].routine)
FramesInv(c, known, frs, n) ==
    /\ frs \in Seq(FrameRecs(c)) /\ Len(frs) >= 1
    /\ \A i \in 1 .. Len(frs) : FrameInv(c, known, frs, n, i)

\* How it ended, and with what.
EndInv ==
    /\ ended \in {"no", "yes", "fault"}
    /\ ended = "fault" => fault.code # "none"
    /\ ended # "fault" => fault = NoFault

MInv(p, fused) ==
    /\ chunk = Widened(Chunks[p], fused)
    /\ EndInv
    /\ arrays \in Seq(Seq(Ints))
    /\ FramesInv(Chunks[p], Known[p], frames, Len(arrays))
MachineInv == \E p \in DOMAIN Chunks, fused \in BOOLEAN : MInv(p, fused)

-----------------------------------------------------------------------------
(* What a shown chunk says of a place of a body. *)

\* A sequence of its own elements is a sequence.
LEMMA ListIs ==
    ASSUME NEW s, IsList(s)
    PROVE  Len(s) \in Nat /\ DOMAIN s = 1 .. Len(s)
<1> DEFINE S == {s[i] : i \in DOMAIN s}
<1>1. s \in Seq(S)
  BY DEF IsList
<1> HIDE DEF S
<1> QED  BY <1>1

\* After an instruction that leaves t in register d, what is known at next
\* follows from what is known at at.
Gives(c, b, from, to, d, t) ==
    \A r \in Registers(c, b) : to[r] \in {IF r = d THEN t ELSE from[r], "clash"}

\* A place of a body of a shown chunk.
Place(c, known, b, at) == Shown(c, known) /\ b \in Bodies(c) /\ at \in DOMAIN known[b]

\* Its instruction is formed, its registers are known to hold what it says, and
\* what it leaves is known wherever it goes.
LEMMA PlaceIs ==
    ASSUME NEW c, NEW known, NEW b, NEW at, Place(c, known, b, at),
           NEW op, op = CodeOf(c, b)[at]
    PROVE  /\ RegistersOf(c, b) \in Nat /\ at \in Nat /\ at \in DOMAIN CodeOf(c, b)
           /\ known[b][at] \in [Registers(c, b) -> Kinds \cup {"clash"}]
           /\ Formed(c, b, op) /\ ~Malformed(c, op)
           /\ \A claim \in Claims(c, op) :
                /\ claim[1] \in Registers(c, b) /\ known[b][at][claim[1]] = claim[2]
                /\ claim[2] \in Kinds \ {"unset"}
           /\ op.k = "count" => op.src \in Registers(c, b) /\ known[b][at][op.src] \in Arrays
           /\ \A write \in Writes(c, op) : write[1] \in Registers(c, b) /\ write[2] \in Kinds \ {"unset"}
           /\ \A next \in Ways(c, b, at) :
                /\ next \in DOMAIN known[b]
                /\ known[b][next] \in [Registers(c, b) -> Kinds \cup {"clash"}]
                /\ Weaker(After(c, op, known[b][at]), known[b][next])
<1>1. /\ IsList(CodeOf(c, b)) /\ RegistersOf(c, b) \in Nat
      /\ Demonstrates(c, b, known[b])
      /\ \A q \in DOMAIN known[b] : Formed(c, b, CodeOf(c, b)[q])
  BY DEF Place, Shown, Bodies
<1>2. /\ at \in DOMAIN CodeOf(c, b) /\ at \in DOMAIN known[b]
      /\ \A q \in DOMAIN known[b] : known[b][q] \in [Registers(c, b) -> Kinds \cup {"clash"}]
      /\ ~Misreads(c, op, known[b][at])
      /\ \A next \in Ways(c, b, at) :
            next \in DOMAIN known[b] /\ Weaker(After(c, op, known[b][at]), known[b][next])
  BY <1>1 DEF Demonstrates, Place, Registers
<1>3. at \in Nat
  BY <1>1, <1>2, ListIs
<1>4. DOMAIN known[b][at] = Registers(c, b)
  BY <1>2
<1>5. Formed(c, b, op)
  BY <1>1, <1>2
<1>6. \A part \in Claims(c, op) \cup Writes(c, op) : part[2] \in Kinds \ {"unset"}
  BY <1>5 DEF Formed
<1> QED  BY <1>1, <1>2, <1>3, <1>4, <1>5, <1>6 DEF Misreads

\* What a count looks at is known to hold an array.
LEMMA CountIs ==
    ASSUME NEW c, NEW known, NEW b, NEW at, Place(c, known, b, at),
           NEW op, op = CodeOf(c, b)[at], op.k = "count"
    PROVE  op.src \in Registers(c, b) /\ known[b][at][op.src] \in Arrays
  BY PlaceIs

\* A number of sixteen bits is what is left of it when it is cut to them.
LEMMA NumberStays ==
    ASSUME NEW r \in 0 .. RegMax
    PROVE  r % (RegMax + 1) = r
  BY RegMaxAssumption

\* A register is the first of any run that begins with it.
LEMMA RegisterIs ==
    ASSUME NEW c, NEW known, NEW b, NEW at, Place(c, known, b, at), NEW r \in Registers(c, b)
    PROVE  Nth(r, 0) = r
<1>1. RegistersOf(c, b) \in 0 .. RegMax + 1
  BY DEF Place, Shown, Bodies
<1>2. r \in 0 .. RegMax /\ r + 0 = r
  BY <1>1, RegMaxAssumption DEF Registers
<1> QED  BY <1>2, NumberStays DEF Nth

\* The arguments of a call that does not go past the last register are the
\* registers that are counted up from its base.
LEMMA ArgumentIs ==
    ASSUME NEW op, op.k = "call", ~Overruns(op), op.base \in Nat, op.argc \in Nat,
           NEW n \in 1 .. op.argc
    PROVE  Nth(op.base, n - 1) = op.base + (n - 1)
<1>1. op.base + (n - 1) \in 0 .. RegMax
  BY RegMaxAssumption DEF Overruns
<1> QED  BY <1>1, NumberStays DEF Nth

\* A register it claims a type for has it.
LEMMA ClaimIs ==
    ASSUME NEW c, NEW known, NEW b, NEW at, Place(c, known, b, at), NEW r, NEW t,
           <<r, t>> \in Claims(c, CodeOf(c, b)[at])
    PROVE  r \in Registers(c, b) /\ known[b][at][r] = t /\ t \in Kinds \ {"unset"}
<1>1. \A claim \in Claims(c, CodeOf(c, b)[at]) :
        /\ claim[1] \in Registers(c, b) /\ known[b][at][claim[1]] = claim[2]
        /\ claim[2] \in Kinds \ {"unset"}
  BY PlaceIs
<1> QED  BY <1>1

\* One it writes is there, and is left with a type.
LEMMA WriteIs ==
    ASSUME NEW c, NEW known, NEW b, NEW at, Place(c, known, b, at), NEW r, NEW t,
           <<r, t>> \in Writes(c, CodeOf(c, b)[at])
    PROVE  r \in Registers(c, b) /\ t \in Kinds \ {"unset"}
<1>1. \A write \in Writes(c, CodeOf(c, b)[at]) :
        write[1] \in Registers(c, b) /\ write[2] \in Kinds \ {"unset"}
  BY PlaceIs
<1> QED  BY <1>1

\* Nothing is written: all that is known stays.
LEMMA NothingGives ==
    ASSUME NEW c, NEW known, NEW b, NEW at, Place(c, known, b, at),
           Writes(c, CodeOf(c, b)[at]) = {}, NEW next \in Ways(c, b, at)
    PROVE  \A d : d \in Registers(c, b) =>
              Gives(c, b, known[b][at], known[b][next], d, known[b][at][d])
<1> DEFINE op == CodeOf(c, b)[at]
<1>1. /\ known[b][at] \in [Registers(c, b) -> Kinds \cup {"clash"}]
      /\ Weaker(After(c, op, known[b][at]), known[b][next])
  BY PlaceIs
<1>2. After(c, op, known[b][at]) = known[b][at]
  BY DEF After
<1> QED  BY <1>1, <1>2 DEF Weaker, Gives

\* One register is: it is known to have what it was left.
LEMMA WriteGives ==
    ASSUME NEW c, NEW known, NEW b, NEW at, Place(c, known, b, at), NEW d, NEW t,
           Writes(c, CodeOf(c, b)[at]) = {<<d, t>>}, NEW next \in Ways(c, b, at)
    PROVE  Gives(c, b, known[b][at], known[b][next], d, t)
<1> DEFINE op == CodeOf(c, b)[at]
<1>1. /\ known[b][at] \in [Registers(c, b) -> Kinds \cup {"clash"}]
      /\ Weaker(After(c, op, known[b][at]), known[b][next])
  BY PlaceIs
<1>2. (CHOOSE write \in Writes(c, op) : TRUE) = <<d, t>>
  OBVIOUS
<1>3. After(c, op, known[b][at]) = [known[b][at] EXCEPT ![d] = t]
  BY <1>2 DEF After
<1> QED  BY <1>1, <1>3 DEF Weaker, Gives

-----------------------------------------------------------------------------
(* What widening makes of it. *)

\* A widened chunk is the chunk but for the code of its bodies.
LEMMA WidenedIs ==
    ASSUME NEW c, NEW known, Shown(c, known), NEW fused \in BOOLEAN
    PROVE  LET W == Widened(c, fused) IN
           /\ W.consts = c.consts /\ W.registers = c.registers /\ W.division = c.division
           /\ Len(W.funcs) = Len(c.funcs) /\ Len(c.funcs) \in Nat
           /\ \A f \in 1 .. Len(c.funcs) :
                W.funcs[f].registers = c.funcs[f].registers /\ W.funcs[f].params = c.funcs[f].params
           /\ \A b \in Bodies(c) : CodeOf(W, b) = Widen(CodeOf(c, b), fused)
<1> DEFINE W == Widened(c, fused)
           F == [f \in DOMAIN c.funcs |-> WidenIn(c.funcs[f], fused)]
<1>1. /\ {"code", "registers", "consts", "funcs", "division"} \subseteq DOMAIN c
      /\ IsList(c.funcs)
      /\ \A f \in 1 .. Len(c.funcs) : {"code", "registers", "params", "returns"} \subseteq DOMAIN c.funcs[f]
  <2>1. Len(c.funcs) \in Nat
    BY ListIs DEF Shown
  <2>2. \A f \in 1 .. Len(c.funcs) : f \in 0 .. Len(c.funcs) /\ f # 0
    BY <2>1
  <2> QED  BY <2>2 DEF Shown
<1>2. Len(c.funcs) \in Nat /\ DOMAIN c.funcs = 1 .. Len(c.funcs)
  BY <1>1, ListIs
<1>3. /\ W.consts = c.consts /\ W.registers = c.registers /\ W.division = c.division
      /\ W.code = Widen(c.code, fused) /\ W.funcs = F
  <2> DEFINE D == WidenIn(c, fused)
  <2>1. W = [D EXCEPT !.funcs = [f \in DOMAIN D.funcs |-> WidenIn(D.funcs[f], fused)]]
    BY DEF Widened
  <2>2. DOMAIN D = DOMAIN c /\ D.code = Widen(c.code, fused) /\ D.consts = c.consts
        /\ D.registers = c.registers /\ D.division = c.division /\ D.funcs = c.funcs
    BY <1>1 DEF WidenIn
  <2> HIDE DEF D, W
  <2>3. W = [D EXCEPT !.funcs = F]
    BY <2>1, <2>2
  <2> HIDE DEF F
  <2> QED  BY <1>1, <2>2, <2>3
<1>4. Len(F) = Len(c.funcs)
  <2> DEFINE S == {F[f] : f \in 1 .. Len(c.funcs)}
             m == Len(c.funcs)
  <2>1. F = [f \in 1 .. m |-> F[f]]
    BY <1>2
  <2>2. F \in [1 .. m -> S]
    BY <2>1
  <2> HIDE DEF F, S
  <2>3. F \in Seq(S) /\ Len(F) = m
    BY <1>2, <2>2
  <2> QED  BY <2>3
<1>5. ASSUME NEW f \in 1 .. Len(c.funcs)
      PROVE  /\ F[f].registers = c.funcs[f].registers /\ F[f].params = c.funcs[f].params
             /\ F[f].code = Widen(c.funcs[f].code, fused)
  BY <1>1, <1>2 DEF WidenIn
<1>6. ASSUME NEW b \in Bodies(c)  PROVE CodeOf(W, b) = Widen(CodeOf(c, b), fused)
  <2>1. CASE b = 0  BY <1>3, <2>1 DEF CodeOf
  <2>2. CASE b # 0
    <3>1. b \in 1 .. Len(c.funcs)
      BY <1>2, <2>2 DEF Bodies
    <3> HIDE DEF F, W
    <3>2. W.funcs[b].code = Widen(c.funcs[b].code, fused)
      BY <1>3, <1>5, <3>1
    <3> QED  BY <2>2, <3>2 DEF CodeOf
  <2> QED  BY <2>1, <2>2
<1> HIDE DEF F
<1>7. W.consts = c.consts /\ W.registers = c.registers /\ W.division = c.division /\ W.funcs = F
  BY <1>3
<1> HIDE DEF W
<1>8. \A f \in 1 .. Len(c.funcs) :
        W.funcs[f].registers = c.funcs[f].registers /\ W.funcs[f].params = c.funcs[f].params
  BY <1>5, <1>7
<1>9. Len(W.funcs) = Len(c.funcs)
  BY <1>4, <1>7
<1> QED  BY <1>2, <1>6, <1>7, <1>8, <1>9 DEF W

\* An instruction of widened code is the instruction that was there, a fused
\* tail or a fused index.
LEMMA WidenIs ==
    ASSUME NEW code, NEW fused \in BOOLEAN, NEW at \in DOMAIN code,
           code[at].k \in Instructions, NEW op, op = Widen(code, fused)[at]
    PROVE  /\ op.k = "tail" =>
                /\ IsTail(code, at)
                /\ op.counter = code[at].lhs /\ op.limit = code[at].rhs /\ op.step = code[at + 1].rhs
           /\ op.k = "atone" =>
                /\ IsStaged(code, at)
                /\ op.dst = code[at + 1].dst /\ op.array = code[at + 1].array
                /\ op.at = code[at].src /\ op.rank = 1 /\ op.ty = code[at + 1].ty
           /\ op.k \notin {"tail", "atone"} => op = code[at]
           /\ code[at].k \notin {"jumpifequal", "move"} => op = code[at]
<1>1. CASE fused /\ IsTail(code, at)
  <2>1. op = [k |-> "tail", ty |-> code[at].ty, counter |-> code[at].lhs, limit |-> code[at].rhs,
              step |-> code[at + 1].rhs, span |-> code[at].span]
    BY <1>1 DEF Widen
  <2>2. code[at].k = "jumpifequal"
    BY <1>1 DEF IsTail
  <2>3. op.k = "tail" /\ op.counter = code[at].lhs /\ op.limit = code[at].rhs /\ op.step = code[at + 1].rhs
    BY <2>1
  <2> QED  BY <1>1, <2>2, <2>3
<1>2. CASE fused /\ ~IsTail(code, at) /\ IsStaged(code, at)
  <2>1. op = [k |-> "atone", dst |-> code[at + 1].dst, array |-> code[at + 1].array,
              at |-> code[at].src, rank |-> 1, ty |-> code[at + 1].ty, span |-> code[at + 1].span]
    BY <1>2 DEF Widen
  <2>2. code[at].k = "move"
    BY <1>2 DEF IsStaged
  <2>3. /\ op.k = "atone" /\ op.dst = code[at + 1].dst /\ op.array = code[at + 1].array
        /\ op.at = code[at].src /\ op.rank = 1 /\ op.ty = code[at + 1].ty
    BY <2>1
  <2> QED  BY <1>2, <2>2, <2>3
<1>3. CASE ~(fused /\ (IsTail(code, at) \/ IsStaged(code, at)))
  <2>1. op = code[at]
    BY <1>3 DEF Widen
  <2>2. op.k # "tail" /\ op.k # "atone"
    BY <2>1 DEF Instructions, Jumps
  <2> QED  BY <2>1, <2>2
<1> QED  BY <1>1, <1>2, <1>3

\* Running a tail: its three registers hold one whole type, which both ways on
\* from it leave as it was.
LEMMA TailIs ==
    ASSUME NEW c, NEW known, NEW b, NEW at, Place(c, known, b, at),
           IsTail(CodeOf(c, b), at)
    PROVE  LET code == CodeOf(c, b)
               from == known[b][at]
               ty == code[at].ty
           IN  /\ IsInteger(ty) /\ ty \in Kinds \ {"unset"}
               /\ \A r \in {code[at].lhs, code[at].rhs, code[at + 1].rhs} :
                    r \in Registers(c, b) /\ from[r] = ty
               /\ at + 2 \in DOMAIN code /\ code[at + 2].k = "jump"
               /\ \A next \in {at + 3, code[at + 2].target} :
                    /\ next \in DOMAIN known[b]
                    /\ Gives(c, b, from, known[b][next], code[at].lhs, ty)
<1> DEFINE code == CodeOf(c, b)
           from == known[b][at]
           ty == code[at].ty
           lhs == code[at].lhs
           States == [Registers(c, b) -> Kinds \cup {"clash"}]
           K1 == known[b][at + 1]
           K2 == known[b][at + 2]
<1>1. /\ code[at].k = "jumpifequal" /\ IsInteger(ty) /\ code[at].target = at + 3
      /\ code[at + 1].k = "binary" /\ code[at + 1].ty = ty
      /\ code[at + 1].dst = lhs /\ code[at + 1].lhs = lhs
      /\ at + 2 \in DOMAIN code /\ code[at + 2].k = "jump"
  BY DEF IsTail
<1>2. ty # "clash" /\ at \in Nat
  BY <1>1, PlaceIs DEF IsInteger
<1>3. Ways(c, b, at) = {at + 3, at + 1}
  BY <1>1 DEF Ways, Jumps, Stops
<1>4. /\ lhs \in Registers(c, b) /\ from[lhs] = ty /\ ty \in Kinds \ {"unset"}
      /\ code[at].rhs \in Registers(c, b) /\ from[code[at].rhs] = ty
      /\ from \in States
  <2>1. <<lhs, ty>> \in Claims(c, code[at]) /\ <<code[at].rhs, ty>> \in Claims(c, code[at])
    BY <1>1 DEF Claims
  <2>2. lhs \in Registers(c, b) /\ from[lhs] = ty /\ ty \in Kinds \ {"unset"}
    BY <2>1, ClaimIs
  <2>3. code[at].rhs \in Registers(c, b) /\ from[code[at].rhs] = ty
    BY <2>1, ClaimIs
  <2>4. from \in States
    BY PlaceIs
  <2> QED  BY <2>2, <2>3, <2>4
<1>5. \A next \in {at + 3, at + 1} : next \in DOMAIN known[b] /\ known[b][next] \in States
  BY <1>3, PlaceIs
<1>6. \A next \in {at + 3, at + 1} : Gives(c, b, from, known[b][next], lhs, ty)
  <2>1. Writes(c, code[at]) = {}
    BY <1>1 DEF Writes
  <2> QED  BY <1>3, <1>4, <2>1, NothingGives
<1>7. Place(c, known, b, at + 1)
  BY <1>5 DEF Place
<1>8. Ways(c, b, at + 1) = {at + 2}
  BY <1>1, <1>2 DEF Ways, Jumps, Stops
<1>9. /\ K1[lhs] = ty /\ code[at + 1].rhs \in Registers(c, b) /\ K1[code[at + 1].rhs] = ty
  <2>1. <<lhs, ty>> \in Claims(c, code[at + 1]) /\ <<code[at + 1].rhs, ty>> \in Claims(c, code[at + 1])
    BY <1>1 DEF Claims
  <2>2. K1[lhs] = ty
    BY <1>7, <2>1, ClaimIs
  <2>3. code[at + 1].rhs \in Registers(c, b) /\ K1[code[at + 1].rhs] = ty
    BY <1>7, <2>1, ClaimIs
  <2> QED  BY <2>2, <2>3
<1>10. from[code[at + 1].rhs] = ty
  <2>1. K1[code[at + 1].rhs] \in {IF code[at + 1].rhs = lhs THEN ty ELSE from[code[at + 1].rhs], "clash"}
    BY <1>6, <1>9 DEF Gives
  <2> QED  BY <1>2, <1>4, <1>9, <2>1
<1>11. Gives(c, b, K1, K2, lhs, ty) /\ at + 2 \in DOMAIN known[b]
  <2>1. Writes(c, code[at + 1]) = {<<lhs, ty>>}
    BY <1>1 DEF Writes
  <2> QED  BY <1>7, <1>8, <2>1, WriteGives, PlaceIs
<1>12. Place(c, known, b, at + 2)
  BY <1>11 DEF Place
<1>13. code[at + 2].target \in DOMAIN known[b]
       /\ Gives(c, b, K2, known[b][code[at + 2].target], lhs, K2[lhs])
  <2>1. Writes(c, code[at + 2]) = {} /\ code[at + 2].target \in Ways(c, b, at + 2)
    BY <1>1 DEF Writes, Ways, Jumps
  <2> QED  BY <1>4, <1>12, <2>1, NothingGives, PlaceIs
<1>14. Gives(c, b, from, known[b][code[at + 2].target], lhs, ty)
  BY <1>4, <1>6, <1>11, <1>13 DEF Gives
<1> QED  BY <1>1, <1>4, <1>5, <1>6, <1>9, <1>10, <1>13, <1>14

\* Running a fused index: the array and the index are where the instructions it
\* stands for have them, and past it nothing is known that it does not leave.
LEMMA AtoneIs ==
    ASSUME NEW c, NEW known, NEW b, NEW at, Place(c, known, b, at),
           IsStaged(CodeOf(c, b), at)
    PROVE  LET code == CodeOf(c, b)
               from == known[b][at]
           IN  /\ code[at].src \in Registers(c, b) /\ from[code[at].src] = IndexTy
               /\ code[at + 1].array \in Registers(c, b)
               /\ from[code[at + 1].array] = code[at + 1].ty /\ code[at + 1].ty \in Arrays
               /\ code[at + 1].dst \in Registers(c, b)
               /\ at + 2 \in DOMAIN known[b]
               /\ Gives(c, b, from, known[b][at + 2], code[at + 1].dst, ElementTy)
<1> DEFINE code == CodeOf(c, b)
           from == known[b][at]
           copy == code[at].dst
           dst == code[at + 1].dst
           array == code[at + 1].array
           K1 == known[b][at + 1]
           K2 == known[b][at + 2]
<1>1. /\ code[at].k = "move" /\ code[at + 1].k = "at" /\ code[at + 1].rank = 1
      /\ code[at + 1].at = copy
  BY DEF IsStaged
<1>2. at \in Nat
  BY PlaceIs
<1>3. Ways(c, b, at) = {at + 1}
  BY <1>1 DEF Ways, Jumps, Stops
<1>4. code[at].src \in Registers(c, b) /\ from[code[at].src] = code[at].ty
  <2>1. <<code[at].src, code[at].ty>> \in Claims(c, code[at])
    BY <1>1 DEF Claims
  <2> QED  BY <2>1, ClaimIs
<1>5. /\ at + 1 \in DOMAIN known[b] /\ copy \in Registers(c, b)
      /\ Gives(c, b, from, K1, copy, code[at].ty)
  <2>1. Writes(c, code[at]) = {<<copy, code[at].ty>>}
    BY <1>1 DEF Writes
  <2> QED  BY <1>3, <2>1, WriteGives, WriteIs, PlaceIs
<1>6. Place(c, known, b, at + 1)
  BY <1>5 DEF Place
<1>7. Ways(c, b, at + 1) = {at + 2}
  BY <1>1, <1>2 DEF Ways, Jumps, Stops
<1>8. /\ array \in Registers(c, b) /\ K1[array] = code[at + 1].ty /\ K1[copy] = IndexTy
      /\ code[at + 1].ty \in Arrays
  <2>1. code[at + 1].at = copy /\ code[at + 1].rank = 1
    BY <1>1
  <2>2. <<array, code[at + 1].ty>> \in Claims(c, code[at + 1])
    BY <1>1 DEF Claims
  <2>3. <<copy, IndexTy>> \in Claims(c, code[at + 1])
    <3>1. copy = Nth(copy, 0) /\ 0 \in 0 .. 1 - 1
      BY <1>5, RegisterIs
    <3>2. copy \in Run(code[at + 1].at, code[at + 1].rank)
      BY <2>1, <3>1 DEF Run
    <3> QED  BY <1>1, <3>2 DEF Claims
  <2>4. ~Malformed(c, code[at + 1])
    BY <1>6, PlaceIs
  <2> QED  BY <1>1, <1>6, <2>2, <2>3, <2>4, PlaceIs DEF Malformed
<1>9. code[at].ty = IndexTy /\ from[array] = code[at + 1].ty
  BY <1>5, <1>8 DEF Gives, IndexTy, Arrays
<1>10. at + 2 \in DOMAIN known[b] /\ dst \in Registers(c, b) /\ Gives(c, b, K1, K2, dst, ElementTy)
  <2>1. Writes(c, code[at + 1]) = {<<dst, ElementTy>>}
    BY <1>1 DEF Writes
  <2> QED  BY <1>6, <1>7, <2>1, WriteGives, WriteIs, PlaceIs
<1>11. copy # dst => K2[copy] \in {from[copy], "clash"}
  <2>1. Forgets(code, known[b])
    BY DEF Place, Shown, Bodies
  <2> QED  BY <2>1 DEF Forgets, Place
<1>12. Gives(c, b, from, K2, dst, ElementTy)
  BY <1>5, <1>10, <1>11 DEF Gives
<1> QED  BY <1>4, <1>8, <1>9, <1>10, <1>12

-----------------------------------------------------------------------------
(* What the arithmetic answers. *)

\* An answer, where it is one, is a value of the type.
Settled(answer, t) == answer.code = "none" => answer.value \in Cells /\ answer.value.ty = t

\* Twice a positive number is one.
LEMMA WidthIs == 2 * Half \in Nat \ {0} /\ SignBit \in Nat \ {0}
BY HalfAssumption DEF SignBit

\* A value stands for a whole number.
LEMMA NumberIs ==
    ASSUME NEW v, v.bits \in Nat
    PROVE  NumberOf(v) \in Int
BY HalfAssumption DEF NumberOf, SignBit

\* A number cut to a width is a value of its type.
LEMMA WholeIs ==
    ASSUME NEW ty \in Kinds, NEW n \in Int
    PROVE  Whole(ty, n) \in Cells /\ Whole(ty, n).ty = ty
<1> DEFINE M == 2 * Half
<1>1. M \in Nat \ {0}
  BY WidthIs
<1>2. n % M \in Nat
  <2> HIDE DEF M
  <2> QED  BY <1>1
<1> QED  BY <1>2 DEF Whole, Cells

\* As is one that may be refused.
LEMMA CutIs ==
    ASSUME NEW ty \in Kinds, NEW n \in Int, NEW p
    PROVE  Settled(Cut(ty, n, p), ty)
<1>1. Whole(ty, n) \in Cells /\ Whole(ty, n).ty = ty
  BY WholeIs
<1>2. CASE Cut(ty, n, p) = Refused("R0005")
  BY <1>2 DEF Settled, Refused
<1>3. CASE Cut(ty, n, p) = Answered(Whole(ty, n))
  <2>1. Cut(ty, n, p).value = Whole(ty, n)
    BY <1>3 DEF Answered
  <2> QED  BY <1>1, <2>1 DEF Settled
<1> QED  BY <1>2, <1>3 DEF Cut

\* A quotient is a whole number, by every convention.
LEMMA QuotientIs ==
    ASSUME NEW a \in Int, NEW b \in Int, b # 0, NEW p, p.division \in Conventions
    PROVE  Quotient(a, b, p) \in Int
<1>1. Toward(a, b) \in Int
  <2>1. CASE a >= 0 /\ b > 0  BY <2>1 DEF Toward
  <2>2. CASE a >= 0 /\ b < 0  BY <2>2 DEF Toward
  <2>3. CASE a < 0 /\ b > 0  BY <2>3 DEF Toward
  <2>4. CASE a < 0 /\ b < 0  BY <2>4 DEF Toward
  <2> QED  BY <2>1, <2>2, <2>3, <2>4
<1> QED  BY <1>1 DEF Quotient, Conventions

\* An operation on whole numbers.
LEMMA IntOpIs ==
    ASSUME NEW op \in Operators, NEW ty \in Kinds, NEW a \in Int, NEW b \in Int,
           NEW p, p.division \in Conventions
    PROVE  Settled(IntOp(op, ty, a, b, p), ty)
<1>1. CASE op \in {"add", "sub", "mul"}
  <2>1. a + b \in Int /\ a - b \in Int /\ a * b \in Int
    OBVIOUS
  <2>2. /\ Settled(Cut(ty, a + b, p), ty) /\ Settled(Cut(ty, a - b, p), ty)
        /\ Settled(Cut(ty, a * b, p), ty)
    BY <2>1, CutIs
  <2>3. IntOp(op, ty, a, b, p) \in {Cut(ty, a + b, p), Cut(ty, a - b, p), Cut(ty, a * b, p)}
    BY <1>1 DEF IntOp
  <2> QED  BY <2>2, <2>3
<1>2. CASE op \in {"div", "mod"} /\ b = 0
  <2>1. IntOp(op, ty, a, b, p) \in {Refused("R0002"), Refused("R0003")}
    BY <1>2 DEF IntOp
  <2> QED  BY <2>1 DEF Settled, Refused
<1>3. CASE op \in {"div", "mod"} /\ b # 0
  <2> DEFINE q == Quotient(a, b, p)
  <2>1. q \in Int
    BY <1>3, QuotientIs
  <2>2. IntOp(op, ty, a, b, p) \in {Cut(ty, q, p), Answered(Whole(ty, a - q * b))}
    BY <1>3 DEF IntOp
  <2> HIDE DEF q
  <2>3. a - q * b \in Int
    BY <2>1
  <2>4. Settled(Cut(ty, q, p), ty)
    BY <2>1, CutIs
  <2>5. Settled(Answered(Whole(ty, a - q * b)), ty)
    BY <2>3, WholeIs DEF Settled, Answered
  <2> QED  BY <2>2, <2>4, <2>5
<1> QED  BY <1>1, <1>2, <1>3 DEF Operators

\* An operation on two values of a type with an answer for it.
LEMMA BinaryIs ==
    ASSUME NEW op \in Operators, NEW a \in Cells, NEW b \in Cells, a.ty \in Numeric,
           NEW p, p.division \in Conventions
    PROVE  Settled(BinaryOp(op, a, b, p), a.ty)
<1>1. NumberOf(a) \in Int /\ NumberOf(b) \in Int /\ a.ty \in Kinds
  BY NumberIs DEF Cells
<1>2. CASE IsInteger(a.ty)
  BY <1>1, <1>2, IntOpIs DEF BinaryOp
<1>3. CASE ~IsInteger(a.ty)
  <2>1. a.ty = "float"
    BY <1>3 DEF Numeric, IsInteger
  <2> DEFINE sum == NumberOf(a) + NumberOf(b)
             halves == IF sum < 0 THEN -sum ELSE sum
             negative == sum < 0 \/ (a.bits >= SignBit /\ b.bits >= SignBit)
  <2>2. BinaryOp(op, a, b, p) = Answered(Float(negative, halves))
    BY <1>3 DEF BinaryOp, FloatSum
  <2>3. halves \in Nat
    BY <1>1
  <2> HIDE DEF halves, negative
  <2>4. Float(negative, halves) \in Cells /\ Float(negative, halves).ty = "float"
    BY <2>3, WidthIs DEF Float, Cells, Kinds
  <2> QED  BY <2>1, <2>2, <2>4 DEF Settled, Answered
<1> QED  BY <1>2, <1>3

\* A negation.
LEMMA NegateIs ==
    ASSUME NEW v \in Cells, v.ty \in Numeric, NEW p
    PROVE  Settled(Negate(v, p), v.ty)
<1>1. NumberOf(v) \in Int /\ v.ty \in Kinds
  BY NumberIs DEF Cells
<1>2. CASE IsInteger(v.ty)
  BY <1>1, <1>2, CutIs DEF Negate
<1>3. CASE ~IsInteger(v.ty)
  <2> DEFINE M == 2 * SignBit
             w == [v EXCEPT !.bits = (v.bits + SignBit) % M]
  <2>1. Negate(v, p) = Answered(w)
    BY <1>3 DEF Negate
  <2>2. M \in Nat \ {0}
    BY WidthIs
  <2>3. (v.bits + SignBit) % M \in Nat
    <3>1. v.bits + SignBit \in Nat
      BY WidthIs DEF Cells
    <3> HIDE DEF M
    <3> QED  BY <2>2, <3>1
  <2> HIDE DEF M
  <2>4. w \in Cells /\ w.ty = v.ty
    BY <2>3 DEF Cells
  <2> HIDE DEF w
  <2> QED  BY <2>1, <2>4 DEF Settled, Answered
<1> QED  BY <1>2, <1>3

-----------------------------------------------------------------------------
(* Steps of the frames. *)

\* More arrays are made: a value stays one.
LEMMA ValueStays ==
    ASSUME NEW v, NEW n \in Nat, NEW m \in Nat, n <= m, IsValue(v, n)
    PROVE  IsValue(v, m)
BY DEF IsValue

\* A call that is not the innermost, before and after, is none the worse for
\* what the others do.
LEMMA LowerStays ==
    ASSUME NEW c, NEW known, NEW frs, NEW grs, NEW n \in Nat, NEW m \in Nat, n <= m,
           NEW i \in Nat, Len(frs) \in Nat, Len(grs) \in Nat, i < Len(frs), i < Len(grs),
           grs[i] = frs[i], grs[i + 1].dst = frs[i + 1].dst, grs[i + 1].routine = frs[i + 1].routine,
           i > 1 => grs[i - 1].routine = frs[i - 1].routine,
           FrameInv(c, known, frs, n, i)
    PROVE  FrameInv(c, known, grs, m, i)
<1>1. \A r : Holding(c, grs, i, r) = Holding(c, frs, i, r)
  BY DEF Holding
<1>2. \A r \in Registers(c, grs[i].routine) : IsValue(grs[i].file[r], m)
  BY ValueStays DEF FrameInv
<1> QED  BY <1>1, <1>2 DEF FrameInv

\* The innermost call goes on: to a place whose registers it holds as they are
\* known there.
LEMMA TopSet ==
    ASSUME NEW c, NEW known, NEW frs, NEW n \in Nat, NEW m \in Nat, n <= m,
           FramesInv(c, known, frs, n),
           NEW f \in FrameRecs(c), f.routine = frs[Len(frs)].routine, f.dst = frs[Len(frs)].dst,
           f.at \in DOMAIN known[f.routine], f.file \in [Registers(c, f.routine) -> Cells],
           \A r \in Registers(c, f.routine) :
              IsValue(f.file[r], m) /\ known[f.routine][f.at][r] \in {f.file[r].ty, "clash"}
    PROVE  FramesInv(c, known, [frs EXCEPT ![Len(frs)] = f], m)
<1> DEFINE D == Len(frs)
           grs == [frs EXCEPT ![D] = f]
<1>1. /\ frs \in Seq(FrameRecs(c)) /\ D \in Nat /\ D >= 1
      /\ \A i \in 1 .. D : FrameInv(c, known, frs, n, i)
  BY DEF FramesInv
<1>2. grs \in Seq(FrameRecs(c)) /\ Len(grs) = D /\ grs[D] = f
      /\ \A i \in 1 .. D : i # D => grs[i] = frs[i]
  BY <1>1
<1>3. \A i \in 1 .. D : grs[i].routine = frs[i].routine /\ grs[i].dst = frs[i].dst
  BY <1>2
<1> HIDE DEF grs
<1>4. ASSUME NEW i \in 1 .. D, i # D  PROVE FrameInv(c, known, grs, m, i)
  <2>1. FrameInv(c, known, frs, n, i)
    BY <1>1
  <2>2. i \in Nat /\ i < D /\ i + 1 \in 1 .. D /\ (i > 1 => i - 1 \in 1 .. D)
    BY <1>1, <1>4
  <2>3. grs[i] = frs[i]
    BY <1>2, <1>4
  <2>4. grs[i + 1].routine = frs[i + 1].routine /\ grs[i + 1].dst = frs[i + 1].dst
    BY <1>3, <2>2
  <2>5. i > 1 => grs[i - 1].routine = frs[i - 1].routine
    BY <1>3, <2>2
  <2> HIDE DEF D
  <2> QED  BY <1>1, <1>2, <2>1, <2>2, <2>3, <2>4, <2>5, LowerStays DEF D
<1>5. FrameInv(c, known, grs, m, D)
  <2>1. FrameInv(c, known, frs, n, D)
    BY <1>1
  <2>2. \A r : Holding(c, grs, D, r) = f.file[r].ty
    BY <1>1, <1>2 DEF Holding
  <2>3. D > 1 => D - 1 \in 1 .. D /\ grs[D - 1].routine = frs[D - 1].routine
    BY <1>1, <1>3
  <2>4. f.routine \in Bodies(c) /\ (f.routine = 0) = (D = 1)
        /\ (D > 1 => f.dst \in Registers(c, grs[D - 1].routine))
    BY <2>1, <2>3 DEF FrameInv
  <2> QED  BY <1>2, <2>2, <2>4 DEF FrameInv
<1> QED  BY <1>1, <1>2, <1>4, <1>5 DEF FramesInv, grs

\* The innermost call holds what is known where it is.
LEMMA TopIs ==
    ASSUME NEW c, NEW known, NEW frs, NEW n, FramesInv(c, known, frs, n),
           NEW top, top = frs[Len(frs)]
    PROVE  /\ Len(frs) \in Nat /\ Len(frs) >= 1 /\ top \in FrameRecs(c)
           /\ top.routine \in Bodies(c) /\ (top.routine = 0) = (Len(frs) = 1)
           /\ top.at \in DOMAIN known[top.routine]
           /\ top.file \in [Registers(c, top.routine) -> Cells]
           /\ \A r \in Registers(c, top.routine) :
                IsValue(top.file[r], n) /\ known[top.routine][top.at][r] \in {top.file[r].ty, "clash"}
<1> DEFINE D == Len(frs)
<1>1. D \in Nat /\ D >= 1 /\ top \in FrameRecs(c) /\ FrameInv(c, known, frs, n, D)
  BY DEF FramesInv
<1>2. \A r : Holding(c, frs, D, r) = top.file[r].ty
  BY <1>1 DEF Holding
<1> QED  BY <1>1, <1>2 DEF FrameInv

\* A value into one of its registers, and on.
LEMMA PutKeeps ==
    ASSUME NEW c, NEW known, NEW frs, NEW n \in Nat, NEW m \in Nat, n <= m,
           FramesInv(c, known, frs, n),
           NEW b, b = frs[Len(frs)].routine, NEW at, at = frs[Len(frs)].at,
           NEW next \in DOMAIN known[b], next \in Nat,
           NEW d \in Registers(c, b), NEW v, IsValue(v, m),
           Gives(c, b, known[b][at], known[b][next], d, v.ty)
    PROVE  FramesInv(c, known, [frs EXCEPT ![Len(frs)].file[d] = v, ![Len(frs)].at = next], m)
<1> DEFINE D == Len(frs)
           top == frs[D]
           file == [top.file EXCEPT ![d] = v]
           f == [routine |-> b, at |-> next, file |-> file, dst |-> top.dst]
           grs == [frs EXCEPT ![D].file[d] = v, ![D].at = next]
<1>1. /\ frs \in Seq(FrameRecs(c)) /\ D \in Nat /\ D >= 1 /\ FrameInv(c, known, frs, n, D)
      /\ top \in FrameRecs(c)
  BY DEF FramesInv
<1>2. grs = [frs EXCEPT ![D] = f]
  <2>1. top = [routine |-> b, at |-> at, file |-> top.file, dst |-> top.dst]
    BY <1>1 DEF FrameRecs
  <2> DEFINE g == [routine |-> b, at |-> at, file |-> file, dst |-> top.dst]
  <2>2. [top EXCEPT !.file[d] = v] = g
    BY <2>1
  <2>4. [g EXCEPT !.at = next] = f
    <3> HIDE DEF file
    <3> QED  OBVIOUS
  <2>3. grs = [frs EXCEPT ![D] = [[top EXCEPT !.file[d] = v] EXCEPT !.at = next]]
    BY <1>1
  <2> HIDE DEF g, f, grs
  <2> QED  BY <2>2, <2>3, <2>4
<1>3. /\ b \in Bodies(c) /\ top.file \in [Registers(c, b) -> Cells]
      /\ \A r \in Registers(c, b) : IsValue(top.file[r], n) /\ known[b][at][r] \in {top.file[r].ty, "clash"}
  BY TopIs
<1>4. v \in Cells
  BY DEF IsValue
<1>5. file \in [Registers(c, b) -> Cells] /\ \A r \in Registers(c, b) :
        file[r] = IF r = d THEN v ELSE top.file[r]
  BY <1>3, <1>4
<1>6. ASSUME NEW r \in Registers(c, b)
      PROVE  IsValue(file[r], m) /\ known[b][next][r] \in {file[r].ty, "clash"}
  <2>1. CASE r = d
    BY <1>5, <2>1 DEF Gives
  <2>2. CASE r # d
    <3>1. file[r] = top.file[r] /\ IsValue(top.file[r], n) /\ known[b][at][r] \in {top.file[r].ty, "clash"}
      BY <1>3, <1>5, <2>2
    <3>2. known[b][next][r] \in {known[b][at][r], "clash"}
      BY <2>2 DEF Gives
    <3> QED  BY <3>1, <3>2, ValueStays
  <2> QED  BY <2>1, <2>2
<1> HIDE DEF file
<1>7. f \in FrameRecs(c)
  <2>1. top.dst \in Nat
    BY <1>1 DEF FrameRecs
  <2>2. file \in UNION {[Registers(c, q) -> Cells] : q \in Bodies(c)}
    BY <1>3, <1>5
  <2> QED  BY <1>3, <2>1, <2>2 DEF FrameRecs
<1>8. f.routine = b /\ f.at = next /\ f.file = file /\ f.dst = top.dst
  OBVIOUS
<1> HIDE DEF f, grs
<1>9. FramesInv(c, known, [frs EXCEPT ![D] = f], m)
  BY <1>5, <1>6, <1>7, <1>8, TopSet
<1> QED  BY <1>2, <1>9 DEF grs

\* On, with its registers as they are.
LEMMA GoKeeps ==
    ASSUME NEW c, NEW known, NEW frs, NEW n \in Nat, NEW m \in Nat, n <= m,
           FramesInv(c, known, frs, n),
           NEW b, b = frs[Len(frs)].routine, NEW at, at = frs[Len(frs)].at,
           NEW next \in DOMAIN known[b], next \in Nat,
           \A r \in Registers(c, b) : known[b][next][r] \in {known[b][at][r], "clash"}
    PROVE  FramesInv(c, known, [frs EXCEPT ![Len(frs)].at = next], m)
<1> DEFINE D == Len(frs)
           top == frs[D]
           f == [routine |-> b, at |-> next, file |-> top.file, dst |-> top.dst]
           grs == [frs EXCEPT ![D].at = next]
<1>1. /\ frs \in Seq(FrameRecs(c)) /\ D \in Nat /\ D >= 1 /\ FrameInv(c, known, frs, n, D)
      /\ top \in FrameRecs(c)
  BY DEF FramesInv
<1>2. grs = [frs EXCEPT ![D] = f]
  <2>1. top = [routine |-> b, at |-> at, file |-> top.file, dst |-> top.dst]
    BY <1>1 DEF FrameRecs
  <2>2. [top EXCEPT !.at = next] = f
    BY <2>1
  <2>3. grs = [frs EXCEPT ![D] = [top EXCEPT !.at = next]]
    BY <1>1
  <2> QED  BY <2>2, <2>3
<1>3. /\ b \in Bodies(c) /\ top.file \in [Registers(c, b) -> Cells]
      /\ \A r \in Registers(c, b) : IsValue(top.file[r], n) /\ known[b][at][r] \in {top.file[r].ty, "clash"}
  BY TopIs
<1>4. \A r \in Registers(c, b) : IsValue(top.file[r], m) /\ known[b][next][r] \in {top.file[r].ty, "clash"}
  BY <1>3, ValueStays
<1>5. f \in FrameRecs(c)
  BY <1>1, <1>3 DEF FrameRecs
<1>6. f.routine = b /\ f.at = next /\ f.file = top.file /\ f.dst = top.dst
  OBVIOUS
<1> HIDE DEF f, grs
<1>7. FramesInv(c, known, [frs EXCEPT ![D] = f], m)
  BY <1>3, <1>4, <1>5, <1>6, TopSet
<1> QED  BY <1>2, <1>7 DEF grs

-----------------------------------------------------------------------------
(* The machine at a place. *)

\* The instruction the machine is at, before widening, what is known there,
\* and what is known at another place of its body.
Spot(p) == CodeOf(Chunks[p], Current.routine)[Current.at]
There(p, at) == Known[p][Current.routine][at]
File(p) == Registers(Chunks[p], Current.routine)

\* The machine is at a place that is known of, its instruction is the one there
\* or one widened from it, and its registers hold what is known there.
LEMMA HereIs ==
    ASSUME NEW p \in DOMAIN Chunks, NEW fused \in BOOLEAN, MInv(p, fused)
    PROVE  /\ Shown(Chunks[p], Known[p]) /\ Place(Chunks[p], Known[p], Current.routine, Current.at)
           /\ Depth \in Nat /\ Depth >= 1 /\ (Current.routine = 0) = (Depth = 1)
           /\ Current \in FrameRecs(Chunks[p]) /\ Current.at \in Nat
           /\ Current.file \in [File(p) -> Cells]
           /\ \A r \in File(p) :
                /\ IsValue(Reg(r), Len(arrays))
                /\ There(p, Current.at)[r] \in {Reg(r).ty, "clash"}
           /\ Code = Widen(CodeOf(Chunks[p], Current.routine), fused)
           /\ Current.at \in DOMAIN CodeOf(Chunks[p], Current.routine)
           /\ Spot(p).k \in Instructions /\ Formed(Chunks[p], Current.routine, Spot(p))
           /\ Len(arrays) \in Nat
<1> DEFINE c == Chunks[p]
<1>1. Shown(c, Known[p])
  BY ChunksAssumption
<1>2. FramesInv(c, Known[p], frames, Len(arrays)) /\ chunk = Widened(c, fused) /\ Len(arrays) \in Nat
  BY DEF MInv
<1>3. /\ Depth \in Nat /\ Depth >= 1 /\ Current \in FrameRecs(c)
      /\ Current.routine \in Bodies(c) /\ (Current.routine = 0) = (Depth = 1)
      /\ Current.at \in DOMAIN Known[p][Current.routine]
      /\ Current.file \in [File(p) -> Cells]
      /\ \A r \in File(p) :
           /\ IsValue(Current.file[r], Len(arrays))
           /\ Known[p][Current.routine][Current.at][r] \in {Current.file[r].ty, "clash"}
  BY <1>2, TopIs DEF Depth, Current, File
<1>4. Place(c, Known[p], Current.routine, Current.at)
  BY <1>1, <1>3 DEF Place
<1>5. Current.at \in Nat /\ Current.at \in DOMAIN CodeOf(c, Current.routine) /\ Formed(c, Current.routine, Spot(p))
  BY <1>4, PlaceIs DEF Spot
<1>6. Code = Widen(CodeOf(c, Current.routine), fused)
  BY <1>1, <1>2, <1>3, WidenedIs DEF Code
<1>7. Spot(p).k \in Instructions
  BY <1>5 DEF Formed
<1> QED  BY <1>1, <1>2, <1>3, <1>4, <1>5, <1>6, <1>7 DEF Reg, There

\* The rest of a chunk is as it was.
LEMMA ChunkIs ==
    ASSUME NEW p \in DOMAIN Chunks, NEW fused \in BOOLEAN, MInv(p, fused)
    PROVE  /\ chunk.consts = Chunks[p].consts /\ chunk.division \in Conventions
           /\ chunk.registers = Chunks[p].registers
           /\ Len(chunk.funcs) = Len(Chunks[p].funcs) /\ Len(Chunks[p].funcs) \in Nat
           /\ \A f \in 1 .. Len(Chunks[p].funcs) : chunk.funcs[f].registers = Chunks[p].funcs[f].registers
           /\ \A b \in Bodies(Chunks[p]) : CodeOf(chunk, b) = Widen(CodeOf(Chunks[p], b), fused)
<1>1. Shown(Chunks[p], Known[p]) /\ chunk = Widened(Chunks[p], fused)
  BY ChunksAssumption DEF MInv
<1>2. Chunks[p].division \in Conventions
  BY <1>1 DEF Shown
<1> QED  BY <1>1, <1>2, WidenedIs

\* What is not fused is as it was compiled.
LEMMA PlainIs ==
    ASSUME NEW p \in DOMAIN Chunks, NEW fused \in BOOLEAN, MInv(p, fused), Op.k \notin {"tail", "atone"}
    PROVE  Op = Spot(p)
<1>1. /\ Code = Widen(CodeOf(Chunks[p], Current.routine), fused)
      /\ Current.at \in DOMAIN CodeOf(Chunks[p], Current.routine)
      /\ Spot(p).k \in Instructions
  BY HereIs
<1> QED  BY <1>1, WidenIs DEF Op, Spot

\* A register it says the type of holds a value of it.
LEMMA ReadIs ==
    ASSUME NEW p \in DOMAIN Chunks, NEW fused \in BOOLEAN, MInv(p, fused),
           NEW r, NEW t, <<r, t>> \in Claims(Chunks[p], Spot(p))
    PROVE  /\ r \in File(p) /\ Reg(r) \in Cells /\ IsValue(Reg(r), Len(arrays))
           /\ Reg(r).ty = t /\ t \in Kinds \ {"unset"}
<1>1. Place(Chunks[p], Known[p], Current.routine, Current.at)
  BY HereIs
<1>2. r \in File(p) /\ There(p, Current.at)[r] = t /\ t \in Kinds \ {"unset"}
  BY <1>1, ClaimIs DEF Spot, There, File
<1>3. IsValue(Reg(r), Len(arrays)) /\ There(p, Current.at)[r] \in {Reg(r).ty, "clash"}
  BY <1>2, HereIs
<1>4. t # "clash"
  BY <1>2 DEF Kinds
<1> QED  BY <1>2, <1>3, <1>4 DEF IsValue

\* What is counted is an array.
LEMMA CountedIs ==
    ASSUME NEW p \in DOMAIN Chunks, NEW fused \in BOOLEAN, MInv(p, fused), Op.k = "count", Op = Spot(p)
    PROVE  /\ Op.src \in File(p) /\ Reg(Op.src).ty \in Arrays
           /\ IsValue(Reg(Op.src), Len(arrays))
<1>1. Place(Chunks[p], Known[p], Current.routine, Current.at)
  BY HereIs
<1>2. Op = CodeOf(Chunks[p], Current.routine)[Current.at]
  BY DEF Spot
<1>3. Op.src \in File(p) /\ There(p, Current.at)[Op.src] \in Arrays
  BY <1>1, <1>2, CountIs DEF There, File
<1>4. IsValue(Reg(Op.src), Len(arrays)) /\ There(p, Current.at)[Op.src] \in {Reg(Op.src).ty, "clash"}
  BY <1>3, HereIs
<1> QED  BY <1>3, <1>4 DEF Arrays

\* A value into a register, and on to a place that follows.
LEMMA ProceedIs ==
    ASSUME NEW p \in DOMAIN Chunks, NEW fused \in BOOLEAN, MInv(p, fused),
           NEW next \in DOMAIN Known[p][Current.routine], NEW d \in File(p), NEW v,
           Gives(Chunks[p], Current.routine, There(p, Current.at), There(p, next), d, v.ty),
           PutAt(d, v, next), Goes,
           arrays' \in Seq(Seq(Ints)), Len(arrays') >= Len(arrays), IsValue(v, Len(arrays'))
    PROVE  MInv(p, fused)'
<1> DEFINE c == Chunks[p]
<1>1. FramesInv(c, Known[p], frames, Len(arrays)) /\ Len(arrays) \in Nat /\ Len(arrays') \in Nat
  BY DEF MInv
<1>2. next \in Nat
  <2>1. Place(c, Known[p], Current.routine, next)
    BY HereIs DEF Place
  <2> QED  BY <2>1, PlaceIs
<1>3. FramesInv(c, Known[p], frames', Len(arrays'))
  BY <1>1, <1>2, PutKeeps DEF PutAt, Depth, Current, File, There
<1> QED  BY <1>3 DEF MInv, EndInv, Goes

\* On, with nothing written.
LEMMA GoIs ==
    ASSUME NEW p \in DOMAIN Chunks, NEW fused \in BOOLEAN, MInv(p, fused),
           Writes(Chunks[p], Spot(p)) = {}, NEW next \in Ways(Chunks[p], Current.routine, Current.at),
           Goto(next), UNCHANGED <<chunk, ended, fault>>,
           arrays' \in Seq(Seq(Ints)), Len(arrays') = Len(arrays)
    PROVE  MInv(p, fused)'
<1> DEFINE c == Chunks[p]
           b == Current.routine
<1>1. FramesInv(c, Known[p], frames, Len(arrays)) /\ Len(arrays) \in Nat
  BY DEF MInv
<1>2. Place(c, Known[p], b, Current.at)
  BY HereIs
<1>3. next \in DOMAIN Known[p][b]
  BY <1>2, PlaceIs
<1>4. next \in Nat
  <2>1. Place(c, Known[p], b, next)
    BY <1>2, <1>3 DEF Place
  <2> QED  BY <2>1, PlaceIs
<1>5. \A r \in Registers(c, b) : Known[p][b][next][r] \in {Known[p][b][Current.at][r], "clash"}
  BY <1>2, NothingGives DEF Gives, Spot
<1>6. FramesInv(c, Known[p], frames', Len(arrays'))
  <2>1. b = frames[Len(frames)].routine /\ Current.at = frames[Len(frames)].at
    BY DEF Current, Depth
  <2>2. frames' = [frames EXCEPT ![Len(frames)].at = next]
    BY DEF Goto, Depth
  <2> DEFINE here == Current.at
             n == Len(arrays)
             known == Known[p]
  <2>4. \A r \in Registers(c, b) : known[b][next][r] \in {known[b][here][r], "clash"}
    BY <1>5
  <2>5. n \in Nat /\ n <= n /\ FramesInv(c, known, frames, n) /\ next \in DOMAIN known[b]
    BY <1>1, <1>3
  <2> HIDE DEF b, here, n, known, c
  <2>3. FramesInv(c, known, [frames EXCEPT ![Len(frames)].at = next], n)
    BY <1>4, <2>1, <2>4, <2>5, GoKeeps DEF here
  <2> QED  BY <2>2, <2>3 DEF c, known, n
<1> QED  BY <1>6 DEF MInv, EndInv

\* What the instruction writes, into its register, and on.
LEMMA PutIs ==
    ASSUME NEW p \in DOMAIN Chunks, NEW fused \in BOOLEAN, MInv(p, fused),
           NEW d, NEW v, Writes(Chunks[p], Spot(p)) = {<<d, v.ty>>},
           Spot(p).k \notin Jumps \cup Stops, PutAt(d, v, Next1), Goes,
           arrays' \in Seq(Seq(Ints)), Len(arrays') >= Len(arrays), IsValue(v, Len(arrays'))
    PROVE  MInv(p, fused)'
<1> DEFINE c == Chunks[p]
           b == Current.routine
<1>1. Place(c, Known[p], b, Current.at)
  BY HereIs
<1>2. Next1 \in Ways(c, b, Current.at)
  BY DEF Ways, Spot, Next1
<1>3. Next1 \in DOMAIN Known[p][b]
  BY <1>1, <1>2, PlaceIs
<1>4. d \in File(p)
  <2>1. <<d, v.ty>> \in Writes(c, CodeOf(c, b)[Current.at])
    BY DEF Spot
  <2> QED  BY <1>1, <2>1, WriteIs DEF File
<1>5. Gives(c, b, There(p, Current.at), There(p, Next1), d, v.ty)
  BY <1>1, <1>2, WriteGives DEF Spot, There
<1> QED  BY <1>3, <1>4, <1>5, ProceedIs

\* A fault leaves everything where it was.
LEMMA FaultIs ==
    ASSUME NEW p \in DOMAIN Chunks, NEW fused \in BOOLEAN, MInv(p, fused),
           NEW code, code # "none", NEW span, Faults(code, span)
    PROVE  MInv(p, fused)'
<1>1. ended' = "fault" /\ fault'.code # "none"
  BY DEF Faults
<1> QED  BY <1>1 DEF Faults, MInv, EndInv

\* An answer of the arithmetic: its value into a register, or its fault.
LEMMA SettlesIs ==
    ASSUME NEW p \in DOMAIN Chunks, NEW fused \in BOOLEAN, MInv(p, fused),
           NEW next \in DOMAIN Known[p][Current.routine], NEW d \in File(p), NEW t \in Numeric, NEW answer,
           Gives(Chunks[p], Current.routine, There(p, Current.at), There(p, next), d, t),
           Settled(answer, t), Settles(d, answer, next)
    PROVE  MInv(p, fused)'
<1>1. CASE answer.code = "none"
  <2>1. PutAt(d, answer.value, next) /\ Goes /\ arrays' = arrays
    BY <1>1 DEF Settles, Steps
  <2>2. answer.value \in Cells /\ answer.value.ty = t
    BY <1>1 DEF Settled
  <2>3. IsValue(answer.value, Len(arrays'))
    BY <2>2 DEF IsValue, Numeric, Arrays
  <2>4. arrays' \in Seq(Seq(Ints)) /\ Len(arrays') >= Len(arrays)
    BY <2>1, HereIs DEF MInv
  <2> QED  BY <2>1, <2>2, <2>3, <2>4, ProceedIs
<1>2. CASE answer.code # "none"
  BY <1>2, FaultIs DEF Settles
<1> QED  BY <1>1, <1>2

-----------------------------------------------------------------------------
(* The instructions, one by one. *)

\* A boolean is a value.
LEMMA BoolIs ==
    ASSUME NEW b
    PROVE  Bool(b) \in Cells /\ Bool(b).ty = "bool"
BY DEF Bool, Cells, Kinds

\* A value that is no array is one whatever has been made.
LEMMA ScalarIs ==
    ASSUME NEW v \in Cells, NEW n, v.ty \notin Arrays
    PROVE  IsValue(v, n)
BY DEF IsValue

LEMMA ConstKeeps ==
    ASSUME NEW p \in DOMAIN Chunks, NEW fused \in BOOLEAN, MInv(p, fused), Const
    PROVE  MInv(p, fused)'
<1> DEFINE v == chunk.consts[Op.konst + 1]
<1>1. Op.k = "const" /\ PutAt(Op.dst, v, Next1) /\ Goes /\ arrays' = arrays
  BY DEF Const, Running, Put, Steps
<1>2. Op = Spot(p)
  BY <1>1, PlainIs
<1>3. chunk.consts = Chunks[p].consts /\ Op.konst + 1 \in DOMAIN Chunks[p].consts
  BY <1>1, <1>2, ChunkIs, HereIs DEF Formed
<1>4. v \in [ty : Numeric \cup {"bool"}, bits : Nat]
  BY <1>3, HereIs DEF Shown
<1>5. v \in Cells /\ v.ty \notin Arrays
  BY <1>4 DEF Cells, Numeric, Kinds, Arrays
<1>6. Writes(Chunks[p], Spot(p)) = {<<Op.dst, v.ty>>}
  BY <1>1, <1>2, <1>3 DEF Writes
<1>7. Spot(p).k \notin Jumps \cup Stops
  BY <1>1, <1>2 DEF Jumps, Stops
<1>8. arrays' \in Seq(Seq(Ints)) /\ Len(arrays') >= Len(arrays)
  BY <1>1, HereIs DEF MInv
<1> HIDE DEF v
<1> QED  BY <1>1, <1>5, <1>6, <1>7, <1>8, ScalarIs, PutIs

LEMMA MoveKeeps ==
    ASSUME NEW p \in DOMAIN Chunks, NEW fused \in BOOLEAN, MInv(p, fused), Move
    PROVE  MInv(p, fused)'
<1> DEFINE v == Reg(Op.src)
<1>1. Op.k = "move" /\ PutAt(Op.dst, v, Next1) /\ Goes /\ arrays' = arrays
  BY DEF Move, Running, Put, Steps
<1>2. Op = Spot(p)
  BY <1>1, PlainIs
<1>3. <<Op.src, Op.ty>> \in Claims(Chunks[p], Spot(p))
  BY <1>1, <1>2 DEF Claims
<1>4. IsValue(v, Len(arrays)) /\ v.ty = Op.ty
  BY <1>3, ReadIs
<1>5. Writes(Chunks[p], Spot(p)) = {<<Op.dst, v.ty>>}
  BY <1>1, <1>2, <1>4 DEF Writes
<1>6. Spot(p).k \notin Jumps \cup Stops
  BY <1>1, <1>2 DEF Jumps, Stops
<1>7. arrays' \in Seq(Seq(Ints)) /\ Len(arrays') >= Len(arrays)
  BY <1>1, HereIs DEF MInv
<1> HIDE DEF v
<1> QED  BY <1>1, <1>4, <1>5, <1>6, <1>7, PutIs

\* An instruction whose answer is refused or is a value of the type it writes.
LEMMA AnswerKeeps ==
    ASSUME NEW p \in DOMAIN Chunks, NEW fused \in BOOLEAN, MInv(p, fused),
           Op.k \in {"binary", "neg"}, NEW answer, Settled(answer, Op.ty), Settles(Op.dst, answer, Next1)
    PROVE  MInv(p, fused)'
<1> DEFINE c == Chunks[p]
           b == Current.routine
<1>1. Op = Spot(p) /\ Op.ty \in Numeric
  BY PlainIs, HereIs DEF Formed
<1>2. Place(c, Known[p], b, Current.at)
  BY HereIs
<1>3. Writes(c, Spot(p)) = {<<Op.dst, Op.ty>>}
  BY <1>1 DEF Writes
<1>4. Next1 \in Ways(c, b, Current.at)
  BY <1>1 DEF Ways, Spot, Next1, Stops
<1>5. Next1 \in DOMAIN Known[p][b]
  BY <1>2, <1>4, PlaceIs
<1>6. Op.dst \in File(p)
  <2>1. <<Op.dst, Op.ty>> \in Writes(c, CodeOf(c, b)[Current.at])
    BY <1>3 DEF Spot
  <2> QED  BY <1>2, <2>1, WriteIs DEF File
<1>7. Gives(c, b, There(p, Current.at), There(p, Next1), Op.dst, Op.ty)
  BY <1>2, <1>3, <1>4, WriteGives DEF Spot, There
<1> QED  BY <1>1, <1>5, <1>6, <1>7, SettlesIs

LEMMA BinaryKeeps ==
    ASSUME NEW p \in DOMAIN Chunks, NEW fused \in BOOLEAN, MInv(p, fused), Binary
    PROVE  MInv(p, fused)'
<1> DEFINE answer == BinaryOp(Op.op, Reg(Op.lhs), Reg(Op.rhs), chunk)
<1>1. Op.k = "binary" /\ Settles(Op.dst, answer, Next1)
  BY DEF Binary, Running
<1>2. Op = Spot(p) /\ Op.ty \in Numeric /\ Op.op \in Operators /\ chunk.division \in Conventions
  BY <1>1, PlainIs, HereIs, ChunkIs DEF Formed
<1>3. <<Op.lhs, Op.ty>> \in Claims(Chunks[p], Spot(p)) /\ <<Op.rhs, Op.ty>> \in Claims(Chunks[p], Spot(p))
  BY <1>1, <1>2 DEF Claims
<1>4. Reg(Op.lhs) \in Cells /\ Reg(Op.lhs).ty = Op.ty /\ Reg(Op.rhs) \in Cells
  BY <1>3, ReadIs
<1>5. Settled(answer, Op.ty)
  BY <1>2, <1>4, BinaryIs
<1> HIDE DEF answer
<1> QED  BY <1>1, <1>5, AnswerKeeps

LEMMA NegKeeps ==
    ASSUME NEW p \in DOMAIN Chunks, NEW fused \in BOOLEAN, MInv(p, fused), Neg
    PROVE  MInv(p, fused)'
<1> DEFINE answer == Negate(Reg(Op.src), chunk)
<1>1. Op.k = "neg" /\ Settles(Op.dst, answer, Next1)
  BY DEF Neg, Running
<1>2. Op = Spot(p) /\ Op.ty \in Numeric
  BY <1>1, PlainIs, HereIs DEF Formed
<1>3. <<Op.src, Op.ty>> \in Claims(Chunks[p], Spot(p))
  BY <1>1, <1>2 DEF Claims
<1>4. Reg(Op.src) \in Cells /\ Reg(Op.src).ty = Op.ty
  BY <1>3, ReadIs
<1>5. Settled(answer, Op.ty)
  BY <1>2, <1>4, NegateIs
<1> HIDE DEF answer
<1> QED  BY <1>1, <1>5, AnswerKeeps

\* A truth is worked out, by negation or comparison.
LEMMA TruthKeeps ==
    ASSUME NEW p \in DOMAIN Chunks, NEW fused \in BOOLEAN, MInv(p, fused),
           Op.k \in {"not", "compare"}, NEW b, Put(Op.dst, Bool(b)), Steps
    PROVE  MInv(p, fused)'
<1> DEFINE v == Bool(b)
<1>1. PutAt(Op.dst, v, Next1) /\ Goes /\ arrays' = arrays
  BY DEF Put, Steps
<1>2. Op = Spot(p)
  BY PlainIs
<1>3. v \in Cells /\ v.ty = "bool"
  BY BoolIs
<1> HIDE DEF v
<1>4. IsValue(v, Len(arrays'))
  BY <1>3, ScalarIs DEF Arrays
<1>5. Writes(Chunks[p], Spot(p)) = {<<Op.dst, v.ty>>}
  BY <1>2, <1>3 DEF Writes
<1>6. Spot(p).k \notin Jumps \cup Stops
  BY <1>2 DEF Jumps, Stops
<1>7. arrays' \in Seq(Seq(Ints)) /\ Len(arrays') >= Len(arrays)
  BY <1>1, HereIs DEF MInv
<1> QED  BY <1>1, <1>4, <1>5, <1>6, <1>7, PutIs

LEMMA NotKeeps ==
    ASSUME NEW p \in DOMAIN Chunks, NEW fused \in BOOLEAN, MInv(p, fused), Not
    PROVE  MInv(p, fused)'
BY TruthKeeps DEF Not, Running

LEMMA ComparingKeeps ==
    ASSUME NEW p \in DOMAIN Chunks, NEW fused \in BOOLEAN, MInv(p, fused), Comparing
    PROVE  MInv(p, fused)'
BY TruthKeeps DEF Comparing, Running

LEMMA JumpingKeeps ==
    ASSUME NEW p \in DOMAIN Chunks, NEW fused \in BOOLEAN, MInv(p, fused), Jumping
    PROVE  MInv(p, fused)'
<1> DEFINE next == IF Taken THEN Op.target ELSE Next1
<1>1. Op.k \in Jumps /\ Goto(next) /\ Goes /\ arrays' = arrays
  BY DEF Jumping, Running, Steps
<1>2. Op = Spot(p)
  BY <1>1, PlainIs DEF Jumps
<1>3. Writes(Chunks[p], Spot(p)) = {}
  BY <1>1, <1>2 DEF Writes, Jumps
<1>4. next \in Ways(Chunks[p], Current.routine, Current.at)
  <2>1. Op.target \in Ways(Chunks[p], Current.routine, Current.at)
    BY <1>1, <1>2 DEF Ways, Spot
  <2>2. CASE Op.k = "jump"
    BY <2>1, <2>2 DEF Taken
  <2>3. CASE Op.k # "jump"
    <3>1. Op.k \notin Stops
      BY <1>1, <2>3 DEF Jumps, Stops
    <3>2. Next1 \in Ways(Chunks[p], Current.routine, Current.at)
      BY <1>2, <3>1 DEF Ways, Spot, Next1
    <3> QED  BY <2>1, <3>2
  <2> QED  BY <2>2, <2>3
<1>5. arrays' \in Seq(Seq(Ints)) /\ Len(arrays') = Len(arrays)
  BY <1>1 DEF MInv
<1> HIDE DEF next
<1> QED  BY <1>1, <1>3, <1>4, <1>5, GoIs DEF Goes

LEMMA PrintingKeeps ==
    ASSUME NEW p \in DOMAIN Chunks, NEW fused \in BOOLEAN, MInv(p, fused), Printing
    PROVE  MInv(p, fused)'
<1>1. Op.k = "print" /\ Goto(Next1) /\ UNCHANGED <<chunk, ended, fault>> /\ arrays' = arrays
  BY DEF Printing, Running
<1>2. Op = Spot(p)
  BY <1>1, PlainIs
<1>3. Writes(Chunks[p], Spot(p)) = {} /\ Next1 \in Ways(Chunks[p], Current.routine, Current.at)
  BY <1>1, <1>2 DEF Writes, Ways, Spot, Next1, Stops
<1>4. arrays' \in Seq(Seq(Ints)) /\ Len(arrays') = Len(arrays)
  BY <1>1 DEF MInv
<1> QED  BY <1>1, <1>3, <1>4, GoIs

\* The fused tail, left or gone round.
LEMMA TailHereIs ==
    ASSUME NEW p \in DOMAIN Chunks, NEW fused \in BOOLEAN, MInv(p, fused), Op.k = "tail"
    PROVE  LET code == CodeOf(Chunks[p], Current.routine)
               ty == Spot(p).ty
           IN  /\ ty \in Numeric
               /\ \A r \in {Op.counter, Op.limit, Op.step} :
                    r \in File(p) /\ Reg(r) \in Cells /\ Reg(r).ty = ty
               /\ Code[Current.at + 2].target = code[Current.at + 2].target
               /\ \A next \in {Current.at + 3, code[Current.at + 2].target} :
                    /\ next \in DOMAIN Known[p][Current.routine]
                    /\ Gives(Chunks[p], Current.routine, There(p, Current.at), There(p, next), Op.counter, ty)
<1> DEFINE c == Chunks[p]
           b == Current.routine
           at == Current.at
           code == CodeOf(c, b)
           ty == Spot(p).ty
<1>1. /\ Place(c, Known[p], b, at) /\ Code = Widen(code, fused) /\ at \in DOMAIN code
      /\ Spot(p).k \in Instructions /\ Spot(p) = code[at]
  BY HereIs DEF Spot
<1>2. /\ IsTail(code, at) /\ Op.counter = code[at].lhs /\ Op.limit = code[at].rhs
      /\ Op.step = code[at + 1].rhs
  BY <1>1, WidenIs DEF Op
<1>3. /\ IsInteger(ty) /\ ty \in Kinds \ {"unset"}
      /\ \A r \in {Op.counter, Op.limit, Op.step} : r \in Registers(c, b) /\ Known[p][b][at][r] = ty
      /\ at + 2 \in DOMAIN code /\ code[at + 2].k = "jump"
      /\ \A next \in {at + 3, code[at + 2].target} :
           /\ next \in DOMAIN Known[p][b]
           /\ Gives(c, b, Known[p][b][at], Known[p][b][next], Op.counter, ty)
  <2> HIDE DEF c, b, at
  <2>1. Place(c, Known[p], b, at) /\ IsTail(CodeOf(c, b), at) /\ ty = code[at].ty
    BY <1>1, <1>2
  <2> HIDE DEF ty
  <2> QED  BY <1>2, <2>1, TailIs
<1>4. \A r \in {Op.counter, Op.limit, Op.step} : r \in File(p) /\ Reg(r) \in Cells /\ Reg(r).ty = ty
  <2>1. ty # "clash"
    BY <1>3 DEF IsInteger
  <2> QED  BY <1>3, <2>1, HereIs DEF There, File, IsValue
<1>5. Code[at + 2] = code[at + 2]
  <2> DEFINE op == Widen(code, fused)[at + 2]
  <2>1. /\ code[at + 2].k \in Instructions /\ code[at + 2].k \notin {"jumpifequal", "move"}
        /\ at + 2 \in DOMAIN code /\ Code[at + 2] = op
    BY <1>1, <1>3 DEF Instructions, Jumps
  <2> HIDE DEF code, at, op
  <2>2. op = code[at + 2]
    <3>1. op = Widen(code, fused)[at + 2]
      BY DEF op
    <3> QED  BY <2>1, <3>1, WidenIs
  <2> QED  BY <2>1, <2>2
<1> QED  BY <1>3, <1>4, <1>5 DEF There, IsInteger, Numeric

LEMMA TailLeavesKeeps ==
    ASSUME NEW p \in DOMAIN Chunks, NEW fused \in BOOLEAN, MInv(p, fused), TailLeaves
    PROVE  MInv(p, fused)'
<1> DEFINE next == Current.at + 3
           v == Reg(Op.counter)
<1>1. Op.k = "tail" /\ Goto(next) /\ Goes /\ arrays' = arrays
  BY DEF TailLeaves, Running, Steps
<1>2. /\ Op.counter \in File(p) /\ next \in DOMAIN Known[p][Current.routine]
      /\ Gives(Chunks[p], Current.routine, There(p, Current.at), There(p, next), Op.counter, v.ty)
  BY <1>1, TailHereIs
<1>3. IsValue(v, Len(arrays)) /\ Current.file \in [File(p) -> Cells] /\ Depth \in Nat /\ Depth >= 1
  BY <1>2, HereIs
<1>4. PutAt(Op.counter, v, next)
  <2>1. frames \in Seq(FrameRecs(Chunks[p])) /\ Current \in FrameRecs(Chunks[p])
    BY HereIs DEF MInv, FramesInv
  <2>2. [Current.file EXCEPT ![Op.counter] = v] = Current.file
    BY <1>3 DEF Reg
  <2>3. [Current EXCEPT !.file[Op.counter] = v] = Current
    BY <2>1, <2>2 DEF FrameRecs
  <2>4. [frames EXCEPT ![Depth].file[Op.counter] = v] = frames
    BY <1>3, <2>1, <2>3 DEF Current, Depth
  <2>5. [frames EXCEPT ![Depth].file[Op.counter] = v, ![Depth].at = next] = [frames EXCEPT ![Depth].at = next]
    BY <2>4
  <2> QED  BY <1>1, <2>5 DEF PutAt, Goto
<1>5. arrays' \in Seq(Seq(Ints)) /\ Len(arrays') = Len(arrays) /\ Len(arrays') >= Len(arrays)
  BY <1>1, HereIs DEF MInv
<1> HIDE DEF v, next
<1> QED  BY <1>1, <1>2, <1>3, <1>4, <1>5, ProceedIs

LEMMA TailRoundKeeps ==
    ASSUME NEW p \in DOMAIN Chunks, NEW fused \in BOOLEAN, MInv(p, fused), TailRound
    PROVE  MInv(p, fused)'
<1> DEFINE next == Code[Current.at + 2].target
           answer == BinaryOp("add", Reg(Op.counter), Reg(Op.step), chunk)
           ty == Spot(p).ty
<1>1. Op.k = "tail" /\ Settles(Op.counter, answer, next)
  BY DEF TailRound, Running
<1>2. /\ ty \in Numeric /\ Op.counter \in File(p) /\ next \in DOMAIN Known[p][Current.routine]
      /\ Reg(Op.counter) \in Cells /\ Reg(Op.counter).ty = ty /\ Reg(Op.step) \in Cells
      /\ Gives(Chunks[p], Current.routine, There(p, Current.at), There(p, next), Op.counter, ty)
  BY <1>1, TailHereIs
<1>3. chunk.division \in Conventions
  BY ChunkIs
<1>4. Settled(answer, ty)
  BY <1>2, <1>3, BinaryIs DEF Operators
<1> HIDE DEF next, answer, ty
<1> QED  BY <1>1, <1>2, <1>4, SettlesIs

-----------------------------------------------------------------------------
(* Arrays. *)

\* An array is made of these elements: its handle is a value from here on.
LEMMA MakesKeeps ==
    ASSUME NEW p \in DOMAIN Chunks, NEW fused \in BOOLEAN, MInv(p, fused),
           Op.k \in {"newarray", "filled"}, NEW elements \in Seq(Ints), Makes(elements)
    PROVE  MInv(p, fused)'
<1> DEFINE n == Len(arrays)
           v == [ty |-> Op.ty, bits |-> n + 1]
<1>1. PutAt(Op.dst, v, Next1) /\ Goes /\ arrays' = Append(arrays, elements)
  BY DEF Makes, Put
<1>2. arrays \in Seq(Seq(Ints)) /\ n \in Nat
  BY HereIs DEF MInv
<1>3. arrays' \in Seq(Seq(Ints)) /\ Len(arrays') = n + 1
  BY <1>1, <1>2
<1>4. Op = Spot(p)
  BY PlainIs
<1>5. Op.ty \in Arrays
  <2>1. ~Malformed(Chunks[p], Spot(p))
    BY HereIs, PlaceIs DEF Spot
  <2> QED  BY <1>4, <2>1 DEF Malformed
<1>6. v.ty = Op.ty /\ IsValue(v, n + 1)
  BY <1>2, <1>5 DEF IsValue, Cells, Kinds, Arrays
<1>7. Writes(Chunks[p], Spot(p)) = {<<Op.dst, v.ty>>}
  BY <1>4, <1>6 DEF Writes
<1>8. Spot(p).k \notin Jumps \cup Stops
  BY <1>4 DEF Jumps, Stops
<1> HIDE DEF v
<1>9. IsValue(v, Len(arrays')) /\ Len(arrays') >= Len(arrays)
  BY <1>2, <1>3, <1>6
<1> QED  BY <1>1, <1>3, <1>7, <1>8, <1>9, PutIs

\* A value of the element type is one an array holds.
LEMMA ElementIs ==
    ASSUME NEW p \in DOMAIN Chunks, NEW fused \in BOOLEAN, MInv(p, fused),
           NEW r, <<r, ElementTy>> \in Claims(Chunks[p], Spot(p))
    PROVE  Reg(r) \in Ints
<1>1. Reg(r) \in Cells /\ Reg(r).ty = ElementTy
  BY ReadIs
<1> QED  BY <1>1 DEF Cells, Ints

LEMMA NewArrayKeeps ==
    ASSUME NEW p \in DOMAIN Chunks, NEW fused \in BOOLEAN, MInv(p, fused), NewArray
    PROVE  MInv(p, fused)'
<1> DEFINE elements == [i \in 1 .. Op.count |-> Reg(Nth(Op.items, i - 1))]
<1>1. Op.k = "newarray" /\ Makes(elements)
  BY DEF NewArray, Running
<1>2. Op = Spot(p) /\ Op.items \in Nat /\ Op.count \in Nat
  BY <1>1, PlainIs, HereIs DEF Formed
<1>3. ASSUME NEW i \in 1 .. Op.count  PROVE Reg(Nth(Op.items, i - 1)) \in Ints
  <2>1. Nth(Op.items, i - 1) \in Run(Op.items, Op.count)
    BY <1>2 DEF Run
  <2>2. <<Nth(Op.items, i - 1), ElementTy>> \in Claims(Chunks[p], Spot(p))
    BY <1>1, <1>2, <2>1 DEF Claims
  <2> QED  BY <2>2, ElementIs
<1>4. elements \in [1 .. Op.count -> Ints]
  BY <1>3
<1> HIDE DEF elements
<1>5. elements \in Seq(Ints)
  BY <1>2, <1>4
<1> QED  BY <1>1, <1>5, MakesKeeps

LEMMA FilledKeeps ==
    ASSUME NEW p \in DOMAIN Chunks, NEW fused \in BOOLEAN, MInv(p, fused), Filled
    PROVE  MInv(p, fused)'
<1> DEFINE length == NumberOf(Reg(Op.length))
           elements == [i \in 1 .. length |-> Reg(Op.value)]
<1>1. Op.k = "filled" /\ (length < 0 => Faults("R0014", Op.span)) /\ (~(length < 0) => Makes(elements))
  BY DEF Filled, Running
<1>2. Op = Spot(p)
  BY <1>1, PlainIs
<1>3. <<Op.length, IndexTy>> \in Claims(Chunks[p], Spot(p)) /\ <<Op.value, ElementTy>> \in Claims(Chunks[p], Spot(p))
  BY <1>1, <1>2 DEF Claims
<1>4. length \in Int /\ Reg(Op.value) \in Ints
  <2>1. Reg(Op.length) \in Cells
    BY <1>3, ReadIs
  <2>2. Reg(Op.length).bits \in Nat
    BY <2>1 DEF Cells
  <2> QED  BY <1>3, <2>2, NumberIs, ElementIs
<1>5. CASE length < 0
  BY <1>1, <1>5, FaultIs
<1>6. CASE ~(length < 0)
  <2>1. elements \in [1 .. length -> Ints] /\ length \in Nat
    BY <1>4, <1>6
  <2> HIDE DEF length, elements
  <2>2. elements \in Seq(Ints)
    BY <2>1
  <2> QED  BY <1>1, <1>6, <2>2, MakesKeeps
<1> QED  BY <1>5, <1>6

LEMMA CountingKeeps ==
    ASSUME NEW p \in DOMAIN Chunks, NEW fused \in BOOLEAN, MInv(p, fused), Counting
    PROVE  MInv(p, fused)'
<1> DEFINE v == Whole(Op.ty, Len(arrays[Reg(Op.src).bits]))
<1>1. Op.k = "count" /\ PutAt(Op.dst, v, Next1) /\ Goes /\ arrays' = arrays
  BY DEF Counting, Running, Put, Steps
<1>2. Op = Spot(p) /\ IsInteger(Op.ty)
  BY <1>1, PlainIs, HereIs DEF Formed
<1>3. arrays \in Seq(Seq(Ints))
  BY DEF MInv
<1>4. Reg(Op.src).bits \in 1 .. Len(arrays)
  <2>1. Reg(Op.src).ty \in Arrays /\ IsValue(Reg(Op.src), Len(arrays))
    BY <1>1, <1>2, CountedIs
  <2> QED  BY <2>1 DEF IsValue
<1>5. Len(arrays[Reg(Op.src).bits]) \in Int
  BY <1>3, <1>4
<1>6. v \in Cells /\ v.ty = Op.ty
  BY <1>2, <1>5, WholeIs DEF IsInteger, Kinds
<1> HIDE DEF v
<1>7. IsValue(v, Len(arrays'))
  BY <1>2, <1>6, ScalarIs DEF IsInteger, Arrays
<1>8. Writes(Chunks[p], Spot(p)) = {<<Op.dst, v.ty>>}
  BY <1>1, <1>2, <1>6 DEF Writes
<1>9. Spot(p).k \notin Jumps \cup Stops
  BY <1>1, <1>2 DEF Jumps, Stops
<1>10. arrays' \in Seq(Seq(Ints)) /\ Len(arrays') >= Len(arrays)
  BY <1>1, HereIs DEF MInv
<1> QED  BY <1>1, <1>7, <1>8, <1>9, <1>10, PutIs

\* An index in the shape, of an array no longer than it: an element there is.
LEMMA InRangeIs ==
    ASSUME Op.rank \in {1, 2}, Op.rank = 2 => Len(Dims(Op.ty)) >= 2,
           \A place \in 1 .. Op.rank : Index(place) \in Int,
           Elements \in Seq(Ints), InRange
    PROVE  Element \in DOMAIN Elements
<1>1. Index(1) >= 1 /\ (Op.rank = 2 => Index(2) >= 1)
  BY DEF InRange, InShape
<1>2. Element \in Int /\ Element >= 1
  <2>1. CASE Op.rank = 1
    BY <1>1, <2>1 DEF Element
  <2>2. CASE Op.rank = 2
    <3> DEFINE i == Index(1) - 1
               d == Dims(Op.ty)[2]
    <3>1. d \in Nat
      <4>1. Op.ty = "grid"
        BY <2>2 DEF Dims
      <4>2. Dims(Op.ty) \in Seq(Nat \ {0}) /\ Len(Dims(Op.ty)) >= 2
        BY <2>2, <4>1, LangAssumption DEF Dims
      <4> QED  BY <4>2
    <3>2. i \in Nat /\ Index(2) \in Nat /\ Index(2) >= 1
      BY <1>1, <2>2
    <3>3. Element = i * d + Index(2)
      BY <2>2 DEF Element
    <3> HIDE DEF i, d
    <3>4. i * d \in Nat
      BY <3>1, <3>2
    <3> QED  BY <3>2, <3>3, <3>4
  <2> QED  BY <2>1, <2>2
<1> QED  BY <1>2 DEF InRange

\* What an index of one or more parts reads: an array, and whole numbers.
LEMMA IndexIs ==
    ASSUME NEW p \in DOMAIN Chunks, NEW fused \in BOOLEAN, MInv(p, fused),
           Reg(Op.array).ty \in Arrays, IsValue(Reg(Op.array), Len(arrays)),
           \A place \in 1 .. Op.rank : Reg(Nth(Op.at, place - 1)) \in Cells
    PROVE  /\ Reg(Op.array).bits \in DOMAIN arrays /\ Elements \in Seq(Ints)
           /\ \A place \in 1 .. Op.rank : Index(place) \in Int
<1>1. arrays \in Seq(Seq(Ints)) /\ Reg(Op.array).bits \in DOMAIN arrays
  BY DEF MInv, IsValue
<1>2. \A place \in 1 .. Op.rank : Reg(Nth(Op.at, place - 1)).bits \in Nat
  BY DEF Cells
<1> QED  BY <1>1, <1>2, NumberIs DEF Elements, Index

\* Of an element read or stored, not fused.
LEMMA PlainIndexIs ==
    ASSUME NEW p \in DOMAIN Chunks, NEW fused \in BOOLEAN, MInv(p, fused), Op.k \in {"at", "storeat"}
    PROVE  /\ Op = Spot(p) /\ Op.rank \in {1, 2} /\ (Op.rank = 2 => Len(Dims(Op.ty)) >= 2)
           /\ Reg(Op.array).bits \in DOMAIN arrays /\ Elements \in Seq(Ints)
           /\ \A place \in 1 .. Op.rank : Index(place) \in Int
<1>1. /\ Op = Spot(p) /\ Op.rank \in {1, 2} /\ (Op.rank = 2 => Len(Dims(Op.ty)) >= 2)
      /\ Op.at \in Nat
  BY PlainIs, HereIs DEF Formed
<1>2. Op.ty \in Arrays
  <2>1. ~Malformed(Chunks[p], Spot(p))
    BY HereIs, PlaceIs DEF Spot
  <2> QED  BY <1>1, <2>1 DEF Malformed
<1>3. <<Op.array, Op.ty>> \in Claims(Chunks[p], Spot(p))
  BY <1>1 DEF Claims
<1>4. Reg(Op.array).ty \in Arrays /\ IsValue(Reg(Op.array), Len(arrays))
  BY <1>2, <1>3, ReadIs
<1>5. ASSUME NEW place \in 1 .. Op.rank  PROVE Reg(Nth(Op.at, place - 1)) \in Cells
  <2>1. Nth(Op.at, place - 1) \in Run(Op.at, Op.rank)
    BY <1>1 DEF Run
  <2>2. <<Nth(Op.at, place - 1), IndexTy>> \in Claims(Chunks[p], Spot(p))
    BY <1>1, <2>1 DEF Claims
  <2> QED  BY <2>2, ReadIs
<1> QED  BY <1>1, <1>4, <1>5, IndexIs

\* Of one read fused with the copy of its index.
LEMMA FusedIndexIs ==
    ASSUME NEW p \in DOMAIN Chunks, NEW fused \in BOOLEAN, MInv(p, fused), Op.k = "atone"
    PROVE  /\ Op.rank = 1 /\ Op.array \in File(p) /\ Op.at \in File(p) /\ Op.dst \in File(p)
           /\ Reg(Op.array) # Unset /\ Reg(Op.at) # Unset
           /\ Elements \in Seq(Ints)
           /\ \A place \in 1 .. Op.rank : Index(place) \in Int
           /\ Current.at + 2 \in DOMAIN Known[p][Current.routine]
           /\ Gives(Chunks[p], Current.routine, There(p, Current.at), There(p, Current.at + 2), Op.dst, ElementTy)
<1> DEFINE c == Chunks[p]
           b == Current.routine
           at == Current.at
           code == CodeOf(c, b)
<1>1. /\ Place(c, Known[p], b, at) /\ Code = Widen(code, fused) /\ at \in DOMAIN code
      /\ Spot(p).k \in Instructions /\ Spot(p) = code[at]
  BY HereIs DEF Spot
<1>2. /\ IsStaged(code, at) /\ Op.dst = code[at + 1].dst /\ Op.array = code[at + 1].array
      /\ Op.at = code[at].src /\ Op.rank = 1 /\ Op.ty = code[at + 1].ty
  BY <1>1, WidenIs DEF Op
<1>3. /\ Op.at \in Registers(c, b) /\ Known[p][b][at][Op.at] = IndexTy
      /\ Op.array \in Registers(c, b) /\ Known[p][b][at][Op.array] = Op.ty /\ Op.ty \in Arrays
      /\ Op.dst \in Registers(c, b) /\ at + 2 \in DOMAIN Known[p][b]
      /\ Gives(c, b, Known[p][b][at], Known[p][b][at + 2], Op.dst, ElementTy)
  BY <1>1, <1>2, AtoneIs
<1>4. /\ IsValue(Reg(Op.at), Len(arrays)) /\ Reg(Op.at).ty = IndexTy
      /\ IsValue(Reg(Op.array), Len(arrays)) /\ Reg(Op.array).ty \in Arrays
  <2>1. \A r \in Registers(c, b) :
          IsValue(Reg(r), Len(arrays)) /\ Known[p][b][at][r] \in {Reg(r).ty, "clash"}
    BY HereIs DEF There, File
  <2> QED  BY <1>3, <2>1 DEF IndexTy, Arrays
<1>5. \A place \in 1 .. Op.rank : Reg(Nth(Op.at, place - 1)) \in Cells
  <2>1. Nth(Op.at, 0) = Op.at
    BY <1>1, <1>3, RegisterIs
  <2>2. \A place \in 1 .. Op.rank : place - 1 = 0
    BY <1>2
  <2> QED  BY <1>4, <2>1, <2>2 DEF IsValue
<1>6. Reg(Op.array) # Unset /\ Reg(Op.at) # Unset
  BY <1>4 DEF Unset, Arrays, IndexTy
<1>7. Elements \in Seq(Ints) /\ \A place \in 1 .. Op.rank : Index(place) \in Int
  BY <1>4, <1>5, IndexIs
<1> QED  BY <1>2, <1>3, <1>6, <1>7 DEF There, File

LEMMA AtKeeps ==
    ASSUME NEW p \in DOMAIN Chunks, NEW fused \in BOOLEAN, MInv(p, fused), At
    PROVE  MInv(p, fused)'
<1> DEFINE v == Elements[Element]
           next == Current.at + IF Op.k = "atone" THEN 2 ELSE 1
<1>1. /\ Op.k \in {"at", "atone"} /\ (~InRange => Faults("R0015", Op.span))
      /\ InRange => PutAt(Op.dst, v, next) /\ Goes /\ arrays' = arrays
  BY DEF At, Running, Steps
<1>2. CASE ~InRange
  BY <1>1, <1>2, FaultIs
<1>3. CASE InRange
  <2>1. v \in Ints
    <3>1. /\ Op.rank \in {1, 2} /\ (Op.rank = 2 => Len(Dims(Op.ty)) >= 2)
          /\ \A place \in 1 .. Op.rank : Index(place) \in Int
          /\ Elements \in Seq(Ints)
      BY <1>1, PlainIndexIs, FusedIndexIs
    <3>2. Element \in DOMAIN Elements
      BY <1>3, <3>1, InRangeIs
    <3> QED  BY <3>1, <3>2
  <2>2. v \in Cells /\ v.ty = ElementTy
    BY <2>1 DEF Ints, Cells, ElementTy, Kinds
  <2>3. arrays' \in Seq(Seq(Ints)) /\ Len(arrays') >= Len(arrays)
    BY <1>1, <1>3, HereIs DEF MInv
  <2>4. PutAt(Op.dst, v, next) /\ Goes
    BY <1>1, <1>3
  <2> HIDE DEF v
  <2>5. IsValue(v, Len(arrays'))
    BY <2>2, ScalarIs DEF ElementTy, Arrays
  <2>6. CASE Op.k = "at"
    <3>1. Op = Spot(p) /\ next = Next1
      BY <2>6, PlainIs DEF Next1
    <3>2. Writes(Chunks[p], Spot(p)) = {<<Op.dst, v.ty>>} /\ Spot(p).k \notin Jumps \cup Stops
      BY <2>2, <2>6, <3>1 DEF Writes, Jumps, Stops
    <3> QED  BY <2>3, <2>4, <2>5, <3>1, <3>2, PutIs
  <2>7. CASE Op.k = "atone"
    <3>1. next = Current.at + 2
      BY <2>7
    <3>2. /\ Op.dst \in File(p) /\ next \in DOMAIN Known[p][Current.routine]
          /\ Gives(Chunks[p], Current.routine, There(p, Current.at), There(p, next), Op.dst, v.ty)
      BY <2>2, <2>7, <3>1, FusedIndexIs
    <3> HIDE DEF next
    <3> QED  BY <2>3, <2>4, <2>5, <3>2, ProceedIs
  <2> QED  BY <1>1, <2>6, <2>7
<1> QED  BY <1>2, <1>3

LEMMA StoringAtKeeps ==
    ASSUME NEW p \in DOMAIN Chunks, NEW fused \in BOOLEAN, MInv(p, fused), StoringAt
    PROVE  MInv(p, fused)'
<1> DEFINE h == Reg(Op.array).bits
           v == Reg(Op.value)
<1>1. /\ Op.k = "storeat" /\ (~InRange => Faults("R0015", Op.span))
      /\ InRange => arrays' = [arrays EXCEPT ![h][Element] = v] /\ Goto(Next1) /\ Goes
  BY DEF StoringAt, Running
<1>2. CASE ~InRange
  BY <1>1, <1>2, FaultIs
<1>3. CASE InRange
  <2>1. /\ Op = Spot(p) /\ h \in DOMAIN arrays /\ Elements \in Seq(Ints)
        /\ Element \in DOMAIN Elements
    BY <1>1, <1>3, PlainIndexIs, InRangeIs
  <2>2. v \in Ints
    <3>1. <<Op.value, ElementTy>> \in Claims(Chunks[p], Spot(p))
      BY <1>1, <2>1 DEF Claims
    <3> QED  BY <3>1, ElementIs
  <2>3. arrays \in Seq(Seq(Ints)) /\ Elements = arrays[h]
    BY DEF MInv, Elements
  <2>4. arrays' = [arrays EXCEPT ![h] = [arrays[h] EXCEPT ![Element] = v]]
    BY <1>1, <1>3
  <2> HIDE DEF h, v
  <2>5. [arrays[h] EXCEPT ![Element] = v] \in Seq(Ints)
    BY <2>1, <2>2, <2>3
  <2>6. arrays' \in Seq(Seq(Ints)) /\ Len(arrays') = Len(arrays)
    BY <2>1, <2>3, <2>4, <2>5
  <2>7. Writes(Chunks[p], Spot(p)) = {} /\ Next1 \in Ways(Chunks[p], Current.routine, Current.at)
    BY <1>1, <2>1 DEF Writes, Ways, Spot, Next1, Stops
  <2> QED  BY <1>1, <1>3, <2>6, <2>7, GoIs DEF Goes
<1> QED  BY <1>2, <1>3

-----------------------------------------------------------------------------
(* Calls. *)

\* A new call holds its arguments, and nothing else yet.
LEMMA SuppliedIs ==
    ASSUME NEW p \in DOMAIN Chunks, NEW fused \in BOOLEAN, MInv(p, fused), Op.k = "call",
           NEW new, new = Supplied(Frame(Op.func, chunk.funcs[Op.func].registers, Op.dst))
    PROVE  /\ Op = Spot(p) /\ Op.func \in Bodies(Chunks[p]) /\ Op.func # 0 /\ Op.dst \in File(p)
           /\ new \in FrameRecs(Chunks[p]) /\ new.routine = Op.func /\ new.dst = Op.dst /\ new.at = 1
           /\ 1 \in DOMAIN Known[p][Op.func]
           /\ new.file \in [Registers(Chunks[p], Op.func) -> Cells]
           /\ \A r \in Registers(Chunks[p], Op.func) :
                /\ IsValue(new.file[r], Len(arrays))
                /\ Known[p][Op.func][1][r] \in {new.file[r].ty, "clash"}
<1> DEFINE c == Chunks[p]
           f == Op.func
           params == c.funcs[f].params
           file == [r \in Registers(c, f) |-> IF r < Op.argc THEN Reg(Op.base + r) ELSE Unset]
<1>1. Op = Spot(p) /\ f \in DOMAIN c.funcs /\ Op.base \in Nat /\ ~Overruns(Op) /\ Op.dst \in File(p)
  BY PlainIs, HereIs DEF Formed, File
<1>2. Shown(c, Known[p]) /\ Len(c.funcs) \in Nat /\ DOMAIN c.funcs = 1 .. Len(c.funcs)
      /\ chunk.funcs[f].registers = c.funcs[f].registers
  <2>1. Shown(c, Known[p])
    BY HereIs
  <2>2. Len(c.funcs) \in Nat /\ DOMAIN c.funcs = 1 .. Len(c.funcs)
    BY <2>1, ListIs DEF Shown
  <2> QED  BY <1>1, <2>1, <2>2, ChunkIs
<1>3. f \in Bodies(c) /\ f # 0 /\ f \in 0 .. Len(c.funcs)
  BY <1>1, <1>2 DEF Bodies
<1>4. /\ RegistersOf(c, f) = c.funcs[f].registers /\ RegistersOf(c, f) \in Nat
      /\ IsList(params) /\ Demonstrates(c, f, Known[p][f])
  BY <1>2, <1>3 DEF Shown, RegistersOf
<1>5. Len(params) = Op.argc /\ Op.argc \in Nat
  <2>1. ~Malformed(c, Spot(p))
    BY HereIs, PlaceIs DEF Spot
  <2>2. Len(params) = Op.argc
    BY <1>1, <2>1 DEF Malformed
  <2>3. Len(params) \in Nat
    BY <1>4, ListIs
  <2> QED  BY <2>2, <2>3
<1>6. new = [routine |-> f, at |-> 1, file |-> file, dst |-> Op.dst]
  <2> DEFINE fresh == Frame(f, chunk.funcs[f].registers, Op.dst)
             empty == [r \in Registers(c, f) |-> Unset]
  <2>1. fresh = [routine |-> f, at |-> 1, file |-> empty, dst |-> Op.dst]
    BY <1>2, <1>4 DEF Frame, Registers
  <2>2. [r \in DOMAIN empty |-> IF r < Op.argc THEN Reg(Op.base + r) ELSE empty[r]] = file
    OBVIOUS
  <2>3. fresh.file = empty
    BY <2>1
  <2>4. new = [fresh EXCEPT !.file = [r \in DOMAIN fresh.file |->
                  IF r < Op.argc THEN Reg(Op.base + r) ELSE fresh.file[r]]]
    BY DEF Supplied
  <2> HIDE DEF fresh, empty, file
  <2>5. new = [fresh EXCEPT !.file = file]
    BY <2>2, <2>3, <2>4
  <2> QED  BY <2>1, <2>5
<1>7. ASSUME NEW r \in Registers(c, f)
      PROVE  IsValue(file[r], Len(arrays)) /\ Entry(c, f)[r] = file[r].ty
  <2>1. r \in 0 .. RegistersOf(c, f) - 1 /\ r \in Nat
    BY <1>4 DEF Registers
  <2>2. CASE r < Op.argc
    <3>1. r + 1 \in 1 .. Op.argc /\ Op.base + ((r + 1) - 1) = Op.base + r
      BY <1>1, <1>5, <2>1, <2>2
    <3>2. <<Nth(Op.base, (r + 1) - 1), params[r + 1]>> \in Claims(c, Spot(p))
      BY <1>1, <3>1 DEF Claims
    <3>3. Nth(Op.base, (r + 1) - 1) = Op.base + r
      BY <1>1, <1>5, <3>1, ArgumentIs
    <3>4. IsValue(Reg(Op.base + r), Len(arrays)) /\ Reg(Op.base + r).ty = params[r + 1]
      BY <3>2, <3>3, ReadIs
    <3>5. Entry(c, f)[r] = params[r + 1]
      BY <1>3, <1>5, <2>1, <2>2 DEF Entry
    <3> QED  BY <2>2, <3>4, <3>5
  <2>3. CASE ~(r < Op.argc)
    <3>1. file[r] = Unset
      BY <2>3
    <3>2. Entry(c, f)[r] = "unset"
      BY <1>5, <2>1, <2>3 DEF Entry
    <3> QED  BY <3>1, <3>2 DEF Unset, IsValue, Cells, Kinds, Arrays
  <2> QED  BY <2>2, <2>3
<1>8. 1 \in DOMAIN Known[p][f] /\ Weaker(Entry(c, f), Known[p][f][1])
  BY <1>4 DEF Demonstrates
<1>9. \A r \in Registers(c, f) : Known[p][f][1][r] \in {file[r].ty, "clash"}
  <2>1. DOMAIN Entry(c, f) = Registers(c, f)
    BY DEF Entry, Registers
  <2> QED  BY <1>7, <1>8, <2>1 DEF Weaker
<1>10. file \in [Registers(c, f) -> Cells]
  BY <1>7 DEF IsValue
<1> HIDE DEF file
<1>11. new.routine = f /\ new.at = 1 /\ new.file = file /\ new.dst = Op.dst
  BY <1>6
<1>12. new \in FrameRecs(c)
  <2>1. Op.dst \in Nat
    BY <1>1, HereIs, PlaceIs DEF File, Registers
  <2> QED  BY <1>3, <1>6, <1>10, <2>1 DEF FrameRecs
<1> QED  BY <1>1, <1>3, <1>7, <1>8, <1>9, <1>10, <1>11, <1>12

LEMMA CallKeeps ==
    ASSUME NEW p \in DOMAIN Chunks, NEW fused \in BOOLEAN, MInv(p, fused), Call
    PROVE  MInv(p, fused)'
<1> DEFINE c == Chunks[p]
           b == Current.routine
           D == Depth
           n == Len(arrays)
           new == Supplied(Frame(Op.func, chunk.funcs[Op.func].registers, Op.dst))
           waiting == [Current EXCEPT !.at = Next1]
           grs == Append([frames EXCEPT ![D] = waiting], new)
<1>1. Op.k = "call" /\ Goes /\ arrays' = arrays
      /\ frames' = Append([frames EXCEPT ![Depth].at = Next1], new)
  BY DEF Call, Running, Steps
<1>2. /\ Op = Spot(p) /\ Op.func \in Bodies(c) /\ Op.func # 0 /\ Op.dst \in File(p)
      /\ new \in FrameRecs(c) /\ new.routine = Op.func /\ new.dst = Op.dst /\ new.at = 1
      /\ 1 \in DOMAIN Known[p][Op.func]
      /\ new.file \in [Registers(c, Op.func) -> Cells]
      /\ \A r \in Registers(c, Op.func) :
           /\ IsValue(new.file[r], n) /\ Known[p][Op.func][1][r] \in {new.file[r].ty, "clash"}
  BY <1>1, SuppliedIs
<1>3. /\ frames \in Seq(FrameRecs(c)) /\ D \in Nat /\ D >= 1 /\ Current \in FrameRecs(c)
      /\ D = Len(frames) /\ Current = frames[D] /\ n \in Nat
      /\ \A i \in 1 .. D : FrameInv(c, Known[p], frames, n, i)
      /\ Place(c, Known[p], b, Current.at)
      /\ Current.file \in [File(p) -> Cells] /\ (b = 0) = (D = 1)
      /\ \A r \in File(p) : IsValue(Reg(r), n) /\ There(p, Current.at)[r] \in {Reg(r).ty, "clash"}
  BY HereIs DEF MInv, FramesInv, Depth, Current
<1>4. Next1 \in DOMAIN Known[p][b] /\ Next1 \in Nat /\ Next1 \in Ways(c, b, Current.at)
  <2>1. Next1 \in Ways(c, b, Current.at)
    BY <1>1, <1>2 DEF Ways, Spot, Next1, Stops
  <2> QED  BY <1>3, <2>1, HereIs, PlaceIs DEF Next1
<1>5. /\ waiting \in FrameRecs(c) /\ waiting.at = Next1 /\ waiting.routine = b
      /\ waiting.file = Current.file /\ waiting.dst = Current.dst
  BY <1>3, <1>4 DEF FrameRecs
<1>6. frames' = grs
  BY <1>1, <1>3
<1> HIDE DEF new, waiting
<1>7. /\ grs \in Seq(FrameRecs(c)) /\ Len(grs) = D + 1 /\ grs[D + 1] = new /\ grs[D] = waiting
      /\ \A i \in 1 .. D : i # D => grs[i] = frames[i]
  BY <1>2, <1>3, <1>5
<1>8. \A i \in 1 .. D : grs[i].routine = frames[i].routine /\ grs[i].dst = frames[i].dst
  BY <1>3, <1>5, <1>7
<1> HIDE DEF grs, D, n
<1>9. ASSUME NEW i \in 1 .. D, i # D  PROVE FrameInv(c, Known[p], grs, n, i)
  <2>1. FrameInv(c, Known[p], frames, n, i) /\ grs[i] = frames[i] /\ Len(grs) \in Nat
    BY <1>3, <1>7, <1>9
  <2>2. i \in Nat /\ i < Len(frames) /\ i < Len(grs) /\ i + 1 \in 1 .. D /\ (i > 1 => i - 1 \in 1 .. D)
    BY <1>3, <1>7, <1>9
  <2>3. /\ grs[i + 1].routine = frames[i + 1].routine /\ grs[i + 1].dst = frames[i + 1].dst
        /\ i > 1 => grs[i - 1].routine = frames[i - 1].routine
    BY <1>8, <2>2
  <2> QED  BY <1>3, <2>1, <2>2, <2>3, LowerStays
<1>10. FrameInv(c, Known[p], grs, n, D)
  <2> DEFINE returns == c.funcs[Op.func].returns
  <2>1. FrameInv(c, Known[p], frames, n, D)
    BY <1>3
  <2>2. D > 1 => D - 1 \in 1 .. D /\ grs[D - 1].routine = frames[D - 1].routine
    BY <1>3, <1>8
  <2>3. /\ b \in Bodies(c) /\ (b = 0) = (D = 1)
        /\ D > 1 => waiting.dst \in Registers(c, grs[D - 1].routine)
    BY <1>3, <1>5, <2>1, <2>2 DEF FrameInv
  <2>4. \A r : Holding(c, grs, D, r) =
            IF r = Op.dst /\ returns # "nothing" THEN returns ELSE Current.file[r].ty
    BY <1>2, <1>3, <1>5, <1>7 DEF Holding
  <2>5. ASSUME NEW r \in Registers(c, b)
        PROVE  IsValue(Current.file[r], n) /\ Known[p][b][Next1][r] \in {Holding(c, grs, D, r), "clash"}
    <3>1. IsValue(Current.file[r], n) /\ Known[p][b][Current.at][r] \in {Current.file[r].ty, "clash"}
      BY <1>3 DEF File, There, Reg
    <3>2. CASE returns # "nothing"
      <4>1. Writes(c, Spot(p)) = {<<Op.dst, returns>>}
        BY <1>1, <1>2, <3>2 DEF Writes
      <4>2. Gives(c, b, Known[p][b][Current.at], Known[p][b][Next1], Op.dst, returns)
        BY <1>3, <1>4, <4>1, WriteGives DEF Spot
      <4> QED  BY <2>4, <3>1, <3>2, <4>2 DEF Gives
    <3>3. CASE returns = "nothing"
      <4>1. Writes(c, Spot(p)) = {}
        BY <1>1, <1>2, <3>3 DEF Writes
      <4>2. Gives(c, b, Known[p][b][Current.at], Known[p][b][Next1], r, Known[p][b][Current.at][r])
        BY <1>3, <1>4, <4>1, NothingGives DEF Spot
      <4> QED  BY <2>4, <3>1, <3>3, <4>2 DEF Gives
    <3> QED  BY <3>2, <3>3
  <2> QED  BY <1>3, <1>4, <1>5, <1>7, <2>3, <2>5 DEF FrameInv, File
<1>11. FrameInv(c, Known[p], grs, n, D + 1)
  <2>1. D + 1 - 1 = D /\ D + 1 > 1 /\ D + 1 # 1
    BY <1>3
  <2>2. \A r : Holding(c, grs, D + 1, r) = new.file[r].ty
    BY <1>3, <1>7 DEF Holding
  <2>3. new.dst \in Registers(c, grs[D].routine)
    BY <1>2, <1>5, <1>7 DEF File
  <2>4. (new.routine = 0) = (D + 1 = 1)
    BY <1>2, <2>1
  <2> DEFINE i == D + 1
  <2>5. grs[i] = new
    BY <1>7
  <2>6. (new.routine = 0) = (i = 1)
    BY <2>4
  <2>7. i - 1 = D
    BY <1>3
  <2>8. \A r : Holding(c, grs, i, r) = new.file[r].ty
    BY <2>2
  <2> HIDE DEF i
  <2>9. FrameInv(c, Known[p], grs, n, i)
    BY <1>2, <2>3, <2>5, <2>6, <2>7, <2>8 DEF FrameInv
  <2> QED  BY <2>9 DEF i
<1>12. \A i \in 1 .. D + 1 : FrameInv(c, Known[p], grs, n, i)
  <2>1. \A i \in 1 .. D + 1 : i = D + 1 \/ i = D \/ (i \in 1 .. D /\ i # D)
    BY <1>3
  <2> QED  BY <1>9, <1>10, <1>11, <2>1
<1>13. FramesInv(c, Known[p], frames', Len(arrays'))
  <2>1. Len(grs) >= 1 /\ \A i \in 1 .. Len(grs) : FrameInv(c, Known[p], grs, n, i)
    BY <1>3, <1>7, <1>12
  <2>2. FramesInv(c, Known[p], grs, n)
    BY <1>7, <2>1 DEF FramesInv
  <2> QED  BY <1>1, <1>6, <2>2 DEF n
<1> QED  BY <1>1, <1>13 DEF MInv, EndInv, Goes

\* A call is over: the calls it was made from, the innermost of which goes on.
LEMMA CallersIs ==
    ASSUME NEW p \in DOMAIN Chunks, NEW fused \in BOOLEAN, MInv(p, fused),
           Op.k \in {"return", "returnnothing"}
    PROVE  /\ Op = Spot(p) /\ Depth \in Nat /\ Depth >= 2
           /\ Callers \in Seq(FrameRecs(Chunks[p])) /\ Len(Callers) = Depth - 1
           /\ \A i \in 1 .. Depth - 1 : Callers[i] = frames[i]
           /\ \A i \in 1 .. Depth : FrameInv(Chunks[p], Known[p], frames, Len(arrays), i)
           /\ Depth = Len(frames) /\ Current = frames[Depth]
<1>1. Op = Spot(p) /\ Current.routine # 0
  BY PlainIs, HereIs DEF Formed
<1>2. /\ Depth \in Nat /\ Depth >= 1 /\ (Current.routine = 0) = (Depth = 1)
      /\ frames \in Seq(FrameRecs(Chunks[p])) /\ Depth = Len(frames)
      /\ \A i \in 1 .. Depth : FrameInv(Chunks[p], Known[p], frames, Len(arrays), i)
  BY HereIs DEF MInv, FramesInv, Depth
<1>3. Depth >= 2
  BY <1>1, <1>2
<1>4. /\ Callers \in Seq(FrameRecs(Chunks[p])) /\ Len(Callers) = Depth - 1
      /\ \A i \in 1 .. Depth - 1 : Callers[i] = frames[i]
  BY <1>2, <1>3 DEF Callers
<1> QED  BY <1>1, <1>2, <1>3, <1>4 DEF Current

\* It goes on with the answer where it waited for one.
LEMMA GoesOn ==
    ASSUME NEW p \in DOMAIN Chunks, NEW fused \in BOOLEAN, MInv(p, fused),
           Op.k \in {"return", "returnnothing"},
           NEW f \in FrameRecs(Chunks[p]), f.routine = frames[Depth - 1].routine,
           f.at = frames[Depth - 1].at, f.dst = frames[Depth - 1].dst,
           f.file \in [Registers(Chunks[p], f.routine) -> Cells],
           \A r \in Registers(Chunks[p], f.routine) :
              IsValue(f.file[r], Len(arrays)) /\ f.file[r].ty = Holding(Chunks[p], frames, Depth - 1, r)
    PROVE  FramesInv(Chunks[p], Known[p], [Callers EXCEPT ![Depth - 1] = f], Len(arrays))
<1> DEFINE c == Chunks[p]
           E == Depth - 1
           n == Len(arrays)
           grs == [Callers EXCEPT ![E] = f]
<1>1. /\ E \in Nat /\ E >= 1 /\ E + 1 = Len(frames) /\ n \in Nat
      /\ Callers \in Seq(FrameRecs(c)) /\ Len(Callers) = E
      /\ \A i \in 1 .. E : Callers[i] = frames[i]
      /\ \A i \in 1 .. E + 1 : FrameInv(c, Known[p], frames, n, i)
  BY CallersIs, HereIs
<1>2. /\ grs \in Seq(FrameRecs(c)) /\ Len(grs) = E /\ grs[E] = f
      /\ \A i \in 1 .. E : i # E => grs[i] = frames[i]
  BY <1>1
<1>3. f.routine = frames[E].routine /\ f.at = frames[E].at /\ f.dst = frames[E].dst
      /\ \A r \in Registers(c, f.routine) : IsValue(f.file[r], n) /\ f.file[r].ty = Holding(c, frames, E, r)
  OBVIOUS
<1> HIDE DEF grs, E, n
<1>4. \A i \in 1 .. E : grs[i].routine = frames[i].routine /\ grs[i].dst = frames[i].dst
  BY <1>2, <1>3
<1>5. ASSUME NEW i \in 1 .. E, i # E  PROVE FrameInv(c, Known[p], grs, n, i)
  <2>1. i \in Nat /\ i < Len(frames) /\ i < Len(grs) /\ i + 1 \in 1 .. E /\ (i > 1 => i - 1 \in 1 .. E)
        /\ i \in 1 .. E + 1
    BY <1>1, <1>2, <1>5
  <2>2. FrameInv(c, Known[p], frames, n, i) /\ grs[i] = frames[i] /\ Len(grs) \in Nat /\ Len(frames) \in Nat
    BY <1>1, <1>2, <1>5, <2>1
  <2>3. /\ grs[i + 1].routine = frames[i + 1].routine /\ grs[i + 1].dst = frames[i + 1].dst
        /\ i > 1 => grs[i - 1].routine = frames[i - 1].routine
    BY <1>4, <2>1
  <2> QED  BY <1>1, <2>1, <2>2, <2>3, LowerStays
<1>6. FrameInv(c, Known[p], grs, n, E)
  <2>1. FrameInv(c, Known[p], frames, n, E)
    <3>1. E \in 1 .. E + 1
      BY <1>1
    <3> QED  BY <1>1, <3>1
  <2>2. \A r : Holding(c, grs, E, r) = f.file[r].ty
    BY <1>1, <1>2 DEF Holding
  <2>3. E > 1 => E - 1 \in 1 .. E /\ grs[E - 1].routine = frames[E - 1].routine
    BY <1>1, <1>4
  <2>4. \A r \in Registers(c, f.routine) : Known[p][f.routine][f.at][r] \in {f.file[r].ty, "clash"}
    BY <1>3, <2>1 DEF FrameInv
  <2>5. f.routine \in Bodies(c) /\ (f.routine = 0) = (E = 1) /\ f.at \in DOMAIN Known[p][f.routine]
        /\ (E > 1 => f.dst \in Registers(c, grs[E - 1].routine))
    BY <1>3, <2>1, <2>3 DEF FrameInv
  <2>6. f.file \in [Registers(c, f.routine) -> Cells]
    BY <1>2, <1>3, <2>1 DEF FrameInv
  <2>7. grs[E] = f /\ \A r \in Registers(c, f.routine) :
          IsValue(f.file[r], n) /\ Known[p][f.routine][f.at][r] \in {Holding(c, grs, E, r), "clash"}
    <3>1. \A r \in Registers(c, f.routine) : IsValue(f.file[r], n)
      BY <1>3
    <3>2. \A r \in Registers(c, f.routine) : Known[p][f.routine][f.at][r] \in {Holding(c, grs, E, r), "clash"}
      BY <2>2, <2>4
    <3> QED  BY <1>2, <3>1, <3>2
  <2> QED  BY <2>5, <2>6, <2>7 DEF FrameInv
<1>7. FramesInv(c, Known[p], grs, n)
  BY <1>1, <1>2, <1>5, <1>6 DEF FramesInv
<1> QED  BY <1>7 DEF grs, E, n

LEMMA ReturnKeeps ==
    ASSUME NEW p \in DOMAIN Chunks, NEW fused \in BOOLEAN, MInv(p, fused), Return
    PROVE  MInv(p, fused)'
<1> DEFINE c == Chunks[p]
           E == Depth - 1
           n == Len(arrays)
           v == Reg(Op.src)
           d == Current.dst
           caller == frames[E]
           file == [caller.file EXCEPT ![d] = v]
           f == [caller EXCEPT !.file = file]
<1>1. Op.k = "return" /\ Goes /\ arrays' = arrays
      /\ frames' = [Callers EXCEPT ![E].file[d] = v]
  BY DEF Return, Running, Steps
<1>2. /\ Op = Spot(p) /\ E \in Nat /\ E >= 1 /\ E \in 1 .. Depth - 1 /\ E \in 1 .. Depth
      /\ Callers \in Seq(FrameRecs(c)) /\ Len(Callers) = E /\ Callers[E] = caller
      /\ E < Len(frames) /\ Current = frames[E + 1] /\ E + 1 > 1 /\ E + 1 - 1 = E
      /\ FrameInv(c, Known[p], frames, n, E) /\ FrameInv(c, Known[p], frames, n, E + 1)
  BY <1>1, CallersIs
<1>3. IsValue(v, n) /\ v.ty = c.funcs[Current.routine].returns /\ v.ty \in Kinds
  <2>1. <<Op.src, Op.ty>> \in Claims(c, Spot(p))
    BY <1>1, <1>2 DEF Claims
  <2>2. IsValue(v, n) /\ v.ty = Op.ty /\ Op.ty \in Kinds
    BY <2>1, ReadIs
  <2>3. Op.ty = c.funcs[Current.routine].returns
    BY <1>1, <1>2, HereIs DEF Formed
  <2> QED  BY <2>2, <2>3
<1>4. caller \in FrameRecs(c)
  BY <1>2
<1>5. /\ caller.file \in [Registers(c, caller.routine) -> Cells] /\ d \in Registers(c, caller.routine)
      /\ \A r \in Registers(c, caller.routine) : IsValue(caller.file[r], n)
      /\ caller.routine \in Bodies(c)
  <2>1. FrameInv(c, Known[p], frames, n, E) /\ FrameInv(c, Known[p], frames, n, E + 1)
    BY <1>2
  <2>2. d = frames[E + 1].dst
    BY <1>2
  <2>3. d \in Registers(c, caller.routine)
    <3> DEFINE i == E + 1
    <3>1. FrameInv(c, Known[p], frames, n, i)
      BY <2>1
    <3>2. i > 1 /\ frames[i - 1] = caller
      <4>1. i > 1 /\ i - 1 = E
        BY <1>2
      <4> HIDE DEF i, E
      <4> QED  BY <4>1
    <3>3. d = frames[i].dst
      BY <2>2
    <3> HIDE DEF i, c, n, d, caller
    <3> QED  BY <3>1, <3>2, <3>3 DEF FrameInv
  <2> QED  BY <2>1, <2>3 DEF FrameInv
<1>6. v \in Cells /\ v.ty # "nothing"
  BY <1>3 DEF IsValue, Kinds
<1>7. file \in [Registers(c, caller.routine) -> Cells]
      /\ \A r \in Registers(c, caller.routine) : file[r] = IF r = d THEN v ELSE caller.file[r]
  BY <1>5, <1>6
<1>8. frames' = [Callers EXCEPT ![E] = f]
  <2>1. [caller EXCEPT !.file[d] = v] = f
    BY <1>4 DEF FrameRecs
  <2>2. frames' = [Callers EXCEPT ![E] = [caller EXCEPT !.file[d] = v]]
    BY <1>1, <1>2
  <2> QED  BY <2>1, <2>2
<1> HIDE DEF file
<1>9. f.routine = caller.routine /\ f.at = caller.at /\ f.dst = caller.dst /\ f.file = file
      /\ f \in FrameRecs(c)
  BY <1>4, <1>5, <1>7 DEF FrameRecs
<1>10. \A r : Holding(c, frames, E, r) = IF r = d THEN v.ty ELSE caller.file[r].ty
  BY <1>2, <1>3, <1>6 DEF Holding
<1>11. \A r \in Registers(c, caller.routine) :
         IsValue(file[r], n) /\ file[r].ty = Holding(c, frames, E, r)
  BY <1>3, <1>5, <1>7, <1>10
<1> HIDE DEF f
<1>12. FramesInv(c, Known[p], [Callers EXCEPT ![E] = f], n)
  BY <1>1, <1>7, <1>9, <1>11, GoesOn
<1> QED  BY <1>1, <1>8, <1>12 DEF MInv, EndInv, Goes

LEMMA ReturnNothingKeeps ==
    ASSUME NEW p \in DOMAIN Chunks, NEW fused \in BOOLEAN, MInv(p, fused), ReturnNothing
    PROVE  MInv(p, fused)'
<1> DEFINE c == Chunks[p]
           E == Depth - 1
           n == Len(arrays)
           caller == frames[E]
<1>1. Op.k = "returnnothing" /\ Goes /\ arrays' = arrays /\ frames' = Callers
  BY DEF ReturnNothing, Running, Steps
<1>2. /\ Op = Spot(p) /\ E \in Nat /\ E >= 1 /\ E \in 1 .. Depth - 1 /\ E \in 1 .. Depth
      /\ Callers \in Seq(FrameRecs(c)) /\ Len(Callers) = E /\ Callers[E] = caller
      /\ Current = frames[E + 1]
      /\ FrameInv(c, Known[p], frames, n, E)
  BY <1>1, CallersIs
<1>3. c.funcs[Current.routine].returns = "nothing"
  BY <1>1, <1>2, HereIs DEF Formed
<1>4. /\ caller \in FrameRecs(c) /\ caller.file \in [Registers(c, caller.routine) -> Cells]
      /\ \A r \in Registers(c, caller.routine) : IsValue(caller.file[r], n)
  BY <1>2 DEF FrameInv
<1>5. \A r : Holding(c, frames, E, r) = caller.file[r].ty
  BY <1>2, <1>3 DEF Holding
<1>6. FramesInv(c, Known[p], [Callers EXCEPT ![E] = caller], n)
  BY <1>1, <1>4, <1>5, GoesOn
<1>7. [Callers EXCEPT ![E] = caller] = Callers
  BY <1>2
<1> QED  BY <1>1, <1>6, <1>7 DEF MInv, EndInv, Goes

-----------------------------------------------------------------------------
(* The theorems. *)

\* The machine starts at the first place of the top level, with nothing
\* written.
LEMMA InitMachine == Init => MachineInv
<1> SUFFICES ASSUME Init  PROVE MachineInv
  OBVIOUS
<1>1. PICK p \in DOMAIN Chunks, fused \in BOOLEAN : chunk = Widened(Chunks[p], fused)
  BY DEF Init
<1> DEFINE c == Chunks[p]
           known == Known[p]
           file == [r \in Registers(c, 0) |-> Unset]
           frame == [routine |-> 0, at |-> 1, file |-> file, dst |-> 0]
<1>2. Shown(c, known)
  BY ChunksAssumption
<1>3. chunk.registers = RegistersOf(c, 0) /\ Len(c.funcs) \in Nat
  BY <1>1, <1>2, WidenedIs DEF RegistersOf
<1>4. 0 \in Bodies(c) /\ 0 \in 0 .. Len(c.funcs)
  BY <1>3 DEF Bodies
<1>5. Demonstrates(c, 0, known[0])
  BY <1>2, <1>4 DEF Shown
<1>6. frames = <<frame>>
  <2>1. Frame(0, chunk.registers, 0) = frame
    BY <1>3 DEF Frame, Registers
  <2> QED  BY <2>1 DEF Init
<1>7. /\ file \in [Registers(c, 0) -> Cells]
      /\ \A r \in Registers(c, 0) : file[r] = Unset /\ IsValue(file[r], 0) /\ Entry(c, 0)[r] = "unset"
  BY DEF Unset, IsValue, Cells, Kinds, Arrays, Entry, Registers
<1>8. 1 \in DOMAIN known[0] /\ \A r \in Registers(c, 0) : known[0][1][r] \in {"unset", "clash"}
  <2>1. 1 \in DOMAIN known[0] /\ Weaker(Entry(c, 0), known[0][1])
    BY <1>5 DEF Demonstrates
  <2>2. DOMAIN Entry(c, 0) = Registers(c, 0)
    BY DEF Entry, Registers
  <2> QED  BY <1>7, <2>1, <2>2 DEF Weaker
<1> HIDE DEF file
<1>9. frame \in FrameRecs(c)
  BY <1>4, <1>7 DEF FrameRecs
<1>10. frame.routine = 0 /\ frame.at = 1 /\ frame.file = file
  OBVIOUS
<1> HIDE DEF frame
<1>11. frames \in Seq(FrameRecs(c)) /\ Len(frames) = 1 /\ frames[1] = frame
  BY <1>6, <1>9
<1>12. \A r : Holding(c, frames, 1, r) = file[r].ty
  BY <1>10, <1>11 DEF Holding
<1>13. \A r \in Registers(c, 0) : known[0][1][r] \in {Holding(c, frames, 1, r), "clash"}
  BY <1>7, <1>8, <1>12 DEF Unset
<1>14. FrameInv(c, known, frames, 0, 1)
  BY <1>4, <1>7, <1>8, <1>10, <1>11, <1>13 DEF FrameInv
<1>15. FramesInv(c, known, frames, 0)
  BY <1>11, <1>14 DEF FramesInv
<1>16. arrays \in Seq(Seq(Ints)) /\ Len(arrays) = 0 /\ EndInv
  BY DEF Init, EndInv
<1>17. MInv(p, fused)
  BY <1>1, <1>15, <1>16 DEF MInv
<1> QED  BY <1>17 DEF MachineInv

\* Every step keeps it.
LEMMA NextMachine == MachineInv /\ [Next]_vars => MachineInv'
<1> SUFFICES ASSUME MachineInv, [Next]_vars  PROVE MachineInv'
  OBVIOUS
<1>1. PICK p \in DOMAIN Chunks, fused \in BOOLEAN : MInv(p, fused)
  BY DEF MachineInv
<1>2. MInv(p, fused)'
  <2>1. CASE Const  BY <1>1, <2>1, ConstKeeps
  <2>2. CASE Move  BY <1>1, <2>2, MoveKeeps
  <2>3. CASE Binary  BY <1>1, <2>3, BinaryKeeps
  <2>4. CASE Neg  BY <1>1, <2>4, NegKeeps
  <2>5. CASE Not  BY <1>1, <2>5, NotKeeps
  <2>6. CASE Comparing  BY <1>1, <2>6, ComparingKeeps
  <2>7. CASE Jumping  BY <1>1, <2>7, JumpingKeeps
  <2>8. CASE TailLeaves  BY <1>1, <2>8, TailLeavesKeeps
  <2>9. CASE TailRound  BY <1>1, <2>9, TailRoundKeeps
  <2>10. CASE Printing  BY <1>1, <2>10, PrintingKeeps
  <2>11. CASE NewArray  BY <1>1, <2>11, NewArrayKeeps
  <2>12. CASE Filled  BY <1>1, <2>12, FilledKeeps
  <2>13. CASE Counting  BY <1>1, <2>13, CountingKeeps
  <2>14. CASE At  BY <1>1, <2>14, AtKeeps
  <2>15. CASE StoringAt  BY <1>1, <2>15, StoringAtKeeps
  <2>16. CASE Call  BY <1>1, <2>16, CallKeeps
  <2>17. CASE CallTooDeep
    <3>1. Faults("R0011", Op.span)
      BY <2>17 DEF CallTooDeep
    <3> QED  BY <1>1, <3>1, FaultIs
  <2>18. CASE Return  BY <1>1, <2>18, ReturnKeeps
  <2>19. CASE ReturnNothing  BY <1>1, <2>19, ReturnNothingKeeps
  <2>20. CASE Halt
    <3>1. ended = "no" /\ ended' = "yes" /\ UNCHANGED <<chunk, frames, arrays, fault>>
      BY <2>20 DEF Halt, Running
    <3> QED  BY <1>1, <3>1 DEF MInv, EndInv
  <2>21. CASE UNCHANGED vars
    BY <1>1, <2>21 DEF vars, MInv, EndInv
  <2> QED
    BY <2>1, <2>2, <2>3, <2>4, <2>5, <2>6, <2>7, <2>8, <2>9, <2>10, <2>11, <2>12, <2>13, <2>14,
       <2>15, <2>16, <2>17, <2>18, <2>19, <2>20, <2>21 DEF Next
<1> QED  BY <1>2 DEF MachineInv

\* At every moment of a run of a chunk whose types are shown, the innermost
\* call is at a place that is known of and its registers hold what is known
\* there, and those of every other will when the answer it waits for is in
\* (vm/typed.rs:18, `engine`).
THEOREM MachineSafe == Spec => []MachineInv
<1>1. Init => MachineInv
  BY InitMachine
<1>2. MachineInv /\ [Next]_vars => MachineInv'
  BY NextMachine
<1> QED  BY <1>1, <1>2, PTL DEF Spec

\* What holds at every call holds of its place, its answer and its values.
LEMMA InvTypes == MachineInv => MTypeOK
<1> SUFFICES ASSUME MachineInv  PROVE MTypeOK
  OBVIOUS
<1>1. PICK p \in DOMAIN Chunks, fused \in BOOLEAN : MInv(p, fused)
  BY DEF MachineInv
<1> DEFINE c == Chunks[p]
<1>2. /\ frames \in Seq(FrameRecs(c))
      /\ \A i \in 1 .. Len(frames) : FrameInv(c, Known[p], frames, Len(arrays), i)
      /\ EndInv
  BY <1>1 DEF MInv, FramesInv
<1>3. /\ Shown(c, Known[p]) /\ Len(chunk.funcs) = Len(c.funcs)
      /\ \A b \in Bodies(c) : CodeOf(chunk, b) = Widen(CodeOf(c, b), fused)
  BY <1>1, ChunkIs, HereIs
<1>4. ASSUME NEW i \in DOMAIN frames
      PROVE  /\ frames[i].routine \in 0 .. Len(chunk.funcs)
             /\ frames[i].at \in DOMAIN CodeOf(chunk, frames[i].routine)
             /\ i > 1 => frames[i].dst \in DOMAIN frames[i - 1].file
             /\ \A r \in DOMAIN frames[i].file :
                  frames[i].file[r].ty \in {"unset", "int", "nat", "float", "bool", "ints", "grid"}
  <2>1. i \in 1 .. Len(frames) /\ FrameInv(c, Known[p], frames, Len(arrays), i)
    BY <1>2
  <2>2. frames[i].routine \in Bodies(c) /\ frames[i].at \in DOMAIN Known[p][frames[i].routine]
    BY <2>1 DEF FrameInv
  <2>3. Place(c, Known[p], frames[i].routine, frames[i].at)
    BY <1>3, <2>2 DEF Place
  <2>4. frames[i].at \in DOMAIN CodeOf(c, frames[i].routine)
    BY <2>3, PlaceIs
  <2>5. frames[i].at \in DOMAIN CodeOf(chunk, frames[i].routine)
    BY <1>3, <2>2, <2>4 DEF Widen
  <2>6. ASSUME i > 1  PROVE frames[i].dst \in DOMAIN frames[i - 1].file
    <3>1. i - 1 \in 1 .. Len(frames)
      BY <2>1, <2>6
    <3>2. FrameInv(c, Known[p], frames, Len(arrays), i - 1)
      BY <1>2, <3>1
    <3>3. frames[i - 1].file \in [Registers(c, frames[i - 1].routine) -> Cells]
      BY <3>2 DEF FrameInv
    <3>4. frames[i].dst \in Registers(c, frames[i - 1].routine)
      BY <2>1, <2>6 DEF FrameInv
    <3> QED  BY <3>3, <3>4
  <2>7. frames[i].file \in [Registers(c, frames[i].routine) -> Cells]
    BY <2>1 DEF FrameInv
  <2> QED  BY <1>3, <2>2, <2>5, <2>6, <2>7 DEF Bodies, Cells, Kinds
<1>5. ended \in {"no", "yes", "fault"} /\ (ended = "fault") = (fault # NoFault)
  BY <1>2 DEF EndInv, NoFault
<1> QED  BY <1>4, <1>5 DEF MTypeOK

\* Type safety: run on a chunk whose types are shown, the machine stays in the
\* code of its routines, never takes a value for what it is not, and has a
\* register of the caller for every answer (vm/lib.rs, `engine`).
THEOREM MachineTyped == Spec => []MTypeOK
<1>1. MachineInv => MTypeOK
  BY InvTypes
<1> QED  BY <1>1, MachineSafe, PTL

\* What an instruction reads is what it claims a type for.
LEMMA InvWritten == MachineInv => RegistersWritten
<1> SUFFICES ASSUME MachineInv, NEW r \in Reads
             PROVE  r \in DOMAIN Current.file /\ Reg(r) # Unset
  BY DEF RegistersWritten
<1>1. PICK p \in DOMAIN Chunks, fused \in BOOLEAN : MInv(p, fused)
  BY DEF MachineInv
<1>2. DOMAIN Current.file = File(p)
  BY <1>1, HereIs
<1>3. ASSUME NEW t, <<r, t>> \in Claims(Chunks[p], Spot(p))
      PROVE  r \in DOMAIN Current.file /\ Reg(r) # Unset
  BY <1>1, <1>2, <1>3, ReadIs DEF Unset
<1>4. CASE Op.k = "tail"
  <2>1. r \in {Op.counter, Op.limit, Op.step}
    BY <1>4 DEF Reads
  <2>2. r \in File(p) /\ Reg(r).ty \in Numeric
    BY <1>1, <1>4, <2>1, TailHereIs
  <2> QED  BY <1>2, <2>2 DEF Unset, Numeric
<1>5. CASE Op.k = "atone"
  <2>1. Op.rank = 1 /\ Op.array \in File(p) /\ Op.at \in File(p) /\ Op.at \in Int
        /\ Reg(Op.array) # Unset /\ Reg(Op.at) # Unset
    BY <1>1, <1>5, FusedIndexIs DEF File, Registers
  <2>2. r = Op.array \/ r \in Run(Op.at, 1)
    BY <1>5, <2>1 DEF Reads
  <2>3. Run(Op.at, 1) = {Nth(Op.at, 0)}
    BY DEF Run
  <2>4. Nth(Op.at, 0) = Op.at
    BY <1>1, <2>1, HereIs, RegisterIs DEF File
  <2>5. r \in {Op.array, Op.at}
    BY <2>2, <2>3, <2>4
  <2> QED  BY <1>2, <2>1, <2>5
<1>6. CASE Op.k \notin {"tail", "atone"}
  <2>1. Op = Spot(p)
    BY <1>1, <1>6, PlainIs
  <2>2. CASE Op.k = "count"
    <3>1. Op.src \in File(p) /\ Reg(Op.src).ty \in Arrays
      BY <1>1, <2>1, <2>2, CountedIs
    <3>2. r = Op.src
      BY <2>2 DEF Reads
    <3> QED  BY <1>2, <3>1, <3>2 DEF Unset, Arrays
  <2>3. CASE Op.k \in {"move", "neg", "not", "print", "return"}
    <3>1. r = Op.src
      BY <2>3 DEF Reads
    <3>2. <<r, Op.ty>> \in Claims(Chunks[p], Spot(p)) \/ <<r, "bool">> \in Claims(Chunks[p], Spot(p))
      BY <2>1, <2>3, <3>1 DEF Claims
    <3> QED  BY <1>3, <3>2
  <2>4. CASE Op.k \in {"binary", "compare", "jumpifgreater", "jumpifequal"}
    <3>1. r \in {Op.lhs, Op.rhs}
      BY <2>4 DEF Reads
    <3>2. <<r, Op.ty>> \in Claims(Chunks[p], Spot(p))
      BY <2>1, <2>4, <3>1 DEF Claims
    <3> QED  BY <1>3, <3>2
  <2>5. CASE Op.k \in {"jumpiffalse", "jumpiftrue"}
    <3>1. r = Op.cond
      BY <2>5 DEF Reads
    <3>2. <<r, "bool">> \in Claims(Chunks[p], Spot(p))
      BY <2>1, <2>5, <3>1 DEF Claims
    <3> QED  BY <1>3, <3>2
  <2>6. CASE Op.k = "newarray"
    <3>1. r \in Run(Op.items, Op.count)
      BY <2>6 DEF Reads, Run
    <3>2. <<r, ElementTy>> \in Claims(Chunks[p], Spot(p))
      BY <2>1, <2>6, <3>1 DEF Claims
    <3> QED  BY <1>3, <3>2
  <2>7. CASE Op.k = "filled"
    <3>1. r \in {Op.length, Op.value}
      BY <2>7 DEF Reads
    <3>2. <<r, IndexTy>> \in Claims(Chunks[p], Spot(p)) \/ <<r, ElementTy>> \in Claims(Chunks[p], Spot(p))
      BY <2>1, <2>7, <3>1 DEF Claims
    <3> QED  BY <1>3, <3>2
  <2>8. CASE Op.k \in {"at", "storeat"}
    <3>1. r = Op.array \/ r \in Run(Op.at, Op.rank) \/ (Op.k = "storeat" /\ r = Op.value)
      BY <2>8 DEF Reads, Run
    <3>2. \/ <<r, Op.ty>> \in Claims(Chunks[p], Spot(p)) \/ <<r, IndexTy>> \in Claims(Chunks[p], Spot(p))
          \/ <<r, ElementTy>> \in Claims(Chunks[p], Spot(p))
      BY <2>1, <2>8, <3>1 DEF Claims
    <3> QED  BY <1>3, <3>2
  <2>9. CASE Op.k = "call"
    <3> DEFINE params == Chunks[p].funcs[Op.func].params
    <3>1. r \in Op.base .. Op.base + Op.argc - 1
      BY <2>9 DEF Reads
    <3>2. Op.base \in Nat /\ Op.argc \in Nat /\ ~Overruns(Op)
      <4>1. Op.base \in Nat /\ ~Overruns(Op) /\ Op.func \in DOMAIN Chunks[p].funcs
        BY <1>1, <2>1, <2>9, HereIs DEF Formed
      <4>2. Len(params) = Op.argc
        <5>1. ~Malformed(Chunks[p], Spot(p))
          BY <1>1, HereIs, PlaceIs DEF Spot
        <5> QED  BY <2>1, <2>9, <5>1 DEF Malformed
      <4>3. Shown(Chunks[p], Known[p])
        BY <1>1, HereIs
      <4>4. Len(Chunks[p].funcs) \in Nat /\ DOMAIN Chunks[p].funcs = 1 .. Len(Chunks[p].funcs)
        BY <4>3, ListIs DEF Shown
      <4>5. Op.func \in 0 .. Len(Chunks[p].funcs) /\ Op.func # 0
        BY <4>1, <4>4
      <4>6. IsList(params)
        BY <4>3, <4>5 DEF Shown
      <4> QED  BY <4>1, <4>2, <4>6, ListIs
    <3> DEFINE n == r - Op.base + 1
    <3>3. n \in 1 .. Op.argc /\ Op.base + (n - 1) = r
      BY <3>1, <3>2
    <3> HIDE DEF n
    <3>4. <<Nth(Op.base, n - 1), params[n]>> \in Claims(Chunks[p], Spot(p))
      BY <2>1, <2>9, <3>3 DEF Claims
    <3>5. Nth(Op.base, n - 1) = r
      BY <2>9, <3>2, <3>3, ArgumentIs
    <3> QED  BY <1>3, <3>4, <3>5
  <2> QED  BY <1>6, <2>2, <2>3, <2>4, <2>5, <2>6, <2>7, <2>8, <2>9 DEF Reads
<1> QED  BY <1>4, <1>5, <1>6

\* No instruction reads a register that its call has not written: whatever the
\* chunk, if its types are shown (vm/typed.rs:29, "a chunk has to demonstrate
\* it").
THEOREM MachineWritten == Spec => []RegistersWritten
<1>1. MachineInv => RegistersWritten
  BY InvWritten
<1> QED  BY <1>1, MachineSafe, PTL

=============================================================================
