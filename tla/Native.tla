------------------------------- MODULE Native -------------------------------
(* Whole numbers as compiled code works them out (luarust-jit/lib.rs:        *)
(* `arithmetic`, `int_division`, `negated`, `relation`), beside the shared   *)
(* arithmetic of module Lang, which it goes back to when the program traps.  *)
(* A word is the bits of a whole number, at the width it is kept at; what an *)
(* instruction makes of them is not theirs to know the sign of.              *)
EXTENDS Lang

Word == 0..2 * Half - 1
AllOnes == 2 * Half - 1
Mask(n) == n % (2 * Half)
Signed(w) == IF w >= Half THEN w - 2 * Half ELSE w
Kept(ty, w) == [ty |-> ty, bits |-> w]

\* power: a product that stays in i128, here of twice the bits of an integer,
\* and no longer grows once it would leave it.
Widest == 2 * Half * Half
Saturated(n) == IF n < -Widest THEN -Widest ELSE IF n > Widest - 1 THEN Widest - 1 ELSE n
Power(ty, a, b, p) ==
    LET product[n \in Nat] == IF n = 0 THEN 1 ELSE Saturated(product[n - 1] * a)
    IN  IF b < 0 THEN Refused("R0004") ELSE Cut(ty, product[b], p)

\* What the tree-walker and the machine answer, and the fallback with them.
Shared(op, ty, x, y, p) ==
    IF op = "pow" THEN Power(ty, NumberOf(Kept(ty, x)), NumberOf(Kept(ty, y)), p)
    ELSE BinaryOp(op, Kept(ty, x), Kept(ty, y), p)

\* The processor's signed division, which stops the whole process where there
\* is no quotient to give.
Dies(x, y) == y = 0 \/ (x = Half /\ y = AllOnes)
SignedDiv(x, y) == Mask(Toward(Signed(x), Signed(y)))
SignedRem(x, y) == Mask(Signed(x) - Toward(Signed(x), Signed(y)) * Signed(y))

\* The step from the truncated answer to the one the project divides by.
Leaned(op, plain, y, p) ==
    LET rem == Signed(plain.mod)
        floors == p.division = "floored" /\ rem # 0 /\ (rem < 0) # (Signed(y) < 0)
        climbs == p.division = "euclidean" /\ rem < 0
        down == floors \/ Signed(y) >= 0
    IN  IF ~floors /\ ~climbs THEN plain[op]
        ELSE IF op = "div" THEN Mask(plain.div + (IF down THEN -1 ELSE 1))
        ELSE Mask(plain.mod + (IF down THEN y ELSE -y))
\* Mutant: the divisor of minus one is not diverted.
UnsafeDivisor(y) == y
\* One stands in for minus one, and the answer for that is put in after.
SafeDivisor(y) == IF y = AllOnes THEN 1 ELSE y
SignedDivision(op, x, y, p) ==
    LET safe == SafeDivisor(y)
        plain == IF y = AllOnes THEN [div |-> Mask(-x), mod |-> 0]
                 ELSE [div |-> SignedDiv(x, safe), mod |-> SignedRem(x, safe)]
    IN  IF Dies(x, safe) THEN Refused("dies") ELSE Answered(Kept("int", Leaned(op, plain, y, p)))
UnsignedDivision(op, ty, x, y) ==
    IF y = 0 THEN Refused("dies")
    ELSE Answered(Kept(ty, IF op = "div" THEN x \div y ELSE x % y))

\* int_division: nothing is guarded where the checker proved the operands.
Division(op, ty, x, y, proved, p) ==
    IF proved /\ IsSigned(ty) THEN UnsignedDivision(op, ty, x, y)
    ELSE IF y = 0 THEN Refused(IF op = "div" THEN "R0002" ELSE "R0003")
    ELSE IF ~IsSigned(ty) THEN UnsignedDivision(op, ty, x, y)
    ELSE SignedDivision(op, x, y, p)

\* arithmetic.
Arithmetic(op, ty, x, y, proved, p) ==
    CASE p.overflow = "trap" \/ op = "pow" -> Shared(op, ty, x, y, p)
      [] p.overflow = "wrap" /\ op = "add" -> Answered(Kept(ty, Mask(x + y)))
      [] p.overflow = "wrap" /\ op = "sub" -> Answered(Kept(ty, Mask(x - y)))
      [] p.overflow = "wrap" /\ op = "mul" -> Answered(Kept(ty, Mask(x * y)))
      [] p.overflow = "wrap" /\ op \in {"div", "mod"} -> Division(op, ty, x, y, proved, p)
Negated(ty, x, p) == Arithmetic("sub", ty, 0, x, FALSE, p)

\* relation: the predicate is of the type, the operands only bits.
Stands(op, ty, x, y) ==
    LET a == IF IsSigned(ty) THEN Signed(x) ELSE x
        b == IF IsSigned(ty) THEN Signed(y) ELSE y
    IN  CASE op = "lt" -> a < b
          [] op = "gt" -> a > b
          [] op = "le" -> a <= b
          [] op = "ge" -> a >= b
          [] op = "eq" -> x = y
          [] op = "ne" -> x # y
=============================================================================
