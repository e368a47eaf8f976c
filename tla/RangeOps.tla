------------------------------ MODULE RangeOps ------------------------------
(* Intervals of whole numbers, and what the arithmetic makes of them         *)
(* (luarust-check/range.rs). An `Option<Range>` is an interval that may not  *)
(* be known.                                                                 *)
EXTENDS Lang

Between(lo, hi) == [known |-> TRUE, lo |-> lo, hi |-> hi]
Anything == [known |-> FALSE, lo |-> 0, hi |-> 0]

\* The numbers an interval allows.
Allows(range, n) == range.known => range.lo <= n /\ n <= range.hi

Lesser(a, b) == IF a <= b THEN a ELSE b
Greater(a, b) == IF a >= b THEN a ELSE b

\* The least interval around two.
Hull(a, b) ==
    IF a.known /\ b.known THEN Between(Lesser(a.lo, b.lo), Greater(a.hi, b.hi)) ELSE Anything
HullStates(s, t) == [slot \in DOMAIN s |-> Hull(s[slot], t[slot])]

TyRange(ty) == IF IsInteger(ty) THEN Between(Lowest(ty), Highest(ty)) ELSE Anything

\* A product is largest and smallest at corners.
Product(l, r) ==
    Between(Lesser(Lesser(l.lo * r.lo, l.lo * r.hi), Lesser(l.hi * r.lo, l.hi * r.hi)),
            Greater(Greater(l.lo * r.lo, l.lo * r.hi), Greater(l.hi * r.lo, l.hi * r.hi)))

\* Where the answer would be if no type held it. Only a divisor that is
\* certainly positive says anything, and then only a remainder can tell one
\* convention from another.
Exact(op, l, r, p) ==
    CASE op = "add" -> Between(l.lo + r.lo, l.hi + r.hi)
      [] op = "sub" -> Between(l.lo - r.hi, l.hi - r.lo)
      [] op = "mul" -> Product(l, r)
      [] op = "div" /\ l.lo >= 0 /\ r.lo >= 1 -> Between(l.lo \div r.hi, l.hi \div r.lo)
      [] op = "mod" /\ r.lo >= 1 ->
            Between(IF p.division = "truncated" /\ l.lo < 0 THEN -(r.hi - 1) ELSE 0, r.hi - 1)
      [] op = "div" /\ ~(l.lo >= 0 /\ r.lo >= 1) -> Anything
      [] op = "mod" /\ ~(r.lo >= 1) -> Anything

\* What is known once the type has had its say: a wrapped answer is anywhere
\* in the type, and a program that went on has one that fitted.
Held(exact, ty, p) ==
    LET whole == TyRange(ty)
        clipped == Between(Greater(exact.lo, whole.lo), Lesser(exact.hi, whole.hi))
    IN  IF ~exact.known THEN whole
        ELSE IF exact.lo >= whole.lo /\ exact.hi <= whole.hi THEN exact
        ELSE IF p.overflow = "trap" /\ clipped.lo <= clipped.hi THEN clipped
        ELSE whole

BinaryRange(op, ty, l, r, p) ==
    IF IsInteger(ty) /\ l.known /\ r.known THEN Held(Exact(op, l, r, p), ty, p) ELSE TyRange(ty)

NegateRange(ty, inner, p) ==
    IF IsInteger(ty) /\ inner.known THEN Held(Between(-inner.hi, -inner.lo), ty, p)
    ELSE TyRange(ty)

\* The dividend is at or above nought and the divisor above it, for certain.
Proves(op, ty, l, r) ==
    /\ op \in {"div", "mod"} /\ IsSigned(ty)
    /\ l.known /\ l.lo >= 0
    /\ r.known /\ r.lo >= 1
=============================================================================
