------------------------------- MODULE Lang -------------------------------
(* What a checked program computes with: values, and the arithmetic and     *)
(* comparisons every engine shares (luarust-core/value.rs), at a width      *)
(* small enough for every case to come up.                                  *)
(*                                                                          *)
(* A value is its type and its bits, as `Value::Num` is. Types:             *)
(*   "int"    two's complement, of 2 * Half values;                         *)
(*   "nat"    unsigned, of as many;                                         *)
(*   "float"  a sign bit (SignBit) over a count of halves, so that it has   *)
(*            two noughts and can count past a bound without meeting it;    *)
(*   "bool"   0 or 1;                                                       *)
(*   "ints"   an array of ints that grows, its bits a handle;               *)
(*   "grid"   an array of ints of the fixed shape Grid, likewise.           *)
(* A program, a statement and an expression are the records of              *)
(* luarust-check/ir.rs with their span left out: a span is the node itself. *)
(* `p` is the program or its chunk, for the settings it carries.            *)
EXTENDS Integers, Sequences

CONSTANTS
    Half,         \* 2 ^ (bits of an int - 1)
    DepthLimit,   \* DEPTH_LIMIT
    Grid          \* the dimensions of the shape "grid"

ASSUME HalfAssumption == Half \in Nat \ {0}
ASSUME LangAssumption == DepthLimit \in Nat /\ Grid \in Seq(Nat \ {0})

SignBit == 2 * Half
Unset == [ty |-> "unset", bits |-> 0]
NoFault == [code |-> "none", span |-> [k |-> "none"]]

Bool(b) == [ty |-> "bool", bits |-> IF b THEN 1 ELSE 0]
Truth(v) == v.bits = 1

IsInteger(ty) == ty \in {"int", "nat"}
IsSigned(ty) == ty = "int"
Lowest(ty) == IF IsSigned(ty) THEN -Half ELSE 0
Highest(ty) == IF IsSigned(ty) THEN Half - 1 ELSE 2 * Half - 1
Fits(ty, n) == Lowest(ty) <= n /\ n <= Highest(ty)
Whole(ty, n) == [ty |-> ty, bits |-> n % (2 * Half)]

\* The number a value stands for. Both noughts of a float stand for 0.
NumberOf(v) ==
    IF v.ty = "int" /\ v.bits >= Half THEN v.bits - 2 * Half
    ELSE IF v.ty = "float" /\ v.bits >= SignBit THEN SignBit - v.bits
    ELSE v.bits

\* A float of a number of halves; past the largest it is infinite, which here
\* is the largest magnitude.
Float(negative, halves) ==
    LET held == IF halves >= SignBit THEN SignBit - 1 ELSE halves
    IN  [ty |-> "float", bits |-> IF negative THEN SignBit + held ELSE held]

OneOf(ty) == IF ty = "float" THEN Float(FALSE, 2) ELSE Whole(ty, 1)
Zero(ty) == [ty |-> ty, bits |-> 0]

Dims(ty) == IF ty = "grid" THEN Grid ELSE <<>>

\* An answer is a value, or the code of the fault it stopped with.
Answered(v) == [code |-> "none", value |-> v]
Refused(code) == [code |-> code, value |-> Unset]

\* A whole number cut to its width, or refused when the program traps.
Cut(ty, n, p) ==
    IF p.overflow = "trap" /\ ~Fits(ty, n) THEN Refused("R0005") ELSE Answered(Whole(ty, n))

\* The quotient toward zero; then a step, when the remainder is not nought
\* and on the wrong side of it for the convention the program divides by.
Toward(a, b) ==
    CASE a >= 0 /\ b > 0 -> a \div b
      [] a >= 0 /\ b < 0 -> -(a \div (-b))
      [] a < 0 /\ b > 0 -> -((-a) \div b)
      [] a < 0 /\ b < 0 -> (-a) \div (-b)
Quotient(a, b, p) ==
    LET quotient == Toward(a, b)
        remainder == a - quotient * b
        steps == CASE p.division = "truncated" -> 0
                   [] p.division = "floored" -> IF (remainder < 0) # (b < 0) THEN -1 ELSE 0
                   [] p.division = "euclidean" ->
                         IF remainder > 0 THEN 0 ELSE IF b > 0 THEN -1 ELSE 1
    IN  IF remainder = 0 THEN quotient ELSE quotient + steps

\* int_op.
IntOp(op, ty, a, b, p) ==
    CASE op = "add" -> Cut(ty, a + b, p)
      [] op = "sub" -> Cut(ty, a - b, p)
      [] op = "mul" -> Cut(ty, a * b, p)
      [] op = "div" /\ b = 0 -> Refused("R0002")
      [] op = "mod" /\ b = 0 -> Refused("R0003")
      [] op = "div" /\ b # 0 -> Cut(ty, Quotient(a, b, p), p)
      [] op = "mod" /\ b # 0 -> Answered(Whole(ty, a - Quotient(a, b, p) * b))

\* Only addition is done on floats here. Two negatives keep their sign even
\* when they are both nought.
FloatSum(a, b) ==
    LET sum == NumberOf(a) + NumberOf(b)
        negative == sum < 0 \/ (a.bits >= SignBit /\ b.bits >= SignBit)
    IN  Answered(Float(negative, IF sum < 0 THEN -sum ELSE sum))

BinaryOp(op, a, b, p) ==
    IF IsInteger(a.ty) THEN IntOp(op, a.ty, NumberOf(a), NumberOf(b), p) ELSE FloatSum(a, b)

Negate(v, p) ==
    IF IsInteger(v.ty) THEN Cut(v.ty, -NumberOf(v), p)
    ELSE Answered([v EXCEPT !.bits = (@ + SignBit) % (2 * SignBit)])

Compare(a, b) ==
    LET x == NumberOf(a)
        y == NumberOf(b)
    IN  IF x < y THEN "less" ELSE IF x = y THEN "equal" ELSE "greater"

Holds(op, ordering) ==
    CASE op = "lt" -> ordering = "less"
      [] op = "gt" -> ordering = "greater"
      [] op = "eq" -> ordering = "equal"
      [] op = "le" -> ordering # "greater"
      [] op = "ge" -> ordering # "less"
      [] op = "ne" -> ordering # "equal"

\* What an expression of a checked program answers (Expr::ty).
TypeOf(e) ==
    CASE e.k = "const" -> e.value.ty
      [] e.k \in {"compare", "logic", "not"} -> "bool"
      [] OTHER -> e.ty
===========================================================================
