----------------------------- MODULE DecRounding -----------------------------
(* What a decimal's arithmetic has to answer, said from the numbers alone:   *)
(* of everything the format can write, the nearest to the exact answer, and  *)
(* of two as near the one of an even last digit.                             *)
EXTENDS Decimals

\* A value with as many digits as it can be written with.
Written(fmt, v) ==
    LET up == Lesser(fmt.digits - DigitsOf(v.sig), v.exp - MinExp(fmt)) IN
    IF v.sig = 0 THEN [sig |-> 0, exp |-> MinExp(fmt)] ELSE [sig |-> v.sig * Ten(up), exp |-> v.exp - up]

\* How half of `halves` * 10 ^ e compares with n / d * 10 ^ f. A power neither
\* side's digits could make up for compares as a larger one does.
Against(halves, e, n, d, f) ==
    LET most == IF d = 1 THEN 7 ELSE 5 IN
    Ordered(halves * d * 10 ^ Lesser(most, Above(e - f)), 2 * n * 10 ^ Lesser(5, Above(f - e)))

IsEven(n) == n % 2 = 0
\* Half way up and half way down from what was answered; below a significand
\* of a one and noughts the steps are a tenth of what they are above it.
NearestIs(fmt, sign, n, d, f, answer) ==
    LET v == Written(fmt, answer)
        edge == v.sig = Limit(fmt) \div 10 /\ v.exp > MinExp(fmt)
        up == Against(2 * v.sig + 1, v.exp, n, d, f)
        down == IF edge THEN Against(20 * v.sig - 1, v.exp - 1, n, d, f)
                ELSE Against(2 * v.sig - 1, v.exp, n, d, f)
    IN  /\ answer.sign = sign
        /\ IF answer.class = "infinite" THEN Against(2 * Limit(fmt) - 1, fmt.max_exp, n, d, f) # "greater"
           ELSE /\ answer.class = "finite"
                /\ up = "greater" \/ (up = "equal" /\ IsEven(v.sig))
                /\ v.sig = 0 \/ down = "less" \/ (down = "equal" /\ (edge \/ IsEven(v.sig)))

\* In the smallest unit there is.
Units(fmt, v) == v.sig * 10 ^ (v.exp - MinExp(fmt))
UnitsOf(fmt, v) == IF v.sign THEN -Units(fmt, v) ELSE Units(fmt, v)
Unsigned(n) == IF n < 0 THEN -n ELSE n

DecSumIs(fmt, a, b, answer) ==
    LET n == UnitsOf(fmt, a) + UnitsOf(fmt, b) IN
    IF n = 0 THEN IsNought(answer) /\ answer.sign = (a.sign /\ b.sign)
    ELSE NearestIs(fmt, n < 0, Unsigned(n), 1, MinExp(fmt), answer)

\* Of two finite operands, neither a nought where that leaves no answer.
DecRight(fmt, op, a, b, answer) ==
    LET sign == a.sign # b.sign IN
    CASE op = "add" -> DecSumIs(fmt, a, b, answer)
          [] op = "sub" -> DecSumIs(fmt, a, [b EXCEPT !.sign = ~@], answer)
          [] op = "mul" ->
                IF IsNought(a) \/ IsNought(b) THEN IsNought(answer) /\ answer.sign = sign
                ELSE NearestIs(fmt, sign, a.sig * b.sig, 1, a.exp + b.exp, answer)
          [] op = "div" ->
                IF IsNought(a) THEN IsNought(answer) /\ answer.sign = sign
                ELSE NearestIs(fmt, sign, a.sig, b.sig, a.exp - b.exp, answer)

\* The exact remainder in the smallest units, by each convention.
DecWanted(fmt, division, a, b) ==
    LET y == UnitsOf(fmt, b)
        left == Units(fmt, a) % Unsigned(y)
        truncated == IF a.sign THEN -left ELSE left
    IN  IF left = 0 \/ division = "truncated" THEN truncated
        ELSE IF division = "floored" THEN IF (truncated < 0) # (y < 0) THEN truncated + y ELSE truncated
        ELSE IF truncated < 0 THEN truncated + Unsigned(y) ELSE truncated
DecHeld(fmt, n) == \E e \in 0..fmt.max_exp - MinExp(fmt) : n % 10 ^ e = 0 /\ Unsigned(n) \div 10 ^ e < Limit(fmt)
\* The other conventions are a step away from the floored one, and have only
\* that to go by.
DecModRight(fmt, division, a, b, answer) ==
    LET wanted == DecWanted(fmt, division, a, b)
        near == \/ division = "floored"
                \/ DecHeld(fmt, DecWanted(fmt, "floored", a, b)) /\ Unsigned(a.exp - b.exp) <= 2 * fmt.digits + 2
    IN  near => IF wanted = 0 THEN IsNought(answer)
                ELSE NearestIs(fmt, wanted < 0, Unsigned(wanted), 1, MinExp(fmt), answer)
\* A power whose products the format all holds, at every exponent on the way,
\* is exact, and its reciprocal is rounded once; a square is the product.
DecPowRight(fmt, a, b, answer) ==
    LET one == 10 ^ fmt.bias
        whole == Units(fmt, b) % one = 0 /\ b.exp <= fmt.digits /\ Units(fmt, b) <= MostTimes * one
        times == Units(fmt, b) \div one
        sign == a.sign /\ times % 2 = 1
        exact == \A n \in 1..times :
                    a.sig ^ n < Limit(fmt) /\ n * a.exp >= MinExp(fmt) /\ n * a.exp <= fmt.max_exp
        twice == DecMul(fmt, "even", a, a)
    IN  IF ~whole THEN answer.class = "nan"
        ELSE IF times = 0 THEN NearestIs(fmt, FALSE, 1, 1, 0, answer)
        ELSE IF IsNought(a) THEN
            answer.sign = sign /\ IF b.sign THEN answer.class = "infinite" ELSE IsNought(answer)
        ELSE /\ exact /\ ~b.sign => NearestIs(fmt, sign, a.sig ^ times, 1, times * a.exp, answer)
             /\ exact /\ b.sign /\ DigitsOf(a.sig ^ times) = 1 /\ -times * a.exp >= MinExp(fmt) + fmt.digits =>
                    NearestIs(fmt, sign, 1, a.sig ^ times, -times * a.exp, answer)
             /\ times = 2 /\ ~b.sign /\ twice.class = "finite" => answer = Repacked(fmt, twice)
DecOrder(fmt, a, b) ==
    LET x == UnitsOf(fmt, a)
        y == UnitsOf(fmt, b)
    IN  IF x < y THEN "less" ELSE IF x > y THEN "greater" ELSE "equal"

\* Where the code does answer it: a sum, an ordering or a remainder of operands
\* near enough to be brought to one exponent; a quotient of a divisor no longer than the
\* dividend; and nothing below the smallest significand of all its digits.
Reaches(fmt, op, a, b) ==
    LET apart == Unsigned(a.exp - b.exp) IN
    CASE op = "pow" -> TRUE
      [] op \in {"add", "sub"} -> apart <= 2 * fmt.digits + 2
      [] op \in {"mod", "compare"} -> apart <= 2 * fmt.digits + 4
      [] op = "div" -> DigitsOf(b.sig) <= DigitsOf(a.sig) /\ a.exp - b.exp >= MinExp(fmt) + fmt.digits
      [] op = "mul" -> DigitsOf(a.sig * b.sig) + a.exp + b.exp >= MinExp(fmt) + fmt.digits
=============================================================================
