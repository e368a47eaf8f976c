------------------------------- MODULE Ratios -------------------------------
(* The exact rationals (luarust-num/exact.rs): a numerator that carries the  *)
(* sign over a denominator that is never negative nor nought, put in lowest  *)
(* terms after every operation, so that a value has one shape. The integers  *)
(* under them (big.rs) grow without bound, as TLA+'s do.                     *)
EXTENDS Integers, Sequences

CONSTANT PowerLimit        \* Exact::POWER_LIMIT

ASSUME RatiosAssumption == PowerLimit \in Nat

Absolute(n) == IF n < 0 THEN -n ELSE n
\* Big::gcd: the twos both have are set aside, and of what is left the smaller
\* is taken off the larger, its own twos thrown away, until the two meet.
Twos(n) == CHOOSE k \in 0..30 : n % 2 ^ k = 0 /\ n % 2 ^ (k + 1) # 0
Odd(n) == n \div 2 ^ Twos(n)
Lower(a, b) == IF a < b THEN a ELSE b
Gcd(a, b) ==
    LET meet[x \in 1..a + b, y \in 1..a + b] ==
            LET z == Odd(y) IN
            IF x = z THEN x ELSE meet[Lower(x, z), Absolute(x - z)]
    IN  meet[Odd(a), b] * 2 ^ Lower(Twos(a), Twos(b))

\* Big::div_rem truncates.
Truncated(n, d) == IF n < 0 THEN -((-n) \div d) ELSE n \div d

Er(num, den) == [wrong |-> "no", num |-> num, den |-> den]
Trouble(why) == [wrong |-> why, num |-> 0, den |-> 1]
Ratio(n, d) ==
    LET num == IF d < 0 THEN -n ELSE n
        den == Absolute(d)
        common == Gcd(Absolute(num), den)
    IN  IF d = 0 THEN Trouble("divide by zero")
        ELSE IF n = 0 THEN Er(0, 1)
        ELSE Er(Truncated(num, common), den \div common)

RatAdd(a, b) == Ratio(a.num * b.den + b.num * a.den, a.den * b.den)
RatSub(a, b) == RatAdd(a, Er(-b.num, b.den))
RatMul(a, b) == Ratio(a.num * b.num, a.den * b.den)
RatDiv(a, b) == IF b.num = 0 THEN Trouble("divide by zero") ELSE Ratio(a.num * b.den, a.den * b.num)
Floor(a) ==
    LET quotient == Truncated(a.num, a.den) IN
    IF a.num < 0 /\ quotient * a.den # a.num THEN quotient - 1 ELSE quotient
RatRem(a, b) == IF b.num = 0 THEN Trouble("divide by zero") ELSE RatSub(a, RatMul(b, Er(Floor(RatDiv(a, b)), 1)))

\* By squaring, from the lowest bit of the exponent up.
Powered(base, times) ==
    LET square[i \in 0..30] == IF i = 0 THEN base ELSE RatMul(square[i - 1], square[i - 1])
        out[i \in 0..30] ==
            IF 2 ^ i > times THEN Er(1, 1)
            ELSE IF (times \div 2 ^ i) % 2 = 1 THEN RatMul(out[i + 1], square[i]) ELSE out[i + 1]
    IN  out[0]
RatPow(a, b) ==
    LET out == Powered(a, Absolute(b.num)) IN
    IF b.den # 1 THEN Trouble("fractional power")
    ELSE IF Absolute(b.num) > PowerLimit THEN Trouble("power too large")
    ELSE IF b.num >= 0 THEN out
    ELSE IF out.num = 0 THEN Trouble("divide by zero")
    ELSE RatDiv(Er(1, 1), out)

RatCompare(a, b) ==
    LET x == a.num * b.den
        y == b.num * a.den
    IN  IF x < y THEN "less" ELSE IF x > y THEN "greater" ELSE "equal"

\* `leaning`: from the floored remainder to the other two conventions.
Nil == Er(0, 1)
RatBelow(a) == RatCompare(a, Nil) = "less"
RatLeaning(division, a, b, floored) ==
    LET step == \/ division = "truncated" /\ RatBelow(a) # RatBelow(b)
                \/ division = "euclidean" /\ RatBelow(b)
    IN  IF floored.wrong = "no" /\ step /\ RatCompare(floored, Nil) # "equal" THEN RatSub(floored, b) ELSE floored
RatMod(division, a, b) == RatLeaning(division, a, b, RatRem(a, b))
=============================================================================
