------------------------------ MODULE Decimals ------------------------------
(* The decimal floats of luarust-num (decimal/mod.rs, dpd.rs, ops.rs): a     *)
(* sign, a significand of decimal digits kept as a whole number, and a power *)
(* of ten. A format is a record of `bits`, `digits`, `exp_bits`,             *)
(* `trailing_bits`, `bias` and `max_exp`; every operation ends by rounding   *)
(* to its digits and packing.                                                *)
EXTENDS Integers, FiniteSets, Sequences, SequencesExt, FiniteSetsExt

CONSTANT MostTimes       \* the largest exponent of a power, 100000

ASSUME DecimalsAssumption == MostTimes \in Nat

\* No significand reaches 10 ^ 9, so a larger scale divides one out the same.
Ten(n) == 10 ^ (IF n < 9 THEN n ELSE 9)
DigitsOf(n) == IF n = 0 THEN 1 ELSE Cardinality({k \in 0..9 : 10 ^ k <= n})
Limit(fmt) == Ten(fmt.digits)
MinExp(fmt) == -fmt.bias
Lesser(a, b) == IF a <= b THEN a ELSE b

\* Three digits in ten bits: which of them are an eight or a nine chooses the
\* row of the table. A row says, a bit at a time, which digit bit stands there.
BitsOf(n, count) == [i \in 1..count |-> (n \div 2 ^ (count - i)) % 2]
NumberOfBits(bits) == FoldLeft(LAMBDA n, b : 2 * n + b, 0, bits)
EncodeDeclet(n) ==
    LET first == BitsOf(n \div 100, 4)
        second == BitsOf((n \div 10) % 10, 4)
        third == BitsOf(n % 10, 4)
        low(d) == <<d[2], d[3]>>
        d == first[4]
        h == second[4]
        m == third[4]
        large == <<first[1], second[1], third[1]>>
        row ==
            CASE large = <<0, 0, 0>> -> low(first) \o <<d>> \o low(second) \o <<h, 0>> \o low(third) \o <<m>>
              [] large = <<0, 0, 1>> -> low(first) \o <<d>> \o low(second) \o <<h, 1, 0, 0, m>>
              [] large = <<0, 1, 0>> -> low(first) \o <<d>> \o low(third) \o <<h, 1, 0, 1, m>>
              [] large = <<0, 1, 1>> -> low(first) \o <<d, 1, 0, h, 1, 1, 1, m>>
              [] large = <<1, 0, 0>> -> low(third) \o <<d>> \o low(second) \o <<h, 1, 1, 0, m>>
              [] large = <<1, 0, 1>> -> low(second) \o <<d, 0, 1, h, 1, 1, 1, m>>
              [] large = <<1, 1, 0>> -> low(third) \o <<d, 0, 0, h, 1, 1, 1, m>>
              [] large = <<1, 1, 1>> -> <<0, 0, d, 1, 1, h, 1, 1, 1, m>>
    IN  NumberOfBits(row)
DecodeDeclet(n) ==
    LET at == BitsOf(n, 10)
        pqr == 4 * at[1] + 2 * at[2] + at[3]
        stu == 4 * at[4] + 2 * at[5] + at[6]
        wx == <<at[8], at[9]>>
        st == <<at[4], at[5]>>
        y == at[10]
        pq(b) == 4 * at[1] + 2 * at[2] + b
        three ==
            IF at[7] = 0 THEN <<pqr, stu, 4 * at[8] + 2 * at[9] + y>>
            ELSE CASE wx = <<0, 0>> -> <<pqr, stu, 8 + y>>
                   [] wx = <<0, 1>> -> <<pqr, 8 + at[6], 4 * at[4] + 2 * at[5] + y>>
                   [] wx = <<1, 0>> -> <<8 + at[3], stu, pq(y)>>
                   [] wx = <<1, 1>> /\ st = <<0, 0>> -> <<8 + at[3], 8 + at[6], pq(y)>>
                   [] wx = <<1, 1>> /\ st = <<0, 1>> -> <<8 + at[3], pq(at[6]), 8 + y>>
                   [] wx = <<1, 1>> /\ st = <<1, 0>> -> <<pqr, 8 + at[6], 8 + y>>
                   [] wx = <<1, 1>> /\ st = <<1, 1>> -> <<8 + at[3], 8 + at[6], 8 + y>>
    IN  100 * three[1] + 10 * three[2] + three[3]

Declets(fmt) == fmt.trailing_bits \div 10
PackTrailing(fmt, rest) ==
    MapThenSumSet(LAMBDA slot : EncodeDeclet((rest \div 1000 ^ slot) % 1000) * 1024 ^ slot, 0..Declets(fmt) - 1)
UnpackTrailing(fmt, packed) ==
    MapThenSumSet(LAMBDA slot : DecodeDeclet((packed \div 1024 ^ slot) % 1024) * 1000 ^ slot, 0..Declets(fmt) - 1)

\* The combination: five bits that say it is no number, or the exponent after
\* a leading digit of at most 7 or before one of 8 or 9.
CombinationBits(fmt) == fmt.bits - 1 - fmt.trailing_bits
DecUnpack(fmt, a, dpd) ==
    LET count == CombinationBits(fmt)
        sign == (a \div 2 ^ (fmt.bits - 1)) % 2 = 1
        combination == (a \div 2 ^ fmt.trailing_bits) % 2 ^ count
        trailing == a % 2 ^ fmt.trailing_bits
        top(n) == combination \div 2 ^ (count - n)
        large == top(2) = 3
        biased == (combination \div (IF large THEN 2 ELSE 8)) % 2 ^ fmt.exp_bits
        leading == IF large THEN 8 + (combination % 2) ELSE combination % 8
        sig == Ten(fmt.digits - 1) * leading + (IF dpd THEN UnpackTrailing(fmt, trailing) ELSE trailing)
    IN  IF top(5) = 31 THEN [sign |-> sign, class |-> "nan", loud |-> top(6) % 2 = 1, sig |-> trailing, exp |-> 0]
        ELSE IF top(5) = 30 THEN [sign |-> sign, class |-> "infinite", loud |-> FALSE, sig |-> 0, exp |-> 0]
        ELSE [sign |-> sign, class |-> "finite", loud |-> FALSE,
              sig |-> IF sig >= Limit(fmt) THEN 0 ELSE sig, exp |-> biased - fmt.bias]

DecPack(fmt, v, dpd) ==
    LET count == CombinationBits(fmt)
        biased == v.exp + fmt.bias
        leading == v.sig \div Ten(fmt.digits - 1)
        rest == v.sig % Ten(fmt.digits - 1)
        combination ==
            CASE v.class = "infinite" -> 30 * 2 ^ (count - 5)
              [] v.class = "nan" -> 31 * 2 ^ (count - 5) + (IF v.loud THEN 2 ^ (count - 6) ELSE 0)
              [] v.class = "finite" ->
                    IF leading >= 8 THEN 3 * 2 ^ (count - 2) + biased * 2 + (leading % 2) ELSE biased * 8 + leading
        trailing ==
            CASE v.class = "infinite" -> 0
              [] v.class = "nan" -> v.sig % 2 ^ fmt.trailing_bits
              [] v.class = "finite" -> IF dpd THEN PackTrailing(fmt, rest) ELSE rest
    IN  trailing + combination * 2 ^ fmt.trailing_bits + (IF v.sign THEN 2 ^ (fmt.bits - 1) ELSE 0)

\* Every answer below is one of these, taken apart; DecPack writes it down.
Finite(sign, sig, exp) == [sign |-> sign, class |-> "finite", loud |-> FALSE, sig |-> sig, exp |-> exp]
DecZero(sign) == Finite(sign, 0, 0)
DecInfinity(sign) == [DecZero(sign) EXCEPT !.class = "infinite"]
DecNan == [DecZero(FALSE) EXCEPT !.class = "nan"]

\* recode and decode_value: the constants of a chunk, written in the project's
\* encoding and read back into the one the program computes in.
Saved(fmt, a, dpd) == IF dpd THEN DecPack(fmt, DecUnpack(fmt, a, FALSE), TRUE) ELSE a
Loaded(fmt, a, dpd) == IF dpd THEN DecPack(fmt, DecUnpack(fmt, a, TRUE), FALSE) ELSE a

\* What is left of a significand once `count` digits are dropped off it.
Shorten(sig, count, mode, sign) ==
    LET scale == Ten(count)
        kept == sig \div scale
        dropped == sig % scale
        half == scale \div 2
        up == \/ mode = "even" /\ (dropped > half \/ (dropped = half /\ kept % 2 = 1))
              \/ mode = "away" /\ dropped >= half
              \/ mode = "up" /\ ~sign /\ dropped # 0
              \/ mode = "down" /\ sign /\ dropped # 0
    IN  IF count = 0 THEN sig ELSE IF up THEN kept + 1 ELSE kept

Above(n) == IF n > 0 THEN n ELSE 0
Clamped(n, low, high) == IF n < low THEN low ELSE IF n > high THEN high ELSE n
\* Mutant: a rounding that carries is forgotten.
FittedUncarried(fmt, sign, sig, exp) ==
    LET over == Above(exp - fmt.max_exp) IN
    IF sig = 0 THEN DecZero(sign)
    ELSE IF over > 0 /\ fmt.digits - DigitsOf(sig) < over THEN DecInfinity(sign)
    ELSE Finite(sign, sig * Ten(over), exp - over)
\* Too large an exponent, and a digit too many again when the rounding carried.
Fitted(fmt, sign, sig, exp) ==
    LET over == Above(exp - fmt.max_exp) IN
    IF sig = 0 THEN DecZero(sign)
    ELSE IF over > 0 /\ fmt.digits - DigitsOf(sig) < over THEN DecInfinity(sign)
    ELSE IF sig >= Limit(fmt) THEN
        IF exp + 1 > fmt.max_exp THEN DecInfinity(sign) ELSE Finite(sign, sig \div 10, exp + 1)
    ELSE Finite(sign, sig * Ten(over), exp - over)
\* Too many digits, then too small an exponent.
Lifted(fmt, mode, sign, sig, exp) ==
    LET under == Above(MinExp(fmt) - exp) IN
    Fitted(fmt, sign, Shorten(sig, under, mode, sign), exp + under)
DecRound(fmt, mode, sign, sig, exp) ==
    LET extra == Above(DigitsOf(sig) - fmt.digits) IN
    IF sig = 0 THEN Finite(sign, 0, Clamped(exp, MinExp(fmt), fmt.max_exp))
    ELSE Lifted(fmt, mode, sign, Shorten(sig, extra, mode, sign), exp + extra)

IsNought(v) == v.class = "finite" /\ v.sig = 0
AnyNan(a, b) == "nan" \in {a.class, b.class}
AnyInfinite(a, b) == "infinite" \in {a.class, b.class}

\* Both brought to one exponent, the larger scaled up; past what that can
\* reach, the smaller is one unit beside it.
Aligned(fmt, a, b) ==
    LET low == IF a.exp <= b.exp THEN a ELSE b
        high == IF a.exp <= b.exp THEN b ELSE a
        gap == high.exp - low.exp
        reach == 2 * fmt.digits + 2
    IN  IF gap > reach
        THEN [x |-> Lesser(low.sig, 1), y |-> high.sig * Ten(reach), exp |-> low.exp, low |-> low.sign, high |-> high.sign]
        ELSE [x |-> low.sig, y |-> high.sig * Ten(gap), exp |-> low.exp, low |-> low.sign, high |-> high.sign]
DecAdd(fmt, mode, a, b) ==
    LET both == Aligned(fmt, a, b) IN
    IF AnyNan(a, b) THEN DecNan
    ELSE IF AnyInfinite(a, b) THEN
        IF a.class = b.class /\ a.sign # b.sign THEN DecNan
        ELSE DecInfinity(IF a.class = "infinite" THEN a.sign ELSE b.sign)
    ELSE IF both.low = both.high THEN DecRound(fmt, mode, both.low, both.x + both.y, both.exp)
    ELSE IF both.x = both.y THEN DecZero(mode = "down")
    ELSE IF both.x > both.y THEN DecRound(fmt, mode, both.low, both.x - both.y, both.exp)
    ELSE DecRound(fmt, mode, both.high, both.y - both.x, both.exp)
DecSub(fmt, mode, a, b) ==
    DecAdd(fmt, mode, a, IF b.class = "nan" THEN b ELSE [b EXCEPT !.sign = ~@])

DecMul(fmt, mode, a, b) ==
    LET sign == a.sign # b.sign IN
    IF AnyNan(a, b) THEN DecNan
    ELSE IF AnyInfinite(a, b) THEN IF IsNought(a) \/ IsNought(b) THEN DecNan ELSE DecInfinity(sign)
    ELSE DecRound(fmt, mode, sign, a.sig * b.sig, a.exp + b.exp)

\* An exact quotient is written at the exponent the two sides imply: as many
\* noughts are taken off its end as that asks for, and as it has.
Noughts(n) == Cardinality({k \in 1..9 : n % 10 ^ k = 0})
DecDiv(fmt, mode, a, b) ==
    LET sign == a.sign # b.sign
        extra == fmt.digits + 2
        scaled == a.sig * Ten(extra)
        quotient == scaled \div b.sig
        ideal == a.exp - b.exp
        bare == Lesser(extra, Noughts(quotient))
        odd == IF quotient % 2 = 0 THEN quotient + 1 ELSE quotient
    IN  IF AnyNan(a, b) \/ (a.class = "infinite" /\ b.class = "infinite") THEN DecNan
        ELSE IF a.class = "infinite" THEN DecInfinity(sign)
        ELSE IF b.class = "infinite" THEN DecZero(sign)
        ELSE IF IsNought(b) THEN IF IsNought(a) THEN DecNan ELSE DecInfinity(sign)
        ELSE IF IsNought(a) THEN DecZero(sign)
        ELSE IF scaled % b.sig = 0 THEN
            DecRound(fmt, mode, sign, quotient \div Ten(bare), ideal - extra + bare)
        ELSE DecRound(fmt, mode, sign, odd, ideal - extra)

\* The floored remainder: what is left on the wrong side of the divisor is
\* taken from its other end.
DecRem(fmt, mode, a, b) ==
    LET exp == Lesser(a.exp, b.exp)
        far == 2 * fmt.digits + 4
        y == b.sig * Ten(b.exp - exp)
        left == (a.sig * Ten(a.exp - exp)) % y
        turned == left # 0 /\ a.sign # b.sign
    IN  IF AnyNan(a, b) \/ a.class = "infinite" \/ IsNought(b) THEN DecNan
        ELSE IF b.class = "infinite" THEN
            IF a.sign = b.sign \/ IsNought(a) THEN DecRound(fmt, mode, a.sign, a.sig, a.exp) ELSE DecInfinity(b.sign)
        ELSE IF a.exp - exp > far \/ b.exp - exp > far THEN
            IF a.exp > b.exp THEN DecZero(b.sign) ELSE DecRound(fmt, mode, a.sign, a.sig, a.exp)
        ELSE IF left = 0 THEN DecZero(b.sign)
        ELSE DecRound(fmt, mode, IF turned THEN b.sign ELSE a.sign, IF turned THEN y - left ELSE left, exp)

\* A power: squared and multiplied from the lowest bit of the exponent up, each
\* product rounded; an exponent that is not whole, or too large, has no answer.
WholeValue(fmt, v) ==
    LET under == Above(-v.exp)
        size == IF v.exp > 0 THEN v.sig * Ten(v.exp) ELSE v.sig \div Ten(under)
        whole == v.class = "finite" /\ v.sig % Ten(under) = 0 /\ v.exp <= fmt.digits /\ size <= MostTimes
    IN  [whole |-> whole, times |-> size]
Repacked(fmt, v) == DecUnpack(fmt, DecPack(fmt, v, FALSE), FALSE)
Squared(fmt, mode, a, times) ==
    LET after[i \in 0..times] == IF i = 0 THEN a ELSE Repacked(fmt, DecMul(fmt, mode, after[i - 1], after[i - 1]))
    IN  after[times]
DecMultiplied(fmt, mode, a, times) ==
    LET after[i \in 0..20] ==
            IF i = 0 THEN Finite(FALSE, 1, 0)
            ELSE IF (times \div 2 ^ (i - 1)) % 2 = 1
            THEN Repacked(fmt, DecMul(fmt, mode, after[i - 1], Squared(fmt, mode, a, i - 1)))
            ELSE after[i - 1]
    IN  after[20]
\* The product is rounded again by its significand alone, whatever its class.
DecPower(fmt, mode, below, out) ==
    IF below THEN DecDiv(fmt, mode, Finite(FALSE, 1, 0), out) ELSE DecRound(fmt, mode, out.sign, out.sig, out.exp)
DecPow(fmt, mode, a, b) ==
    LET so == WholeValue(fmt, b) IN
    IF AnyNan(a, b) \/ ~so.whole THEN DecNan
    ELSE IF so.times = 0 THEN DecRound(fmt, mode, FALSE, 1, 0)
    ELSE DecPower(fmt, mode, b.sign, DecMultiplied(fmt, mode, a, so.times))

Reversed(ordering) == CASE ordering = "less" -> "greater" [] ordering = "greater" -> "less" [] OTHER -> ordering
Ordered(x, y) == IF x < y THEN "less" ELSE IF x > y THEN "greater" ELSE "equal"
DecCompare(fmt, a, b) ==
    LET exp == Lesser(a.exp, b.exp)
        far == 2 * fmt.digits + 4
        sizes ==
            IF a.exp - exp > far \/ b.exp - exp > far THEN IF a.exp > b.exp THEN "greater" ELSE "less"
            ELSE Ordered(a.sig * Ten(a.exp - exp), b.sig * Ten(b.exp - exp))
    IN  IF AnyNan(a, b) THEN "unordered"
        ELSE IF IsNought(a) /\ IsNought(b) THEN "equal"
        ELSE IF a.class = "infinite" /\ b.class = "infinite" /\ a.sign = b.sign THEN "equal"
        ELSE IF a.class = "infinite" THEN IF a.sign THEN "less" ELSE "greater"
        ELSE IF b.class = "infinite" THEN IF b.sign THEN "greater" ELSE "less"
        ELSE IF a.sign # b.sign THEN IF a.sign THEN "less" ELSE "greater"
        ELSE IF a.sign THEN Reversed(sizes) ELSE sizes

\* decimal_op's remainder, and `leaning`, which goes from the floored one to
\* the other two conventions.
DecBelow(fmt, v) == DecCompare(fmt, v, DecZero(FALSE)) = "less"
DecLeaning(fmt, division, a, b, floored) ==
    LET step == \/ division = "truncated" /\ DecBelow(fmt, a) # DecBelow(fmt, b)
                \/ division = "euclidean" /\ DecBelow(fmt, b)
    IN  IF step /\ DecCompare(fmt, floored, DecZero(FALSE)) # "equal" THEN DecSub(fmt, "even", floored, b) ELSE floored
DecMod(fmt, division, a, b) ==
    DecLeaning(fmt, division, a, b, DecUnpack(fmt, DecPack(fmt, DecRem(fmt, "even", a, b), FALSE), FALSE))
=============================================================================
