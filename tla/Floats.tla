------------------------------- MODULE Floats -------------------------------
(* The binary floats of luarust-num (binary/mod.rs, arith.rs, literal.rs):   *)
(* an operation takes its operands apart, works out one exact integer and an *)
(* exponent, with a sticky bit for what an integer cannot hold, and rounds   *)
(* once. An encoding is the number its bits spell; a format is a record of   *)
(* `bits`, `exp_bits` and `precision`. The integers under the significands   *)
(* are the Uints of WideInts, here numbers cut to their width.               *)
EXTENDS Integers, FiniteSets, Sequences, SequencesExt

CONSTANTS
    LimbBits,     \* the bits of a limb, 64
    WideBits,     \* WIDE, in bits: how wide a written number is read
    CountLimit    \* the most a base is multiplied, 4096

ASSUME FloatsAssumption == LimbBits \in Nat \ {0} /\ WideBits \in 1..30 /\ CountLimit \in Nat

Modes == {"even", "away", "zero", "up", "down"}    \* Round
Guard == 3

Bias(fmt) == 2 ^ (fmt.exp_bits - 1) - 1
Stored(fmt) == fmt.precision - 1
MaxBiased(fmt) == 2 ^ fmt.exp_bits - 1
MinQuantum(fmt) == 1 - Bias(fmt) - Stored(fmt)
MaxQuantum(fmt) == Bias(fmt) - Stored(fmt)
Width(fmt) == LimbBits * ((2 * (fmt.precision + 3) + LimbBits - 1) \div LimbBits)

Least(a, b) == IF a < b THEN a ELSE b
Most(a, b) == IF a > b THEN a ELSE b
Spare(n) == Most(n, 0)                             \* saturating_sub
BitLen(n) == Cardinality({k \in 0..30 : 2 ^ k <= n})
Bit(n, i) == (n \div 2 ^ i) % 2 = 1
Shl(fmt, n, k) == (n * 2 ^ k) % 2 ^ Width(fmt)
Shr(n, k) == n \div 2 ^ k
LowBitsAny(n, k) == n % 2 ^ k # 0
Sticky(n, any) == IF any THEN n - (n % 2) + 1 ELSE n
WithSign(fmt, sign, bits) == IF sign THEN bits + 2 ^ (fmt.bits - 1) ELSE bits
Abs(fmt, a) == a % 2 ^ (fmt.bits - 1)
Neg(fmt, a) == WithSign(fmt, ~Bit(a, fmt.bits - 1), Abs(fmt, a))

Unpack(fmt, a) ==
    LET t == Stored(fmt)
        sign == Bit(a, fmt.bits - 1)
        biased == Shr(a, t) % 2 ^ fmt.exp_bits
        frac == a % 2 ^ t
    IN  IF biased = 0 THEN
            [sign |-> sign, class |-> IF frac = 0 THEN "zero" ELSE "subnormal",
             sig |-> frac, exp |-> MinQuantum(fmt)]
        ELSE IF biased = MaxBiased(fmt) THEN
            [sign |-> sign, class |-> IF frac = 0 THEN "infinite" ELSE "nan", sig |-> frac, exp |-> 0]
        ELSE
            [sign |-> sign, class |-> "normal", sig |-> frac + 2 ^ t, exp |-> biased - Bias(fmt) - t]

\* A NaN of no payload would be an infinity, so it is given the quiet bit.
Pack(fmt, v) ==
    LET t == Stored(fmt)
        frac == v.sig % 2 ^ t
        top == MaxBiased(fmt) * 2 ^ t
    IN  WithSign(fmt, v.sign,
            CASE v.class = "zero" -> 0
              [] v.class = "subnormal" -> frac
              [] v.class = "normal" -> (v.exp + t + Bias(fmt)) * 2 ^ t + frac
              [] v.class = "infinite" -> top
              [] v.class = "nan" -> top + (IF frac = 0 THEN 2 ^ (t - 1) ELSE frac))

Made(fmt, class, sign, sig) == Pack(fmt, [sign |-> sign, class |-> class, sig |-> sig, exp |-> 0])
SignedZero(fmt, sign) == Made(fmt, "zero", sign, 0)
Infinity(fmt, sign) == Made(fmt, "infinite", sign, 0)
QuietBit(fmt) == 2 ^ (Stored(fmt) - 1)
QuietNan(fmt) == Made(fmt, "nan", FALSE, QuietBit(fmt))
MaxFinite(fmt, sign) == WithSign(fmt, sign, MaxBiased(fmt) * 2 ^ Stored(fmt) - 1)
Quiet(fmt, a) ==
    LET v == Unpack(fmt, a) IN
    IF v.class # "nan" \/ Bit(v.sig, Stored(fmt) - 1) THEN a
    ELSE Pack(fmt, [v EXCEPT !.sig = @ + QuietBit(fmt)])

\* What was dropped is one bit and whether anything stood below it.
Increments(mode, sign, round, sticky, odd) ==
    \/ mode = "even" /\ round /\ (sticky \/ odd)
    \/ mode = "away" /\ round
    \/ mode = "up" /\ ~sign /\ (round \/ sticky)
    \/ mode = "down" /\ sign /\ (round \/ sticky)
ToInfinity(mode, sign) ==
    \/ mode \in {"even", "away"}
    \/ mode = "up" /\ ~sign
    \/ mode = "down" /\ sign

\* What is kept of a significand, one more when what was dropped says so.
Bumped(mode, sign, sig, shift) ==
    LET kept == Shr(sig, shift)
        round == shift > 0 /\ Bit(sig, shift - 1)
        sticky == shift > 0 /\ LowBitsAny(sig, shift - 1)
    IN  IF Increments(mode, sign, round, sticky, kept % 2 = 1) THEN kept + 1 ELSE kept
\* A carry out of the top halves it again; then it fits, or overflows.
Settled(fmt, mode, sign, bumped, exp) ==
    LET carried == BitLen(bumped) > fmt.precision
        m == IF carried THEN bumped \div 2 ELSE bumped
        e == IF carried THEN exp + 1 ELSE exp
    IN  IF m = 0 THEN SignedZero(fmt, sign)
        ELSE IF e > MaxQuantum(fmt) THEN
            IF ToInfinity(mode, sign) THEN Infinity(fmt, sign) ELSE MaxFinite(fmt, sign)
        ELSE Pack(fmt, [sign |-> sign, class |-> IF BitLen(m) = fmt.precision THEN "normal" ELSE "subnormal",
                        sig |-> m, exp |-> e])
\* Up as far as it is free; down by what the precision and the bottom of the
\* range ask for, whichever is more.
Lowered(fmt, mode, sign, sig, exp) ==
    LET shift == Most(Spare(BitLen(sig) - fmt.precision), Spare(MinQuantum(fmt) - exp)) IN
    Settled(fmt, mode, sign, Bumped(mode, sign, sig, shift), exp + shift)
RoundAndPack(fmt, mode, sign, sig, exp) ==
    LET free == Least(Spare(fmt.precision - BitLen(sig)), Spare(exp - MinQuantum(fmt))) IN
    Lowered(fmt, mode, sign, Shl(fmt, sig, free), exp - free)

\* Mutant: what is shifted out of the smaller operand leaves no mark.
AddFiniteUnmarked(fmt, mode, x, y) ==
    LET hi == IF x.exp >= y.exp THEN x ELSE y
        lo == IF x.exp >= y.exp THEN y ELSE x
        gap == hi.exp - lo.exp
        left == Least(gap, fmt.precision + Guard)
        right == gap - left
        above == Shl(fmt, hi.sig, left)
        below == Shr(lo.sig, right)
        exp == hi.exp - left
        same == hi.sign = lo.sign
        sig == IF same THEN above + below ELSE IF above >= below THEN above - below ELSE below - above
        sign == IF same \/ above >= below THEN hi.sign ELSE lo.sign
    IN  IF sig = 0 THEN SignedZero(fmt, mode = "down")
        ELSE RoundAndPack(fmt, mode, sign, sig, exp)

\* The exact sum, the smaller operand brought up only as far as can matter.
AddFinite(fmt, mode, x, y) ==
    LET hi == IF x.exp >= y.exp THEN x ELSE y
        lo == IF x.exp >= y.exp THEN y ELSE x
        gap == hi.exp - lo.exp
        left == Least(gap, fmt.precision + Guard)
        right == gap - left
        above == Shl(fmt, hi.sig, left)
        below == Sticky(Shr(lo.sig, right), LowBitsAny(lo.sig, right))
        exp == hi.exp - left
        same == hi.sign = lo.sign
        sig == IF same THEN above + below ELSE IF above >= below THEN above - below ELSE below - above
        sign == IF same \/ above >= below THEN hi.sign ELSE lo.sign
    IN  IF sig = 0 THEN SignedZero(fmt, mode = "down")
        ELSE RoundAndPack(fmt, mode, sign, sig, exp)

\* A NaN is handed straight back, the first before the second.
NanOf(fmt, a, b) == IF Unpack(fmt, a).class = "nan" THEN Quiet(fmt, a) ELSE Quiet(fmt, b)
Nans(x, y) == "nan" \in {x.class, y.class}

Add(fmt, mode, a, b) ==
    LET x == Unpack(fmt, a)
        y == Unpack(fmt, b)
    IN  IF Nans(x, y) THEN NanOf(fmt, a, b)
        ELSE IF x.class = "infinite" /\ y.class = "infinite" /\ x.sign # y.sign THEN QuietNan(fmt)
        ELSE IF x.class = "infinite" THEN Infinity(fmt, x.sign)
        ELSE IF y.class = "infinite" THEN Infinity(fmt, y.sign)
        ELSE IF x.class = "zero" /\ y.class = "zero" THEN
            SignedZero(fmt, IF x.sign = y.sign THEN x.sign ELSE mode = "down")
        ELSE IF x.class = "zero" THEN b
        ELSE IF y.class = "zero" THEN a
        ELSE AddFinite(fmt, mode, x, y)
Sub(fmt, mode, a, b) == Add(fmt, mode, a, Neg(fmt, b))

Mul(fmt, mode, a, b) ==
    LET x == Unpack(fmt, a)
        y == Unpack(fmt, b)
        sign == x.sign # y.sign
        classes == {x.class, y.class}
    IN  IF Nans(x, y) THEN NanOf(fmt, a, b)
        ELSE IF {"infinite", "zero"} = classes THEN QuietNan(fmt)
        ELSE IF "infinite" \in classes THEN Infinity(fmt, sign)
        ELSE IF "zero" \in classes THEN SignedZero(fmt, sign)
        ELSE RoundAndPack(fmt, mode, sign, (x.sig * y.sig) % 2 ^ Width(fmt), x.exp + y.exp)

\* The quotient to `precision + Guard` bits, what is left over its last.
DivFinite(fmt, mode, x, y) ==
    LET shift == Spare(fmt.precision + Guard + BitLen(y.sig) - BitLen(x.sig))
        scaled == Shl(fmt, x.sig, shift)
    IN  RoundAndPack(fmt, mode, x.sign # y.sign,
            Sticky(scaled \div y.sig, scaled % y.sig # 0), x.exp - y.exp - shift)
Div(fmt, mode, a, b) ==
    LET x == Unpack(fmt, a)
        y == Unpack(fmt, b)
        sign == x.sign # y.sign
    IN  IF Nans(x, y) THEN NanOf(fmt, a, b)
        ELSE IF x.class = y.class /\ x.class \in {"infinite", "zero"} THEN QuietNan(fmt)
        ELSE IF x.class = "infinite" \/ y.class = "zero" THEN Infinity(fmt, sign)
        ELSE IF y.class = "infinite" \/ x.class = "zero" THEN SignedZero(fmt, sign)
        ELSE DivFinite(fmt, mode, x, y)

\* The exponent made even, so that it halves; twice the bits the root has.
Isqrt(n) == CHOOSE r \in 0..n : r * r <= n /\ (r + 1) * (r + 1) > n
Sqrt(fmt, mode, a) ==
    LET x == Unpack(fmt, a)
        enough == Spare(2 * (fmt.precision + Guard) - BitLen(x.sig))
        shift == IF (x.exp - enough) % 2 # 0 THEN enough + 1 ELSE enough
        scaled == Shl(fmt, x.sig, shift)
        root == Isqrt(scaled)
    IN  IF x.class = "nan" THEN Quiet(fmt, a)
        ELSE IF x.class = "zero" THEN a
        ELSE IF x.sign THEN QuietNan(fmt)
        ELSE IF x.class = "infinite" THEN a
        ELSE RoundAndPack(fmt, mode, FALSE, Sticky(root, root * root # scaled), (x.exp - shift) \div 2)

CompareFloats(fmt, a, b) ==
    LET x == Unpack(fmt, a)
        y == Unpack(fmt, b)
        nearer == Abs(fmt, a) < Abs(fmt, b)
    IN  IF Nans(x, y) THEN "unordered"
        ELSE IF a = b \/ (x.class = "zero" /\ y.class = "zero") THEN "equal"
        ELSE IF x.sign # y.sign THEN IF x.sign THEN "less" ELSE "greater"
        ELSE IF x.sign # nearer THEN "less" ELSE "greater"

\* A gap of powers of two taken off the dividend, as many at a time as the
\* width has spare.
Walked(fmt, residue, gap, by) ==
    LET room == Width(fmt) - BitLen(by)
        walk[left \in 0..gap] ==
            IF left = gap THEN residue
            ELSE LET step == Least(gap - left, room) IN
                 Shl(fmt, walk[left + step], step) % by
    IN  walk[0]
Remainder(fmt, a, b) ==
    LET x == Unpack(fmt, a)
        y == Unpack(fmt, b)
    IN  IF Nans(x, y) THEN NanOf(fmt, a, b)
        ELSE IF x.class = "infinite" \/ y.class = "zero" THEN QuietNan(fmt)
        ELSE IF y.class = "infinite" \/ x.class = "zero" THEN a
        ELSE IF CompareFloats(fmt, Abs(fmt, a), Abs(fmt, b)) = "less" THEN a
        ELSE IF x.exp >= y.exp THEN
            RoundAndPack(fmt, "zero", x.sign, Walked(fmt, x.sig % y.sig, x.exp - y.exp, y.sig), y.exp)
        ELSE RoundAndPack(fmt, "zero", x.sign, x.sig % Shl(fmt, y.sig, y.exp - x.exp), x.exp)

\* float_remainder: of the divisor's sign, which one sum brings it to; and
\* `leaning`, which goes back from there for the other two conventions.
Turned(fmt, b, truncated) ==
    LET left == Unpack(fmt, truncated) IN
    IF left.class \in {"zero", "nan"} \/ left.sign = Unpack(fmt, b).sign THEN truncated
    ELSE Add(fmt, "even", truncated, b)
Below(fmt, a) == CompareFloats(fmt, a, SignedZero(fmt, FALSE)) = "less"
Leaning(fmt, division, a, b, floored) ==
    LET step == \/ division = "truncated" /\ Below(fmt, a) # Below(fmt, b)
                \/ division = "euclidean" /\ Below(fmt, b)
    IN  IF step /\ CompareFloats(fmt, floored, SignedZero(fmt, FALSE)) # "equal" THEN Sub(fmt, "even", floored, b)
        ELSE floored
Mod(fmt, division, a, b) == Leaning(fmt, division, a, b, Turned(fmt, b, Remainder(fmt, a, b)))

\* float_pow: the exponent is counted up to by ones, in the format's own
\* addition, and the base is multiplied as often.
Truncate(fmt, a) ==
    LET v == Unpack(fmt, a)
        drop == -v.exp
    IN  IF v.class \notin {"normal", "subnormal"} \/ v.exp >= 0 THEN a
        ELSE IF drop >= BitLen(v.sig) THEN SignedZero(fmt, v.sign)
        ELSE RoundAndPack(fmt, "zero", v.sign, Shr(v.sig, drop) * 2 ^ drop, v.exp)
Single(fmt) == RoundAndPack(fmt, "even", FALSE, 1, 0)
Counted(fmt, magnitude) ==
    FoldLeft(LAMBDA so, n : IF CompareFloats(fmt, so.counter, magnitude) # "less" THEN so
                            ELSE [counter |-> Add(fmt, "even", so.counter, Single(fmt)), count |-> n],
             [counter |-> SignedZero(fmt, FALSE), count |-> 0], [n \in 1..CountLimit + 1 |-> n])
Multiplied(fmt, base, times) ==
    FoldLeft(LAMBDA product, n : Mul(fmt, "even", product, base), Single(fmt), [n \in 1..times |-> n])
RaisedTo(fmt, base, below, times) ==
    IF times > CountLimit THEN [wrong |-> "R0007", bits |-> 0]
    ELSE [wrong |-> "no",
          bits |-> IF below THEN Div(fmt, "even", Single(fmt), Multiplied(fmt, base, times))
                   ELSE Multiplied(fmt, base, times)]
Pow(fmt, base, exponent) ==
    LET e == Unpack(fmt, exponent) IN
    IF Truncate(fmt, exponent) # exponent \/ e.class \in {"nan", "infinite"} THEN [wrong |-> "R0006", bits |-> 0]
    ELSE RaisedTo(fmt, base, e.sign, Counted(fmt, Abs(fmt, exponent)).count)

Convert(from, to, mode, a) ==
    LET v == Unpack(from, a) IN
    IF v.class = "nan" THEN WithSign(to, v.sign, QuietNan(to))
    ELSE IF v.class = "infinite" THEN Infinity(to, v.sign)
    ELSE IF v.class = "zero" THEN SignedZero(to, v.sign)
    ELSE RoundAndPack(to, mode, v.sign, v.sig, v.exp)

\* A written number: its sign, its digits as one whole number, and how many of
\* them stood after the point. `wrong` is why it could not be read.
Digits == <<"0", "1", "2", "3", "4", "5", "6", "7", "8", "9">>
Nought == [wrong |-> "no", any |-> FALSE, digits |-> 0, places |-> 0, point |-> FALSE]
Char(c, so) ==
    IF so.wrong # "no" THEN so
    ELSE IF c = "." THEN IF so.point THEN [so EXCEPT !.wrong = "two points"] ELSE [so EXCEPT !.point = TRUE]
    ELSE IF \A d \in 1..10 : Digits[d] # c THEN [so EXCEPT !.wrong = "unexpected"]
    ELSE LET digits == so.digits * 10 + (CHOOSE d \in 1..10 : Digits[d] = c) - 1 IN
         IF digits >= 2 ^ WideBits THEN [so EXCEPT !.wrong = "too long"]
         ELSE [so EXCEPT !.any = TRUE, !.digits = digits, !.places = IF so.point THEN @ + 1 ELSE @]
Chars(text, from) ==
    LET read[i \in from - 1..Len(text)] == IF i < from THEN Nought ELSE Char(text[i], read[i - 1])
        all == read[Len(text)]
    IN  IF all.wrong = "no" /\ ~all.any THEN [all EXCEPT !.wrong = "no digits"] ELSE all

Read(bits) == [wrong |-> "no", bits |-> bits]
Unread(why) == [wrong |-> why, bits |-> 0]
\* A whole number goes straight to the rounding; otherwise one division by the
\* power of ten, what is left over its last bit.
FromDecimal(fmt, mode, text) ==
    LET signs == Len(text) > 0 /\ text[1] \in {"-", "+"}
        negative == Len(text) > 0 /\ text[1] = "-"
        so == Chars(text, IF signs THEN 2 ELSE 1)
        divisor == 10 ^ so.places
        shift == Spare(fmt.precision + Guard + BitLen(divisor) - BitLen(so.digits))
        scaled == so.digits * 2 ^ shift
        quotient == Sticky(scaled \div divisor, scaled % divisor # 0)
    IN  IF so.wrong # "no" THEN Unread(so.wrong)
        ELSE IF so.places = 0 THEN
            IF BitLen(so.digits) > Width(fmt) THEN Unread("too long")
            ELSE Read(RoundAndPack(fmt, mode, negative, so.digits, 0))
        ELSE IF divisor >= 2 ^ WideBits \/ BitLen(so.digits) + shift > WideBits \/ BitLen(quotient) > Width(fmt)
             THEN Unread("too long")
        ELSE Read(RoundAndPack(fmt, mode, negative, quotient, -shift))
=============================================================================
