------------------------------ MODULE Numbers ------------------------------
(* The numbers a program computes with, an operation at a time: an           *)
(* accumulator holds a value of one format, an operand and an operation are  *)
(* fetched, and the operation of that format answers (luarust-core/value.rs, *)
(* `binary_op` and what it calls). A format is one of five units: a binary   *)
(* float, a decimal, an exact rational, the whole numbers the first two are  *)
(* worked out in, or an integer of the machine's width, which the engines    *)
(* share their arithmetic of and compiled code has its own of.               *)
EXTENDS Words, Rounding, DecRounding, WideInts, Ratios

Doing(unit, op) == fmt.unit = unit /\ Given(op)
Answer(value) == Becomes(value)
Say(ordering) == Tells(ordering)

FloatAdd == Doing("float", "add") /\ Answer(Add(fmt, todo.mode, acc, todo.with))
FloatSub == Doing("float", "sub") /\ Answer(Sub(fmt, todo.mode, acc, todo.with))
FloatMul == Doing("float", "mul") /\ Answer(Mul(fmt, todo.mode, acc, todo.with))
FloatDiv == Doing("float", "div") /\ Answer(Div(fmt, todo.mode, acc, todo.with))
FloatSqrt == Doing("float", "sqrt") /\ Answer(Sqrt(fmt, todo.mode, acc))
FloatRem == Doing("float", "rem") /\ Answer(Remainder(fmt, acc, todo.with))
FloatMod == Doing("float", "mod") /\ Answer(Mod(fmt, todo.by, acc, todo.with))
\* A fault stops the program, and the value stays what it was.
FloatPow ==
    LET power == Pow(fmt, acc, todo.with) IN
    Doing("float", "pow") /\ Answer(IF power.wrong = "no" THEN power.bits ELSE acc)
FloatCompare == Doing("float", "compare") /\ Say(CompareFloats(fmt, acc, todo.with))
\* From another format, whose value the operand is.
FloatConvert == Doing("float", "convert") /\ Answer(Convert(todo.by, fmt, todo.mode, todo.with))
\* A number that cannot be read leaves the accumulator as it was.
FloatRead ==
    LET read == FromDecimal(fmt, todo.mode, todo.with) IN
    Doing("float", "read") /\ Answer(IF read.wrong = "no" THEN read.bits ELSE acc)

\* decimal_op: taken apart, worked out to nearest, and packed again.
Taken(value) == DecUnpack(fmt, value, FALSE)
DecAnswer(value) == Answer(DecPack(fmt, value, FALSE))
DecimalAdd == Doing("decimal", "add") /\ DecAnswer(DecAdd(fmt, "even", Taken(acc), Taken(todo.with)))
DecimalSub == Doing("decimal", "sub") /\ DecAnswer(DecSub(fmt, "even", Taken(acc), Taken(todo.with)))
DecimalMul == Doing("decimal", "mul") /\ DecAnswer(DecMul(fmt, "even", Taken(acc), Taken(todo.with)))
DecimalDiv == Doing("decimal", "div") /\ DecAnswer(DecDiv(fmt, "even", Taken(acc), Taken(todo.with)))
DecimalPow == Doing("decimal", "pow") /\ DecAnswer(DecPow(fmt, "even", Taken(acc), Taken(todo.with)))
DecimalMod == Doing("decimal", "mod") /\ DecAnswer(DecMod(fmt, todo.by, Taken(acc), Taken(todo.with)))
DecimalCompare == Doing("decimal", "compare") /\ Say(DecCompare(fmt, Taken(acc), Taken(todo.with)))
\* Through a chunk whose project asked for the other encoding.
DecimalSave == Doing("decimal", "save") /\ Answer(Loaded(fmt, Saved(fmt, acc, todo.by), todo.by))

WholeAdd == Doing("whole", "add") /\ Answer(WrappingAdd(acc, todo.with))
WholeSub == Doing("whole", "sub") /\ Answer(WrappingSub(acc, todo.with))
WholeMul == Doing("whole", "mul") /\ Answer(MulWide(acc, todo.with).low)
WholeHigh == Doing("whole", "high") /\ Answer(MulWide(acc, todo.with).high)
WholeDiv == Doing("whole", "div") /\ ~UintIsZero(todo.with) /\ Answer(DivRem(acc, todo.with).quot)
WholeMod == Doing("whole", "mod") /\ ~UintIsZero(todo.with) /\ Answer(DivRem(acc, todo.with).rem)
WholeRoot == Doing("whole", "sqrt") /\ Answer(UintRoot(acc).root)
WholeShl == Doing("whole", "shl") /\ Answer(UintShl(acc, todo.by))
WholeShr == Doing("whole", "shr") /\ Answer(UintShr(acc, todo.by))
\* A bit below what is kept leaves its mark on the last that is.
WholeSticky == Doing("whole", "sticky") /\ Answer(
    IF AnyBelow(acc, todo.by) THEN WithBit(UintShr(acc, todo.by), 0) ELSE UintShr(acc, todo.by))
WholeKeep == Doing("whole", "keep") /\ Answer(UintAnd(acc, LowMask(todo.by)))
WholeCompare == Doing("whole", "compare") /\ Say(UintCompare(acc, todo.with))

\* exact_op: trouble stops the program, and the value stays what it was.
RatAnswer(value) == Answer(IF value.wrong = "no" THEN value ELSE acc)
RatioAdd == Doing("ratio", "add") /\ RatAnswer(RatAdd(acc, todo.with))
RatioSub == Doing("ratio", "sub") /\ RatAnswer(RatSub(acc, todo.with))
RatioMul == Doing("ratio", "mul") /\ RatAnswer(RatMul(acc, todo.with))
RatioDiv == Doing("ratio", "div") /\ RatAnswer(RatDiv(acc, todo.with))
RatioMod == Doing("ratio", "mod") /\ RatAnswer(RatMod(todo.by, acc, todo.with))
RatioPow == Doing("ratio", "pow") /\ RatAnswer(RatPow(acc, todo.with))
RatioCompare == Doing("ratio", "compare") /\ Say(RatCompare(acc, todo.with))

OfFloats ==
    \/ FloatAdd \/ FloatSub \/ FloatMul \/ FloatDiv \/ FloatSqrt \/ FloatPow
    \/ FloatRem \/ FloatCompare \/ FloatMod \/ FloatConvert \/ FloatRead
OfDecimals == DecimalAdd \/ DecimalSub \/ DecimalMul \/ DecimalDiv \/ DecimalPow \/ DecimalMod \/ DecimalCompare \/ DecimalSave
OfWholes ==
    \/ WholeAdd \/ WholeSub \/ WholeMul \/ WholeHigh \/ WholeDiv
    \/ WholeMod \/ WholeRoot \/ WholeShl \/ WholeShr \/ WholeSticky \/ WholeKeep \/ WholeCompare
OfRatios == RatioAdd \/ RatioSub \/ RatioMul \/ RatioDiv \/ RatioMod \/ RatioPow \/ RatioCompare
NumbersNext == Take \/ Fetch \/ Branch \/ OfFloats \/ OfDecimals \/ OfWholes \/ OfRatios \/ OfWords
NumbersSpec == Init /\ [][NumbersNext]_vars

-----------------------------------------------------------------------------
(* What the operations answer *)

Standing(x, y) == IF x < y THEN "less" ELSE IF x > y THEN "greater" ELSE "equal"

\* The exact remainder of two finite floats, in quanta, by each convention.
Wanted(by, a, b) ==
    LET y == Number(fmt, b)
        left == Size(Number(fmt, a)) % Size(y)
        dividends == IF Negative(fmt, a) THEN -left ELSE left
    IN  CASE by = "truncated" -> dividends
          [] by = "floored" -> IF left # 0 /\ (dividends < 0) # (y < 0) THEN dividends + y ELSE dividends
          [] by = "euclidean" -> IF dividends < 0 THEN dividends + Size(y) ELSE dividends
Held(n) == \E m \in 0..Top(fmt) - 1 : Quanta(fmt, m) = Size(n)
HasRemainder(a, b) == IsFinite(fmt, a) /\ IsFinite(fmt, b) /\ ~IsZero(fmt, b)

ModRight(answer) ==
    LET wanted == Wanted(todo.by, acc, todo.with)
        floored == Wanted("floored", acc, todo.with)
    IN  HasRemainder(acc, todo.with) =>
            IF wanted = 0 THEN IsZero(fmt, answer)
            ELSE todo.by = "floored" \/ Held(floored) =>
                answer = Rounded(fmt, "even", wanted < 0, Size(wanted), 1)

\* A power whose products the format all holds is exact, and its reciprocal is
\* rounded once; an exponent the count does not reach is refused.
PowRight(answer) ==
    LET whole == IsFinite(fmt, todo.with) /\ Number(fmt, todo.with) % One(fmt) = 0
        below == Negative(fmt, todo.with)
        times == Size(Number(fmt, todo.with)) \div One(fmt)
        odd == Negative(fmt, acc) /\ times % 2 = 1
        product[n \in 0..times] == IF n = 0 THEN One(fmt) ELSE (product[n - 1] * Number(fmt, acc)) \div One(fmt)
        exact == \A n \in 1..times :
                    (product[n - 1] * Number(fmt, acc)) % One(fmt) = 0 /\ Held(product[n])
    IN  IF ~whole \/ times > CountLimit \/ times > 2 ^ fmt.precision THEN answer = acc
        ELSE IF times = 0 THEN Number(fmt, answer) = One(fmt)
        ELSE IF IsNan(fmt, acc) THEN IsQuiet(fmt, answer)
        ELSE IF IsZero(fmt, acc) \/ IsInfinite(fmt, acc) THEN
            answer = WithSign(fmt, odd, IF IsZero(fmt, acc) = below THEN Top(fmt) ELSE 0)
        ELSE exact => answer = IF below THEN Rounded(fmt, "even", odd, One(fmt) * One(fmt), Size(product[times]))
                               ELSE Rounded(fmt, "even", odd, Size(product[times]), 1)

ConvertRight(answer) ==
    LET from == todo.by
        quanta == Quanta(from, Abs(from, todo.with))
        finer == MinQuantum(from) - MinQuantum(fmt)
        sign == Negative(from, todo.with)
    IN  IF IsNan(from, todo.with) THEN IsQuiet(fmt, answer) /\ Negative(fmt, answer) = sign
        ELSE answer = IF IsInfinite(from, todo.with) THEN WithSign(fmt, sign, Top(fmt))
                      ELSE Rounded(fmt, todo.mode, sign, quanta * 2 ^ Spare(finer), 2 ^ Spare(-finer))

\* What a text says: its digits, wherever the point is, over a ten for each
\* after it. The texts fetched are within the digits that can be read.
ReadRight(answer) ==
    LET text == todo.with
        points == {i \in 1..Len(text) : text[i] = "."}
        numerals == {i \in 1..Len(text) : \E d \in 1..10 : Digits[d] = text[i]}
        signs == {i \in 1..Len(text) : i = 1 /\ text[i] \in {"-", "+"}}
        told == 1..Len(text) = points \cup numerals \cup signs /\ numerals # {} /\ Cardinality(points) <= 1
        after == Cardinality({i \in numerals : \E j \in points : j < i})
        place(i) == Cardinality({j \in numerals : j > i})
        whole == MapThenSumSet(LAMBDA i : 10 ^ place(i) * ((CHOOSE d \in 1..10 : Digits[d] = text[i]) - 1), numerals)
    IN  answer = IF told THEN Rounded(fmt, todo.mode, text[1] = "-", whole * One(fmt), 10 ^ after) ELSE acc

FloatOrder(a, b) ==
    LET place(v) == IF Negative(fmt, v) THEN -Quanta(fmt, Abs(fmt, v)) ELSE Quanta(fmt, Abs(fmt, v))
    IN  IF IsNan(fmt, a) \/ IsNan(fmt, b) THEN "unordered" ELSE Standing(place(a), place(b))

\* Every answer of a float is the one number of its format nearest the exact
\* answer in the direction asked for, a NaN only where there is no answer, and
\* then a quiet one (binary/mod.rs, round_and_pack; arith.rs; literal.rs;
\* value.rs, float_remainder).
FloatsRoundOnce == [][Worked("float") =>
    CASE Given("convert") -> ConvertRight(acc')
      [] Given("read") -> ReadRight(acc')
      [] Given("mod") -> ModRight(acc')
      [] Given("pow") -> PowRight(acc')
      [] Given("compare") -> said' = FloatOrder(acc, todo.with)
      [] OTHER -> IF Invalid(fmt, todo.op, acc, todo.with) THEN IsQuiet(fmt, acc')
                  ELSE ~IsNan(fmt, acc') /\ Right(fmt, todo.op, todo.mode, acc, todo.with, acc')]_vars

\* Of two finite decimals with an answer.
Answerable(a, b) ==
    /\ a.class = "finite" /\ b.class = "finite"
    /\ todo.op \in {"div", "mod"} => ~IsNought(b)

\* Every answer of a decimal is the number of its format nearest the exact
\* answer, where the operands are near enough for the code to reach it; and a
\* chunk written in either encoding reads back the numbers it was written from
\* (decimal/mod.rs, ops.rs, dpd.rs; serialize.rs, recode).
DecimalsInReach == [][Worked("decimal") =>
    IF Given("save") THEN acc' = acc
    ELSE Answerable(Taken(acc), Taken(todo.with)) /\ Reaches(fmt, todo.op, Taken(acc), Taken(todo.with)) =>
        CASE Given("pow") -> DecPowRight(fmt, Taken(acc), Taken(todo.with), Taken(acc'))
          [] Given("compare") -> said' = DecOrder(fmt, Taken(acc), Taken(todo.with))
          [] Given("mod") -> DecModRight(fmt, todo.by, Taken(acc), Taken(todo.with), Taken(acc'))
          [] OTHER -> DecRight(fmt, todo.op, Taken(acc), Taken(todo.with), Taken(acc'))]_vars

\* A sum of decimals is the nearest to the exact one however far apart the two
\* are: the smaller "still decides a tie" (decimal/ops.rs:49).
SumsReachAnywhere == [][Worked("decimal") /\ Given("add") /\ Answerable(Taken(acc), Taken(todo.with)) =>
    DecRight(fmt, "add", Taken(acc), Taken(todo.with), Taken(acc'))]_vars

\* What the limbs of a whole number spell.
Spelt(u) == LET upto[i \in 0..Limbs] == IF i = 0 THEN 0 ELSE upto[i - 1] + u[i] * Base ^ (i - 1) IN upto[Limbs]
WholeRight(a, b, by, answer) ==
    LET modulus == 2 ^ Bits
        kept == a \div 2 ^ by
    IN  CASE Given("compare") -> answer = a /\ said' = Standing(a, b)
          [] Given("add") -> answer = (a + b) % modulus
          [] Given("sub") -> answer = (a - b) % modulus
          [] Given("mul") -> answer = (a * b) % modulus
          [] Given("high") -> answer = (a * b) \div modulus
          [] Given("div") -> answer = a \div b
          [] Given("mod") -> answer = a % b
          [] Given("sqrt") -> answer * answer <= a /\ a < (answer + 1) * (answer + 1)
          [] Given("shl") -> answer = (a * 2 ^ by) % modulus
          [] Given("shr") -> answer = kept
          [] Given("sticky") -> answer = IF kept * 2 ^ by # a /\ kept % 2 = 0 THEN kept + 1 ELSE kept
          [] Given("keep") -> answer = a % 2 ^ by

\* Two rationals are the same number, and one is in its only shape.
Same(n, d, v) == n * v.den = v.num * d
OneShape(v) == v.den > 0 /\ \A k \in 2..v.den : v.den % k # 0 \/ v.num % k # 0
OnItsSide(a, b, left) ==
    CASE todo.by = "floored" -> (left.num < 0) = (b.num < 0)
      [] todo.by = "truncated" -> (left.num < 0) = (a.num < 0)
      [] todo.by = "euclidean" -> left.num > 0
RatioRight(a, b, answer) ==
    CASE Given("compare") -> answer = a /\ said' = Standing(a.num * b.den, b.num * a.den)
      [] Given("add") -> Same(a.num * b.den + b.num * a.den, a.den * b.den, answer)
      [] Given("sub") -> Same(a.num * b.den - b.num * a.den, a.den * b.den, answer)
      [] Given("mul") -> Same(a.num * b.num, a.den * b.den, answer)
      [] Given("div") -> IF b.num = 0 THEN answer = a ELSE Same(a.num * b.den, a.den * b.num, answer)
      [] Given("mod") ->
            IF b.num = 0 THEN answer = a
            ELSE \* a multiple of the divisor away, nearer nought than it, and
                 \* on the side the convention says
                 /\ ((a.num * answer.den - answer.num * a.den) * b.den) % (a.den * answer.den * Size(b.num)) = 0
                 /\ Size(answer.num) * b.den < Size(b.num) * answer.den
                 /\ answer.num # 0 => OnItsSide(a, b, answer)
      [] Given("pow") ->
            LET times == Size(b.num) IN
            IF b.den # 1 \/ times > PowerLimit \/ (a.num = 0 /\ b.num < 0) THEN answer = a
            ELSE IF times = 0 THEN answer.num = 1
            ELSE IF b.num > 0 THEN Same(a.num ^ times, a.den ^ times, answer)
            ELSE Same(a.den ^ times, a.num ^ times, answer)

\* Nothing an exact operation works out is lost: the limbs of a whole number
\* spell what the integers say, and a rational is the exact answer in the one
\* shape that makes equal numbers equal (uint.rs; exact.rs; big.rs, gcd).
NothingIsLost == [][
    /\ Worked("whole") => WholeRight(Spelt(acc), Spelt(todo.with), todo.by, Spelt(acc'))
    /\ Worked("ratio") => OneShape(acc') /\ RatioRight(acc, todo.with, acc')]_vars
=============================================================================
