-------------------------- MODULE ArithmeticProofs --------------------------
(* Proofs about whole numbers, for every width: that the intervals of        *)
(* range.rs hold what the arithmetic of value.rs answers, and that compiled  *)
(* code, which has its own arithmetic, answers the same. What the walk over  *)
(* a program does with the intervals is checked by TLC in Machine.           *)
EXTENDS RangeOps, Words, NatFacts

Ranges == [known : BOOLEAN, lo : Int, hi : Int]
Integers_ == {"int", "nat"}
Settings == [overflow : {"wrap", "trap"}, division : {"floored", "truncated", "euclidean"}]

-----------------------------------------------------------------------------
(* Cutting *)

\* What cutting to a width (`Whole`) leaves is less than the modulus.
LEMMA ModRange ==
    ASSUME NEW n \in Int, NEW m \in Nat \ {0}
    PROVE  n % m \in 0 .. m - 1
  OBVIOUS

\* A number that fits unsigned is cut to itself.
LEMMA ModSmall ==
    ASSUME NEW n \in Int, NEW m \in Nat \ {0}, 0 <= n, n < m
    PROVE  n % m = n
  OBVIOUS

\* A negative one is cut to its two's complement.
LEMMA ModBelow ==
    ASSUME NEW n \in Int, NEW m \in Nat \ {0}, -m <= n, n < 0
    PROVE  n % m = n + m
  OBVIOUS

\* Cutting a number to its type leaves one the type has room for, and the
\* same one when it had room before.
LEMMA WholeFits ==
    ASSUME NEW ty \in Integers_, NEW n \in Int
    PROVE  /\ NumberOf(Whole(ty, n)) \in Int
           /\ Fits(ty, NumberOf(Whole(ty, n)))
           /\ Fits(ty, n) => NumberOf(Whole(ty, n)) = n
  <1> DEFINE bits == n % (2 * Half)
  <1>1. /\ bits \in 0 .. 2 * Half - 1
        /\ 0 <= n /\ n < 2 * Half => bits = n
        /\ -(2 * Half) <= n /\ n < 0 => bits = n + 2 * Half
    <2>1. Half \in Nat \ {0} /\ 2 * Half \in Nat \ {0}
      BY HalfAssumption
    <2>2. bits \in 0 .. 2 * Half - 1
      BY <2>1, ModRange
    <2>3. 0 <= n /\ n < 2 * Half => bits = n
      BY <2>1, ModSmall
    <2>4. -(2 * Half) <= n /\ n < 0 => bits = n + 2 * Half
      BY <2>1, ModBelow
    <2> QED BY <2>2, <2>3, <2>4
  <1> HIDE DEF bits
  <1>2. NumberOf([ty |-> ty, bits |-> bits]) =
            IF ty = "int" /\ bits >= Half THEN bits - 2 * Half ELSE bits
    BY DEF NumberOf, Integers_
  <1>3. Whole(ty, n) = [ty |-> ty, bits |-> bits]
    BY DEF Whole, bits
  <1>4. CASE ty = "int"
    BY <1>1, <1>2, <1>3, <1>4, HalfAssumption DEF Fits, Lowest, Highest, IsSigned
  <1>5. CASE ty = "nat"
    BY <1>1, <1>2, <1>3, <1>5, HalfAssumption DEF Fits, Lowest, Highest, IsSigned
  <1> QED BY <1>4, <1>5 DEF Integers_

\* Where Held says an answer is, the type's cut of it is, if the answer had
\* room or the program wraps.
LEMMA HeldHolds ==
    ASSUME NEW ty \in Integers_, NEW p \in Settings, NEW n \in Int,
           NEW exact \in Ranges, Allows(exact, n), p.overflow = "trap" => Fits(ty, n)
    PROVE  Allows(Held(exact, ty, p), NumberOf(Whole(ty, n)))
  <1> DEFINE whole == TyRange(ty)
             answer == NumberOf(Whole(ty, n))
  <1>1. whole.known /\ whole.lo = Lowest(ty) /\ whole.hi = Highest(ty)
    BY DEF TyRange, IsInteger, Integers_, Between
  <1>2. Lowest(ty) \in Int /\ Highest(ty) \in Int
    BY HalfAssumption DEF Lowest, Highest
  <1>3. /\ answer \in Int
        /\ Lowest(ty) <= answer /\ answer <= Highest(ty)
        /\ Fits(ty, n) => answer = n
    BY WholeFits DEF Fits
  <1> HIDE DEF answer
  <1>4. exact.known \in BOOLEAN /\ exact.lo \in Int /\ exact.hi \in Int
    BY DEF Ranges
  <1>5. p.overflow \in {"wrap", "trap"}
    BY DEF Settings
  <1>6. CASE ~exact.known
    BY <1>1, <1>3, <1>6 DEF Held, Allows, answer
  <1>7. CASE exact.known /\ exact.lo >= Lowest(ty) /\ exact.hi <= Highest(ty)
    BY <1>1, <1>2, <1>3, <1>4, <1>7 DEF Held, Allows, Fits, answer
  <1>8. CASE exact.known /\ ~(exact.lo >= Lowest(ty) /\ exact.hi <= Highest(ty))
    <2>1. Allows(Held(exact, ty, p), answer)
      BY <1>1, <1>2, <1>3, <1>4, <1>5, <1>8 DEF Held, Allows, Fits, Between, Lesser, Greater
    <2> QED BY <2>1 DEF answer
  <1> QED BY <1>4, <1>6, <1>7, <1>8

-----------------------------------------------------------------------------
(* Facts of arithmetic *)

\* A product grows with a factor when the other is not negative.
LEMMA TimesUp ==
    ASSUME NEW x \in Int, NEW y \in Int, NEW z \in Int, x <= y, 0 <= z
    PROVE  x * z <= y * z
  OBVIOUS

\* And shrinks when the other is not positive.
LEMMA TimesDown ==
    ASSUME NEW x \in Int, NEW y \in Int, NEW z \in Int, x <= y, z <= 0
    PROVE  y * z <= x * z
  OBVIOUS

\* The quotient and what remains of a division by a positive number.
LEMMA DivMod ==
    ASSUME NEW a \in Int, NEW b \in Nat \ {0}
    PROVE  a \div b \in Int /\ a - (a \div b) * b \in 0 .. b - 1
  OBVIOUS

\* A quotient grows with the dividend and shrinks with the divisor: the two
\* ends `eval` gives a division.
LEMMA DivGrows ==
    ASSUME NEW a \in Int, NEW b \in Int, NEW c \in Int, NEW d \in Int,
           0 <= a, a <= c, 1 <= b, b <= d
    PROVE  a \div d <= c \div b
  <1> DEFINE q == a \div d
             u == c \div b
  <1>1. q \in Int /\ q * d <= a
    BY DivMod
  <1>2. u \in Int /\ c < u * b + b
    BY DivMod
  <1>3. 0 <= u
    BY <1>2, TimesUp
  <1> HIDE DEF q, u
  <1>4. SUFFICES ASSUME u + 1 <= q PROVE FALSE
    BY <1>1, <1>2 DEF q, u
  <1>5. (u + 1) * b <= (u + 1) * d /\ (u + 1) * d <= q * d
    BY <1>1, <1>2, <1>3, <1>4, TimesUp
  <1>6. (u + 1) * b = u * b + b
    BY <1>2
  <1> QED BY <1>1, <1>2, <1>5, <1>6

\* A product of a number between two is between their products.
LEMMA BetweenProducts ==
    ASSUME NEW x \in Int, NEW lo \in Int, NEW hi \in Int, NEW z \in Int, lo <= x, x <= hi
    PROVE  /\ lo * z <= x * z \/ hi * z <= x * z
           /\ x * z <= lo * z \/ x * z <= hi * z
  BY TimesUp, TimesDown

\* The corners of `mul` are bounds.
LEMMA ProductHolds ==
    ASSUME NEW l \in Ranges, NEW r \in Ranges, l.known, r.known,
           NEW a \in Int, NEW b \in Int, Allows(l, a), Allows(r, b)
    PROVE  Product(l, r) \in Ranges /\ Allows(Product(l, r), a * b)
  <1>1. /\ l.lo \in Int /\ l.hi \in Int /\ r.lo \in Int /\ r.hi \in Int
        /\ l.lo <= a /\ a <= l.hi /\ r.lo <= b /\ b <= r.hi
    BY DEF Ranges, Allows
  <1> DEFINE ll == l.lo * r.lo
             lh == l.lo * r.hi
             hl == l.hi * r.lo
             hh == l.hi * r.hi
             ab == a * b
  <1>2. ll \in Int /\ lh \in Int /\ hl \in Int /\ hh \in Int /\ ab \in Int
    BY <1>1
  <1>3. /\ l.lo * b <= ab \/ l.hi * b <= ab
        /\ ab <= l.lo * b \/ ab <= l.hi * b
    BY <1>1, BetweenProducts
  <1>4. /\ ll <= l.lo * b \/ lh <= l.lo * b
        /\ l.lo * b <= ll \/ l.lo * b <= lh
    BY <1>1, BetweenProducts
  <1>5. /\ hl <= l.hi * b \/ hh <= l.hi * b
        /\ l.hi * b <= hl \/ l.hi * b <= hh
    BY <1>1, BetweenProducts
  <1>6. l.lo * b \in Int /\ l.hi * b \in Int
    BY <1>1
  <1>7. Product(l, r) = Between(Lesser(Lesser(ll, lh), Lesser(hl, hh)),
                                Greater(Greater(ll, lh), Greater(hl, hh)))
    BY DEF Product
  <1> HIDE DEF ll, lh, hl, hh, ab
  <1>8. Product(l, r) \in Ranges /\ Allows(Product(l, r), ab)
    BY <1>2, <1>3, <1>4, <1>5, <1>6, <1>7 DEF Allows, Ranges, Between, Lesser, Greater
  <1> QED BY <1>8 DEF ab

-----------------------------------------------------------------------------
(* The operations *)

\* Against a divisor at or above one, every convention's remainder is smaller
\* than it, and only the truncated one goes below nought, with its dividend.
LEMMA Remains ==
    ASSUME NEW p \in Settings, NEW a \in Int, NEW b \in Int, 1 <= b
    PROVE  /\ Quotient(a, b, p) \in Int
           /\ a - Quotient(a, b, p) * b \in -(b - 1) .. b - 1
           /\ a >= 0 \/ p.division # "truncated" => a - Quotient(a, b, p) * b >= 0
           /\ a >= 0 => Quotient(a, b, p) = a \div b
  <1> DEFINE q == Toward(a, b)
             rest == a - q * b
  <1>1. CASE a >= 0
    <2>1. q = a \div b
      BY <1>1 DEF Toward
    <2>2. q \in Int /\ rest \in 0 .. b - 1
      BY <2>1, DivMod
    <2> HIDE DEF q
    <2>3. Quotient(a, b, p) = q
      BY <2>2 DEF Quotient, Settings, q
    <2> QED BY <2>1, <2>2, <2>3, <1>1
  <1>2. CASE a < 0
    <2>1. q = -((-a) \div b)
      BY <1>2 DEF Toward
    <2>2. (-a) \div b \in Int /\ (-a) - ((-a) \div b) * b \in 0 .. b - 1
      BY DivMod
    <2>3. q \in Int /\ rest \in -(b - 1) .. 0
      BY <2>1, <2>2
    <2>4. (q - 1) * b = q * b - b
      BY <2>3
    <2>5. Quotient(a, b, p) = IF rest = 0 \/ p.division = "truncated" THEN q ELSE q - 1
      <3> HIDE DEF q
      <3> QED BY <2>3 DEF Quotient, Settings, q
    <2> HIDE DEF q
    <2>6. CASE rest = 0 \/ p.division = "truncated"
      BY <2>3, <2>5, <2>6, <1>2
    <2>7. CASE ~(rest = 0 \/ p.division = "truncated")
      BY <2>3, <2>4, <2>5, <2>7, <1>2
    <2> QED BY <2>6, <2>7
  <1> QED BY <1>1, <1>2

\* Against a negative divisor the remainder is still smaller than it.
LEMMA RemainsNegative ==
    ASSUME NEW p \in Settings, NEW a \in Int, NEW b \in Int, b <= -1
    PROVE  /\ Quotient(a, b, p) \in Int
           /\ a - Quotient(a, b, p) * b \in b + 1 .. -b - 1
  <1> DEFINE q == Toward(a, b)
             rest == a - q * b
  <1>1. \A x \in Int : x \div (-b) \in Int /\ x - (x \div (-b)) * (-b) \in 0 .. -b - 1
    <2>1. -b \in Nat \ {0}
      OBVIOUS
    <2> QED BY <2>1, DivMod
  <1>2. q \in Int /\ rest \in b + 1 .. -b - 1
    <2>1. CASE a >= 0
      <3>1. a \div (-b) \in Int /\ a - (a \div (-b)) * (-b) \in 0 .. -b - 1
        BY <1>1
      <3>2. q = -(a \div (-b))
        BY <2>1 DEF Toward
      <3> QED BY <3>1, <3>2
    <2>2. CASE a < 0
      <3>1. (-a) \div (-b) \in Int /\ (-a) - ((-a) \div (-b)) * (-b) \in 0 .. -b - 1
        <4>1. -a \in Int
          OBVIOUS
        <4> QED BY <1>1, <4>1
      <3>2. q = (-a) \div (-b)
        BY <2>2 DEF Toward
      <3> QED BY <3>1, <3>2
    <2> QED BY <2>1, <2>2
  <1>3. Quotient(a, b, p) = q \/ (rest > 0 /\ Quotient(a, b, p) = q - 1)
                           \/ (rest < 0 /\ Quotient(a, b, p) = q + 1)
    <2> HIDE DEF q
    <2>1. CASE rest = 0
      BY <2>1 DEF Quotient, q
    <2>2. CASE rest > 0
      BY <1>2, <2>2 DEF Quotient, Settings, q
    <2>3. CASE rest < 0
      BY <1>2, <2>3 DEF Quotient, Settings, q
    <2> QED BY <1>2, <2>1, <2>2, <2>3
  <1> HIDE DEF q
  <1>4. (q - 1) * b = q * b - b /\ (q + 1) * b = q * b + b
    BY <1>2
  <1> QED BY <1>2, <1>3, <1>4

\* What an operation answers in the integers, before its type cuts it.
Answer(op, a, b, p) ==
    CASE op = "add" -> a + b
      [] op = "sub" -> a - b
      [] op = "mul" -> a * b
      [] op = "div" -> Quotient(a, b, p)
      [] op = "mod" -> a - Quotient(a, b, p) * b

\* The interval of an operation before its type is held against it allows
\* that number.
LEMMA ExactHolds ==
    ASSUME NEW op \in {"add", "sub", "mul", "div", "mod"}, NEW p \in Settings,
           NEW l \in Ranges, NEW r \in Ranges, l.known, r.known,
           NEW a \in Int, NEW b \in Int, Allows(l, a), Allows(r, b)
    PROVE  Exact(op, l, r, p) \in Ranges /\ Allows(Exact(op, l, r, p), Answer(op, a, b, p))
  <1>1. /\ l.lo \in Int /\ l.hi \in Int /\ r.lo \in Int /\ r.hi \in Int
        /\ l.lo <= a /\ a <= l.hi /\ r.lo <= b /\ b <= r.hi
    BY DEF Ranges, Allows
  <1>2. CASE op = "add"
    BY <1>1, <1>2 DEF Exact, Answer, Ranges, Allows, Between
  <1>3. CASE op = "sub"
    BY <1>1, <1>3 DEF Exact, Answer, Ranges, Allows, Between
  <1>4. CASE op = "mul"
    BY <1>4, ProductHolds DEF Exact, Answer
  <1>5. CASE op = "div" /\ l.lo >= 0 /\ r.lo >= 1
    <2> 1 <= b /\ 0 <= a
      BY <1>1, <1>5
    <2>1. Quotient(a, b, p) = a \div b
      BY Remains
    <2>2. b \in Nat \ {0} /\ r.lo \in Nat \ {0} /\ r.hi \in Nat \ {0}
      BY <1>1, <1>5
    <2>5. a \div b \in Int /\ l.lo \div r.hi \in Int /\ l.hi \div r.lo \in Int
      BY <1>1, <2>2, DivMod
    <2>6. Answer(op, a, b, p) = a \div b
      BY <1>5, <2>1 DEF Answer
    <2>3. l.lo \div r.hi <= a \div b /\ a \div b <= l.hi \div r.lo
      BY <1>1, <1>5, DivGrows
    <2>4. Exact(op, l, r, p) = Between(l.lo \div r.hi, l.hi \div r.lo)
      BY <1>5 DEF Exact
    <2> QED BY <2>3, <2>4, <2>5, <2>6 DEF Ranges, Allows, Between
  <1>6. CASE op = "mod" /\ r.lo >= 1
    <2> DEFINE rest == a - Quotient(a, b, p) * b
    <2>1. /\ rest \in -(b - 1) .. b - 1
          /\ a >= 0 \/ p.division # "truncated" => rest >= 0
      BY <1>1, <1>6, Remains
    <2>2. Answer(op, a, b, p) = rest
      BY <1>6 DEF Answer
    <2> DEFINE low == IF p.division = "truncated" /\ l.lo < 0 THEN -(r.hi - 1) ELSE 0
    <2>3. Exact(op, l, r, p) = Between(low, r.hi - 1)
      BY <1>6 DEF Exact
    <2> HIDE DEF rest
    <2>4. low \in Int /\ low <= rest /\ rest <= r.hi - 1
      BY <1>1, <1>6, <2>1
    <2>5. rest \in Int /\ r.hi - 1 \in Int
      BY <1>1, <2>1
    <2> HIDE DEF low
    <2> QED BY <2>2, <2>3, <2>4, <2>5 DEF Ranges, Allows, Between
  <1>7. CASE \/ op = "div" /\ ~(l.lo >= 0 /\ r.lo >= 1)
             \/ op = "mod" /\ ~(r.lo >= 1)
    BY <1>7 DEF Exact, Ranges, Allows, Anything
  <1> QED BY <1>2, <1>3, <1>4, <1>5, <1>6, <1>7

\* The answer of an operation that is not refused is that number, cut; and
\* when the program traps it had room.
LEMMA AnswerCut ==
    ASSUME NEW op \in {"add", "sub", "mul", "div", "mod"}, NEW ty \in Integers_,
           NEW p \in Settings, NEW a \in Int, NEW b \in Int, Fits(ty, a), Fits(ty, b),
           IntOp(op, ty, a, b, p).code = "none"
    PROVE  /\ Answer(op, a, b, p) \in Int
           /\ IntOp(op, ty, a, b, p).value = Whole(ty, Answer(op, a, b, p))
           /\ p.overflow = "trap" => Fits(ty, Answer(op, a, b, p))
  <1> DEFINE n == Answer(op, a, b, p)
  <1>1. ASSUME NEW m \in Int, Cut(ty, m, p).code = "none"
        PROVE  Cut(ty, m, p).value = Whole(ty, m) /\ (p.overflow = "trap" => Fits(ty, m))
    BY <1>1 DEF Cut, Refused, Answered
  <1>2. CASE op \in {"add", "sub", "mul"}
    <2>1. n \in Int /\ IntOp(op, ty, a, b, p) = Cut(ty, n, p)
      BY <1>2 DEF Answer, IntOp
    <2> HIDE DEF n
    <2> QED BY <1>1, <2>1 DEF n
  <1>3. CASE op \in {"div", "mod"}
    <2>1. b # 0
      BY <1>3 DEF IntOp, Refused
    <2>2. /\ Quotient(a, b, p) \in Int
          /\ IF b > 0 THEN a - Quotient(a, b, p) * b \in -(b - 1) .. b - 1
                      ELSE a - Quotient(a, b, p) * b \in b + 1 .. -b - 1
          /\ a >= 0 /\ b > 0 => a - Quotient(a, b, p) * b >= 0
      BY <2>1, Remains, RemainsNegative
    <2>3. CASE op = "div"
      <3>1. IntOp(op, ty, a, b, p) = Cut(ty, n, p) /\ n = Quotient(a, b, p)
        BY <2>1, <2>3 DEF Answer, IntOp
      <3> QED BY <1>1, <2>2, <3>1
    <2>4. CASE op = "mod"
      <3>1. /\ n = a - Quotient(a, b, p) * b
            /\ IntOp(op, ty, a, b, p) = Answered(Whole(ty, n))
        BY <2>1, <2>4 DEF Answer, IntOp
      <3> HIDE DEF n
      <3>2. Fits(ty, n)
        <4>1. CASE ty = "int"
          BY <2>1, <2>2, <3>1, <4>1, HalfAssumption DEF Fits, Lowest, Highest, IsSigned
        <4>2. CASE ty = "nat"
          BY <2>1, <2>2, <3>1, <4>2, HalfAssumption DEF Fits, Lowest, Highest, IsSigned
        <4> QED BY <4>1, <4>2 DEF Integers_
      <3> QED BY <2>2, <3>1, <3>2 DEF Answered, n
    <2> QED BY <1>3, <2>3, <2>4
  <1> QED BY <1>2, <1>3

\* An operation that is not refused answers a number in the interval worked
\* out for it, whatever the width, the convention and the overflow mode: the
\* intervals `eval` answers are never narrower than the values of a run.
THEOREM BinaryRangeSound ==
    ASSUME NEW op \in {"add", "sub", "mul", "div", "mod"}, NEW ty \in Integers_,
           NEW p \in Settings, NEW l \in Ranges, NEW r \in Ranges,
           NEW a \in Int, NEW b \in Int, Fits(ty, a), Fits(ty, b), Allows(l, a), Allows(r, b),
           IntOp(op, ty, a, b, p).code = "none"
    PROVE  Allows(BinaryRange(op, ty, l, r, p), NumberOf(IntOp(op, ty, a, b, p).value))
  <1> DEFINE n == Answer(op, a, b, p)
  <1>1. n \in Int /\ IntOp(op, ty, a, b, p).value = Whole(ty, n)
    BY AnswerCut
  <1>2. p.overflow = "trap" => Fits(ty, n)
    BY AnswerCut
  <1>3. Lowest(ty) \in Int /\ Highest(ty) \in Int
    BY HalfAssumption DEF Lowest, Highest
  <1>4. CASE ~(l.known /\ r.known)
    BY <1>1, <1>4, WholeFits DEF BinaryRange, TyRange, Allows, Between, Fits, Anything
  <1>5. CASE l.known /\ r.known
    <2>1. Exact(op, l, r, p) \in Ranges /\ Allows(Exact(op, l, r, p), n)
      BY <1>5, ExactHolds
    <2>2. BinaryRange(op, ty, l, r, p) = Held(Exact(op, l, r, p), ty, p)
      BY <1>5 DEF BinaryRange, IsInteger, Integers_
    <2> QED BY <1>1, <1>2, <2>1, <2>2, HeldHolds
  <1> QED BY <1>4, <1>5

\* The same for a negation.
THEOREM NegateRangeSound ==
    ASSUME NEW ty \in Integers_, NEW p \in Settings, NEW inner \in Ranges, NEW n \in Int,
           Allows(inner, n), Cut(ty, -n, p).code = "none"
    PROVE  Allows(NegateRange(ty, inner, p), NumberOf(Cut(ty, -n, p).value))
  <1>1. Cut(ty, -n, p).value = Whole(ty, -n) /\ (p.overflow = "trap" => Fits(ty, -n))
    BY DEF Cut, Refused, Answered
  <1>2. CASE ~inner.known
    BY <1>1, <1>2, WholeFits DEF NegateRange, TyRange, Allows, Between, Fits, Anything
  <1>3. CASE inner.known
    <2>1. /\ Between(-inner.hi, -inner.lo) \in Ranges
          /\ Allows(Between(-inner.hi, -inner.lo), -n)
      BY <1>3 DEF Ranges, Allows, Between
    <2>2. NegateRange(ty, inner, p) = Held(Between(-inner.hi, -inner.lo), ty, p)
      BY <1>3 DEF NegateRange, IsInteger, Integers_
    <2> QED BY <1>1, <2>1, <2>2, HeldHolds
  <1> QED BY <1>2, <1>3 DEF Ranges

\* The hull of two intervals allows what either does: merging the ends of
\* branches, passes and breaks loses no value.
THEOREM HullSound ==
    ASSUME NEW s \in Ranges, NEW t \in Ranges, NEW n \in Int, Allows(s, n) \/ Allows(t, n)
    PROVE  Hull(s, t) \in Ranges /\ Allows(Hull(s, t), n)
  BY DEF Ranges, Allows, Hull, Between, Anything, Lesser, Greater

\* Where the operands are proved, they are what is claimed of them, nothing is
\* refused, and every convention answers what dividing the bits answers.
THEOREM ProvenDividesUnsigned ==
    ASSUME NEW op \in {"div", "mod"}, NEW p \in Settings,
           NEW l \in Ranges, NEW r \in Ranges, Proves(op, "int", l, r),
           NEW a \in Int, NEW b \in Int, Fits("int", a), Fits("int", b),
           Allows(l, a), Allows(r, b)
    PROVE  /\ a >= 0 /\ b >= 1
           /\ IntOp(op, "int", a, b, p) =
                Answered([ty |-> "int", bits |-> IF op = "div" THEN a \div b ELSE a % b])
  <1>1. a >= 0 /\ b >= 1
    BY DEF Proves, Ranges, Allows
  <1> DEFINE q == a \div b
             rest == a - q * b
  <1>2. q \in Int /\ rest \in 0 .. b - 1
    BY <1>1, DivMod
  <1>3. rest = a % b
    BY <1>1
  <1>4. Quotient(a, b, p) = q
    BY <1>1, Remains
  <1>5. a < Half /\ b < Half /\ Half \in Nat \ {0} /\ 2 * Half \in Nat \ {0}
    BY HalfAssumption DEF Fits, Highest, IsSigned
  <1>6. 0 <= q /\ q <= a
    <2>1. 0 * b <= q * b \/ q <= -1
      BY <1>1, <1>2, TimesUp
    <2>2. q <= -1 => q * b <= -1 * b
      BY <1>1, <1>2, TimesUp
    <2>3. 0 <= q
      BY <1>1, <1>2, <2>1, <2>2
    <2>4. q * 1 <= q * b
      BY <1>1, <1>2, <2>3, TimesUp
    <2> QED BY <1>1, <1>2, <2>3, <2>4
  <1> HIDE DEF q
  <1>7. q % (2 * Half) = q /\ rest % (2 * Half) = rest
    <2>1. q < 2 * Half /\ rest < 2 * Half
      BY <1>1, <1>2, <1>5, <1>6
    <2>2. q % (2 * Half) = q
      BY <1>2, <1>5, <1>6, <2>1, ModSmall
    <2>3. rest % (2 * Half) = rest
      BY <1>2, <1>5, <2>1, ModSmall
    <2> QED BY <2>2, <2>3
  <1>8. CASE op = "div"
    <2>1. IntOp(op, "int", a, b, p) = Cut("int", q, p)
      BY <1>1, <1>4, <1>8 DEF IntOp
    <2>2. Fits("int", q)
      BY <1>1, <1>2, <1>5, <1>6 DEF Fits, Lowest, Highest, IsSigned
    <2>3. Cut("int", q, p) = Answered([ty |-> "int", bits |-> q])
      BY <1>7, <2>2 DEF Cut, Whole
    <2> QED BY <1>1, <1>8, <2>1, <2>3 DEF q
  <1>9. CASE op = "mod"
    <2>1. IntOp(op, "int", a, b, p) = Answered(Whole("int", rest))
      BY <1>1, <1>4, <1>9 DEF IntOp
    <2> QED BY <1>1, <1>3, <1>7, <1>9, <2>1 DEF Whole
  <1> QED BY <1>1, <1>8, <1>9

-----------------------------------------------------------------------------
(* Compiled code *)

Operations == {"add", "sub", "mul", "div", "mod"}

\* Numbers a whole modulus apart are cut alike.
LEMMA CutAlike ==
    ASSUME NEW n \in Int, NEW k \in Int, NEW m \in Nat \ {0}
    PROVE  (n + k * m) % m = n % m
  <1> DEFINE r == n % m
             s == (n + k * m) % m
             q == n \div m
             t == (n + k * m) \div m
             d == t - q - k
  <1>1. n + k * m \in Int
    OBVIOUS
  <1>2. q \in Int /\ n = q * m + r /\ r \in 0 .. m - 1
    OBVIOUS
  <1>3. t \in Int /\ n + k * m = t * m + s /\ s \in 0 .. m - 1
    BY <1>1
  <1> HIDE DEF r, s, q, t
  <1>4. d \in Int /\ d * m = t * m - q * m - k * m
    BY <1>2, <1>3
  <1>5. d * m = r - s
    BY <1>2, <1>3, <1>4
  <1> HIDE DEF d
  <1>6. ~(d >= 1)
    <2>1. d >= 1 => 1 * m <= d * m
      BY <1>4, TimesUp
    <2> QED  BY <1>2, <1>3, <1>5, <2>1
  <1>7. ~(d <= -1)
    <2>1. d <= -1 => d * m <= -1 * m
      BY <1>4, TimesUp
    <2> QED  BY <1>2, <1>3, <1>5, <2>1
  <1>8. d = 0
    BY <1>4, <1>6, <1>7
  <1>9. r = s
    BY <1>2, <1>3, <1>5, <1>8
  <1> QED  BY <1>9 DEF r, s

\* What a word stands for is it, or a modulus less.
LEMMA WordStands ==
    ASSUME NEW ty \in Integers_, NEW w \in Word
    PROVE  /\ NumberOf(Kept(ty, w)) = IF ty = "int" THEN Signed(w) ELSE w
           /\ \E i \in {0, 1} : NumberOf(Kept(ty, w)) = w - i * (2 * Half)
           /\ Signed(w) \in -Half .. Half - 1
           /\ w \in 0 .. 2 * Half - 1
  <1>1. w \in 0 .. 2 * Half - 1 /\ Half \in Nat \ {0}
    BY HalfAssumption DEF Word
  <1>2. NumberOf(Kept(ty, w)) = IF ty = "int" THEN Signed(w) ELSE w
    BY DEF Integers_, NumberOf, Kept, Signed
  <1>3. Signed(w) \in -Half .. Half - 1 /\ (Signed(w) = w \/ Signed(w) = w - 2 * Half)
    BY <1>1 DEF Signed
  <1> QED  BY <1>1, <1>2, <1>3

\* A sum, a difference and a product of words are cut to those of the numbers.
LEMMA WordsCutAlike ==
    ASSUME NEW ty \in Integers_, NEW x \in Word, NEW y \in Word
    PROVE  LET a == NumberOf(Kept(ty, x))
               b == NumberOf(Kept(ty, y))
           IN  Mask(x + y) = Mask(a + b) /\ Mask(x - y) = Mask(a - b) /\ Mask(x * y) = Mask(a * b)
  <1> DEFINE M == 2 * Half
  <1>1. M \in Nat \ {0} /\ x \in Int /\ y \in Int
    BY HalfAssumption, WordStands
  <1>2. PICK i \in {0, 1} : NumberOf(Kept(ty, x)) = x - i * M
    BY WordStands
  <1>3. PICK j \in {0, 1} : NumberOf(Kept(ty, y)) = y - j * M
    BY WordStands
  <1> HIDE DEF M
  <1> DEFINE a == x - i * M
             b == y - j * M
             k == i * y + j * x - i * (j * M)
  <1>4. a \in Int /\ b \in Int /\ k \in Int /\ i + j \in Int /\ i - j \in Int
    <2>1. i * y \in Int /\ j * x \in Int /\ j * M \in Int /\ i * (j * M) \in Int
      BY <1>1
    <2> QED  BY <1>1, <2>1
  <1>5. x + y = a + b + (i + j) * M
    BY <1>1
  <1>6. x - y = a - b + (i - j) * M
    BY <1>1
  <1>7. x * y = a * b + k * M
    BY <1>1
  <1>8. \A n, l \in Int : (n + l * M) % M = n % M
    BY <1>1, CutAlike
  <1> HIDE DEF a, b, k
  <1>9. a + b \in Int /\ a - b \in Int /\ a * b \in Int
    BY <1>4
  <1>10. (x + y) % M = (a + b) % M /\ (x - y) % M = (a - b) % M /\ (x * y) % M = (a * b) % M
    BY <1>4, <1>5, <1>6, <1>7, <1>8, <1>9
  <1> QED  BY <1>2, <1>3, <1>10 DEF Mask, M, a, b

\* Words at or above nought and above it are divided as they stand.
LEMMA UnsignedAnswers ==
    ASSUME NEW op \in {"div", "mod"}, NEW ty \in Integers_, NEW p \in Settings,
           p.overflow = "wrap", NEW x \in Word, NEW y \in Word, y # 0
    PROVE  IntOp(op, ty, x, y, p) = UnsignedDivision(op, ty, x, y)
  <1> DEFINE q == x \div y
             rest == x - q * y
  <1>1. /\ x \in Int /\ 0 <= x /\ x < 2 * Half /\ y \in Int /\ 1 <= y /\ y < 2 * Half
        /\ 2 * Half \in Nat \ {0}
    BY HalfAssumption, WordStands
  <1>2. q \in Int /\ rest \in 0 .. y - 1
    BY <1>1, DivMod
  <1>3. rest = x % y
    BY <1>1
  <1>4. Quotient(x, y, p) = q
    BY <1>1, Remains
  <1>5. 0 <= q /\ q <= x
    <2>1. q <= -1 => q * y <= -1 * y
      BY <1>1, <1>2, TimesUp
    <2>2. 0 <= q
      BY <1>1, <1>2, <2>1
    <2>3. q * 1 <= q * y
      BY <1>1, <1>2, <2>2, TimesUp
    <2> QED  BY <1>1, <1>2, <2>2, <2>3
  <1> HIDE DEF q
  <1>6. q % (2 * Half) = q
    BY <1>1, <1>2, <1>5, ModSmall
  <1>7. rest % (2 * Half) = rest
    <2>1. 0 <= rest /\ rest < 2 * Half
      BY <1>1, <1>2
    <2> QED  BY <1>1, <1>2, <2>1, ModSmall
  <1>8. CASE op = "div"
    <2>1. IntOp(op, ty, x, y, p) = Cut(ty, q, p)
      BY <1>1, <1>4, <1>8 DEF IntOp
    <2>2. Cut(ty, q, p) = Answered([ty |-> ty, bits |-> q])
      BY <1>6 DEF Cut, Whole
    <2> QED  BY <1>1, <1>8, <2>1, <2>2 DEF q, UnsignedDivision, Kept
  <1>9. CASE op = "mod"
    <2>1. IntOp(op, ty, x, y, p) = Answered(Whole(ty, rest))
      BY <1>1, <1>4, <1>9 DEF IntOp
    <2> QED  BY <1>1, <1>3, <1>7, <1>9, <2>1 DEF Whole, UnsignedDivision, Kept
  <1> QED  BY <1>8, <1>9

\* The quotient toward nought, which the processor gives, and its remainder.
LEMMA TowardIs ==
    ASSUME NEW a \in Int, NEW b \in Int, b # 0
    PROVE  LET rest == a - Toward(a, b) * b
           IN  /\ Toward(a, b) \in Int /\ rest \in Int
               /\ b > 0 => -b < rest /\ rest < b
               /\ b < 0 => b < rest /\ rest < -b
               /\ a >= 0 => rest >= 0
               /\ a < 0 => rest <= 0
  <1>1. \A n \in Int, d \in Nat \ {0} : n \div d \in Int /\ n - (n \div d) * d \in 0 .. d - 1
    BY DivMod
  <1>2. CASE a >= 0 /\ b > 0
    <2>1. Toward(a, b) = a \div b
      BY <1>2 DEF Toward
    <2>2. b \in Nat \ {0}
      BY <1>2
    <2>3. a \div b \in Int /\ a - (a \div b) * b \in 0 .. b - 1
      BY <1>1, <2>2
    <2> QED  BY <1>2, <2>1, <2>3
  <1>3. CASE a < 0 /\ b > 0
    <2>1. Toward(a, b) = -((-a) \div b)
      BY <1>3 DEF Toward
    <2>2. (-a) \div b \in Int /\ (-a) - ((-a) \div b) * b \in 0 .. b - 1
      BY <1>1, <1>3
    <2> QED  BY <1>3, <2>1, <2>2
  <1>4. CASE a >= 0 /\ b < 0
    <2>1. Toward(a, b) = -(a \div (-b))
      BY <1>4 DEF Toward
    <2> DEFINE d == -b
               q == a \div d
    <2>2. d \in Nat \ {0}
      BY <1>4
    <2>3. q \in Int /\ a - q * d \in 0 .. d - 1
      BY <1>1, <2>2
    <2>4. Toward(a, b) = -q /\ b = -d
      BY <2>1
    <2> HIDE DEF d, q
    <2>5. a - (-q) * (-d) = a - q * d
      BY <2>2, <2>3
    <2> QED  BY <1>4, <2>2, <2>3, <2>4, <2>5
  <1>5. CASE a < 0 /\ b < 0
    <2>1. Toward(a, b) = (-a) \div (-b)
      BY <1>5 DEF Toward
    <2> DEFINE c == -a
               d == -b
               q == c \div d
    <2>2. c \in Int /\ d \in Nat \ {0}
      BY <1>5
    <2>3. q \in Int /\ c - q * d \in 0 .. d - 1
      BY <1>1, <2>2
    <2>4. Toward(a, b) = q /\ b = -d /\ a = -c
      BY <2>1
    <2> HIDE DEF c, d, q
    <2>5. -c - q * (-d) = -(c - q * d)
      BY <2>2, <2>3
    <2> QED  BY <1>5, <2>2, <2>3, <2>4, <2>5
  <1> QED  BY <1>2, <1>3, <1>4, <1>5

\* A signed number of the width, cut to a word, is read back.
LEMMA SignedBack ==
    ASSUME NEW n \in -Half .. Half - 1
    PROVE  Signed(Mask(n)) = n /\ Mask(n) \in Word
  <1>1. Half \in Nat \ {0} /\ 2 * Half \in Nat \ {0}
    BY HalfAssumption
  <1>2. CASE n >= 0
    <2>1. Mask(n) = n
      BY <1>1, <1>2, ModSmall DEF Mask
    <2> QED  BY <1>1, <1>2, <2>1 DEF Signed, Word
  <1>3. CASE n < 0
    <2>1. Mask(n) = n + 2 * Half
      BY <1>1, <1>3, ModBelow DEF Mask
    <2> QED  BY <1>1, <1>3, <2>1 DEF Signed, Word
  <1> QED  BY <1>1, <1>2, <1>3

\* A word taken off or put on before the cut may as well have been cut.
LEMMA MaskAgain ==
    ASSUME NEW n \in Int, NEW d \in Int, NEW y \in Word
    PROVE  /\ Mask(n) \in Int
           /\ Mask(Mask(n) + d) = Mask(n + d)
           /\ Mask(n + y) = Mask(n + Signed(y)) /\ Mask(n - y) = Mask(n - Signed(y))
           /\ Mask(-y) = Mask(-Signed(y))
  <1> DEFINE M == 2 * Half
  <1>1. M \in Nat \ {0} /\ y \in Int /\ (Signed(y) = y \/ Signed(y) = y - M)
    BY HalfAssumption DEF Word, Signed
  <1>2. n % M \in Int /\ n \div M \in Int /\ n = (n % M) + (n \div M) * M
    <2> HIDE DEF M
    <2> QED  BY <1>1
  <1>3. \A m, l \in Int : (m + l * M) % M = m % M
    BY <1>1, CutAlike
  <1> HIDE DEF M
  <1>4. ((n % M) + d) % M = (n + d) % M
    <2> DEFINE r == n % M
               q == n \div M
    <2>1. r \in Int /\ q \in Int /\ n = r + q * M
      BY <1>2
    <2> HIDE DEF r, q
    <2>2. n + d = (r + d) + q * M /\ r + d \in Int
      BY <1>1, <2>1
    <2>3. (n + d) % M = (r + d) % M
      BY <1>3, <2>1, <2>2
    <2> QED  BY <2>3 DEF r
  <1>5. \A m \in Int : (m + M) % M = m % M /\ (m - M) % M = m % M
    <2>1. \A m \in Int : m + M = m + 1 * M /\ m - M = m + (-1) * M
      BY <1>1
    <2> QED  BY <1>3, <2>1
  <1>6. /\ (n + y) % M = (n + Signed(y)) % M /\ (n - y) % M = (n - Signed(y)) % M
        /\ (-y) % M = (-Signed(y)) % M
    <2>1. CASE Signed(y) = y
      BY <2>1
    <2>2. CASE Signed(y) = y - M
      <3>1. /\ n + Signed(y) = (n + y) - M /\ n + y \in Int
            /\ n - Signed(y) = (n - y) + M /\ n - y \in Int
            /\ -Signed(y) = -y + M /\ -y \in Int
        BY <1>1, <2>2
      <3> QED  BY <1>5, <3>1
    <2> QED  BY <1>1, <2>1, <2>2
  <1> QED  BY <1>2, <1>4, <1>6 DEF Mask, M


\* What the processor's answer is leaned to is the convention's answer.
LEMMA LeansRight ==
    ASSUME NEW op \in {"div", "mod"}, NEW p \in Settings, NEW a \in -Half .. Half - 1,
           NEW y \in Word, y # 0
    PROVE  LET b == Signed(y)
               plain == [div |-> Mask(Toward(a, b)), mod |-> Mask(a - Toward(a, b) * b)]
           IN  Leaned(op, plain, y, p) =
                   IF op = "div" THEN Mask(Quotient(a, b, p)) ELSE Mask(a - Quotient(a, b, p) * b)
  <1> DEFINE b == Signed(y)
             q == Toward(a, b)
             rest == a - q * b
             plain == [div |-> Mask(q), mod |-> Mask(rest)]
  <1>1. a \in Int /\ b \in Int /\ b # 0 /\ -Half <= b /\ b <= Half - 1 /\ Half \in Nat \ {0}
    BY HalfAssumption DEF Word, Signed
  <1>2. /\ q \in Int /\ rest \in Int
        /\ b > 0 => -b < rest /\ rest < b
        /\ b < 0 => b < rest /\ rest < -b
    BY <1>1, TowardIs
  <1> DEFINE floors == p.division = "floored" /\ rest # 0 /\ (rest < 0) # (b < 0)
             climbs == p.division = "euclidean" /\ rest < 0
             step == IF floors \/ (climbs /\ b > 0) THEN -1 ELSE IF climbs THEN 1 ELSE 0
  <1>3. Signed(plain.mod) = rest
    <2>1. rest \in -Half .. Half - 1
      BY <1>1, <1>2
    <2> QED  BY <2>1, SignedBack
  <1>4. Quotient(a, b, p) = q + step
    <2> HIDE DEF q
    <2>1. CASE rest = 0
      BY <1>2, <2>1 DEF Quotient, Settings, q
    <2>2. CASE rest # 0
      BY <1>1, <1>2, <2>2 DEF Quotient, Settings, q
    <2> QED  BY <2>1, <2>2
  <1>5. Leaned(op, plain, y, p) =
            IF step = 0 THEN plain[op]
            ELSE IF op = "div" THEN Mask(Mask(q) + step)
            ELSE Mask(Mask(rest) + (IF step = -1 THEN y ELSE -y))
    <2> HIDE DEF q, rest
    <2> USE <1>1, <1>2, <1>3
    <2>1. CASE floors
      BY <2>1 DEF Leaned
    <2>2. CASE ~floors /\ climbs
      BY <2>2 DEF Leaned
    <2>3. CASE ~floors /\ ~climbs
      BY <2>3 DEF Leaned
    <2> QED  BY <2>1, <2>2, <2>3
  <1>6. step \in {-1, 0, 1} /\ y \in Int
    BY HalfAssumption DEF Word
  <1>7. \A m \in Int, d \in Int : Mask(Mask(m) + d) = Mask(m + d)
    BY MaskAgain
  <1>8. Mask(rest + y) = Mask(rest + b) /\ Mask(rest - y) = Mask(rest - b)
    BY <1>2, MaskAgain
  <1> HIDE DEF step, rest, q
  <1> DEFINE answer == Leaned(op, plain, y, p)
  <1>9. CASE op = "div"
    <2>1. CASE step = 0
      <3>1. answer = Mask(q)
        BY <1>5, <1>9, <2>1
      <3> QED  BY <1>2, <1>4, <1>9, <2>1, <3>1 DEF q, rest
    <2>2. CASE step # 0
      <3>1. answer = Mask(Mask(q) + step)
        BY <1>5, <1>9, <2>2
      <3>2. answer = Mask(q + step)
        BY <1>2, <1>6, <1>7, <3>1
      <3> QED  BY <1>4, <1>9, <3>2 DEF q, rest
    <2> QED  BY <2>1, <2>2
  <1>10. CASE op = "mod"
    <2>1. (q - 1) * b = q * b - b /\ (q + 1) * b = q * b + b /\ rest = a - q * b /\ q * b \in Int
      BY <1>1, <1>2 DEF rest
    <2> DEFINE left == a - Quotient(a, b, p) * b
    <2>2. CASE step = 0
      <3>1. answer = Mask(rest) /\ left = rest
        BY <1>2, <1>4, <1>5, <1>10, <2>1, <2>2
      <3> QED  BY <1>10, <3>1 DEF q, rest
    <2>3. CASE step = -1
      <3>1. answer = Mask(Mask(rest) + y) /\ q + step = q - 1
        BY <1>2, <1>5, <1>10, <2>3
      <3>2. answer = Mask(rest + b)
        BY <1>2, <1>6, <1>7, <1>8, <3>1
      <3>3. left = rest + b
        BY <1>1, <1>2, <1>4, <2>1, <3>1
      <3> QED  BY <1>10, <3>2, <3>3 DEF q, rest
    <2>4. CASE step = 1
      <3>1. answer = Mask(Mask(rest) + (-y)) /\ q + step = q + 1
        BY <1>2, <1>5, <1>10, <2>4
      <3>2. rest + (-y) = rest - y /\ -y \in Int
        BY <1>2, <1>6
      <3>3. answer = Mask(rest - b)
        BY <1>2, <1>7, <1>8, <3>1, <3>2
      <3>4. left = rest - b
        BY <1>1, <1>2, <1>4, <2>1, <3>1
      <3> QED  BY <1>10, <3>3, <3>4 DEF q, rest
    <2> QED  BY <1>6, <2>2, <2>3, <2>4
  <1> QED  BY <1>9, <1>10

\* The one quotient a signed division cannot hold is of the lowest number by
\* minus one; compiled code puts the cut answer in, and asks about another.
LEMMA MinusOne ==
    ASSUME NEW p \in Settings, NEW a \in Int
    PROVE  Quotient(a, -1, p) = -a
  <1>1. \A n \in Int : n \div 1 = n
    OBVIOUS
  <1>2. Toward(a, -1) = -a
    <2>1. CASE a >= 0
      <3>1. Toward(a, -1) = -(a \div (-(-1)))
        BY <2>1 DEF Toward
      <3> QED  BY <1>1, <3>1
    <2>2. CASE a < 0
      <3>1. Toward(a, -1) = (-a) \div (-(-1))
        BY <2>2 DEF Toward
      <3> QED  BY <1>1, <3>1
    <2> QED  BY <2>1, <2>2
  <1>3. a - Toward(a, -1) * (-1) = 0
    BY <1>2
  <1> QED  BY <1>2, <1>3 DEF Quotient

\* Signed words are divided as the numbers they stand for are.
LEMMA SignedAnswers ==
    ASSUME Half # 1, NEW op \in {"div", "mod"}, NEW p \in Settings, p.overflow = "wrap",
           NEW x \in Word, NEW y \in Word, y # 0
    PROVE  IntOp(op, "int", Signed(x), Signed(y), p) = SignedDivision(op, x, y, p)
  <1> DEFINE a == Signed(x)
             b == Signed(y)
             n == IF op = "div" THEN Quotient(a, b, p) ELSE a - Quotient(a, b, p) * b
  <1>1. /\ a \in -Half .. Half - 1 /\ b \in -Half .. Half - 1 /\ b # 0
        /\ Half \in Nat \ {0, 1} /\ x \in Int /\ y \in Int
    BY HalfAssumption DEF Word, Signed
  <1>2. IntOp(op, "int", a, b, p) = Answered(Kept("int", Mask(n)))
    <2>1. b # 0
      BY <1>1
    <2> HIDE DEF a, b
    <2> QED  BY <2>1 DEF IntOp, Cut, Whole, Kept, Mask
  <1>3. CASE y = AllOnes
    <2>1. b = -1
      BY <1>1, <1>3 DEF AllOnes, Signed
    <2>2. ~Dies(x, 1) /\ SafeDivisor(y) = 1
      BY <1>1, <1>3 DEF Dies, AllOnes, SafeDivisor
    <2>3. Quotient(a, b, p) = -a
      BY <1>1, <2>1, MinusOne
    <2>4. Mask(-x) = Mask(-a)
      BY MaskAgain
    <2>5. Signed(0) = 0
      BY <1>1 DEF Signed
    <2> DEFINE plain == [div |-> Mask(-x), mod |-> 0]
    <2>6. Leaned(op, plain, y, p) = plain[op]
      BY <2>5 DEF Leaned
    <2>7. SignedDivision(op, x, y, p) = Answered(Kept("int", plain[op]))
      BY <1>3, <2>2, <2>6 DEF SignedDivision
    <2>8. Mask(0) = 0
      BY <1>1, ModSmall DEF Mask
    <2>9. a - (-a) * (-1) = 0
      BY <1>1
    <2>10. Mask(n) = plain[op]
      <3> HIDE DEF a, b
      <3>1. CASE op = "div"
        BY <2>3, <2>4, <3>1
      <3>2. CASE op = "mod"
        BY <2>1, <2>3, <2>8, <2>9, <3>2
      <3> QED  BY <3>1, <3>2
    <2> QED  BY <1>2, <2>7, <2>10
  <1>4. CASE y # AllOnes
    <2>1. ~Dies(x, y) /\ SafeDivisor(y) = y
      BY <1>4 DEF Dies, SafeDivisor
    <2> DEFINE plain == [div |-> Mask(Toward(a, b)), mod |-> Mask(a - Toward(a, b) * b)]
    <2>2. SignedDiv(x, y) = plain.div /\ SignedRem(x, y) = plain.mod
      BY DEF SignedDiv, SignedRem
    <2>3. SignedDivision(op, x, y, p) = Answered(Kept("int", Leaned(op, plain, y, p)))
      BY <1>4, <2>1, <2>2 DEF SignedDivision
    <2>4. Leaned(op, plain, y, p) = Mask(n)
      BY <1>1, LeansRight
    <2> QED  BY <1>2, <2>3, <2>4
  <1> QED  BY <1>3, <1>4


\* Compiled code answers what the other engines answer, value and fault, for
\* integers of more than one bit (in one bit 1 is minus one, and no divisor is
\* safe), every operation, type, setting and pair of words, whether or not a division
\* goes unguarded, if one that does has operands that are what the checker
\* says it proved of them (luarust-jit/lib.rs, `arithmetic`, `int_division`).
THEOREM CompiledComputes ==
    ASSUME Half # 1, NEW op \in Operations \cup {"pow"}, NEW ty \in Integers_, NEW p \in Settings,
           NEW x \in Word, NEW y \in Word, NEW proved \in BOOLEAN,
           proved /\ op \in {"div", "mod"} /\ IsSigned(ty) => Signed(x) >= 0 /\ Signed(y) > 0
    PROVE  Arithmetic(op, ty, x, y, proved, p) = Shared(op, ty, x, y, p)
  <1> DEFINE a == NumberOf(Kept(ty, x))
             b == NumberOf(Kept(ty, y))
  <1>1. CASE p.overflow = "trap" \/ op = "pow"
    BY <1>1 DEF Arithmetic
  <1>2. CASE p.overflow = "wrap" /\ op \in Operations
    <2>1. Shared(op, ty, x, y, p) = IntOp(op, ty, a, b, p)
      <3>1. op # "pow"
        BY <1>2 DEF Operations
      <3>2. Kept(ty, x).ty = ty /\ IsInteger(ty)
        BY DEF Kept, IsInteger, Integers_
      <3> QED  BY <3>1, <3>2 DEF Shared, BinaryOp
    <2>2. CASE op \in {"add", "sub", "mul"}
      <3>1. Mask(x + y) = Mask(a + b) /\ Mask(x - y) = Mask(a - b) /\ Mask(x * y) = Mask(a * b)
        BY WordsCutAlike
      <3> HIDE DEF a, b
      <3>2. \A n : Cut(ty, n, p) = Answered(Kept(ty, Mask(n)))
        BY <1>2 DEF Cut, Whole, Kept, Mask
      <3>3. CASE op = "add"
        BY <1>2, <2>1, <3>1, <3>2, <3>3 DEF Arithmetic, IntOp
      <3>4. CASE op = "sub"
        BY <1>2, <2>1, <3>1, <3>2, <3>4 DEF Arithmetic, IntOp
      <3>5. CASE op = "mul"
        BY <1>2, <2>1, <3>1, <3>2, <3>5 DEF Arithmetic, IntOp
      <3> QED  BY <2>2, <3>3, <3>4, <3>5
    <2>3. CASE op \in {"div", "mod"}
      <3>1. Arithmetic(op, ty, x, y, proved, p) = Division(op, ty, x, y, proved, p)
        BY <1>2, <2>3 DEF Arithmetic
      <3>2. a = (IF ty = "int" THEN Signed(x) ELSE x) /\ b = (IF ty = "int" THEN Signed(y) ELSE y)
        BY WordStands
      <3>3. (b = 0 <=> y = 0) /\ Signed(x) \in Int /\ y \in Int
        BY <3>2, HalfAssumption DEF Signed, Word
      <3> HIDE DEF a, b
      <3>4. CASE proved /\ ty = "int"
        <4>1. Signed(x) >= 0 /\ Signed(y) > 0
          BY <2>3, <3>4 DEF IsSigned
        <4>2. a = x /\ b = y /\ y # 0
          BY <3>2, <3>4, <4>1, HalfAssumption DEF Signed, Word
        <4>3. IntOp(op, ty, a, b, p) = UnsignedDivision(op, ty, x, y)
          BY <1>2, <2>3, <4>2, UnsignedAnswers
        <4> QED  BY <2>1, <3>1, <3>4, <4>3 DEF Division, IsSigned
      <3>5. CASE ~(proved /\ ty = "int") /\ y = 0
        <4>1. b = 0
          BY <3>3, <3>5
        <4>2. IntOp(op, ty, a, b, p) = Refused(IF op = "div" THEN "R0002" ELSE "R0003")
          BY <2>3, <4>1 DEF IntOp
        <4> QED  BY <2>1, <3>1, <3>5, <4>2 DEF Division, IsSigned
      <3>6. CASE ty # "int" /\ y # 0
        <4>1. a = x /\ b = y
          BY <3>2, <3>6
        <4>2. IntOp(op, ty, a, b, p) = UnsignedDivision(op, ty, x, y)
          BY <1>2, <2>3, <3>6, <4>1, UnsignedAnswers
        <4> QED  BY <2>1, <3>1, <3>6, <4>2 DEF Division, IsSigned
      <3>7. CASE ~proved /\ ty = "int" /\ y # 0
        <4>1. IntOp(op, ty, a, b, p) = SignedDivision(op, x, y, p)
          BY <1>2, <2>3, <3>2, <3>7, SignedAnswers
        <4> QED  BY <2>1, <3>1, <3>7, <4>1 DEF Division, IsSigned
      <3> QED  BY <3>4, <3>5, <3>6, <3>7
    <2> QED  BY <1>2, <2>2, <2>3 DEF Operations
  <1> QED  BY <1>1, <1>2 DEF Settings

\* A word negated is what nought less it is (luarust-jit/lib.rs, `negated`).
THEOREM CompiledNegates ==
    ASSUME Half # 1, NEW ty \in Integers_, NEW p \in Settings, NEW x \in Word
    PROVE  Negated(ty, x, p) = Negate(Kept(ty, x), p)
  <1>1. 0 \in Word /\ NumberOf(Kept(ty, 0)) = 0
    BY HalfAssumption DEF Word, NumberOf, Kept, Integers_
  <1>2. Negated(ty, x, p) = Shared("sub", ty, 0, x, p)
    BY <1>1, CompiledComputes DEF Negated, Operations
  <1>3. NumberOf(Kept(ty, x)) \in Int
    BY WordStands
  <1>4. 0 - NumberOf(Kept(ty, x)) = -NumberOf(Kept(ty, x))
    BY <1>3
  <1>5. Kept(ty, 0).ty = ty /\ Kept(ty, x).ty = ty /\ IsInteger(ty)
    BY DEF Kept, IsInteger, Integers_
  <1>6. Shared("sub", ty, 0, x, p) = Cut(ty, 0 - NumberOf(Kept(ty, x)), p)
    BY <1>1, <1>5 DEF Shared, BinaryOp, IntOp
  <1>7. Negate(Kept(ty, x), p) = Cut(ty, -NumberOf(Kept(ty, x)), p)
    BY <1>5 DEF Negate
  <1> QED  BY <1>2, <1>4, <1>6, <1>7

\* A relation of words, by the predicate of the type, is that of the values
\* (luarust-jit/lib.rs, `relation`).
THEOREM CompiledRelates ==
    ASSUME NEW op \in {"lt", "gt", "le", "ge", "eq", "ne"}, NEW ty \in Integers_,
           NEW x \in Word, NEW y \in Word
    PROVE  Stands(op, ty, x, y) = Holds(op, Compare(Kept(ty, x), Kept(ty, y)))
  <1> DEFINE a == NumberOf(Kept(ty, x))
             b == NumberOf(Kept(ty, y))
  <1>1. /\ a = (IF IsSigned(ty) THEN Signed(x) ELSE x)
        /\ b = (IF IsSigned(ty) THEN Signed(y) ELSE y)
    BY WordStands DEF IsSigned
  <1>2. (x = y <=> a = b) /\ a \in Int /\ b \in Int
    BY <1>1, HalfAssumption DEF Signed, Word
  <1>3. Compare(Kept(ty, x), Kept(ty, y)) =
            IF a < b THEN "less" ELSE IF a = b THEN "equal" ELSE "greater"
    BY DEF Compare
  <1> HIDE DEF a, b
  <1> QED  BY <1>1, <1>2, <1>3 DEF Stands, Holds

-----------------------------------------------------------------------------
(* What the engines answer of the integers *)

\* The powers of a number, one after the other.
LEMMA RaisedIs ==
    ASSUME NEW a \in Int
    PROVE  /\ \A n \in Nat : Raised(a, n) \in Int
           /\ Raised(a, 0) = 1
           /\ \A n \in Nat : Raised(a, n + 1) = Raised(a, n) * a
  <1> DEFINE raised[n \in Nat] == IF n = 0 THEN 1 ELSE raised[n - 1] * a
             G == [m \in Int |-> m * a]
             T == {n \in Nat : raised[n] \in Int}
  <1>1. G \in [Int -> Int] /\ \A m \in Int : G[m] = m * a
    OBVIOUS
  <1> HIDE DEF G
  <1>2. PICK f : Unfolds(f, Int, 1, G)
    <2>1. \A b \in Int, H \in [Int -> Int] : \E g : Unfolds(g, Int, b, H)
      BY Unending
    <2>2. 1 \in Int
      OBVIOUS
    <2> QED  BY <1>1, <2>1, <2>2
  <1>3. f = [n \in Nat |-> IF n = 0 THEN 1 ELSE f[n - 1] * a]
    <2>1. \A n \in Nat : n # 0 => n - 1 \in Nat /\ (n - 1) + 1 = n
      OBVIOUS
    <2>2. \A n \in Nat : f[n] = IF n = 0 THEN 1 ELSE f[n - 1] * a
      BY <1>1, <1>2, <2>1 DEF Unfolds
    <2> QED  BY <1>2, <2>2 DEF Unfolds
  <1>4. raised = [n \in Nat |-> IF n = 0 THEN 1 ELSE raised[n - 1] * a]
    BY <1>3
  <1>5. \A n \in Nat : Raised(a, n) = raised[n]
    BY DEF Raised
  <1> HIDE DEF raised
  <1>6. raised[0] = 1 /\ \A n \in Nat : raised[n + 1] = raised[n] * a
    <2>1. \A n \in Nat : n + 1 \in Nat /\ n + 1 # 0 /\ (n + 1) - 1 = n
      OBVIOUS
    <2> QED  BY <1>4, <2>1
  <1>7. T \in SUBSET Nat /\ 0 \in T /\ \A n \in T : n + 1 \in T
    BY <1>6
  <1> HIDE DEF T
  <1>8. T = Nat
    BY <1>7, Induction
  <1>9. \A n \in Nat : raised[n] \in Int
    BY <1>8 DEF T
  <1> QED
    <2>1. 0 \in Nat /\ \A n \in Nat : n + 1 \in Nat
      OBVIOUS
    <2> QED  BY <2>1, <1>5, <1>6, <1>9

\* What a product that stays in the range of `power` is beside the number it
\* is of: the same, or the end of the range nearer it.
Stays(m, n) ==
    \/ m = n /\ -Widest <= n /\ n <= Widest - 1
    \/ m = Widest - 1 /\ n > Widest - 1
    \/ m = -Widest /\ n < -Widest

\* One more factor leaves it so, past the first. The numbers that do not grow
\* never leave the range.
LEMMA StaysBeside ==
    ASSUME Half # 1, NEW a \in Int, NEW m \in Int, NEW n \in Int, Stays(m, n),
           a \in {-1, 0, 1} => n \in {-1, 0, 1}
    PROVE  /\ Stays(Saturated(m * a), n * a) /\ Saturated(m * a) \in Int
           /\ a \in {-1, 0, 1} => n * a \in {-1, 0, 1}
  <1> DEFINE x == m * a
             y == n * a
  <1>1. Widest \in Int /\ Widest >= 2
    <2>1. Half \in Nat /\ Half >= 2
      BY HalfAssumption
    <2>2. 2 * Half <= Half * Half
      BY <2>1, TimesUp
    <2>3. Widest = 2 * (Half * Half)
      BY <2>1 DEF Widest
    <2> QED  BY <2>1, <2>2, <2>3
  <1>2. x \in Int /\ y \in Int
    OBVIOUS
  <1>3. CASE m = n /\ -Widest <= n /\ n <= Widest - 1
    <2>1. x = y
      BY <1>3
    <2>2. a \in {-1, 0, 1} => y \in {-1, 0, 1}
      OBVIOUS
    <2> HIDE DEF x, y
    <2>3. Stays(Saturated(x), y) /\ Saturated(x) \in Int
      BY <1>1, <1>2, <2>1 DEF Saturated, Stays
    <2> QED  BY <2>2, <2>3 DEF x, y
  <1>4. CASE m = Widest - 1 /\ n > Widest - 1
    <2>1. a >= 2 \/ a <= -2
      BY <1>1, <1>4
    <2>2. CASE a >= 2
      <3>1. 2 * m <= a * m /\ 2 * n <= a * n
        BY <1>1, <1>4, <2>2, TimesUp
      <3>2. x = a * m /\ y = a * n
        OBVIOUS
      <3> HIDE DEF x, y
      <3>3. x >= 2 * m /\ y >= 2 * n
        BY <3>1, <3>2
      <3>4. Stays(Saturated(x), y) /\ Saturated(x) \in Int
        BY <1>1, <1>2, <1>4, <3>3 DEF Saturated, Stays
      <3> QED  BY <2>2, <3>4 DEF x, y
    <2>3. CASE a <= -2
      <3>1. a * m <= -2 * m /\ a * n <= -2 * n
        BY <1>1, <1>4, <2>3, TimesUp
      <3>2. x = a * m /\ y = a * n
        OBVIOUS
      <3> HIDE DEF x, y
      <3>3. x <= -2 * m /\ y <= -2 * n
        BY <3>1, <3>2
      <3>4. Stays(Saturated(x), y) /\ Saturated(x) \in Int
        BY <1>1, <1>2, <1>4, <3>3 DEF Saturated, Stays
      <3> QED  BY <2>3, <3>4 DEF x, y
    <2> QED  BY <2>1, <2>2, <2>3
  <1>5. CASE m = -Widest /\ n < -Widest
    <2>1. a >= 2 \/ a <= -2
      BY <1>1, <1>5
    <2>2. CASE a >= 2
      <3>1. a * m <= 2 * m /\ a * n <= 2 * n
        BY <1>1, <1>5, <2>2, TimesDown
      <3>2. x = a * m /\ y = a * n
        OBVIOUS
      <3> HIDE DEF x, y
      <3>3. x <= 2 * m /\ y <= 2 * n
        BY <3>1, <3>2
      <3>4. Stays(Saturated(x), y) /\ Saturated(x) \in Int
        BY <1>1, <1>2, <1>5, <3>3 DEF Saturated, Stays
      <3> QED  BY <2>2, <3>4 DEF x, y
    <2>3. CASE a <= -2
      <3>1. -2 * m <= a * m /\ -2 * n <= a * n
        BY <1>1, <1>5, <2>3, TimesDown
      <3>2. x = a * m /\ y = a * n
        OBVIOUS
      <3> HIDE DEF x, y
      <3>3. x >= -2 * m /\ y >= -2 * n
        BY <3>1, <3>2
      <3>4. Stays(Saturated(x), y) /\ Saturated(x) \in Int
        BY <1>1, <1>2, <1>5, <3>3 DEF Saturated, Stays
      <3> QED  BY <2>3, <3>4 DEF x, y
    <2> QED  BY <2>1, <2>2, <2>3
  <1> QED  BY <1>3, <1>4, <1>5 DEF Stays

\* `power` cuts a product that is beside the power.
LEMMA PowerIs ==
    ASSUME Half # 1, NEW a \in Int, NEW b \in Nat, NEW ty, NEW p
    PROVE  \E m \in Int : Stays(m, Raised(a, b)) /\ Power(ty, a, b, p) = Cut(ty, m, p)
  <1> DEFINE product[n \in Nat] == IF n = 0 THEN 1 ELSE Saturated(product[n - 1] * a)
             G == [m \in Int |-> Saturated(m * a)]
             raised(n) == Raised(a, n)
             Like(n) == /\ product[n] \in Int
                        /\ Stays(product[n], raised(n))
                        /\ a \in {-1, 0, 1} => raised(n) \in {-1, 0, 1}
             T == {n \in Nat : Like(n)}
  <1>1. Widest \in Int /\ Widest >= 2
    <2>1. Half \in Nat /\ Half >= 2
      BY HalfAssumption
    <2>2. 2 * Half <= Half * Half
      BY <2>1, TimesUp
    <2>3. Widest = 2 * (Half * Half)
      BY <2>1 DEF Widest
    <2> QED  BY <2>1, <2>2, <2>3
  <1>2. G \in [Int -> Int] /\ \A m \in Int : G[m] = Saturated(m * a)
    <2>1. \A n \in Int : Saturated(n) \in Int
      BY <1>1 DEF Saturated
    <2>2. \A m \in Int : m * a \in Int
      OBVIOUS
    <2> QED  BY <2>1, <2>2
  <1> HIDE DEF G
  <1>3. PICK f : Unfolds(f, Int, 1, G)
    <2>1. \A c \in Int, H \in [Int -> Int] : \E g : Unfolds(g, Int, c, H)
      BY Unending
    <2>2. 1 \in Int
      OBVIOUS
    <2> QED  BY <1>2, <2>1, <2>2
  <1>4. f = [n \in Nat |-> IF n = 0 THEN 1 ELSE Saturated(f[n - 1] * a)]
    <2>1. \A n \in Nat : n # 0 => n - 1 \in Nat /\ (n - 1) + 1 = n
      OBVIOUS
    <2>2. \A n \in Nat : f[n] = IF n = 0 THEN 1 ELSE Saturated(f[n - 1] * a)
      BY <1>2, <1>3, <2>1 DEF Unfolds
    <2> QED  BY <1>3, <2>2 DEF Unfolds
  <1>5. product = [n \in Nat |-> IF n = 0 THEN 1 ELSE Saturated(product[n - 1] * a)]
    BY <1>4
  <1>6. Power(ty, a, b, p) = Cut(ty, product[b], p)
    BY DEF Power
  <1> HIDE DEF product
  <1>7. product[0] = 1 /\ \A n \in Nat : product[n + 1] = Saturated(product[n] * a)
    <2>1. \A n \in Nat : n + 1 \in Nat /\ n + 1 # 0 /\ (n + 1) - 1 = n
      OBVIOUS
    <2> QED  BY <1>5, <2>1
  <1>8. Like(0)
    <2>1. product[0] = 1 /\ Raised(a, 0) = 1
      BY <1>7, RaisedIs
    <2>2. Stays(1, 1)
      BY <1>1 DEF Stays
    <2> QED  BY <2>1, <2>2
  <1>9. ASSUME NEW n \in Nat, Like(n)  PROVE Like(n + 1)
    <2>1. raised(n) \in Int /\ raised(n + 1) = raised(n) * a
      BY RaisedIs
    <2> QED  BY <1>7, <1>9, <2>1, StaysBeside
  <1> HIDE DEF Like
  <1>10. T \in SUBSET Nat /\ 0 \in T /\ \A n \in T : n + 1 \in T
    BY <1>8, <1>9
  <1> HIDE DEF T
  <1>11. T = Nat
    BY <1>10, Induction
  <1>12. Like(b)
    BY <1>11 DEF T
  <1> QED  BY <1>6, <1>12 DEF Like

\* The settings of an integer format are those of a project.
WordFormat == fmt.ty \in Integers_ /\ Project \in Settings

\* The quotient the engines divide by leaves less than the divisor, on the
\* convention's side of nought.
LEMMA QuotientSide ==
    ASSUME WordFormat, NEW a \in Int, NEW b \in Int, b # 0, fmt.ty = "nat" => a >= 0 /\ b >= 0
    PROVE  LET q == Quotient(a, b, Project)
               left == a - q * b
           IN  /\ q \in Int /\ left \in Int
               /\ Magnitude(left) < Magnitude(b) /\ ConventionSide(a, b, left)
  <1> DEFINE t == Toward(a, b)
             rest == a - t * b
             floors == fmt.division = "floored" /\ rest # 0 /\ (rest < 0) # (b < 0)
             climbs == fmt.division = "euclidean" /\ rest < 0
             step == IF floors \/ (climbs /\ b > 0) THEN -1 ELSE IF climbs THEN 1 ELSE 0
             left == rest - step * b
  <1>1. /\ t \in Int /\ rest \in Int
        /\ b > 0 => -b < rest /\ rest < b
        /\ b < 0 => b < rest /\ rest < -b
        /\ a >= 0 => rest >= 0
        /\ a < 0 => rest <= 0
    BY TowardIs
  <1>2. fmt.division \in {"floored", "truncated", "euclidean"} /\ Project.division = fmt.division
    BY DEF WordFormat, Project, Settings
  <1>3. Quotient(a, b, Project) = t + step
    <2> HIDE DEF t
    <2>1. CASE rest = 0
      BY <1>1, <1>2, <2>1 DEF Quotient, t
    <2>2. CASE rest # 0
      BY <1>1, <1>2, <2>2 DEF Quotient, t
    <2> QED  BY <2>1, <2>2
  <1> HIDE DEF rest
  <1>4. step \in {-1, 0, 1}
    OBVIOUS
  <1> HIDE DEF step, t
  <1>5. t + step \in Int /\ a - (t + step) * b = left /\ left \in Int
    <2>1. t * b \in Int /\ step * b \in Int /\ (t + step) * b = t * b + step * b
      BY <1>1, <1>4
    <2> QED  BY <1>1, <1>4, <2>1 DEF rest
  <1>6. left = IF step = -1 THEN rest + b ELSE IF step = 1 THEN rest - b ELSE rest
    BY <1>1, <1>4
  <1> HIDE DEF left
  <1>7. Magnitude(left) < Magnitude(b) /\ ConventionSide(a, b, left)
    <2> USE <1>1, <1>2, <1>6 DEF Magnitude
    <2>1. CASE fmt.ty = "nat"
      <3>1. a >= 0 /\ b > 0
        BY <2>1
      <3>2. left = rest
        BY <3>1 DEF step
      <3> QED  BY <2>1, <3>1, <3>2 DEF ConventionSide
    <2>2. CASE fmt.ty = "int" /\ fmt.division = "floored"
      <3>1. Magnitude(left) < Magnitude(b) /\ (left = 0 \/ (left < 0) = (b < 0))
        BY <2>2 DEF step
      <3> QED  BY <2>2, <3>1 DEF ConventionSide
    <2>3. CASE fmt.ty = "int" /\ fmt.division = "truncated"
      <3>1. Magnitude(left) < Magnitude(b) /\ (left = 0 \/ (left < 0) = (a < 0))
        BY <2>3 DEF step
      <3> QED  BY <2>3, <3>1 DEF ConventionSide
    <2>4. CASE fmt.ty = "int" /\ fmt.division = "euclidean"
      <3>1. Magnitude(left) < Magnitude(b) /\ left >= 0
        BY <2>4 DEF step
      <3> QED  BY <2>4, <3>1 DEF ConventionSide
    <2> QED  BY <2>1, <2>2, <2>3, <2>4 DEF WordFormat, Integers_
  <1> QED  BY <1>3, <1>5, <1>7

\* No other quotient does.
LEMMA OneQuotient ==
    ASSUME WordFormat, NEW a \in Int, NEW b \in Int, b # 0, NEW q \in Int, NEW k \in Int,
           Magnitude(a - q * b) < Magnitude(b), ConventionSide(a, b, a - q * b),
           Magnitude(a - k * b) < Magnitude(b), ConventionSide(a, b, a - k * b)
    PROVE  q = k
  <1> DEFINE r == a - q * b
             s == a - k * b
             d == k - q
  <1>1. /\ r \in Int /\ s \in Int /\ d \in Int /\ q * b \in Int /\ k * b \in Int
        /\ d * b = k * b - q * b
    OBVIOUS
  <1>2. d * b = r - s
    BY <1>1
  <1>3. fmt.ty \in {"int", "nat"} /\ fmt.division \in {"floored", "truncated", "euclidean"}
    BY DEF WordFormat, Project, Settings, Integers_
  <1>4. (r >= 0 /\ s >= 0) \/ (r <= 0 /\ s <= 0)
    <2>1. CASE fmt.ty = "nat" \/ fmt.division = "euclidean"
      <3>1. r >= 0 /\ s >= 0
        BY <2>1 DEF ConventionSide
      <3> QED  BY <3>1
    <2>2. CASE fmt.ty = "int" /\ fmt.division = "floored"
      <3>1. (r = 0 \/ (r < 0) = (b < 0)) /\ (s = 0 \/ (s < 0) = (b < 0))
        BY <2>2 DEF ConventionSide
      <3> HIDE DEF r, s
      <3> QED  BY <1>1, <3>1
    <2>3. CASE fmt.ty = "int" /\ fmt.division = "truncated"
      <3>1. (r = 0 \/ (r < 0) = (a < 0)) /\ (s = 0 \/ (s < 0) = (a < 0))
        BY <2>3 DEF ConventionSide
      <3> HIDE DEF r, s
      <3> QED  BY <1>1, <3>1
    <2> QED  BY <1>3, <2>1, <2>2, <2>3
  <1>5. Magnitude(r) < Magnitude(b) /\ Magnitude(s) < Magnitude(b)
    OBVIOUS
  <1> HIDE DEF r, s
  <1>6. Magnitude(r - s) < Magnitude(b)
    BY <1>1, <1>4, <1>5 DEF Magnitude
  <1> HIDE DEF d
  <1>7. ~(d >= 1)
    <2>1. CASE b > 0
      <3>1. d >= 1 => 1 * b <= d * b
        BY <1>1, <2>1, TimesUp
      <3> QED  BY <1>1, <1>2, <1>6, <2>1, <3>1 DEF Magnitude
    <2>2. CASE b < 0
      <3>1. d >= 1 => d * b <= 1 * b
        BY <1>1, <2>2, TimesDown
      <3> QED  BY <1>1, <1>2, <1>6, <2>2, <3>1 DEF Magnitude
    <2> QED  BY <2>1, <2>2
  <1>8. ~(d <= -1)
    <2>1. CASE b > 0
      <3>1. d <= -1 => d * b <= -1 * b
        BY <1>1, <2>1, TimesUp
      <3> QED  BY <1>1, <1>2, <1>6, <2>1, <3>1 DEF Magnitude
    <2>2. CASE b < 0
      <3>1. d <= -1 => -1 * b <= d * b
        BY <1>1, <2>2, TimesDown
      <3> QED  BY <1>1, <1>2, <1>6, <2>2, <3>1 DEF Magnitude
    <2> QED  BY <2>1, <2>2
  <1>9. d = 0
    BY <1>1, <1>7, <1>8
  <1> QED  BY <1>9 DEF d

\* So it is the quotient of the convention, for numbers of the width.
LEMMA PartedIs ==
    ASSUME WordFormat, NEW a \in Int, NEW b \in Int, b # 0, Fits(fmt.ty, a), Fits(fmt.ty, b)
    PROVE  /\ Parted(a, b) = Quotient(a, b, Project) /\ Quotient(a, b, Project) \in Int
           /\ a - Parted(a, b) * b \in Int /\ Fits(fmt.ty, a - Parted(a, b) * b)
  <1> DEFINE q == Quotient(a, b, Project)
             left == a - q * b
             M == 2 * Half
             Parts(k) == Magnitude(a - k * b) < Magnitude(b) /\ ConventionSide(a, b, a - k * b)
  <1>1. /\ Half \in Nat \ {0} /\ M \in Int /\ -M < a /\ a < M
        /\ fmt.ty = "nat" => a >= 0 /\ b >= 0
        /\ fmt.ty = "int" => -Half <= b /\ b < Half
        /\ fmt.ty \in {"int", "nat"}
    BY HalfAssumption DEF WordFormat, Integers_, Fits, Lowest, Highest, IsSigned
  <1>2. q \in Int /\ left \in Int /\ Parts(q) /\ Magnitude(left) < Magnitude(b)
    BY <1>1, QuotientSide
  <1>3. q * b \in Int /\ q * b = a - left
    <2> HIDE DEF q
    <2> QED  BY <1>2
  <1> HIDE DEF q, M
  <1>4. q <= M
    <2> SUFFICES ASSUME q >= M + 1  PROVE FALSE
      BY <1>1, <1>2
    <2>1. CASE b > 0
      <3>1. (M + 1) * b <= q * b
        BY <1>1, <1>2, <2>1, TimesUp
      <3>2. M * 1 <= M * b
        BY <1>1, <2>1, TimesUp
      <3>3. (M + 1) * b = M * b + b
        BY <1>1
      <3> QED  BY <1>1, <1>2, <1>3, <2>1, <3>1, <3>2, <3>3 DEF Magnitude
    <2>2. CASE b < 0
      <3>1. q * b <= (M + 1) * b
        BY <1>1, <1>2, <2>2, TimesDown
      <3>2. M * b <= M * (-1)
        BY <1>1, <2>2, TimesUp
      <3>3. (M + 1) * b = M * b + b
        BY <1>1
      <3> QED  BY <1>1, <1>2, <1>3, <2>2, <3>1, <3>2, <3>3 DEF Magnitude
    <2> QED  BY <2>1, <2>2
  <1>5. q >= -M
    <2> SUFFICES ASSUME q <= -M - 1  PROVE FALSE
      BY <1>1, <1>2
    <2>1. CASE b > 0
      <3>1. q * b <= (-M - 1) * b
        BY <1>1, <1>2, <2>1, TimesUp
      <3>2. M * 1 <= M * b
        BY <1>1, <2>1, TimesUp
      <3>3. (-M - 1) * b = -(M * b) - b
        BY <1>1
      <3> QED  BY <1>1, <1>2, <1>3, <2>1, <3>1, <3>2, <3>3 DEF Magnitude
    <2>2. CASE b < 0
      <3>1. (-M - 1) * b <= q * b
        BY <1>1, <1>2, <2>2, TimesDown
      <3>2. M * b <= M * (-1)
        BY <1>1, <2>2, TimesUp
      <3>3. (-M - 1) * b = -(M * b) - b
        BY <1>1
      <3> QED  BY <1>1, <1>2, <1>3, <2>2, <3>1, <3>2, <3>3 DEF Magnitude
    <2> QED  BY <2>1, <2>2
  <1>6. q \in -2 * Half .. 2 * Half
    BY <1>1, <1>2, <1>4, <1>5 DEF M
  <1>7. \A k \in -2 * Half .. 2 * Half : Parts(k) => k = q
    <2> TAKE k \in -2 * Half .. 2 * Half
    <2>1. k \in Int
      BY <1>1
    <2> QED  BY <1>2, <2>1, OneQuotient
  <1> HIDE DEF Parts
  <1>8. (CHOOSE k \in -2 * Half .. 2 * Half : Parts(k)) = q
    BY <1>2, <1>6, <1>7
  <1>9. Parted(a, b) = q
    BY <1>8, Zenon DEF Parted, Parts
  <1>10. Fits(fmt.ty, left)
    <2>1. CASE fmt.ty = "int"
      BY <1>1, <1>2, <2>1 DEF Fits, Lowest, Highest, IsSigned, Magnitude
    <2>2. CASE fmt.ty = "nat"
      <3>1. left >= 0
        BY <1>2, <2>2 DEF Parts, ConventionSide
      <3>2. b <= 2 * Half - 1 /\ b > 0
        BY <1>1, <2>2 DEF Fits, Highest, IsSigned
      <3> QED  BY <1>1, <1>2, <2>2, <3>1, <3>2 DEF Fits, Lowest, Highest, IsSigned, Magnitude
    <2> QED  BY <1>1, <2>1, <2>2
  <1> QED  BY <1>2, <1>9, <1>10 DEF q

\* An answer is the integers', cut, or their fault.
AnswerRight(answer, a, b) ==
    IF Faulty(a, b) # "none" THEN answer.code = Faulty(a, b)
    ELSE /\ answer.code = "none" /\ answer.value.bits \in Word
         /\ (Given("pow") => Magnitude(Sought(a, b)) < Widest) =>
                answer.value.bits = Sought(a, b) % (2 * Half)

\* What cutting answers.
LEMMA CutAnswers ==
    ASSUME NEW ty, NEW n \in Int
    PROVE  LET answer == Cut(ty, n, Project)
           IN  IF fmt.overflow = "trap" /\ ~Fits(ty, n) THEN answer.code = "R0005"
               ELSE /\ answer.code = "none" /\ answer.value.bits \in Word
                    /\ answer.value.bits = n % (2 * Half)
  <1>1. n % (2 * Half) \in Word
    <2>1. 2 * Half \in Nat \ {0}
      BY HalfAssumption
    <2> QED  BY <2>1, ModRange DEF Word
  <1> QED  BY <1>1 DEF Cut, Project, Refused, Answered, Whole

\* What a word means fits.
LEMMA MeantFits ==
    ASSUME WordFormat, NEW w \in Word
    PROVE  /\ Meant(w) = NumberOf(Kept(fmt.ty, w)) /\ Meant(w) \in Int
           /\ Fits(fmt.ty, Meant(w))
  <1>1. NumberOf(Kept(fmt.ty, w)) = IF fmt.ty = "int" THEN Signed(w) ELSE w
    BY WordStands DEF WordFormat
  <1> QED  BY <1>1, HalfAssumption DEF WordFormat, Integers_, Meant, Signed, Word, Fits, Lowest, Highest, IsSigned

\* The shared arithmetic answers right, for every width, project and operation.
LEMMA SharedIsRight ==
    ASSUME Half # 1, WordFormat, todo.op \in WordOps, NEW x \in Word, NEW y \in Word
    PROVE  AnswerRight(Shared(todo.op, fmt.ty, x, y, Project), Meant(x), Meant(y))
  <1> DEFINE a == Meant(x)
             b == Meant(y)
             answer == Shared(todo.op, fmt.ty, x, y, Project)
  <1>1. /\ a = NumberOf(Kept(fmt.ty, x)) /\ b = NumberOf(Kept(fmt.ty, y))
        /\ a \in Int /\ b \in Int /\ Fits(fmt.ty, a) /\ Fits(fmt.ty, b)
    BY MeantFits
  <1>2. todo.op # "pow" => answer = IntOp(todo.op, fmt.ty, a, b, Project)
    <2>1. Kept(fmt.ty, x).ty = fmt.ty /\ IsInteger(fmt.ty)
      BY DEF Kept, IsInteger, Integers_, WordFormat
    <2> QED  BY <1>1, <2>1 DEF Shared, BinaryOp
  <1>3. todo.op = "pow" => answer = Power(fmt.ty, a, b, Project)
    BY <1>1 DEF Shared
  <1> HIDE DEF a, b, answer
  <1>4. CASE todo.op \in {"add", "sub", "mul"}
    <2>1. Sought(a, b) \in Int /\ answer = Cut(fmt.ty, Sought(a, b), Project)
      BY <1>1, <1>2, <1>4 DEF Sought, Given, IntOp
    <2>2. Faulty(a, b) = IF fmt.overflow = "trap" /\ ~Fits(fmt.ty, Sought(a, b)) THEN "R0005" ELSE "none"
      BY <1>4 DEF Faulty, Given
    <2> QED  BY <2>1, <2>2, CutAnswers DEF AnswerRight, a, b, answer
  <1>5. CASE todo.op \in {"div", "mod"} /\ b = 0
    <2>1. answer = Refused(IF todo.op = "div" THEN "R0002" ELSE "R0003")
      BY <1>2, <1>5 DEF IntOp
    <2>2. Faulty(a, b) = IF todo.op = "div" THEN "R0002" ELSE "R0003"
      BY <1>5 DEF Faulty, Given
    <2> QED  BY <1>5, <2>1, <2>2 DEF AnswerRight, Refused, a, b, answer
  <1>6. CASE todo.op = "div" /\ b # 0
    <2>1. Parted(a, b) = Quotient(a, b, Project) /\ Quotient(a, b, Project) \in Int
      BY <1>1, <1>6, PartedIs
    <2>2. Sought(a, b) = Quotient(a, b, Project)
      BY <1>6, <2>1 DEF Sought, Given
    <2>3. answer = Cut(fmt.ty, Sought(a, b), Project)
      BY <1>2, <1>6, <2>2 DEF IntOp
    <2>4. Faulty(a, b) = IF fmt.overflow = "trap" /\ ~Fits(fmt.ty, Sought(a, b)) THEN "R0005" ELSE "none"
      BY <1>6 DEF Faulty, Given
    <2> QED  BY <2>1, <2>2, <2>3, <2>4, CutAnswers DEF AnswerRight, a, b, answer
  <1>7. CASE todo.op = "mod" /\ b # 0
    <2>1. Parted(a, b) = Quotient(a, b, Project)
      BY <1>1, <1>7, PartedIs
    <2> DEFINE left == a - Parted(a, b) * b
    <2>2. left \in Int /\ Fits(fmt.ty, left)
      BY <1>1, <1>7, PartedIs
    <2>3. Sought(a, b) = left
      BY <1>7 DEF Sought, Given
    <2>4. answer = Answered(Whole(fmt.ty, left))
      BY <1>2, <1>7, <2>1 DEF IntOp
    <2> HIDE DEF left
    <2>5. Faulty(a, b) = "none"
      BY <1>7, <2>2, <2>3 DEF Faulty, Given
    <2>6. left % (2 * Half) \in Word
      <3>1. 2 * Half \in Nat \ {0}
        BY HalfAssumption
      <3> QED  BY <2>2, <3>1, ModRange DEF Word
    <2> QED  BY <2>3, <2>4, <2>5, <2>6 DEF AnswerRight, Answered, Whole, a, b, answer
  <1>8. CASE todo.op = "pow" /\ b < 0
    <2>1. answer = Refused("R0004")
      BY <1>3, <1>8 DEF Power
    <2>2. Faulty(a, b) = "R0004"
      BY <1>8 DEF Faulty, Given
    <2> QED  BY <2>1, <2>2 DEF AnswerRight, Refused, a, b, answer
  <1>9. CASE todo.op = "pow" /\ b >= 0
    <2> DEFINE n == Raised(a, b)
    <2>1. b \in Nat
      BY <1>1, <1>9
    <2>2. n \in Int
      BY <1>1, <2>1, RaisedIs
    <2>3. PICK m \in Int : Stays(m, n) /\ Power(fmt.ty, a, b, Project) = Cut(fmt.ty, m, Project)
      BY <1>1, <2>1, PowerIs
    <2>4. Sought(a, b) = n
      BY <1>9 DEF Sought, Given
    <2> HIDE DEF n
    <2>5. Faulty(a, b) = IF fmt.overflow = "trap" /\ ~Fits(fmt.ty, n) THEN "R0005" ELSE "none"
      BY <1>1, <1>9, <2>4 DEF Faulty, Given
    <2>6. Widest \in Int /\ Highest(fmt.ty) < Widest - 1 /\ -Widest < Lowest(fmt.ty)
      <3>1. Half \in Nat /\ Half >= 2
        BY HalfAssumption
      <3>2. 2 * Half <= Half * Half
        BY <3>1, TimesUp
      <3>3. Widest = 2 * (Half * Half)
        BY <3>1 DEF Widest
      <3> QED  BY <3>1, <3>2, <3>3 DEF Highest, Lowest, IsSigned
    <2>7. (Fits(fmt.ty, m) <=> Fits(fmt.ty, n)) /\ (Magnitude(n) < Widest => m = n)
      <3>1. Lowest(fmt.ty) \in Int /\ Highest(fmt.ty) \in Int
        BY HalfAssumption DEF Highest, Lowest
      <3> QED  BY <2>2, <2>3, <2>6, <3>1 DEF Fits, Stays, Magnitude
    <2>8. answer = Cut(fmt.ty, m, Project)
      BY <1>3, <1>9, <2>3
    <2>9. IF fmt.overflow = "trap" /\ ~Fits(fmt.ty, m) THEN answer.code = "R0005"
          ELSE /\ answer.code = "none" /\ answer.value.bits \in Word
               /\ answer.value.bits = m % (2 * Half)
      BY <2>8, CutAnswers
    <2> QED  BY <1>9, <2>4, <2>5, <2>7, <2>9 DEF AnswerRight, Given, a, b, answer
  <1> QED  BY <1>1, <1>4, <1>5, <1>6, <1>7, <1>8, <1>9 DEF WordOps

\* So does a negation.
LEMMA NegateIsRight ==
    ASSUME WordFormat, todo.op = "neg", NEW x \in Word, NEW b
    PROVE  AnswerRight(Negate(WordValue(x), Project), Meant(x), b)
  <1>1. Meant(x) = NumberOf(Kept(fmt.ty, x)) /\ Meant(x) \in Int
    BY MeantFits
  <1>2. Negate(WordValue(x), Project) = Cut(fmt.ty, -Meant(x), Project)
    BY <1>1 DEF Negate, WordValue, Kept, IsInteger, Integers_, WordFormat
  <1>3. Sought(Meant(x), b) = -Meant(x) /\ -Meant(x) \in Int
    BY <1>1 DEF Sought, Given
  <1>4. Faulty(Meant(x), b) =
            IF fmt.overflow = "trap" /\ ~Fits(fmt.ty, -Meant(x)) THEN "R0005" ELSE "none"
    BY <1>3 DEF Faulty, Given
  <1> QED  BY <1>2, <1>3, <1>4, CutAnswers DEF AnswerRight

\* And a relation.
LEMMA RelationIsRight ==
    ASSUME WordFormat, todo.op \in Relations, NEW x \in Word, NEW y \in Word
    PROVE  Holds(todo.op, Compare(WordValue(x), WordValue(y))) = Relates(Meant(x), Meant(y))
  <1>1. /\ Meant(x) = NumberOf(WordValue(x)) /\ Meant(x) \in Int
        /\ Meant(y) = NumberOf(WordValue(y)) /\ Meant(y) \in Int
    BY MeantFits DEF WordValue
  <1> DEFINE a == Meant(x)
             b == Meant(y)
  <1>2. Compare(WordValue(x), WordValue(y)) = IF a < b THEN "less" ELSE IF a = b THEN "equal" ELSE "greater"
    BY <1>1 DEF Compare
  <1>3. a \in Int /\ b \in Int
    BY <1>1
  <1> HIDE DEF a, b
  <1>4. Holds(todo.op, IF a < b THEN "less" ELSE IF a = b THEN "equal" ELSE "greater") = Relates(a, b)
    BY <1>3 DEF Holds, Relates, Given, Relations
  <1> QED  BY <1>2, <1>4 DEF a, b

\* What a step starts from: the accumulator of an integer is a word, what is
\* fetched beside it may be, and a comparison's answer is taken before the next.
Fetching ==
    /\ fmt \in Formats
    /\ said # "none" => todo = Idle
    /\ fmt.unit = "word" => acc \in Word /\ (todo = Idle \/ Fetchable(fmt, acc, todo))

\* The operation fetched answers right, whichever of the two engines is asked.
LEMMA StepIsRight ==
    ASSUME WordsGiven, Fetching, OfWords
    PROVE  WordRight(Meant(acc), Meant(todo.with)) /\ Fetching'
  <1> DEFINE a == Meant(acc)
             b == Meant(todo.with)
             marked == todo.by.proved
  <1>1. fmt.unit = "word"
    BY DEF OfWords
  <1>2. Half # 1 /\ WordFormat /\ fmt.ty \in Integers_ /\ Project \in Settings
    BY <1>1 DEF WordsGiven, Fetching, WordFormat, Project, Settings, Integers_
  <1>3. todo.op \in WordOps \cup Relations \cup {"neg"}
    BY DEF OfWords, WordShared, WordNative, WordNegate, WordNegateNative, WordRelation, WordRelationNative, Fetched
  <1>4. todo # Idle /\ said = "none"
    BY <1>3 DEF Fetching, Idle, WordOps, Relations
  <1>5. acc \in Word /\ Fetchable(fmt, acc, todo)
    BY <1>1, <1>4 DEF Fetching
  <1>6. /\ todo.with \in Word /\ marked \in BOOLEAN
        /\ marked => Marked(todo.op, fmt.ty, acc, todo.with)
    BY <1>5 DEF Fetchable
  <1>7. ASSUME NEW answer, WordAnswer(answer), AnswerRight(answer, a, b), todo.op \notin Relations
        PROVE  WordRight(a, b) /\ Fetching'
    <2>1. todo' = Idle /\ fmt' = fmt
      BY <1>7 DEF WordAnswer, Becomes, Tells
    <2>2. CASE answer.code = "none"
      <3>1. acc' = answer.value.bits /\ said' = said
        BY <1>7, <2>2 DEF WordAnswer, Becomes
      <3>2. Faulty(a, b) = "none"
        BY <1>7, <2>2 DEF AnswerRight
      <3>3. /\ answer.value.bits \in Word
            /\ (Given("pow") => Magnitude(Sought(a, b)) < Widest) =>
                    answer.value.bits = Sought(a, b) % (2 * Half)
        BY <1>7, <3>2 DEF AnswerRight
      <3>4. WordRight(a, b)
        BY <1>4, <1>7, <3>1, <3>2, <3>3 DEF WordRight
      <3> QED  BY <1>4, <2>1, <3>1, <3>3, <3>4 DEF Fetching
    <2>3. CASE answer.code # "none"
      <3>1. said' = answer.code /\ acc' = acc
        BY <1>7, <2>3 DEF WordAnswer, Tells
      <3>2. Faulty(a, b) # "none" /\ answer.code = Faulty(a, b)
        BY <1>7, <2>3 DEF AnswerRight
      <3>3. WordRight(a, b)
        BY <1>7, <3>1, <3>2 DEF WordRight
      <3> QED  BY <1>5, <2>1, <3>1, <3>3 DEF Fetching
    <2> QED  BY <2>2, <2>3
  <1>8. ASSUME TellsWhether(Relates(a, b)), todo.op \in Relations  PROVE WordRight(a, b) /\ Fetching'
    <2>1. todo' = Idle /\ fmt' = fmt /\ acc' = acc /\ said' = (IF Relates(a, b) THEN "true" ELSE "false")
      BY <1>8 DEF TellsWhether, Tells
    <2>2. WordRight(a, b)
      BY <1>8, <2>1 DEF WordRight
    <2> QED  BY <1>5, <2>1, <2>2 DEF Fetching
  <1>9. CASE WordShared
    <2>1. todo.op \in WordOps /\ todo.op \notin Relations
      BY <1>9 DEF WordShared, Fetched, WordOps, Relations
    <2>2. AnswerRight(Shared(todo.op, fmt.ty, acc, todo.with, Project), a, b)
      BY <1>2, <1>5, <1>6, <2>1, SharedIsRight
    <2> QED  BY <1>7, <1>9, <2>1, <2>2 DEF WordShared
  <1>10. CASE WordNative
    <2>1. todo.op \in WordOps /\ todo.op \notin Relations
      BY <1>10 DEF WordNative, Fetched, WordOps, Relations
    <2>2. AnswerRight(Shared(todo.op, fmt.ty, acc, todo.with, Project), a, b)
      BY <1>2, <1>5, <1>6, <2>1, SharedIsRight
    <2>3. todo.op \in Operations \cup {"pow"}
      BY <2>1 DEF WordOps, Operations
    <2>4. marked /\ todo.op \in {"div", "mod"} /\ IsSigned(fmt.ty) => Signed(acc) >= 0 /\ Signed(todo.with) > 0
      BY <1>6 DEF Marked, IsSigned
    <2>5. Arithmetic(todo.op, fmt.ty, acc, todo.with, marked, Project)
              = Shared(todo.op, fmt.ty, acc, todo.with, Project)
      BY <1>2, <1>5, <1>6, <2>3, <2>4, CompiledComputes
    <2> QED  BY <1>7, <1>10, <2>1, <2>2, <2>5 DEF WordNative
  <1>11. CASE WordNegate
    <2>1. todo.op = "neg" /\ todo.op \notin Relations
      BY <1>11 DEF WordNegate, Fetched, Relations
    <2>2. AnswerRight(Negate(WordValue(acc), Project), a, b)
      BY <1>2, <1>5, <2>1, NegateIsRight
    <2> QED  BY <1>7, <1>11, <2>1, <2>2 DEF WordNegate
  <1>12. CASE WordNegateNative
    <2>1. todo.op = "neg" /\ todo.op \notin Relations
      BY <1>12 DEF WordNegateNative, Fetched, Relations
    <2>2. AnswerRight(Negate(WordValue(acc), Project), a, b)
      BY <1>2, <1>5, <2>1, NegateIsRight
    <2>3. Negated(fmt.ty, acc, Project) = Negate(WordValue(acc), Project)
      BY <1>2, <1>5, CompiledNegates DEF WordValue
    <2> QED  BY <1>7, <1>12, <2>1, <2>2, <2>3 DEF WordNegateNative
  <1>13. CASE WordRelation
    <2>1. todo.op \in Relations
      BY <1>13 DEF WordRelation, Fetched
    <2>2. Holds(todo.op, Compare(WordValue(acc), WordValue(todo.with))) = Relates(a, b)
      BY <1>2, <1>5, <1>6, <2>1, RelationIsRight
    <2> QED  BY <1>8, <1>13, <2>1, <2>2 DEF WordRelation
  <1>14. CASE WordRelationNative
    <2>1. todo.op \in Relations
      BY <1>14 DEF WordRelationNative, Fetched
    <2>2. Holds(todo.op, Compare(WordValue(acc), WordValue(todo.with))) = Relates(a, b)
      BY <1>2, <1>5, <1>6, <2>1, RelationIsRight
    <2>3. Stands(todo.op, fmt.ty, acc, todo.with) = Holds(todo.op, Compare(WordValue(acc), WordValue(todo.with)))
      BY <1>2, <1>5, <1>6, <2>1, CompiledRelates DEF WordValue, Relations
    <2> QED  BY <1>8, <1>14, <2>1, <2>2, <2>3 DEF WordRelationNative
  <1> QED  BY <1>9, <1>10, <1>11, <1>12, <1>13, <1>14 DEF OfWords

\* Every integer operation of every run answers what the integers do, cut to
\* the width, or stops with the fault that says why not, at every width of more
\* than one bit: with each type, convention and overflow mode, in the shared
\* arithmetic and in compiled code (value.rs, int_op; luarust-jit/lib.rs,
\* int_division).
THEOREM EnginesComputeAlways ==
    Spec => EnginesCompute
  <1>1. Init => Fetching
    BY WordsAssumption DEF WordsGiven, Init, Fetching
  <1>2. ASSUME Fetching, [Next]_vars
        PROVE  /\ Fetching'
               /\ [Worked("word") => WordRight(Meant(acc), Meant(todo.with))]_vars
    <2>1. CASE UNCHANGED vars
      BY <1>2, <2>1 DEF Fetching, vars
    <2>2. CASE Take
      <3>1. ~Worked("word")
        BY <2>2 DEF Take, Waiting, Worked, Idle
      <3> QED  BY <1>2, <2>2, <3>1, WordsAssumption DEF Take, Waiting, Fetching, WordsGiven
    <2>3. CASE Fetch
      <3>1. ~Worked("word")
        BY <2>3 DEF Fetch, Waiting, Worked, Idle
      <3> QED  BY <1>2, <2>3, <3>1, WordsAssumption DEF Fetch, Waiting, Fetching, WordsGiven
    <2>4. CASE Branch
      <3>1. ~Worked("word")
        BY <1>2, <2>4 DEF Branch, Fetching, Worked, Idle
      <3> QED  BY <1>2, <2>4, <3>1 DEF Branch, Fetching
    <2>5. CASE OfWords
      BY <1>2, <2>5, WordsAssumption, StepIsRight
    <2> QED  BY <1>2, <2>1, <2>2, <2>3, <2>4, <2>5 DEF Next
  <1> QED  BY <1>1, <1>2, PTL DEF Spec, EnginesCompute

=============================================================================
