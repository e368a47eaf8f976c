------------------------------ MODULE Rounding ------------------------------
(* What a float's arithmetic has to answer, said from the numbers alone. The *)
(* magnitudes of a format, counted in the smallest one it has, are listed in *)
(* the order of their encodings; an exact ratio falls on one of them or      *)
(* between two, and the mode chooses. No significand is shifted here, and    *)
(* nothing is normalised.                                                    *)
EXTENDS Floats

Top(fmt) == MaxBiased(fmt) * 2 ^ Stored(fmt)           \* infinity's encoding
Quanta(fmt, m) ==
    LET t == Stored(fmt) IN
    IF m \div 2 ^ t = 0 THEN m ELSE (2 ^ t + (m % 2 ^ t)) * 2 ^ (m \div 2 ^ t - 1)

IsNan(fmt, a) == Abs(fmt, a) > Top(fmt)
IsQuiet(fmt, a) == IsNan(fmt, a) /\ (Abs(fmt, a) - Top(fmt)) \div 2 ^ (Stored(fmt) - 1) = 1
IsInfinite(fmt, a) == Abs(fmt, a) = Top(fmt)
IsZero(fmt, a) == Abs(fmt, a) = 0
IsFinite(fmt, a) == Abs(fmt, a) < Top(fmt)
Negative(fmt, a) == a # Abs(fmt, a)
Number(fmt, a) == IF Negative(fmt, a) THEN -Quanta(fmt, Abs(fmt, a)) ELSE Quanta(fmt, a)
Size(n) == IF n < 0 THEN -n ELSE n

\* The encoding for a magnitude that is at least `below`'s and, unless it is
\* `exact`, less than the next; `side` is how it compares with half way.
Chosen(fmt, mode, sign, below, exact, side) ==
    LET outward == below + 1
        whole ==
            IF below = Top(fmt) THEN IF ToInfinity(mode, sign) THEN below ELSE below - 1
            ELSE IF exact THEN below
            ELSE CASE mode = "even" -> IF side > 0 \/ (side = 0 /\ below % 2 = 1) THEN outward ELSE below
                   [] mode = "away" -> IF side >= 0 THEN outward ELSE below
                   [] mode = "zero" -> below
                   [] mode = "up" -> IF sign THEN below ELSE outward
                   [] mode = "down" -> IF sign THEN outward ELSE below
    IN  WithSign(fmt, sign, whole)

Side(twice, both) == IF twice > both THEN 1 ELSE IF twice = both THEN 0 ELSE -1

\* n / d of the smallest magnitude, n and d natural.
Rounded(fmt, mode, sign, n, d) ==
    LET below == CHOOSE m \in 0..Top(fmt) :
                    Quanta(fmt, m) * d <= n /\ (m = Top(fmt) \/ Quanta(fmt, m + 1) * d > n)
    IN  Chosen(fmt, mode, sign, below, Quanta(fmt, below) * d = n,
               Side(2 * n, (Quanta(fmt, below) + Quanta(fmt, below + 1)) * d))
\* The square root of n.
RoundedRoot(fmt, mode, n) ==
    LET Square(k) == k * k
        below == CHOOSE m \in 0..Top(fmt) :
                    Square(Quanta(fmt, m)) <= n /\ (m = Top(fmt) \/ Square(Quanta(fmt, m + 1)) > n)
    IN  Chosen(fmt, mode, FALSE, below, Square(Quanta(fmt, below)) = n,
               Side(4 * n, Square(Quanta(fmt, below) + Quanta(fmt, below + 1))))

One(fmt) == 2 ^ (-MinQuantum(fmt))                     \* one, in quanta

\* An exact sum of two finite operands: a nought of it has a sign of its own.
SumIs(fmt, mode, a, b, answer) ==
    LET n == Number(fmt, a) + Number(fmt, b) IN
    IF n # 0 THEN answer = Rounded(fmt, mode, n < 0, Size(n), 1)
    ELSE IF Negative(fmt, a) = Negative(fmt, b) THEN answer = WithSign(fmt, Negative(fmt, a), 0)
    ELSE answer = WithSign(fmt, mode = "down", 0)

Invalid(fmt, op, a, b) ==
    LET both == {a, b}
        infinite == \A v \in both : IsInfinite(fmt, v)
        differ == Negative(fmt, a) # Negative(fmt, b)
    IN  \/ \E v \in both : IsNan(fmt, v)
        \/ op = "add" /\ infinite /\ differ
        \/ op = "sub" /\ infinite /\ ~differ
        \/ op = "mul" /\ (\E v \in both : IsInfinite(fmt, v)) /\ (\E v \in both : IsZero(fmt, v))
        \/ op = "div" /\ (infinite \/ \A v \in both : IsZero(fmt, v))
        \/ op = "rem" /\ (IsInfinite(fmt, a) \/ IsZero(fmt, b))
        \/ op = "sqrt" /\ Negative(fmt, a) /\ ~IsZero(fmt, a)

\* An answer of two operands that has one.
Right(fmt, op, mode, a, b, answer) ==
    LET sign == Negative(fmt, a) # Negative(fmt, b)
        x == Quanta(fmt, Abs(fmt, a))
        y == Quanta(fmt, Abs(fmt, b))
        finite == IsFinite(fmt, a) /\ IsFinite(fmt, b)
        minus == Neg(fmt, b)
    IN  CASE op = "add" ->
                IF finite THEN SumIs(fmt, mode, a, b, answer)
                ELSE answer = IF IsInfinite(fmt, a) THEN a ELSE b
          [] op = "sub" ->
                IF finite THEN SumIs(fmt, mode, a, minus, answer)
                ELSE answer = IF IsInfinite(fmt, a) THEN a ELSE minus
          [] op = "mul" ->
                answer = IF finite THEN Rounded(fmt, mode, sign, x * y, One(fmt))
                         ELSE WithSign(fmt, sign, Top(fmt))
          [] op = "div" ->
                answer = IF IsInfinite(fmt, a) \/ IsZero(fmt, b) THEN WithSign(fmt, sign, Top(fmt))
                         ELSE IF IsInfinite(fmt, b) THEN WithSign(fmt, sign, 0)
                         ELSE Rounded(fmt, mode, sign, x * One(fmt), y)
          [] op = "rem" ->
                IF IsInfinite(fmt, b) THEN answer = a
                ELSE /\ Negative(fmt, answer) = Negative(fmt, a)
                     /\ Quanta(fmt, Abs(fmt, answer)) = x % y
          [] op = "sqrt" ->
                answer = IF IsFinite(fmt, a) /\ ~IsZero(fmt, a) THEN RoundedRoot(fmt, mode, x * One(fmt)) ELSE a
=============================================================================
