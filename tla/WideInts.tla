------------------------------ MODULE WideInts ------------------------------
(* Whole numbers wider than a machine word (luarust-num/uint.rs): a sequence *)
(* of limbs, the least significant first, and the loops over them that carry,*)
(* borrow, shift, multiply, divide and take a root. Every limb is a word of  *)
(* its own: nothing here may look past the one it is at but by what was      *)
(* carried to it.                                                            *)
EXTENDS Integers, Sequences, FiniteSets, SequencesExt, FiniteSetsExt

CONSTANTS WordBits, Limbs       \* the bits of a limb, 64; how many, N

ASSUME WideIntsAssumption == WordBits \in 1..7 /\ Limbs \in Nat \ {0}

Base == 2 ^ WordBits
Bits == Limbs * WordBits
Places == 1..Limbs
Uint == [Places -> 0..Base - 1]
None == [i \in Places |-> 0]
All == [i \in Places |-> Base - 1]
FromLow(n) == [None EXCEPT ![1] = n]                 \* from_u64, of one limb
UintIsZero(u) == u = None
IsOdd(u) == u[1] % 2 = 1

\* Bit i, counted from the least significant; past the width it reads clear,
\* and setting it there does nothing.
LimbOf(i) == i \div WordBits + 1
BitAt(u, i) == i < Bits /\ (u[LimbOf(i)] \div 2 ^ (i % WordBits)) % 2 = 1
WithBit(u, i) == IF i >= Bits \/ BitAt(u, i) THEN u ELSE [u EXCEPT ![LimbOf(i)] = @ + 2 ^ (i % WordBits)]
WordLen(n) == Cardinality({k \in 0..WordBits - 1 : 2 ^ k <= n})
UintLen(u) ==
    LET used == {i \in Places : u[i] # 0} IN
    IF used = {} THEN 0
    ELSE LET top == CHOOSE i \in used : \A j \in used : j <= i IN (top - 1) * WordBits + WordLen(u[top])
AnyBelow(u, count) ==
    LET k == IF count < Bits THEN count ELSE Bits
        full == k \div WordBits
        rest == k % WordBits
    IN  \/ \E i \in 1..full : u[i] # 0
        \/ rest > 0 /\ full < Limbs /\ u[full + 1] % 2 ^ rest # 0

\* cmp: the highest limb that differs decides.
UintCompare(a, b) ==
    LET differ == {i \in Places : a[i] # b[i]}
        top == CHOOSE i \in differ : \A j \in differ : j <= i
    IN  IF differ = {} THEN "equal" ELSE IF a[top] > b[top] THEN "greater" ELSE "less"
AtLeast(a, b) == UintCompare(a, b) # "less"

\* carried[i] is what limb i hands on to the next.
OverflowingAdd(a, b) ==
    LET carried[i \in 0..Limbs] == IF i = 0 THEN 0 ELSE (a[i] + b[i] + carried[i - 1]) \div Base
    IN  [value |-> [i \in Places |-> (a[i] + b[i] + carried[i - 1]) % Base], over |-> carried[Limbs] # 0]
\* Mutant: a limb that is equal to what is taken off it hands no borrow on.
SubForgetting(a, b) ==
    LET owed[i \in 0..Limbs] == IF i = 0 THEN 0 ELSE IF a[i] < b[i] THEN 1 ELSE 0
    IN  [value |-> [i \in Places |-> (a[i] - b[i] - owed[i - 1]) % Base], over |-> owed[Limbs] # 0]
OverflowingSub(a, b) ==
    LET owed[i \in 0..Limbs] == IF i = 0 THEN 0 ELSE IF a[i] < b[i] + owed[i - 1] THEN 1 ELSE 0
    IN  [value |-> [i \in Places |-> (a[i] - b[i] - owed[i - 1]) % Base], over |-> owed[Limbs] # 0]
WrappingAdd(a, b) == OverflowingAdd(a, b).value
WrappingSub(a, b) == OverflowingSub(a, b).value

\* A shift of whole limbs, and of bits out of one limb into the next.
LimbAt(u, i) == IF i \in Places THEN u[i] ELSE 0
UintShl(u, n) ==
    LET limb == n \div WordBits
        bit == n % WordBits
    IN  IF n >= Bits THEN None
        ELSE [i \in Places |-> IF bit = 0 THEN LimbAt(u, i - limb)
                               ELSE ((LimbAt(u, i - limb) * 2 ^ bit) % Base)
                                    + LimbAt(u, i - limb - 1) \div 2 ^ (WordBits - bit)]
UintShr(u, n) ==
    LET limb == n \div WordBits
        bit == n % WordBits
    IN  IF n >= Bits THEN None
        ELSE [i \in Places |-> IF bit = 0 THEN LimbAt(u, i + limb)
                               ELSE LimbAt(u, i + limb) \div 2 ^ bit
                                    + ((LimbAt(u, i + limb + 1) * 2 ^ (WordBits - bit)) % Base)]
LowMask(k) == IF k = 0 THEN None ELSE IF k >= Bits THEN All ELSE WrappingSub(UintShl(FromLow(1), k), FromLow(1))

WordAnd(x, y) ==
    MapThenSumSet(LAMBDA k : 2 ^ k * ((x \div 2 ^ k) % 2) * ((y \div 2 ^ k) % 2), 0..WordBits - 1)
UintAnd(a, b) == [i \in Places |-> WordAnd(a[i], b[i])]

\* One limb of a against all of b, added in from place i on; what is carried
\* out of b's last limb runs on until it is spent. The product has 2N places.
MulRow(a, b, i, sum) ==
    LET term(j) == IF j - i + 1 \in Places /\ j >= i THEN a[i] * b[j - i + 1] ELSE 0
        carried[j \in i - 1..2 * Limbs] ==
            IF j < i THEN 0 ELSE (term(j) + sum[j] + carried[j - 1]) \div Base
    IN  IF a[i] = 0 THEN sum
        ELSE [j \in 1..2 * Limbs |-> IF j < i THEN sum[j] ELSE (term(j) + sum[j] + carried[j - 1]) % Base]
MulWide(a, b) ==
    LET product == FoldLeft(LAMBDA sum, i : MulRow(a, b, i, sum), [j \in 1..2 * Limbs |-> 0], [i \in Places |-> i])
    IN  [low |-> SubSeq(product, 1, Limbs), high |-> SubSeq(product, Limbs + 1, 2 * Limbs)]

\* Long division, a bit of the dividend at a time from the top. A divisor that
\* fills the width is set apart: a remainder below it need not have room to
\* double, and the quotient can only be one.
Downward(count) == [i \in 1..count |-> count - i]
DivStep(a, b, so, i) ==
    LET doubled == UintShl(so.rem, 1)
        next == IF BitAt(a, i) THEN WithBit(doubled, 0) ELSE doubled
    IN  IF AtLeast(next, b) THEN [quot |-> WithBit(so.quot, i), rem |-> WrappingSub(next, b)]
        ELSE [so EXCEPT !.rem = next]
DivRem(a, b) ==
    IF ~AtLeast(a, b) THEN [quot |-> None, rem |-> a]
    ELSE IF UintLen(b) = Bits THEN [quot |-> FromLow(1), rem |-> WrappingSub(a, b)]
    ELSE FoldLeft(LAMBDA so, i : DivStep(a, b, so, i), [quot |-> None, rem |-> None], Downward(UintLen(a)))

\* The root, two bits of the number at a time from the top; a trial that would
\* not fit the width cannot be paid for either.
RootStep(so, pos) ==
    LET bit == WithBit(None, pos)
        trial == OverflowingAdd(so.root, bit)
        halved == UintShr(so.root, 1)
    IN  IF ~trial.over /\ AtLeast(so.num, trial.value)
        THEN [num |-> WrappingSub(so.num, trial.value), root |-> WrappingAdd(halved, bit)]
        ELSE [so EXCEPT !.root = halved]
UintRoot(u) ==
    LET pairs == (UintLen(u) + 1) \div 2
        so == FoldLeft(RootStep, [num |-> u, root |-> None], [i \in 1..pairs |-> 2 * (pairs - i)])
    IN  IF UintIsZero(u) THEN [root |-> None, exact |-> TRUE] ELSE [root |-> so.root, exact |-> UintIsZero(so.num)]
=============================================================================
