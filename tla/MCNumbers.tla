----------------------------- MODULE MCNumbers -----------------------------
EXTENDS Numbers

\* Few digits and a long range; more digits and a short one.
Narrow == [unit |-> "float", bits |-> 6, exp_bits |-> 4, precision |-> 2]
Fine == [unit |-> "float", bits |-> 7, exp_bits |-> 3, precision |-> 4]
\* A sum reaches 4 places in the first, whose exponents are 7 apart; 6 in the
\* second. The third has a declet to write.
Digit == [unit |-> "decimal", bits |-> 8, digits |-> 1, exp_bits |-> 4, trailing_bits |-> 0, bias |-> 3, max_exp |-> 4]
Pair == [unit |-> "decimal", bits |-> 12, digits |-> 2, exp_bits |-> 4, trailing_bits |-> 4, bias |-> 3, max_exp |-> 3]
Packed == [unit |-> "decimal", bits |-> 18, digits |-> 4, exp_bits |-> 4, trailing_bits |-> 10, bias |-> 3, max_exp |-> 4]
Limbed == [unit |-> "whole"]
Rational == [unit |-> "ratio"]
Projects == [unit : {"word"}, ty : {"int", "nat"}, overflow : {"wrap", "trap"},
             division : {"floored", "truncated", "euclidean"}]
MCGrid == <<>>
MCFormats == {Narrow, Fine, Digit, Pair, Packed, Limbed, Rational} \cup Projects
FloatFormats == {Narrow, Fine}
DecimalFormats == {Digit}

Ends(sigs, f) == {DecPack(f, Finite(s, n, e), FALSE) : s \in BOOLEAN, n \in sigs, e \in {MinExp(f), f.max_exp}}
Every(sigs, f) == {DecPack(f, Finite(s, n, e), FALSE) : s \in BOOLEAN, n \in sigs, e \in MinExp(f)..f.max_exp}
Odds(f) == {DecPack(f, DecNan, FALSE)} \cup {DecPack(f, DecInfinity(s), FALSE) : s \in BOOLEAN}
\* Numerals below 8 and from 8 on, in every place of a declet.
Numerals3 == {100 * h + 10 * t + u : h, t, u \in {0, 5, 8, 9}} \cup {8000, 9899, 9989, 9999}
Quarters == {Ratio(n, d) : n \in -4..4, d \in 1..4}

MCConstants(f) ==
    CASE f.unit = "float" -> 0..2 ^ f.bits - 1
      [] f = Digit -> Every(0..9, f) \cup Odds(f)
      [] f = Pair -> Every({0, 1, 9, 10, 15, 50, 95, 99}, f)
      [] f = Packed -> Ends(Numerals3, f) \cup Odds(f)
      [] f.unit = "whole" -> Uint
      [] f.unit = "ratio" -> Quarters
      [] f.unit = "word" -> 0..2 * Half - 1

Texts == {<<>>, <<"0">>, <<"-", "0">>, <<"-", ".">>, <<"1", ".">>, <<"0", ".", "1">>, <<"-", "2", ".", "5">>, <<"3", ".", "0">>,
          <<".", "6", "5">>, <<"+", "9", "9">>, <<"1", "1", "2">>, <<"-", "9", ".", "9", "9">>, <<"0", ".", "0", "3">>,
          <<"1", ".", "2", ".", "3">>, <<"1", "e", "2">>, <<"0", ".", "0", "0", "1">>, <<"5", "-">>}
\* The operands beside a float.
Beside(f) == IF f = Narrow THEN 0..63 ELSE {3 * n : n \in 0..42}
\* Which of the two engines is asked; the checker marks what it proved.
Asks(proved) == [native : BOOLEAN, proved : {proved}]
Asked(ops, modes, bys, withs) == [op : ops, mode : modes, by : bys, with : withs]
MCFetches(f, value) ==
    CASE f.unit = "float" ->
            Asked({"add", "sub", "mul", "div"}, IF f = Narrow THEN Modes ELSE {"even"}, {0}, Beside(f))
            \cup Asked({"rem", "compare"}, {"even"}, {0}, Beside(f))
            \cup Asked({"mod"}, {"even"}, IF f = Narrow THEN {"floored", "truncated", "euclidean"} ELSE {"floored"}, Beside(f))
            \cup Asked({"pow"}, {"even"}, {0}, Beside(f))
            \cup Asked({"sqrt"}, Modes, {0}, {value})
            \cup (IF value # 0 THEN {}
                  ELSE UNION {Asked({"convert"}, Modes, {g}, MCConstants(g)) : g \in FloatFormats})
            \cup (IF value # 0 THEN {} ELSE Asked({"read"}, Modes, {0}, Texts))
      [] f = Digit ->
            Asked({"add", "sub", "mul", "div", "compare"}, {"even"}, {0}, Every({0, 1, 5, 9}, f) \cup Odds(f))
            \cup Asked({"pow"}, {"even"}, {0}, Every({0, 1, 2, 3, 5}, f) \cup Odds(f))
            \cup Asked({"mod"}, {"even"}, {"floored", "truncated", "euclidean"}, Every({0, 3, 7}, f) \cup Odds(f))
      [] f = Pair ->
            IF value \notin MCConstants(f) THEN {}
            ELSE Asked({"add", "sub", "mul", "div", "compare"}, {"even"}, {0}, Every({0, 5, 10, 15, 95}, f))
                 \cup Asked({"mod"}, {"even"}, {"floored", "truncated"}, Every({0, 7, 95}, f))
                 \cup Asked({"pow"}, {"even"}, {0}, Every({0, 2, 3, 20, 30}, f))
      [] f = Packed -> Asked({"save"}, {"even"}, BOOLEAN, {value})
      [] f.unit = "whole" ->
            Asked({"add", "sub", "mul", "high", "compare"}, {"even"}, {0}, Uint)
            \cup Asked({"div", "mod"}, {"even"}, {0}, Uint \ {None})
            \cup Asked({"sqrt"}, {"even"}, {0}, {None})
            \cup Asked({"shl", "shr", "sticky", "keep"}, {"even"}, 0..Bits + 1, {None})
      [] f.unit = "ratio" ->
            IF value \notin Quarters THEN {}
            ELSE Asked({"add", "sub", "mul", "div", "pow", "compare"}, {"even"}, {0}, Quarters)
                 \cup Asked({"mod"}, {"even"}, {"floored", "truncated", "euclidean"}, Quarters)
      [] f.unit = "word" ->
            Asked(WordOps \cup Relations, {"even"}, Asks(FALSE), 0..2 * Half - 1)
            \cup Asked({"neg"}, {"even"}, Asks(FALSE), {0})
            \cup (IF f.ty = "nat" \/ value >= Half THEN {}
                  ELSE Asked({"div", "mod"}, {"even"}, Asks(TRUE), 1..Half - 1))
=============================================================================
