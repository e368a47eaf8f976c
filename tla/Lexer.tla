------------------------------- MODULE Lexer -------------------------------
(* Source text into tokens (luarust-lex). A character is a string of one; a  *)
(* token is [kind, text], and punctuation is a kind by its own spelling. The *)
(* letters and digits are the few a source is made of here. Where a complaint *)
(* points, and the value an escape stands for, are left out.                  *)
(*   A lexer is the record [text, at, tokens, complaints] its steps pass on.  *)
EXTENDS Integers, Sequences, SequencesExt

CONSTANT MostLines    \* u32::MAX, the largest count a comment may give

Digits == {"0", "1", "2", "3"}
Letters == {"a", "d", "x", "n"}
Blank == {" ", "\n"}
Escapes == {"n", "t", "r", "0", "\\"}
Single == {"[", "]", "{", "}", "(", ")", ";", ",", ".", "=", "+", "-", "/", "%"}
Quotes == {"'", "|", "tick", "\""}

\* The character at a place, and the first place from one on that is not of a
\* class.
At(text, i) == IF i \in DOMAIN text THEN text[i] ELSE "end of file"
RECURSIVE Past(_, _, _)
Past(class, text, i) == IF At(text, i) \in class THEN Past(class, text, i + 1) ELSE i

Push(lexer, kind, to) ==
    [lexer EXCEPT !.at = to,
                  !.tokens = Append(@, [kind |-> kind, text |-> SubSeq(lexer.text, lexer.at, to - 1)])]
Complain(lexer, code, to) == [lexer EXCEPT !.at = to, !.complaints = Append(@, code)]

\* `or_equal`, `*` or `**`, and `!=`, which has no plain form.
Signed(lexer) ==
    LET first == At(lexer.text, lexer.at)
        second == At(lexer.text, lexer.at + 1)
        third == At(lexer.text, lexer.at + 2)
    IN  CASE first = "*" /\ second = "*" -> Push(lexer, "**", lexer.at + 2)
          [] first # "*" /\ second = "=" -> Push(lexer, first \o "=", lexer.at + 2)
          [] first \in {"<", ">"} /\ second = "/" /\ third = "=" ->
                Push(lexer, first \o "=", lexer.at + 3)
          [] first = "!" /\ second # "=" -> Complain(lexer, "E0003", lexer.at + 1)
          [] OTHER -> Push(lexer, first, lexer.at + 1)

\* `skip_comment`: the count, straight after the `#`, says how many lines.
DigitOf == [d \in Digits |-> CASE d = "0" -> 0 [] d = "1" -> 1 [] d = "2" -> 2 [] d = "3" -> 3]
Count(digits) == FoldLeft(LAMBDA n, d : 10 * n + DigitOf[d], 0, digits)
RECURSIVE LinesDown(_, _, _)
LinesDown(text, i, lines) ==
    IF lines = 0 \/ i > Len(text) THEN i
    ELSE LinesDown(text, i + 1, IF text[i] = "\n" THEN lines - 1 ELSE lines)
SkipCommentFlat(lexer) ==
    LET after == Past(Digits, lexer.text, lexer.at + 1)
        digits == SubSeq(lexer.text, lexer.at + 1, after - 1)
        counted == digits # <<>> /\ Count(digits) \in 1 .. MostLines
    IN  [lexer EXCEPT !.at = LinesDown(lexer.text, after, IF counted THEN Count(digits) ELSE 1)]
SkipComment(lexer) ==
    LET after == Past(Digits, lexer.text, lexer.at + 1)
        digits == SubSeq(lexer.text, lexer.at + 1, after - 1)
        down == digits # <<>> /\ At(lexer.text, after) = "d"
        from == IF down THEN after + 1 ELSE after
        counted == digits # <<>> /\ Count(digits) <= MostLines
        lines == CASE ~counted \/ Count(digits) = 0 -> 1
                   [] counted /\ Count(digits) > 0 /\ down ->
                        IF Count(digits) = MostLines THEN MostLines ELSE Count(digits) + 1
                   [] OTHER -> Count(digits)
        to == LinesDown(lexer.text, from, lines)
    IN  IF counted /\ Count(digits) = 0 THEN Complain(lexer, "E0004", to)
        ELSE [lexer EXCEPT !.at = to]

\* `quoted`: only text has escapes, and one that is not known takes the
\* character after the backslash with it, whatever that is.
KindOf(quote) == CASE quote = "'" -> "name" [] quote \in {"|", "tick"} -> "literal" [] quote = "\"" -> "text"
Unclosed == [name |-> "E0002", literal |-> "E0004", text |-> "E0001"]
RECURSIVE Within(_, _, _)
Within(lexer, quote, i) ==
    CASE At(lexer.text, i) = quote -> Push(lexer, KindOf(quote), i + 1)
      [] At(lexer.text, i) = "\\" /\ quote = "\"" ->
            Within(IF At(lexer.text, i + 1) \in Escapes THEN lexer
                   ELSE [lexer EXCEPT !.complaints = Append(@, "E0004")], quote, i + 2)
      [] At(lexer.text, i) = "\n" \/ i > Len(lexer.text) ->
            [Push(lexer, KindOf(quote), IF i > Len(lexer.text) THEN Len(lexer.text) + 1 ELSE i)
                EXCEPT !.complaints = Append(@, Unclosed[KindOf(quote)])]
      [] OTHER -> Within(lexer, quote, i + 1)

BareEscape(lexer) ==
    IF At(lexer.text, lexer.at + 1) \in Escapes THEN Push(lexer, "escape", lexer.at + 2)
    ELSE Complain(lexer, "E0004", lexer.at + 2)

\* `number`: a shape when an `x` and a digit follow, and a dot is part of it
\* only before a digit.
RECURSIVE ShapeEnd(_, _)
ShapeEnd(text, i) ==
    IF At(text, i) = "x" /\ At(text, i + 1) \in Digits THEN ShapeEnd(text, Past(Digits, text, i + 1)) ELSE i
ReadNumberHasty(lexer) ==
    LET whole == Past(Digits, lexer.text, lexer.at)
    IN  IF At(lexer.text, whole) = "x" THEN Push(lexer, "shape", ShapeEnd(lexer.text, whole))
        ELSE Push(lexer, "number", whole)
ReadNumber(lexer) ==
    LET whole == Past(Digits, lexer.text, lexer.at)
        shape == ShapeEnd(lexer.text, whole)
        dotted == At(lexer.text, whole) = "." /\ At(lexer.text, whole + 1) \in Digits
    IN  IF shape > whole THEN Push(lexer, "shape", shape)
        ELSE Push(lexer, "number", IF dotted THEN Past(Digits, lexer.text, whole + 1) ELSE whole)

\* `word`: a hyphen belongs to it only before a letter.
RECURSIVE WordEnd(_, _)
WordEnd(text, i) ==
    CASE At(text, i) \in Letters \cup Digits \cup {"_"} -> WordEnd(text, i + 1)
      [] At(text, i) = "-" /\ At(text, i + 1) \in Letters -> WordEnd(text, i + 2)
      [] OTHER -> i
ReadWordHyphened(lexer) ==
    LET class == Letters \cup Digits \cup {"_"}
        first == Past(class, lexer.text, lexer.at + 1)
    IN  Push(lexer, "word", IF At(lexer.text, first) = "-" /\ first < Len(lexer.text)
                            THEN Past(class, lexer.text, first + 2) ELSE first)
ReadWord(lexer) == Push(lexer, "word", WordEnd(lexer.text, lexer.at + 1))

\* One turn of `run`.
Turn(lexer) ==
    LET c == At(lexer.text, lexer.at)
    IN  CASE c \in Blank -> [lexer EXCEPT !.at = @ + 1]
          [] c = "#" -> SkipComment(lexer)
          [] c \in Single -> Push(lexer, c, lexer.at + 1)
          [] c \in {"<", ">", "!", "*"} -> Signed(lexer)
          [] c \in Quotes -> Within(lexer, c, lexer.at + 1)
          [] c = "\\" -> BareEscape(lexer)
          [] c \in Digits -> ReadNumber(lexer)
          [] c \in Letters \cup {"_"} -> ReadWord(lexer)
          [] OTHER -> Complain(lexer, "E0003", lexer.at + 1)

Fresh(text) == [text |-> text, at |-> 1, tokens |-> <<>>, complaints |-> <<>>]
Lexed(lexer) == lexer.at > Len(lexer.text)

\* The whole of a text at once, for comparing texts with each other.
RECURSIVE Finish(_)
Finish(lexer) == IF Lexed(lexer) THEN lexer ELSE Finish(Turn(lexer))
Lex(text) == Finish(Fresh(text))
=============================================================================
