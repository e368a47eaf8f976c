------------------------------ MODULE MCSyntax ------------------------------
(* Sources for Syntax: every short text over a few alphabets, and programs    *)
(* written out from their trees, whole and with one token gone or another in  *)
(* its place. The writer here is what the language's rules say, and knows     *)
(* nothing of the parser.                                                     *)
EXTENDS Syntax

-----------------------------------------------------------------------------
(* Writing a tree *)

Word(w) == [kind |-> "word", text |-> w]
Sign(k) == [kind |-> k, text |-> k]
Of(k, text) == [kind |-> k, text |-> text]
Node(k, parts) == P!Node(k, "", parts)
Leaf(k, text) == P!Leaf(k, text)
Nothing == P!Nothing
Items(parts) == IF parts = <<>> THEN Nothing ELSE Node("list", parts)

\* How tightly each thing in a math block binds, the loosest least.
Level(k) ==
    CASE k = "or" -> 1 [] k = "and" -> 2 [] k = "not" -> 3
      [] k \in P!Comparisons -> 4 [] k \in {"+", "-"} -> 5 [] k \in {"*", "/", "mod"} -> 6
      [] k = "neg" -> 7 [] k = "**" -> 8 [] k = "percent" -> 9 [] OTHER -> 10
\* What each side of an operator must bind to go without brackets.
LeftNeeds(k) == CASE k \in P!Comparisons -> 5 [] k = "**" -> 9 [] OTHER -> Level(k)
RightNeeds(k) == CASE k \in {"**", "neg"} -> 7 [] k = "not" -> 3 [] OTHER -> Level(k) + 1

Operator(k) == IF k \in {"or", "and", "mod"} THEN Word(k) ELSE Sign(k)
RECURSIVE Math(_, _), Written(_), Block(_)
Between(separator, parts) ==
    FoldLeft(LAMBDA so, part : (IF so = <<>> THEN so ELSE so \o separator) \o Written(part), <<>>, parts)
Commas(list) == Between(<<Sign(",")>>, list.parts)
InList(tokens) == <<Sign("[")>> \o tokens \o <<Sign("]")>>
Bare(e) ==
    CASE e.k \in {"or", "and", "+", "-", "*", "/", "mod", "**"} \cup P!Comparisons ->
            Math(e.parts[1], LeftNeeds(e.k)) \o <<Operator(e.k)>> \o Math(e.parts[2], RightNeeds(e.k))
      [] e.k = "not" -> <<Word("not")>> \o Math(e.parts[1], 3)
      [] e.k = "neg" -> <<Sign("-")>> \o Math(e.parts[1], 7)
      [] e.k = "percent" -> Math(e.parts[1], 10) \o <<Sign("%")>>
      [] OTHER -> Written(e)
Math(e, needs) == IF Level(e.k) >= needs THEN Bare(e) ELSE <<Sign("(")>> \o Bare(e) \o <<Sign(")")>>

Dotted(words) == FlattenSeq([i \in DOMAIN words |-> IF i = 1 THEN <<words[i]>> ELSE <<Sign("."), words[i]>>])
Chained(words) == FlattenSeq([i \in DOMAIN words |-> <<Sign("."), words[i]>>])
ShapeToken(text) == Of(IF Len(DimsOf[text]) = 1 THEN "number" ELSE "shape", text)
\* The words a type is written with.
TypeWords(ty) ==
    IF ty.k = "array"
    THEN <<Word("array")>> \o [i \in DOMAIN ty.parts |-> ShapeToken(ty.parts[i].text)] \o <<Word(ty.text)>>
    ELSE <<Word(ty.text)>>
Said1(part) == IF part = Nothing THEN <<>> ELSE <<Word(part.text)>>
SaysOf(binding) == Said1(binding.parts[1]) \o Said1(binding.parts[2]) \o TypeWords(binding.parts[3])
Name(text) == Of("name", text)

\* What every name of a declaration says is said once, before the names, when
\* there is one of them.
WrittenVar(bindings) ==
    IF Len(bindings) = 1
    THEN Chained(SaysOf(bindings[1])) \o InList(<<Name(bindings[1].text)>>)
    ELSE InList(FlattenSeq([i \in DOMAIN bindings |->
            (IF i = 1 THEN <<>> ELSE <<Sign(",")>>) \o Dotted(SaysOf(bindings[i])) \o <<Name(bindings[i].text)>>]))
Block(list) == <<Sign("{")>> \o Between(<<>>, list.parts) \o <<Sign("}")>>
WrittenArms(parts) ==
    FlattenSeq([i \in DOMAIN parts |->
        IF parts[i].k = "arm"
        THEN <<Word(IF i = 1 THEN "if" ELSE "else-if")>> \o InList(Written(parts[i].parts[1])) \o Block(parts[i].parts[2])
        ELSE <<Word("else")>> \o Block(parts[i])])

Written(t) ==
    LET part(i) == t.parts[i]
        end == <<Sign(";")>>
    IN CASE t.k \in {"literal", "name", "number", "text", "escape"} -> <<Of(t.k, t.text)>>
         [] t.k = "index" -> Written(part(1)) \o InList(Commas(part(2)))
         [] t.k = "items" -> InList(Commas(part(1)))
         [] t.k = "math" -> <<Word("math"), Sign("{")>> \o Math(part(1), 1) \o <<Sign("}")>>
         [] t.k = "call" -> <<Word(t.text)>> \o InList(Commas(part(1)))
         [] t.k = "time" -> <<Word("time"), Sign("."), Word("now")>>
         [] t.k = "typed" -> <<Word(part(1).text), Of("literal", part(2).text)>>
         [] t.k = "var" -> <<Word("var")>> \o WrittenVar(part(1).parts) \o <<Sign("=")>> \o InList(Commas(part(2))) \o end
         [] t.k = "element" -> Written(part(1)) \o InList(Commas(part(2)))
         [] t.k = "set" -> <<Word("set")>> \o InList(Commas(part(1))) \o <<Sign("=")>> \o InList(Commas(part(2))) \o end
         [] t.k = "handback" -> <<Word("handback")>> \o Written(part(1)) \o <<Word("as")>> \o Written(part(2)) \o end
         [] t.k = "print" -> <<Word("print")>> \o InList(Between(<<>>, part(1).parts)) \o end
         [] t.k = "counter" -> Chained(<<Word(part(1).text), Word("while"), Word(part(2).text)>>) \o InList(Written(part(3)))
         [] t.k = "while" ->
               <<Word("loop")>> \o (IF part(1) = Nothing THEN Chained(<<Word("while")>>) ELSE Written(part(1)))
               \o InList(Written(part(2))) \o Block(part(3))
         [] t.k = "loop" ->
               <<Word("loop")>> \o Chained(Said1(part(1)) \o Said1(part(2)) \o <<Word("range"), Word(part(3).text)>>)
               \o InList(Written(part(4))) \o <<Sign("=")>> \o InList(Written(part(5)) \o <<Sign(",")>> \o Written(part(6)))
               \o Block(part(7))
         [] t.k \in {"break", "return"} ->
               <<Word(t.k)>> \o (IF t.parts = <<>> THEN <<>>
                                 ELSE (IF t.k = "break" THEN <<Word("when"), Word("reached")>> ELSE <<>>) \o Written(part(1)))
               \o end
         [] t.k = "param" -> Dotted(TypeWords(part(1))) \o Written(part(2))
         [] t.k = "fn" ->
               <<Word("fn")>> \o Chained(Said1(part(1)) \o TypeWords(part(2))) \o InList(Written(part(3)))
               \o InList(Commas(part(4))) \o Block(part(5))
         [] t.k = "if" -> WrittenArms(part(1).parts)
         [] t.k = "defaults" -> <<Word("defaults")>> \o Chained([i \in DOMAIN part(1).parts |-> Word(part(1).parts[i].text)]) \o end
         [] t.k = "do" -> Written(part(1)) \o end

-----------------------------------------------------------------------------
(* The programs *)

A == Leaf("name", "a")
One == Leaf("literal", "1")
Two == Leaf("number", "2")
Op(k, l, r) == Node(k, <<l, r>>)
Typed == Node("typed", <<Leaf("type", "b64"), Leaf("literal", "1.5")>>)
Element(i) == Node("index", <<A, Items(<<i>>)>>)
Called(name, values) == P!Node("call", name, <<Items(values)>>)
MathOf(e) == Node("math", <<e>>)
Scalar(ty) == Leaf("type", ty)
Array(ty, shape) == P!ArrayOf(ty, shape)
Binding(visibility, mutable, ty, name) == P!Node("binding", name, <<visibility, mutable, ty>>)
Mut == Leaf("word", "mut")
Local == Leaf("word", "local")
Var(bindings, values) == Node("var", <<Items(bindings), Items(values)>>)
SetTo(targets, values) == Node("set", <<Items(targets), Items(values)>>)
Prints(items) == Node("print", <<Items(items)>>)
Stop == Node("break", <<>>)
Counting(para, body) ==
    Node("loop", <<Leaf("word", "temp"), para, Scalar("ui8"), A, One, MathOf(Op("+", A, Two)), Items(body)>>)
While(counter, body) == Node("while", <<counter, MathOf(Op("<", A, Two)), Items(body)>>)
Counter == Node("counter", <<Leaf("word", "perm"), Scalar("ui8"), A>>)
Param(ty, name) == Node("param", <<ty, Leaf("name", name)>>)
Fn(ty, params, body) == Node("fn", <<Local, ty, Leaf("name", "f"), Items(params), Items(body)>>)
Arm(body) == Node("arm", <<MathOf(Op("=", A, Two)), Items(body)>>)
If(parts) == Node("if", <<Items(parts)>>)

\* One statement of each form there is: the simple ones, and the ones with a
\* body.
Simple == {
    Var(<<Binding(Local, Mut, Scalar("ui8"), "a")>>, <<One>>),
    Var(<<Binding(Nothing, Nothing, Scalar("ui8"), "a"), Binding(Local, Nothing, Array("ui8", "3"), "b")>>,
        <<MathOf(Op("*", A, Node("percent", <<Two>>))), Node("items", <<Items(<<One, One>>)>>)>>),
    Var(<<Binding(Nothing, Mut, Array("b64", "2x3"), "b")>>, <<Called("filled", <<One>>)>>),
    SetTo(<<Node("element", <<A, Items(<<One, A>>)>>), Leaf("name", "b")>>, <<Leaf("time", ""), Element(One)>>),
    Node("handback", <<A, Leaf("name", "b")>>),
    Prints(<<Leaf("text", "so"), Leaf("escape", "n"), Element(One), MathOf(Op("-", A, Called("f", <<A, One>>)))>>),
    Node("do", <<Called("f", <<>>)>>),
    Node("return", <<Element(One)>>),
    Node("break", <<One>>),
    Node("defaults", <<Items(<<Leaf("word", "overflow"), Leaf("word", "trap")>>)>>)}
Bodied == {
    Counting(Leaf("word", "para"), <<Stop, Prints(<<A>>)>>),
    Counting(Nothing, <<>>),
    While(Nothing, <<Counting(Nothing, <<Stop>>)>>),
    While(Counter, <<SetTo(<<A>>, <<One>>), Stop>>),
    Fn(Scalar("nothing"), <<>>, <<Node("return", <<>>)>>),
    Fn(Array("ui8", "3"), <<Param(Scalar("ui8"), "a"), Param(Scalar("b64"), "b")>>, <<Node("return", <<One>>)>>),
    If(<<Arm(<<Stop>>)>>),
    If(<<Arm(<<>>), Arm(<<Stop>>), Items(<<Prints(<<A>>)>>)>>)}

TakesArrays ==
    Fn(Array("b64", ""), <<Param(Array("ui8", ""), "a"), Param(Array("ui8", "2x3"), "b")>>, <<Node("return", <<One>>)>>)

\* Every math block with an operator within an operator.
Plain == {A, Two, Typed}
OneDeep == {Op(k, A, Two) : k \in {"or", "and", "<", "!=", "+", "-", "*", "/", "mod", "**"}}
           \cup {Node(k, <<A>>) : k \in {"not", "neg", "percent"}} \cup {Element(A), Called("f", <<A, One>>), Leaf("time", "")}
TwoDeep == {Op(k, l, r) : k \in {"or", "and", "<", "=", "-", "*", "mod", "**"}, l \in OneDeep \cup {A}, r \in OneDeep \cup {A}}
           \cup {Node(k, <<e>>) : k \in {"not", "neg", "percent"}, e \in OneDeep}

EndOf == <<[kind |-> "end", text |-> ""]>>
WrittenAll(statements) == Between(<<>>, statements) \o EndOf

Good == SetTo(<<A>>, <<One>>)
Before == Written(Good)
After == Written(Node("handback", <<A, A>>)) \o EndOf
Whole ==
    {Before \o Written(t) \o After : t \in Simple \cup Bodied \cup {TakesArrays}}
    \cup {Written(SetTo(<<A>>, <<MathOf(e)>>)) \o EndOf : e \in Plain \cup OneDeep \cup TwoDeep}

\* One token of a statement gone, or another in its place.
Others == {Sign("}"), Sign(";"), Sign("]"), Sign("{"), Sign("["), Sign(","), Sign("."), Word("or"), Name("a")}
Damaged(tokens) ==
    {RemoveAt(tokens, i) : i \in DOMAIN tokens} \cup {[tokens EXCEPT ![i] = other] : i \in DOMAIN tokens, other \in Others}
Hurt == {Before \o tokens \o After : tokens \in UNION {Damaged(Written(t)) : t \in Simple \cup Bodied}}
MCStreams == Whole \cup Hurt

MCTypes == {"ui8", "b64"}
MCDims == [shape \in {"3", "2x3", "0"} |-> CASE shape = "3" -> <<3>> [] shape = "2x3" -> <<2, 3>> [] shape = "0" -> <<0>>]

Strings(characters, most) == UNION {[1 .. n -> characters] : n \in 1 .. most}
MCSources ==
    Strings({"#", "1", "2", "d", "\n", "a"}, 5)
    \cup Strings({"1", "x", ".", "a", "-", "\n"}, 4)
    \cup Strings({"'", "\"", "\\", "n", "\n", "a"}, 4)
    \cup Strings({"<", "=", "/", "*", "!", ">"}, 3)
    \cup Strings({"[", "]", "{", "}", ";", ",", "a", "|"}, 3)

-----------------------------------------------------------------------------
(* What should hold of them *)

\* Nothing that was written is quietly left out or taken for something else:
\* the tree of a program that is read, written out again, is the very tokens
\* that came in.
SaidIsMeant == stage = "read" /\ lexer.text = <<>> => WrittenAll(Tree) = c.tokens

\* A program that is read is the program that was written, every operator with
\* the operands the rules give it; and what was written whole is read.
RoundTrip ==
    /\ SaidIsMeant
    /\ stage = "refused" => c.tokens \notin Whole

\* A statement that cannot be understood costs no other, while its own
\* brackets and semicolon stand and it has no body.
Brackets(tokens) == SelectSeq(tokens, LAMBDA t : t.kind \in {"[", "]", "{", "}", "(", ")", ";"})
SimpleBrackets == {Brackets(Before \o Written(t) \o After) : t \in Simple}
NeighboursKept ==
    (stage = "refused" /\ lexer.text = <<>> /\ Brackets(c.tokens) \in SimpleBrackets) =>
        /\ Tree[1] = Good
        /\ Written(Tree[Len(Tree)]) \o EndOf = After

\* Reading a statement or recovering from one always moves on, so that a
\* source is read to its end whatever is in it; and so does the lexer.
MovesForward == [][/\ stage = "lexing" /\ stage' = "lexing" => lexer'.at > lexer.at
                   /\ stage = "parsing" /\ stage' = "parsing" => c'.at > c.at]_vars

\* With a blank between them, the same tokens are read again: none depends on
\* what came next to it.
Spaced(tokens) == FoldLeft(LAMBDA so, t : so \o t.text \o <<" ">>, <<>>, tokens)
TokensStandAlone ==
    (stage # "lexing" /\ lexer.complaints = <<>>) => Lex(Spaced(lexer.tokens)).tokens = lexer.tokens

\* A comment covers the lines it says: the tokens are those of the text
\* without them. Here a text is its lines, and only the first `#` of a line
\* begins a comment.
RECURSIVE Lines(_), Uncovered(_)
Lines(text) ==
    LET first == SelectInSeq(text, LAMBDA ch : ch = "\n")
    IN  IF first = 0 THEN <<text>> ELSE <<SubSeq(text, 1, first - 1)>> \o Lines(SubSeq(text, first + 1, Len(text)))
Covers(digits, down) ==
    LET n == Count(digits)
    IN  IF digits = <<>> \/ n > MostLines \/ n = 0 THEN 1 ELSE IF down /\ n < MostLines THEN n + 1 ELSE n
Uncovered(lines) ==
    IF lines = <<>> THEN <<>>
    ELSE LET hash == SelectInSeq(lines[1], LAMBDA ch : ch = "#")
             after == IF hash = 0 THEN 0 ELSE Past(Digits, lines[1], hash + 1)
             covers == Covers(SubSeq(lines[1], hash + 1, after - 1), At(lines[1], after) = "d")
         IN  IF hash = 0 THEN <<lines[1]>> \o Uncovered(Tail(lines))
             ELSE <<SubSeq(lines[1], 1, hash - 1)>> \o Uncovered(SubSeq(lines, covers + 1, Len(lines)))
Quoteless == Range(lexer.text) \cap (Quotes \cup {"\\"}) = {}
CommentsCover ==
    stage # "lexing" /\ Quoteless =>
        lexer.tokens = FlattenSeq([i \in DOMAIN Uncovered(Lines(lexer.text)) |->
                                      Lex(Uncovered(Lines(lexer.text))[i]).tokens])

\* What is wrong on one line hides nothing on another: with no comment in it,
\* a text is its lines read one by one. (Not so where a backslash ends a line:
\* the lexer takes the end of the line for the character it escapes.)
Hidden == \E i \in 1 .. Len(lexer.text) - 1 : lexer.text[i] = "\\" /\ lexer.text[i + 1] = "\n"
LinesStandAlone ==
    stage # "lexing" /\ "#" \notin Range(lexer.text) /\ ~Hidden =>
        lexer.tokens = FlattenSeq([i \in DOMAIN Lines(lexer.text) |-> Lex(Lines(lexer.text)[i]).tokens])
=============================================================================
