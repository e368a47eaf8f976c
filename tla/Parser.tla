------------------------------- MODULE Parser -------------------------------
(* Tokens into a tree (luarust-parse). Reading is by recursive descent over a *)
(* cursor: the tokens, `at`, the complaints so far (each its code and where), *)
(* `failed`, and `out`, the parts of what is being read, the latest last. A   *)
(* step that has failed is passed over by the ones after it.                  *)
(*   A node of the tree is [k, text, parts]; which part is which goes by its  *)
(* place, and a part left out is Nothing. Spans are left out, and so is the   *)
(* wording of a complaint.                                                    *)
EXTENDS Integers, Sequences, SequencesExt

CONSTANTS
    Types,      \* what `Ty::from_word` knows
    DimsOf,     \* a number or shape as it may stand in a chain -> its dimensions
    MaxRank,    \* MAX_RANK
    MaxDim      \* u16::MAX, the largest dimension

Visibilities == {"local", "global", "public", "restricted"}
Keywords == {"var", "set", "handback", "print", "loop", "if", "fn", "return", "break"}
Comparisons == {"<", ">", "=", "<=", ">=", "!="}
Node(k, text, parts) == [k |-> k, text |-> text, parts |-> parts]
Leaf(k, text) == Node(k, text, <<>>)
Nothing == Leaf("nothing", "")

-----------------------------------------------------------------------------
(* The token stream *)

TokenAt(c, ahead) ==
    c.tokens[IF c.at + ahead <= Len(c.tokens) THEN c.at + ahead ELSE Len(c.tokens)]
Kind(c) == TokenAt(c, 0).kind
Text(c) == TokenAt(c, 0).text
Says(c, word) == Kind(c) = "word" /\ Text(c) = word
Reads(c, kind) == ~c.failed /\ Kind(c) = kind

Advance(c) == IF c.at < Len(c.tokens) THEN [c EXCEPT !.at = @ + 1] ELSE c
Complain(c, code) == [c EXCEPT !.complaints = Append(@, [code |-> code, at |-> c.at])]
Fail(c, code) == [Complain(c, code) EXCEPT !.failed = TRUE]

\* `expect`, and a word that must stand here.
Expect(kind, c) ==
    IF c.failed THEN c ELSE IF Kind(c) = kind THEN Advance(c) ELSE Fail(c, "E0100")
ExpectWord(word, code, c) ==
    IF c.failed THEN c ELSE IF Says(c, word) THEN Advance(c) ELSE Fail(c, code)

\* What has been read so far: put a part there, the token here as a part, the
\* latest part into the list before it, the latest `n` into one node.
Top(c) == c.out[Len(c.out)]
Put(c, part) == IF c.failed THEN c ELSE [c EXCEPT !.out = Append(@, part)]
Take(c, k) == Put(Advance(c), Leaf(k, Text(c)))
Begin(c) == Put(c, Nothing)
Collect(c) ==
    IF c.failed THEN c
    ELSE [c EXCEPT !.out = Append(SubSeq(@, 1, Len(@) - 2),
                                  Node("list", "", Append(@[Len(@) - 1].parts, @[Len(@)])))]
Make(k, text, n, c) ==
    IF c.failed THEN c
    ELSE [c EXCEPT !.out = Append(SubSeq(@, 1, Len(@) - n),
                                  Node(k, text, SubSeq(@, Len(@) - n + 1, Len(@))))]
ExpectAs(kind, k, c) ==
    IF c.failed THEN c ELSE IF Kind(c) = kind THEN Take(c, k) ELSE Fail(c, "E0100")

\* `resynchronise` and `recover`.
RECURSIVE Resynchronise(_, _)
Resynchronise(c, depth) ==
    IF Kind(c) = "end" \/ (Kind(c) = "}" /\ depth = 0) THEN c
    ELSE IF Kind(c) = ";" /\ depth = 0 THEN Advance(c)
    ELSE Resynchronise(Advance(c),
                       CASE Kind(c) \in {"{", "[", "("} -> depth + 1
                         [] Kind(c) \in {"}", "]", ")"} -> IF depth = 0 THEN 0 ELSE depth - 1
                         [] OTHER -> depth)
MovedNot(from, c) == c
Moved(from, c) == IF c.at = from.at THEN Resynchronise(Advance(c), 0) ELSE c
RecoverLate(c) == Moved(c, Resynchronise(c, 1))
Recover(c) == Moved(c, Resynchronise(c, 0))

-----------------------------------------------------------------------------
(* Values and arithmetic. A step that reads one thing puts one part. *)

\* What is read within itself is read by name.
RECURSIVE Read(_, _)
Value(c) == Read("value", c)
Values(c) == Read("values", c)
Condition(c) == Read("condition", c)
Unary(c) == Read("unary", c)
Statement(c) == Read("statement", c)
Body(c) == Read("body", c)

\* One or more values with commas between them, collected after those so far;
\* and the same where there may be none.
MoreValues(c) == IF Reads(c, ",") THEN Values(Advance(c)) ELSE c
ReadValues(c) == MoreValues(Collect(Value(c)))
ValuesIfAny(c) == IF c.failed \/ Kind(c) = "]" THEN Begin(c) ELSE Values(Begin(c))

\* `call`, `maybe_index` and `time_now`.
Call(c) ==
    Make("call", Text(c), 1, Expect("]", ValuesIfAny(Expect("[", Advance(c)))))
RECURSIVE MaybeIndex(_)
MaybeIndex(c) ==
    IF Reads(c, "[") THEN MaybeIndex(Make("index", "", 2, Expect("]", Values(Begin(Advance(c)))))) ELSE c
TimeNow(c) == Put(ExpectWord("now", "E0112", Expect(".", Advance(c))), Leaf("time", ""))
IsCall(c) == Kind(c) = "word" /\ TokenAt(c, 1).kind = "["

\* `value_expr`.
ReadValue(c) ==
    IF c.failed THEN c
    ELSE CASE Kind(c) = "literal" -> Take(c, "literal")
           [] Kind(c) = "name" -> MaybeIndex(Take(c, "name"))
           [] Kind(c) = "[" -> Make("items", "", 1, Expect("]", ValuesIfAny(Advance(c))))
           [] Says(c, "math") ->
                 Make("math", "", 1, Expect("}", Condition(Expect("{", Advance(c)))))
           [] Says(c, "time") -> TimeNow(c)
           [] IsCall(c) /\ Text(c) \notin {"math", "time"} -> Call(c)
           [] OTHER -> Fail(c, "E0111")

\* `primary` and `postfix`.
IsTyped(c) == Kind(c) = "word" /\ Text(c) \in Types /\ TokenAt(c, 1).kind = "literal"
Primary(c) ==
    IF c.failed THEN c
    ELSE CASE Kind(c) \in {"number", "literal"} -> Take(c, Kind(c))
           [] Kind(c) = "name" -> MaybeIndex(Take(c, "name"))
           [] Kind(c) = "(" -> Expect(")", Condition(Advance(c)))
           [] IsTyped(c) -> Make("typed", "", 2, Take(Take(c, "type"), "literal"))
           [] Says(c, "time") -> TimeNow(c)
           [] IsCall(c) /\ ~Says(c, "time") -> Call(c)
           [] OTHER -> Fail(c, "E0113")
Percented(c) == IF Reads(c, "%") THEN Make("percent", "", 1, Advance(c)) ELSE c
Postfix(c) == Percented(Primary(c))

\* The operator here at each level, or "none".
PowerHere(c) == ~c.failed /\ (Kind(c) = "**" \/ Says(c, "xx") \/ Says(c, "pow"))
ProductHere(c) ==
    IF c.failed THEN "none"
    ELSE IF Kind(c) = "*" \/ Says(c, "x") THEN "*"
    ELSE IF Kind(c) = "/" \/ Says(c, "div") THEN "/"
    ELSE IF Says(c, "mod") THEN "mod" ELSE "none"
SumHere(c) == IF ~c.failed /\ Kind(c) \in {"+", "-"} THEN Kind(c) ELSE "none"
NotEquals(c) == Says(c, "not") /\ TokenAt(c, 1).kind = "="
ComparisonHere(c) ==
    IF c.failed THEN "none"
    ELSE IF Kind(c) \in Comparisons THEN Kind(c) ELSE IF NotEquals(c) THEN "!=" ELSE "none"
PastComparison(c) == IF NotEquals(c) THEN Advance(Advance(c)) ELSE Advance(c)

\* `unary` and `power`: an exponent takes all that follows it, and a minus is
\* looser than the power it stands before.
PoweredTight(c) == IF PowerHere(c) THEN Make("**", "", 2, Postfix(Advance(c))) ELSE c
Powered(c) == IF PowerHere(c) THEN Make("**", "", 2, Unary(Advance(c))) ELSE c
ReadUnary(c) ==
    IF ~c.failed /\ Kind(c) = "-" THEN Make("neg", "", 1, Unary(Advance(c))) ELSE Powered(Postfix(c))

\* `product`, `sum`: the operators of a level, from the left.
RECURSIVE MoreProduct(_), MoreSum(_)
MoreProduct(c) ==
    IF ProductHere(c) = "none" THEN c
    ELSE MoreProduct(Make(ProductHere(c), "", 2, Unary(Advance(c))))
Product(c) == MoreProduct(Unary(c))
MoreSum(c) ==
    IF SumHere(c) = "none" THEN c ELSE MoreSum(Make(SumHere(c), "", 2, Product(Advance(c))))
Sum(c) == MoreSum(Product(c))

\* `comparison`, `negation`, `conjunction` and `condition`.
NotChained(c) == IF ~c.failed /\ Kind(c) \in Comparisons THEN Fail(c, "E0114") ELSE c
Compared(c) ==
    IF ComparisonHere(c) = "none" THEN c
    ELSE Make(ComparisonHere(c), "", 2, NotChained(Sum(PastComparison(c))))
RECURSIVE Negation(_), MoreOf(_, _), Conjunction(_)
Negation(c) ==
    IF ~c.failed /\ Says(c, "not") /\ ~NotEquals(c) THEN Make("not", "", 1, Negation(Advance(c)))
    ELSE Compared(Sum(c))
MoreOf(word, c) ==
    IF c.failed \/ ~Says(c, word) THEN c
    ELSE MoreOf(word, Make(word, "", 2, IF word = "or" THEN Conjunction(Advance(c))
                                        ELSE Negation(Advance(c))))
Conjunction(c) == MoreOf("and", Negation(c))
ReadCondition(c) == MoreOf("or", Conjunction(c))

-----------------------------------------------------------------------------
(* Chains and types *)

Chainable(kind) == kind \in {"word", "number", "shape"}
IsShape(word) == word \in DOMAIN DimsOf
\* `fixed`: a shape that an array can have.
IsArrayShape(word) ==
    /\ Len(DimsOf[word]) \in 1 .. MaxRank
    /\ \A i \in DOMAIN DimsOf[word] : DimsOf[word][i] \in 1 .. MaxDim
ArrayOf(element, shape) == Node("array", element, IF shape = "" THEN <<>> ELSE <<Leaf("shape", shape)>>)

\* `chain_words`: a dot is taken only with a word after it. The words become
\* the list on top.
RECURSIVE ChainWords(_)
ChainWords(c) ==
    IF Kind(c) = "." /\ Chainable(TokenAt(c, 1).kind)
    THEN ChainWords(Collect(Take(Advance(c), "word"))) ELSE c
Chain(c) == ChainWords(Begin(Advance(c)))

\* What a chain has said so far. `absorb` settles each once and complains of
\* the rest; `array` is "no", "open", or the shape it was given.
Unsaid == [visibility |-> Nothing, mutable |-> Nothing, ty |-> Nothing, array |-> "no", wrong |-> <<>>]
Wrong(said, code) == [said EXCEPT !.wrong = Append(@, code)]
Settle(said, slot, part) == IF said[slot] # Nothing THEN Wrong(said, "E0103") ELSE [said EXCEPT ![slot] = part]
Closed(said, element) ==
    CASE said.array = "no" -> [said EXCEPT !.ty = Leaf("type", element)]
      [] said.array = "open" -> [said EXCEPT !.ty = ArrayOf(element, ""), !.array = "no"]
      [] said.array \in DOMAIN DimsOf ->
            IF IsArrayShape(said.array) THEN [said EXCEPT !.ty = ArrayOf(element, said.array), !.array = "no"]
            ELSE [Wrong(said, "E0135") EXCEPT !.ty = Leaf("type", element), !.array = "no"]
Shaped(said, word) ==
    CASE said.array = "open" -> [said EXCEPT !.array = word]
      [] said.array = "no" -> Wrong(said, "E0102")
      [] said.array \in DOMAIN DimsOf -> Wrong(said, "E0103")
Absorb(said, word) ==
    CASE word = "array" -> IF said.array # "no" THEN Wrong(said, "E0103") ELSE [said EXCEPT !.array = "open"]
      [] IsShape(word) -> Shaped(said, word)
      [] word \in Visibilities -> Settle(said, "visibility", Leaf("word", word))
      [] word = "mut" -> Settle(said, "mutable", Leaf("word", word))
      [] word \in Types -> IF said.ty # Nothing THEN Wrong(said, "E0103") ELSE Closed(said, word)
      [] OTHER -> Wrong(said, "E0102")
\* The chain of a function overwrites what it said before (`func_decl`).
Answers(said, word) ==
    CASE word = "array" -> [said EXCEPT !.array = "open"]
      [] IsShape(word) -> IF said.array = "open" THEN [said EXCEPT !.array = word] ELSE Wrong(said, "E0102")
      [] word \in Visibilities -> [said EXCEPT !.visibility = Leaf("word", word)]
      [] word = "nothing" -> [said EXCEPT !.ty = Leaf("type", word)]
      [] word \in Types -> Closed(said, word)
      [] OTHER -> Wrong(said, "E0120")
\* And so does a loop's: lifetime, `para`, kind and type.
LoopUnsaid == [lifetime |-> Nothing, para |-> Nothing, kind |-> Nothing, ty |-> Nothing, wrong |-> <<>>]
LoopSays(said, word) ==
    CASE word \in {"temp", "perm"} -> [said EXCEPT !.lifetime = Leaf("word", word)]
      [] word = "para" -> [said EXCEPT !.para = Leaf("word", word)]
      [] word \in {"range", "while"} -> [said EXCEPT !.kind = Leaf("word", word)]
      [] word \in Types -> [said EXCEPT !.ty = Leaf("type", word)]
      [] OTHER -> Wrong(said, "E0102")
Said(Sort(_, _), said, words) == FoldLeft(LAMBDA so, word : Sort(so, word.text), said, words)
\* What was wrong with a chain is reported, and reading goes on.
Report(c, said) ==
    [c EXCEPT !.complaints = @ \o [i \in DOMAIN said.wrong |-> [code |-> said.wrong[i], at |-> c.at]]]

-----------------------------------------------------------------------------
(* Statements. A word begins each one. *)

\* `braced_body`: a statement of it that fails is recovered from, without it.
BodyGoesOn(c, read) ==
    Body(IF read.failed THEN [Recover(read) EXCEPT !.failed = FALSE, !.out = c.out] ELSE Collect(read))
ReadBody(c) ==
    IF c.failed THEN c
    ELSE CASE Kind(c) = "}" -> Advance(c)
           [] Kind(c) = "end" -> Fail(c, "E0107")
           [] OTHER -> BodyGoesOn(c, Statement(c))
Braced(c) == Body(Begin(Expect("{", c)))

Ended(c) == Expect(";", c)
Listed(Items(_), c) == Expect("]", Items(Begin(Expect("[", c))))

\* `var_decl` and `binding`: each name with what the whole list and it itself
\* say of it. `hoisted` is the list of the words before the names.
RECURSIVE OwnWords(_), Bindings(_, _)
OwnWords(c) ==
    IF c.failed \/ ~Chainable(Kind(c)) THEN c
    ELSE LET taken == Collect(Take(c, "word"))
         IN  IF Kind(taken) = "." THEN OwnWords(Advance(taken)) ELSE taken
Bound(c, said) ==
    IF said.ty = Nothing THEN Fail(Report(c, said), "E0105")
    ELSE [Report(c, said) EXCEPT
            !.out = Append(SubSeq(@, 1, Len(@) - 2),
                           Node("binding", Top(c).text, <<said.visibility, said.mutable, said.ty>>))]
Binding(hoisted, c) ==
    IF c.failed THEN c ELSE Bound(c, Said(Absorb, Unsaid, hoisted \o c.out[Len(c.out) - 1].parts))
Bindings(hoisted, c) ==
    LET one == Collect(Binding(hoisted, ExpectAs("name", "name", OwnWords(Begin(c)))))
    IN  IF Reads(one, ",") THEN Bindings(hoisted, Advance(one)) ELSE one
VarOf(c) ==
    Make("var", "", 2, Ended(Listed(Values, Expect("=",
        Listed(LAMBDA d : Bindings(Top(c).parts, d), [c EXCEPT !.out = SubSeq(@, 1, Len(@) - 1)])))))
Var(c) == VarOf(Chain(c))

\* `set_stmt`: a list after a name is an element of it.
RECURSIVE Targets(_)
Element(c) == IF Reads(c, "[") THEN Make("element", "", 2, Expect("]", Values(Begin(Advance(c))))) ELSE c
Targets(c) ==
    LET one == Collect(Element(ExpectAs("name", "name", c)))
    IN  IF Reads(one, ",") THEN Targets(Advance(one)) ELSE one
Set(c) == Make("set", "", 2, Ended(Listed(Values, Expect("=", Listed(Targets, Advance(c))))))

Handback(c) ==
    Make("handback", "", 2, Ended(ExpectAs("name", "name",
        ExpectWord("as", "E0106", ExpectAs("name", "name", Advance(c))))))

\* `print_stmt`: items until the list closes, with nothing between them.
PrintItem(c) == IF Kind(c) \in {"text", "escape"} THEN Take(c, Kind(c)) ELSE Value(c)
RECURSIVE PrintItems(_)
PrintItems(c) ==
    IF c.failed THEN c
    ELSE CASE Kind(c) = "]" -> Advance(c)
           [] Kind(c) = "end" -> Fail(c, "E0107")
           [] OTHER -> PrintItems(Collect(PrintItem(c)))
Prints(c) == Make("print", "", 1, Ended(PrintItems(Begin(Expect("[", Advance(c))))))

\* `loop_stmt`, `while_loop` and `counting_loop`.
NamesCounter(c) == Expect("]", ExpectAs("name", "name", Expect("[", c)))
Asks(c) == Expect("]", Value(Expect("[", c)))
While(c, said) ==
    Make("while", "", 3, Braced(Asks(
        IF said.ty = Nothing
        THEN Put(IF said.lifetime # Nothing THEN Complain(c, "E0131") ELSE c, Nothing)
        ELSE IF said.lifetime = Nothing THEN Fail(c, "E0108")
        ELSE Make("counter", "", 3, NamesCounter(Put(Put(c, said.lifetime), said.ty))))))
Bounds(c) == Expect("]", Value(Expect(",", Value(Expect("[", c)))))
Counting(c, said) ==
    IF said.lifetime = Nothing THEN Fail(c, "E0108")
    ELSE IF said.kind = Nothing THEN Fail(c, "E0109")
    ELSE IF said.ty = Nothing THEN Fail(c, "E0105")
    ELSE Make("loop", "", 7, Braced(Bounds(Expect("=", NamesCounter(c)))))
LoopOf(c, said) ==
    IF said.kind = Leaf("word", "while")
    THEN While(IF said.para # Nothing THEN Complain(c, "E0135") ELSE c, said)
    ELSE Counting(Put(Put(Put(c, said.lifetime), said.para), said.ty), said)
Loop(c) ==
    LET said == Said(LoopSays, LoopUnsaid, Top(c).parts)
    IN  LoopOf(Report([c EXCEPT !.out = SubSeq(@, 1, Len(@) - 1)], said), said)

\* `break_stmt`, `return_stmt`.
Break(c) ==
    IF Kind(c) = ";" THEN Make("break", "", 0, Advance(c))
    ELSE Make("break", "", 1, Ended(Value(ExpectWord("reached", "E0132", ExpectWord("when", "E0132", c)))))
Return(c) ==
    IF Kind(c) = ";" THEN Make("return", "", 0, Advance(c)) ELSE Make("return", "", 1, Ended(Value(c)))

\* `standalone_type`: "" is no type. What follows `array` has gone by when it
\* turns out to be none.
RECURSIVE ArrayType(_, _)
ArrayType(c, shape) ==
    LET word == TokenAt(c, 1)
        after == Advance(Advance(c))
    IN  IF Kind(c) # "." THEN c
        ELSE IF ~Chainable(word.kind) THEN Advance(c)
        ELSE IF IsShape(word.text) THEN IF shape # "" THEN Advance(c) ELSE ArrayType(after, word.text)
        ELSE IF word.text \notin Types THEN Advance(c)
        ELSE IF shape = "" \/ IsArrayShape(shape) THEN Put(after, ArrayOf(word.text, shape))
        ELSE Put(Complain(after, "E0135"), Leaf("type", word.text))
ParamType(c) ==
    IF ~Chainable(Kind(c)) THEN c
    ELSE IF Text(c) = "array" THEN ArrayType(Advance(c), "")
    ELSE IF Text(c) \in Types THEN Take(c, "type") ELSE c
\* `param`: with no type read by now, one word that is a type will still do.
ParamNamed(c, typed) ==
    IF Len(typed.out) > Len(c.out) THEN ExpectAs("name", "name", typed)
    ELSE IF Kind(typed) = "word" /\ Text(typed) \in Types THEN ExpectAs("name", "name", Take(typed, "type"))
    ELSE Fail(typed, "E0122")
RECURSIVE Params(_)
Params(c) ==
    LET one == Collect(Make("param", "", 2, ParamNamed(c, ParamType(c))))
    IN  IF c.failed THEN c ELSE IF Reads(one, ",") THEN Params(Advance(one)) ELSE one
ParamsIfAny(c) == IF c.failed \/ Kind(c) = "]" THEN c ELSE Params(c)

\* `func_decl`.
FuncOf(c, said) ==
    IF said.ty = Nothing THEN Fail(c, "E0121")
    ELSE Make("fn", "", 5, Braced(Listed(ParamsIfAny, NamesCounter(Put(Put(c, said.visibility), said.ty)))))
Func(c) ==
    LET said == Said(Answers, Unsaid, Top(c).parts)
    IN  FuncOf(Report([c EXCEPT !.out = SubSeq(@, 1, Len(@) - 1)], said), said)

\* `if_stmt` and `arm`: nothing follows the `else`.
Arm(c) == Make("arm", "", 2, Braced(Asks(Advance(c))))
RECURSIVE Arms(_, _)
Arms(c, closed) ==
    IF c.failed THEN c
    ELSE CASE Says(c, "else-if") -> IF closed THEN Fail(c, "E0117") ELSE Arms(Collect(Arm(c)), FALSE)
           [] Says(c, "else") -> IF closed THEN Fail(c, "E0118") ELSE Arms(Collect(Braced(Advance(c))), TRUE)
           [] OTHER -> c
If(c) == Make("if", "", 1, Arms(Collect(Arm(Begin(c))), FALSE))

\* `defaults_stmt`.
DefaultsOf(c) == IF Len(Top(c).parts) # 2 THEN Fail(c, "E0110") ELSE Make("defaults", "", 1, Ended(c))

\* `statement`.
ReadStatement(c) ==
    CASE Says(c, "var") -> Var(c)
      [] Says(c, "set") -> Set(c)
      [] Says(c, "handback") -> Handback(c)
      [] Says(c, "print") -> Prints(c)
      [] Says(c, "loop") -> Loop(Chain(c))
      [] Says(c, "if") -> If(c)
      [] Says(c, "fn") -> Func(Chain(c))
      [] Says(c, "return") -> Return(Advance(c))
      [] Says(c, "break") -> Break(Advance(c))
      [] IsCall(c) /\ Text(c) \notin Keywords -> Make("do", "", 1, Ended(Call(c)))
      [] Says(c, "defaults") /\ ~IsCall(c) -> DefaultsOf(Chain(c))
      [] OTHER -> Fail(c, "E0101")

Read(what, c) ==
    CASE what = "value" -> ReadValue(c)
      [] what = "values" -> ReadValues(c)
      [] what = "condition" -> ReadCondition(c)
      [] what = "unary" -> ReadUnary(c)
      [] what = "statement" -> ReadStatement(c)
      [] what = "body" -> ReadBody(c)
=============================================================================
