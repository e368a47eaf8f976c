----------------------------- MODULE MCChecker -----------------------------
(* Programs for Checking: three statements over a few names; every expression *)
(* of two levels where each type is wanted, and none; arrays; and functions.   *)
EXTENDS Checking

M == INSTANCE Named
W == INSTANCE TreeWalk

Node(kind, text, parts) == [k |-> kind, text |-> text, parts |-> parts]
Of(kind, parts) == Node(kind, "", parts)
Leaf(kind, text) == Node(kind, text, <<>>)
Nothing == Leaf("nothing", "")
List(parts) == Of("list", parts)

MCTexts == <<"0", "1", "2", "3", "1.5", "20", "100", "true", "word">>
MCSpelling == [text \in ToSet(MCTexts) |-> CHOOSE i \in DOMAIN MCTexts : MCTexts[i] = text]
MCHalves == [text \in {"0", "1", "2", "3", "1.5", "20", "100"} |->
    CASE text = "0" -> 0 [] text = "1" -> 2 [] text = "2" -> 4 [] text = "3" -> 6
      [] text = "1.5" -> 3 [] text = "20" -> 40 [] text = "100" -> 200]
MCGrid == <<2, 1>>

-----------------------------------------------------------------------------
(* Writing trees *)

Num(text) == Leaf("literal", text)
Name(text) == Leaf("name", text)
Ty(word) ==
    CASE word = "ints" -> Node("array", "int", <<>>)
      [] word = "grid" -> Node("array", "int", <<Leaf("shape", "2x1")>>)
      [] OTHER -> Leaf("type", word)
Op(kind, l, r) == Of(kind, <<l, r>>)
Math(e) == Of("math", <<e>>)
Neg(e) == Of("neg", <<e>>)
Items(values) == Of("items", <<List(values)>>)
At(array, indices) == Of("index", <<array, List(indices)>>)
Call(name, args) == Node("call", name, <<List(args)>>)
Typed(ty, text) == Of("typed", <<Ty(ty), Num(text)>>)

Local == Leaf("word", "local")
Mut == Leaf("word", "mut")
Binding(name, visibility, mutable, ty) == Node("binding", name, <<visibility, mutable, Ty(ty)>>)
Declares(bindings, values) == Of("var", <<List(bindings), List(values)>>)
Let(name, ty, e) == Declares(<<Binding(name, Local, Mut, ty)>>, <<e>>)
SetTo(targets, values) == Of("set", <<List(targets), List(values)>>)
Put(name, e) == SetTo(<<Name(name)>>, <<e>>)
PutAt(name, indices, e) == SetTo(<<Of("element", <<Name(name), List(indices)>>)>>, <<e>>)
Handed(source, target) == Of("handback", <<Name(source), Name(target)>>)
Show(items) == Of("print", <<List(items)>>)
For(lifetime, ty, name, from, to, body) ==
    Of("loop", <<Leaf("word", lifetime), Nothing, Ty(ty), Name(name), from, to, List(body)>>)
As(condition, body) == Of("while", <<Nothing, condition, List(body)>>)
AsCounted(lifetime, ty, name, condition, body) ==
    Of("while", <<Of("counter", <<Leaf("word", lifetime), Ty(ty), Name(name)>>), condition, List(body)>>)
When(condition, body) == Of("if", <<List(<<Of("arm", <<condition, List(body)>>)>>)>>)
WhenElse(condition, body, otherwise) ==
    Of("if", <<List(<<Of("arm", <<condition, List(body)>>), List(otherwise)>>)>>)
Leave == Of("break", <<>>)
LeaveAt(e) == Of("break", <<e>>)
Back(values) == Of("return", values)
Takes(ty, name) == Of("param", <<Ty(ty), Name(name)>>)
Fn(name, returns, params, body) == Of("fn", <<Local, Ty(returns), Name(name), List(params), List(body)>>)
Calls(name, args) == Of("do", <<Call(name, args)>>)
DefaultOf(setting, behaviour) == Of("defaults", <<List(<<Leaf("word", setting), Leaf("word", behaviour)>>)>>)

-----------------------------------------------------------------------------
(* Names. Lists are sequences, so that a program has a number. *)

\* Every member of s with every member of t.
Each(Pair(_, _), s, t) ==
    [n \in 1 .. Len(s) * Len(t) |-> Pair(s[((n - 1) \div Len(t)) + 1], t[((n - 1) % Len(t)) + 1])]
Every(One(_), s) == [n \in 1 .. Len(s) |-> One(s[n])]

Plus(l, r) == Math(Op("+", l, r))
Less(l, r) == Math(Op("<", l, r))
Declared == <<
    Let("a", "int", Num("1")),
    Declares(<<Binding("a", Local, Nothing, "int")>>, <<Num("2")>>),
    Declares(<<Binding("a", Nothing, Mut, "int")>>, <<Num("1")>>),
    Let("a", "nat", Num("1")),
    Declares(<<Binding("a", Local, Mut, "int"), Binding("b", Local, Mut, "int")>>, <<Num("3"), Plus(Name("a"), Num("1"))>>),
    Declares(<<Binding("a", Local, Mut, "int"), Binding("a", Local, Mut, "int")>>, <<Num("3"), Num("2")>>),
    DefaultOf("no-visibility-stated", "error")>>
Acts == <<
    Let("b", "int", Name("a")), Let("b", "nat", Num("2")), Let("a", "int", Num("3")),
    Put("a", Num("2")), Put("b", Name("a")), Put("i", Num("2")),
    SetTo(<<Name("a"), Name("b")>>, <<Name("b"), Name("a")>>),
    SetTo(<<Name("a"), Name("b")>>, <<Num("1")>>),
    Handed("a", "b"), Handed("b", "a"),
    Show(<<Name("a"), Name("b")>>), Show(<<Name("i")>>), Show(<<Leaf("text", "word"), Num("1")>>),
    When(Math(Typed("bool", "true")), <<Let("b", "int", Num("3")), Put("a", Name("b")), Show(<<Name("b")>>)>>),
    WhenElse(Math(Op("=", Name("a"), Num("1"))), <<Show(<<Name("a")>>)>>, <<Let("a", "nat", Num("0")), Show(<<Name("a")>>)>>),
    For("temp", "int", "i", Num("1"), Num("2"), <<Show(<<Name("i")>>), Handed("i", "a")>>),
    For("perm", "int", "i", Name("a"), Num("3"), <<LeaveAt(Num("2")), Let("b", "int", Name("i")), Put("b", Num("0"))>>),
    For("temp", "float", "a", Num("0"), Num("1.5"), <<Show(<<Name("a")>>)>>),
    For("perm", "int", "i", Num("2"), Num("1"), <<Show(<<Name("i")>>)>>),
    As(Less(Name("a"), Num("3")), <<Put("a", Plus(Name("a"), Num("1"))), Let("b", "int", Name("a")), Show(<<Name("b")>>)>>),
    AsCounted("temp", "int", "i", Less(Name("a"), Num("3")), <<Handed("i", "a"), LeaveAt(Num("2")), Show(<<Name("a")>>)>>),
    AsCounted("perm", "int", "i", Less(Name("a"), Num("3")), <<Handed("a", "a")>>),
    Leave>>
NamePrograms ==
    Each(LAMBDA x, two : <<x>> \o two \o <<Show(<<Name("a")>>)>>, Declared, Each(LAMBDA y, z : <<y, z>>, Acts, Acts))

-----------------------------------------------------------------------------
(* Expressions, after one of each type *)

Prelude ==
    Declares(<<Binding("a", Local, Mut, "int"), Binding("u", Local, Mut, "nat"), Binding("f", Local, Mut, "float"),
          Binding("t", Local, Mut, "text"), Binding("q", Local, Mut, "bool"), Binding("xs", Local, Mut, "ints"),
          Binding("g", Local, Nothing, "grid")>>,
        <<Num("2"), Num("1"), Num("1.5"), Num("word"), Num("true"), Items(<<Num("3"), Num("1")>>),
          Items(<<Num("1"), Num("0")>>)>>)
Atoms ==
    <<Num("1"), Num("20"), Num("1.5"), Num("true"), Name("a"), Name("u"), Name("f"), Name("t"), Name("q"),
      Name("xs"), Typed("int", "1"), At(Name("xs"), <<Num("2")>>), At(Name("g"), <<Num("1"), Num("1")>>),
      Call("count", <<Name("xs")>>)>>
FewAtoms == <<Num("1"), Name("a"), Name("u"), Name("q"), Call("count", <<Name("xs")>>)>>
Ops(ops, ls, rs) == Each(LAMBDA o, lr : Op(o, lr[1], lr[2]), ops, Each(LAMBDA l, r : <<l, r>>, ls, rs))
Level1 ==
    Ops(<<"+", "-", "<", "=", "and">>, Atoms, Atoms) \o Every(Neg, Atoms)
    \o Every(LAMBDA e : Of("not", <<e>>), Atoms) \o Atoms
Level2 ==
    Ops(<<"+", "<", "or">>, Ops(<<"*", "=", "-">>, FewAtoms, FewAtoms), FewAtoms)
    \o Ops(<<"-", "=">>, FewAtoms, Every(Neg, FewAtoms))
Odd == <<Of("percent", <<Num("20")>>), Of("percent", <<Name("f")>>), Leaf("time", ""), Op("**", Name("a"), Num("2"))>>
\* Printed, where nothing is wanted of it, or put in a variable of a type.
Wanted(e, ty) ==
    IF ty = "" THEN <<Prelude, Show(<<Math(e)>>)>> ELSE <<Prelude, Let("z", ty, Math(e)), Show(<<Name("z")>>)>>
ExprPrograms ==
    Each(Wanted, Level1, <<"", "int", "nat", "bool", "text">>) \o Each(Wanted, Level2, <<"", "int", "bool">>)
    \o Each(Wanted, Odd, <<"", "int", "float">>)

-----------------------------------------------------------------------------
(* Arrays *)

Places == <<<<Num("1")>>, <<Name("u")>>, <<Name("a")>>, <<Num("3")>>, <<Num("2"), Num("1")>>, <<Num("2"), Name("u")>>>>
Lists ==
    <<Items(<<>>), Items(<<Num("1")>>), Items(<<Num("1"), Name("a")>>), Items(<<Name("u"), Num("2")>>),
      Call("filled", <<Num("2"), Name("a")>>), Call("filled", <<Num("2")>>), Call("filled", <<Name("u"), Name("u")>>),
      Name("xs"), Name("g"), Num("word")>>
Elements == <<Num("2"), Name("a"), Name("u"), At(Name("xs"), <<Num("1")>>)>>
ArrayPrograms ==
    Each(LAMBDA x, av : <<Prelude, PutAt(x, av[1], av[2]), Show(<<At(Name(x), av[1]), Call("count", <<Name(x)>>)>>)>>,
         <<"xs", "g", "a">>, Each(LAMBDA a, v : <<a, v>>, Places, Elements))
    \o Each(LAMBDA ty, va : <<Prelude, Let("z", ty, va[1]), PutAt("z", va[2], Num("0")),
                              Show(<<At(Name("xs"), <<Num("1")>>), At(Name("z"), va[2])>>)>>,
            <<"ints", "grid", "int">>, Each(LAMBDA v, a : <<v, a>>, Lists, Places))
    \o Every(LAMBDA v : <<Prelude, Put("xs", v), Show(<<At(Name("xs"), <<Num("2")>>)>>)>>, Lists)
    \o Every(LAMBDA ty : <<Prelude, For("temp", ty, "i", Num("1"), Call("count", <<Name("xs")>>),
                                         <<Show(<<At(Name("xs"), <<Name("i")>>)>>)>>)>>,
             <<"int", "nat", "float">>)

-----------------------------------------------------------------------------
(* Functions *)

AnswersIf(e) == When(Math(Op("<", Name("a"), Num("2"))), <<Back(<<e>>)>>)
Bodies ==
    <<<<Back(<<Plus(Name("a"), Num("1"))>>)>>,
      <<AnswersIf(Name("a"))>>,
      <<AnswersIf(Num("0")), Back(<<Plus(Name("a"), Call("f", <<Math(Op("-", Name("a"), Num("1")))>>))>>)>>,
      <<WhenElse(Less(Name("a"), Num("2")), <<Back(<<Num("1")>>)>>, <<Back(<<Call("g", <<>>)>>)>>)>>,
      <<Let("b", "int", Name("a")), As(Math(Typed("bool", "true")), <<Put("b", Num("1")), Leave>>), Back(<<Name("b")>>)>>,
      <<Put("a", Num("1")), Back(<<Name("a")>>)>>, <<Back(<<>>)>>, <<Show(<<Name("a"), Name("o")>>)>>, <<Leave>>,
      <<Back(<<Num("1.5")>>)>>>>
Uses ==
    <<Show(<<Call("f", <<Num("1")>>)>>), Show(<<Call("f", <<Name("o")>>), Name("o")>>), Calls("f", <<Num("3")>>),
      Let("z", "int", Call("f", <<Call("f", <<Num("0")>>)>>)), Let("z", "nat", Call("f", <<Num("1")>>)),
      Show(<<Call("f", <<>>)>>), Calls("g", <<>>), Calls("count", <<Num("1")>>), Back(<<>>),
      For("temp", "int", "i", Num("1"), Num("3"), <<Calls("f", <<Name("i")>>)>>)>>
Second == Fn("g", "nothing", <<>>, <<Show(<<Leaf("text", "word")>>)>>)
Settings ==
    <<DefaultOf("overflow", "trap"), DefaultOf("division", "truncated"), DefaultOf("overflow", "up"), DefaultOf("flow", "wrap")>>
FunctionPrograms ==
    Each(LAMBDA uv, rb : <<Let("o", "int", Num("2")), uv[1], Fn("f", rb[1], <<Takes("int", "a")>>, rb[2]), uv[2], Second>>,
         Each(LAMBDA u, v : <<u, v>>, Uses, <<Show(<<Name("o")>>), Calls("g", <<>>)>>),
         Each(LAMBDA r, b : <<r, b>>, <<"int", "nothing">>, Bodies))
    \o Each(LAMBDA xy, ns : <<Fn("f", "int", <<Takes("int", xy[1]), Takes("nat", xy[2])>>, <<Back(<<Name("a")>>)>>),
                              Show(<<Call("f", <<Num("1"), Num("2")>>)>>),
                              Fn(ns[1], "int", <<>>, <<Back(<<Num("1")>>)>>), ns[2]>>,
            Each(LAMBDA x, y : <<x, y>>, <<"a", "b">>, <<"a", "c">>), Each(LAMBDA n, s : <<n, s>>, <<"f", "g">>, Settings))
    \o Every(LAMBDA s : <<Let("a", "int", Num("3")), Put("a", Math(Op("*", Name("a"), Name("a")))), Show(<<Name("a")>>), s>>,
             <<DefaultOf("overflow", "trap"), DefaultOf("overflow", "wrap"), Show(<<Name("a")>>)>>)

\* A project may ask for every visibility to be stated.
MCStarts == [overflow : {"wrap"}, division : {"floored"}, required : BOOLEAN]
MCPrograms == NamePrograms \o ExprPrograms \o ArrayPrograms \o FunctionPrograms

-----------------------------------------------------------------------------
(* What the checker does not look at. *)

\* A list of whole numbers, where a bare one stands for an array.
BareNumbers ==
    Every(LAMBDA v : <<Let("xs", "ints", v), Show(<<Call("count", <<Name("xs")>>)>>)>>,
          <<Items(<<Num("1")>>), Num("1.5"), Num("1")>>)
-----------------------------------------------------------------------------
(* Properties *)

MeantBy == M!Meaning(program, start)
Walked == W!Walk(Checked(k))

\* What an accepted program does by its slots is what it means by its names:
\* it breaks no rule of the language wherever it runs, it prints the same, and
\* stops with the same fault. (`check_with` as a whole: `lookup`, `next_slot`,
\* the order of the passes, and the type settled for every written number.)
\* Left aside: what is never looked at, and what Named does not run.
SlotsMeanTheNames ==
    Accepted /\ MeantBy.wrong \notin {"misused", "not run here"} =>
        /\ MeantBy.wrong = ""
        /\ Walked.out = MeantBy.out
        /\ Walked.fault.code = IF MeantBy.fault = "" THEN "none" ELSE MeantBy.fault

\* A program that only declares, sets, hands back and prints, and that breaks
\* no rule as it runs, is accepted: nothing is refused that has a meaning.
\* (`two_sides` and `self_typing`: 1 < 'x' and 'x' < 1 alike.)
RECURSIVE Mentions(_, _)
Mentions(kinds, e) == e.k \in kinds \/ \E i \in DOMAIN e.parts : Mentions(kinds, e.parts[i])
Straight ==
    \A i \in DOMAIN program :
        /\ program[i].k \in {"var", "set", "handback", "print"}
        /\ ~Mentions({"and", "or", "call"}, program[i])
StraightIsAccepted ==
    stage = "checked" /\ Straight /\ MeantBy.wrong = "" /\ MeantBy.fault = "" => Accepted

\* A written value is a value of its type, or is refused: the checker never
\* gives up on a program it was handed (`expect` in `literal`, lib.rs:1398).
NeverPanics == ~Panicked
=============================================================================
