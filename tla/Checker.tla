------------------------------ MODULE Checker ------------------------------
(* Names, types, visibility and mutability (luarust-check/lib.rs): the trees  *)
(* of Parser in, the programs of Lang out, with a slot for every name and a   *)
(* value of a known type for everything written. Checking carries one record: *)
(*   scopes      name -> variable, a scope after the one it stands in;        *)
(*   slots       how many the program, or the function, has used;             *)
(*   overflow, division, required    what the defaults have settled;          *)
(*   signatures, funcs               the functions, by name and by index;     *)
(*   inside      "" at the top level, else what the function answers;         *)
(*   loop        <<>> outside any, else what its loop counts in, if anything, *)
(*               as a sequence of none or one;                                *)
(*   errors      the codes reported, `panicked` among them if it gave up;     *)
(*   ok, got     whether the last thing asked for was had, and what it was.   *)
(* Exact and decimal numbers are left out, spans and wording too.             *)
EXTENDS Lang, SequencesExt

CONSTANTS
    Halves,     \* a written text that is a number -> how many halves it is
    Spelling    \* a written text -> the text value it is

Arrays == {"ints", "grid"}
ElementOf(ty) == "int"
IsNumber(ty) == ty \in {"int", "nat", "float"}
\* The type a tree names.
Meant(ty) ==
    IF ty.k = "type" THEN ty.text ELSE IF ty.parts = <<>> THEN "ints" ELSE "grid"
\* How many elements a type holds; 0 when it grows.
LengthOf(ty) == IF Dims(ty) = <<>> THEN 0 ELSE FoldLeft(LAMBDA a, b : a * b, 1, Dims(ty))
Indices(ty) == IF Dims(ty) = <<>> THEN 1 ELSE Len(Dims(ty))

-----------------------------------------------------------------------------
(* What there is to carry *)

Give(k, e) == [k EXCEPT !.ok = TRUE, !.got = <<e>>]
Went(k) == [k EXCEPT !.ok = TRUE, !.got = <<>>]
Error(k, code) == [k EXCEPT !.ok = FALSE, !.got = <<>>, !.errors = Append(@, code)]
\* `?`: what follows, when what was asked for was had.
Then(k, Rest(_)) == IF k.ok THEN Rest(k) ELSE k
With(x, Rest(_)) == Rest(x)

\* `lookup`, the innermost scope first.
Known(k, name) == {i \in DOMAIN k.scopes : name \in DOMAIN k.scopes[i]}
Outermost(k, name) == CHOOSE i \in Known(k, name) : \A j \in Known(k, name) : i <= j
Innermost(k, name) == CHOOSE i \in Known(k, name) : \A j \in Known(k, name) : j <= i
Lookup(k, name) == k.scopes[Innermost(k, name)][name]
Declare(k, name, var) == [k EXCEPT !.scopes[Len(k.scopes)] = (name :> var) @@ @]
\* The slot `next_slot` gives out is the number of those before it.
Taken(k) == [k EXCEPT !.slots = @ + 1]
Variable(k, ty, mutable, visibility) ==
    [slot |-> k.slots, ty |-> ty, mutable |-> mutable, visibility |-> visibility]
Open(k) == [k EXCEPT !.scopes = Append(@, <<>>)]
Shut(k) == [k EXCEPT !.scopes = SubSeq(@, 1, Len(@) - 1)]

\* `resolve`, `changeable`, `counts_match`, `agree`.
Resolve(k, name) ==
    IF Known(k, name) = {} THEN Error(k, "E0208")
    ELSE IF Lookup(k, name).visibility = "restricted" THEN Error(k, "E0207")
    ELSE Went(k)
Changeable(k, name) == IF Lookup(k, name).mutable THEN Went(k) ELSE Error(k, "E0104")
CountsMatch(k, names, values) == IF Len(names) = Len(values) THEN Went(k) ELSE Error(k, "E0206")
Agree(k, found, want) == IF want \in {"", found} THEN Went(k) ELSE Error(k, "E0215")
Needs(k, want, Rest(_)) == IF want = "" THEN Error(k, "E0214") ELSE Rest(k)

\* `literal`. An array has no width to fit a whole number to.
Written(text, ty) ==
    IF ty = "text" THEN [ty |-> ty, bits |-> Spelling[text]]
    ELSE IF ty = "bool" THEN Bool(text = "true")
    ELSE IF ty = "float" THEN Float(Halves[text] < 0, IF Halves[text] < 0 THEN -Halves[text] ELSE Halves[text])
    ELSE Whole(ty, Halves[text] \div 2)
IsWhole(text) == text \in DOMAIN Halves /\ Halves[text] % 2 = 0
Literal(k, text, ty) ==
    CASE ty = "bool" /\ text \notin {"true", "false"} -> Error(k, "E0216")
      [] ty = "float" /\ text \notin DOMAIN Halves -> Error(k, "E0219")
      [] (IsInteger(ty) \/ ty \in Arrays) /\ ~IsWhole(text) -> Error(k, "E0218")
      [] ty \in Arrays /\ IsWhole(text) -> Error(k, "panicked")
      [] IsInteger(ty) /\ IsWhole(text) /\ ~Fits(ty, Halves[text] \div 2) -> Error(k, "E0217")
      [] OTHER -> Give(k, [k |-> "const", value |-> Written(text, ty)])

Load(k, name) == [k |-> "load", slot |-> Lookup(k, name).slot, ty |-> Lookup(k, name).ty]

-----------------------------------------------------------------------------
(* Expressions. `want` is the type something expects, "" when nothing does. *)

Operators == [o \in {"+", "-", "*", "/", "mod", "**", "<", ">", "=", "<=", ">=", "!="} |->
    CASE o = "+" -> "add" [] o = "-" -> "sub" [] o = "*" -> "mul" [] o = "/" -> "div"
      [] o = "mod" -> "mod" [] o = "**" -> "pow" [] o = "<" -> "lt" [] o = ">" -> "gt"
      [] o = "=" -> "eq" [] o = "<=" -> "le" [] o = ">=" -> "ge" [] o = "!=" -> "ne"]
Arithmetic == {"+", "-", "*", "/", "mod", "**"}
Orders == {"<", ">", "<=", ">="}
Comparisons == Orders \cup {"=", "!="}

\* `self_typing`.
RECURSIVE Settles(_)
Settles(e) ==
    CASE e.k \in {"name", "typed", "and", "or", "not", "index", "call"} \cup Comparisons -> TRUE
      [] e.k \in {"math", "neg"} -> Settles(e.parts[1])
      [] e.k \in Arithmetic -> Settles(e.parts[1]) \/ Settles(e.parts[2])
      [] OTHER -> FALSE

\* What is checked within itself is checked by name.
RECURSIVE Check(_, _, _, _)
Expr(e, want, k) == Check("expr", e, want, k)
\* Each against what is wanted of it, as far as the first that fails.
All(es, wants, k) == Check("all", es, wants, k)
Block(stmts, k) == Check("block", stmts, "", k)

CheckAll(es, wants, k) ==
    IF es = <<>> THEN Went(k)
    ELSE Then(Expr(Head(es), Head(wants), k), LAMBDA first :
         Then(All(Tail(es), Tail(wants), first), LAMBDA rest :
              [rest EXCEPT !.got = first.got \o @]))
Repeat(x, n) == [i \in 1 .. n |-> x]

TwoSidesInOrder(l, r, want, k) ==
    Then(Expr(l, want, k), LAMBDA first :
    Then(Expr(r, TypeOf(first.got[1]), first), LAMBDA second :
         [second EXCEPT !.got = <<first.got[1], second.got[1]>>]))
\* `two_sides`: the side that knows what it is goes first and tells the other.
TwoSides(l, r, want, k) ==
    IF want # "" \/ Settles(l) \/ ~Settles(r)
    THEN Then(Expr(l, want, k), LAMBDA first :
         Then(Expr(r, TypeOf(first.got[1]), first), LAMBDA second :
              [second EXCEPT !.got = <<first.got[1], second.got[1]>>]))
    ELSE Then(Expr(r, "", k), LAMBDA first :
         Then(Expr(l, TypeOf(first.got[1]), first), LAMBDA second :
              [second EXCEPT !.got = <<second.got[1], first.got[1]>>]))

\* `condition`.
Question(e, k) ==
    Then(Expr(e, IF Settles(e) THEN "" ELSE "bool", k), LAMBDA asked :
         IF TypeOf(asked.got[1]) = "bool" THEN asked ELSE Error(asked, "E0221"))

Negated(e, want, k) ==
    Then(Expr(e.parts[1], want, k), LAMBDA held :
         With(TypeOf(held.got[1]), LAMBDA ty :
              IF ty = "nat" THEN Error(held, "E0212")
              ELSE Give(held, [k |-> "neg", ty |-> ty, operand |-> held.got[1]])))

Compared(e, want, k) ==
    Then(Agree(k, "bool", want), LAMBDA agreed :
    Then(TwoSides(e.parts[1], e.parts[2], "", agreed), LAMBDA both :
         IF e.k \in Orders /\ ~IsNumber(TypeOf(both.got[1])) THEN Error(both, "E0220")
         ELSE Give(both, [k |-> "compare", op |-> Operators[e.k], lhs |-> both.got[1], rhs |-> both.got[2]])))

Calculated(e, want, k) ==
    Then(TwoSides(e.parts[1], e.parts[2], want, k), LAMBDA both :
         IF ~IsNumber(TypeOf(both.got[1])) THEN Error(both, "E0213")
         ELSE Give(both, [k |-> "binary", op |-> Operators[e.k], ty |-> TypeOf(both.got[1]),
                          lhs |-> both.got[1], rhs |-> both.got[2]]))

Percent(e, want, k) ==
    IF want # "float" THEN Error(k, "E0211")
    ELSE Then(Expr(e.parts[1], want, k), LAMBDA held :
         Then(Literal(held, "100", want), LAMBDA hundred :
              Give(hundred, [k |-> "binary", op |-> "div", ty |-> want,
                             lhs |-> held.got[1], rhs |-> hundred.got[1]])))

Logic(e, want, k) ==
    Then(Agree(k, "bool", want), LAMBDA agreed :
    Then(Question(e.parts[1], agreed), LAMBDA lhs :
    Then(Question(e.parts[2], lhs), LAMBDA rhs :
         Give(rhs, [k |-> "logic", op |-> e.k, lhs |-> lhs.got[1], rhs |-> rhs.got[1]]))))

\* A list where a value is wanted is a new array.
NewArray(e, want, k) ==
    LET items == e.parts[1].parts
    IN  IF want \notin Arrays THEN Error(k, "E0136")
        ELSE IF LengthOf(want) \notin {0, Len(items)} THEN Error(k, "E0137")
        ELSE Then(All(items, Repeat(ElementOf(want), Len(items)), k), LAMBDA held :
                  Give(held, [k |-> "newarray", ty |-> want, items |-> held.got]))

\* An array has one index for each dimension, and one when it grows.
Shaped(of, at, k) ==
    IF of \notin Arrays THEN Error(k, "E0138")
    ELSE IF Len(at) # Indices(of) THEN Error(k, "E0139") ELSE Went(k)
Indexed(e, want, k) ==
    LET at == e.parts[2].parts
    IN  Then(Expr(e.parts[1], "", k), LAMBDA held :
        With(TypeOf(held.got[1]), LAMBDA of :
        Then(Shaped(of, at, held), LAMBDA shaped :
        Then(Agree(shaped, ElementOf(of), want), LAMBDA agreed :
        Then(All(at, Repeat("nat", Len(at)), agreed), LAMBDA places :
             Give(places, [k |-> "at", ty |-> ElementOf(of), array |-> held.got[1], at |-> places.got]))))))

\* `count_of` and `filled`, which no program declares.
Counted(args, want, k) ==
    IF Len(args) # 1 THEN Error(k, "E0130")
    ELSE Then(Expr(args[1], "", k), LAMBDA held :
              IF TypeOf(held.got[1]) \notin Arrays THEN Error(held, "E0138")
              ELSE IF want # "" /\ ~IsInteger(want) THEN Error(held, "E0141")
              ELSE Give(held, [k |-> "count", ty |-> IF want = "" THEN "nat" ELSE want, array |-> held.got[1]]))
Filled(args, want, k) ==
    LET made(held, length, value) ==
            Give(held, [k |-> "filled", ty |-> want, length |-> length, value |-> value])
    IN  IF want = "" THEN Error(k, "E0214")
        ELSE IF want \notin Arrays THEN Error(k, "E0136")
        ELSE IF Len(args) # (IF LengthOf(want) = 0 THEN 2 ELSE 1) THEN Error(k, "E0130")
        ELSE IF LengthOf(want) = 0
        THEN Then(All(args, <<"nat", ElementOf(want)>>, k), LAMBDA held : made(held, held.got[1], held.got[2]))
        ELSE Then(Expr(args[1], ElementOf(want), k), LAMBDA held :
                  made(held, [k |-> "const", value |-> Whole("nat", LengthOf(want))], held.got[1]))

\* `resolve_call`, and `call` where a value is wanted of it.
Arguments(name, args, k) ==
    IF name \notin DOMAIN k.signatures THEN Error(k, "E0128")
    ELSE IF Len(args) # Len(k.signatures[name].params) THEN Error(k, "E0130")
    ELSE All(args, k.signatures[name].params, k)
Called(name, args, want, k) ==
    Then(Arguments(name, args, k), LAMBDA ready :
         With(k.signatures[name], LAMBDA its :
              IF its.returns = "nothing" THEN Error(ready, "E0129")
              ELSE Then(Agree(ready, its.returns, want), LAMBDA agreed :
                        Give(agreed, [k |-> "call", func |-> its.index, ty |-> its.returns, args |-> ready.got]))))

Named(e, want, k) ==
    Then(Resolve(k, e.text), LAMBDA found :
    Then(Agree(found, Lookup(found, e.text).ty, want), LAMBDA agreed : Give(agreed, Load(agreed, e.text))))

CheckExpr(e, want, k) ==
    CASE e.k = "math" -> Expr(e.parts[1], want, k)
      [] e.k \in {"literal", "number"} -> Needs(k, want, LAMBDA held : Literal(held, e.text, want))
      [] e.k = "typed" ->
            Then(Agree(k, Meant(e.parts[1]), want), LAMBDA agreed :
                 Literal(agreed, e.parts[2].text, Meant(e.parts[1])))
      [] e.k = "name" -> Named(e, want, k)
      [] e.k = "time" ->
            Needs(k, want, LAMBDA held :
                  IF want # "float" THEN Error(held, "E0210") ELSE Give(held, [k |-> "time", ty |-> want]))
      [] e.k = "percent" -> Needs(k, want, LAMBDA held : Percent(e, want, held))
      [] e.k = "neg" -> Negated(e, want, k)
      [] e.k \in Comparisons -> Compared(e, want, k)
      [] e.k \in Arithmetic -> Calculated(e, want, k)
      [] e.k \in {"and", "or"} -> Logic(e, want, k)
      [] e.k = "not" ->
            Then(Agree(k, "bool", want), LAMBDA agreed :
            Then(Question(e.parts[1], agreed), LAMBDA held :
                 Give(held, [k |-> "not", ty |-> "bool", operand |-> held.got[1]])))
      [] e.k = "items" -> Needs(k, want, LAMBDA held : NewArray(e, want, held))
      [] e.k = "index" -> Indexed(e, want, k)
      [] e.k = "call" ->
            CASE e.text = "count" -> Counted(e.parts[1].parts, want, k)
              [] e.text = "filled" -> Filled(e.parts[1].parts, want, k)
              [] OTHER -> Called(e.text, e.parts[1].parts, want, k)

-----------------------------------------------------------------------------
(* Statements. Each answers the checked statements it became: none, when it  *)
(* was in error.                                                              *)

Scoped(body, k) == Shut(Block(body, Open(k)))
Kept(k, stmts) == [k EXCEPT !.ok = TRUE, !.got = stmts]
\* What an error leaves is no statement, and checking goes on after it.
OrNone(k) == IF k.ok THEN k ELSE Kept(k, <<>>)
\* One thing after another, the statements of each kept, whatever became of
\* the one before.
EachOf(Step(_, _), xs, k) ==
    FoldLeft(LAMBDA so, x : With(OrNone(Step(x, so)), LAMBDA done : Kept(done, so.got \o done.got)),
             Kept(k, <<>>), xs)
Pairs(as, bs) == [i \in DOMAIN as |-> <<as[i], bs[i]>>]

Said(part, none) == IF part.k = "nothing" THEN none ELSE part.text

\* `var_decl`. The value is checked before there is such a variable.
Bind(pair, k) ==
    LET binding == pair[1]
        ty == Meant(binding.parts[3])
        var(held) == Variable(held, ty, binding.parts[2].k # "nothing", Said(binding.parts[1], "restricted"))
    IN  IF k.required /\ binding.parts[1].k = "nothing" THEN Error(k, "E0202")
        ELSE IF binding.text \in DOMAIN k.scopes[Len(k.scopes)] THEN Error(k, "E0203")
        ELSE Then(Expr(pair[2], ty, k), LAMBDA held :
                  Kept(Declare(Taken(held), binding.text, var(held)),
                       <<[k |-> "store", slot |-> held.slots, value |-> held.got[1]]>>))
Var(s, k) ==
    LET bindings == s.parts[1].parts
        values == s.parts[2].parts
    IN  Then(CountsMatch(k, bindings, values), LAMBDA same : EachOf(Bind, Pairs(bindings, values), same))

\* `set_stmt`: the whole of a variable, or one element of it.
TargetName(target) == IF target.k = "element" THEN target.parts[1].text ELSE target.text
SetElement(target, value, k) ==
    LET var == Lookup(k, TargetName(target))
        at == target.parts[2].parts
        places(shaped) == EachOf(LAMBDA index, so : Expr(index, "nat", so), at, shaped)
    IN  Then(Shaped(var.ty, at, k), LAMBDA shaped :
        With(places(shaped), LAMBDA done :
             IF Len(done.got) # Len(at) THEN [done EXCEPT !.ok = FALSE]
             ELSE Then(Expr(value, ElementOf(var.ty), done), LAMBDA held :
                  Kept(held, <<[k |-> "storeat", array |-> Load(k, TargetName(target)), at |-> done.got,
                                value |-> held.got[1]]>>))))
SetOne(pair, k) ==
    LET name == TargetName(pair[1])
    IN  Then(Resolve(k, name), LAMBDA found :
        Then(Changeable(found, name), LAMBDA may :
             IF pair[1].k = "element" THEN SetElement(pair[1], pair[2], may)
             ELSE Then(Expr(pair[2], Lookup(may, name).ty, may), LAMBDA held :
                       Kept(held, <<[k |-> "store", slot |-> Lookup(held, name).slot, value |-> held.got[1]]>>))))
Set(s, k) ==
    LET targets == s.parts[1].parts
        values == s.parts[2].parts
    IN  Then(CountsMatch(k, targets, values), LAMBDA same : EachOf(SetOne, Pairs(targets, values), same))

\* What a `handback` becomes, the target changed by what the source holds.
Sum(k, ty, target, source) ==
    [k |-> "binary", op |-> "add", ty |-> ty, lhs |-> Load(k, target), rhs |-> Load(k, source)]
\* `handback_stmt`.
Handback(s, k) ==
    LET source == s.parts[1].text
        target == s.parts[2].text
        ty == Lookup(k, target).ty
    IN  Then(Resolve(k, source), LAMBDA found :
        Then(Resolve(found, target), LAMBDA both :
        Then(Changeable(both, target), LAMBDA may :
             IF Lookup(k, source).ty # ty THEN Error(may, "E0204")
             ELSE Kept(may, <<[k |-> "store", slot |-> Lookup(k, target).slot,
                               value |-> Sum(k, ty, target, source)]>>))))

\* `print_stmt`: an item in error is left out of it.
Item(item, k) ==
    IF item.k \in {"text", "escape"}
    THEN Give(k, [k |-> "const", value |-> [ty |-> "text", bits |-> Spelling[item.text]]])
    ELSE Expr(item, "", k)
Prints(s, k) ==
    With(EachOf(Item, s.parts[1].parts, k), LAMBDA done : Kept(done, <<[k |-> "print", items |-> done.got]>>))

\* The body of a loop, whose counter, none or one, is declared around it or in
\* it as its lifetime says.
Body(body, counters, lifetime, name, var, k) ==
    With(IF counters # <<>> /\ lifetime = "perm" THEN Declare(k, name, var) ELSE k, LAMBDA around :
    With(IF counters # <<>> /\ lifetime = "temp" THEN Declare(Open(around), name, var) ELSE Open(around), LAMBDA in :
         [Shut(Block(body, [in EXCEPT !.loop = <<counters>>])) EXCEPT !.loop = k.loop]))
Counter(slot, ty) == [slot |-> slot, ty |-> ty]

\* `loop_stmt`.
Loop(s, k) ==
    LET ty == Meant(s.parts[3])
    IN  IF ~IsNumber(ty) THEN Error(k, "E0205")
        ELSE Then(All(<<s.parts[5], s.parts[6]>>, <<ty, ty>>, k), LAMBDA bounds :
             With(Body(s.parts[7].parts, <<Counter(bounds.slots, ty)>>, s.parts[1].text, s.parts[4].text,
                       Variable(bounds, ty, FALSE, "local"), Taken(bounds)), LAMBDA done :
                  Kept(done, <<[k |-> "loop", slot |-> bounds.slots, ty |-> ty, from |-> bounds.got[1],
                                to |-> bounds.got[2], body |-> done.got]>>)))

\* `while_stmt`: what it counts in is taken as it was written.
While(s, k) ==
    LET counts == s.parts[1].k # "nothing"
        ty == Meant(s.parts[1].parts[2])
        condition(asked) == IF asked.ok THEN asked.got[1] ELSE [k |-> "const", value |-> Bool(FALSE)]
    IN  With(Question(s.parts[2], k), LAMBDA asked :
        With(IF counts
             THEN Body(s.parts[3].parts, <<Counter(asked.slots, ty)>>, s.parts[1].parts[1].text,
                       s.parts[1].parts[3].text, Variable(asked, ty, FALSE, "local"), Taken(asked))
             ELSE Body(s.parts[3].parts, <<>>, "temp", "", Unset, asked), LAMBDA done :
             Kept(done, <<[k |-> "while", counter |-> IF counts THEN <<asked.slots>> ELSE <<>>,
                           ty |-> IF counts THEN ty ELSE "", condition |-> condition(asked),
                           body |-> done.got]>>)))

\* `break_stmt`: with `when reached` it is an `if` around one.
Break(s, k) ==
    IF k.loop = <<>> THEN Error(k, "E0133")
    ELSE IF s.parts = <<>> THEN Kept(k, <<[k |-> "break"]>>)
    ELSE IF k.loop[1] = <<>> THEN Error(k, "E0134")
    ELSE With(k.loop[1][1], LAMBDA counter :
         Then(Expr(s.parts[1], counter.ty, k), LAMBDA held :
              Kept(held, <<[k |-> "if", otherwise |-> <<>>,
                            arms |-> <<[condition |-> [k |-> "compare", op |-> "eq", rhs |-> held.got[1],
                                                       lhs |-> [k |-> "load", slot |-> counter.slot, ty |-> counter.ty]],
                                        body |-> <<[k |-> "break"]>>]>>]>>)))

\* `if_stmt`: an arm whose condition is in error goes, its body checked all
\* the same.
Arm(arm, k) ==
    IF arm.k # "arm" THEN Kept(k, <<>>)
    ELSE With(Question(arm.parts[1], k), LAMBDA asked :
         With(Scoped(arm.parts[2].parts, asked), LAMBDA done :
              Kept(done, IF asked.ok THEN <<[condition |-> asked.got[1], body |-> done.got]>> ELSE <<>>)))
If(s, k) ==
    LET last == s.parts[1].parts[Len(s.parts[1].parts)]
    IN  With(EachOf(Arm, s.parts[1].parts, k), LAMBDA arms :
        With(IF last.k = "arm" THEN Kept(arms, <<>>) ELSE Scoped(last.parts, arms), LAMBDA otherwise :
             Kept(otherwise, <<[k |-> "if", arms |-> arms.got, otherwise |-> otherwise.got]>>)))

\* `return_stmt`.
Return(s, k) ==
    IF k.inside = "" THEN Error(k, "E0125")
    ELSE IF k.inside = "nothing" /\ s.parts # <<>> THEN Error(k, "E0126")
    ELSE IF k.inside # "nothing" /\ s.parts = <<>> THEN Error(k, "E0127")
    ELSE Then(All(s.parts, Repeat(k.inside, Len(s.parts)), k), LAMBDA held :
              Kept(held, <<[k |-> "return", value |-> held.got]>>))

\* `call_stmt`: what it answers, if anything, is dropped.
Do(s, k) ==
    LET call == s.parts[1]
    IN  Then(Arguments(call.text, call.parts[1].parts, k), LAMBDA ready :
             Kept(ready, <<[k |-> "call", func |-> k.signatures[call.text].index, args |-> ready.got]>>))

\* `block`. Functions and defaults are read by passes of their own.
CheckStmt(s, k) ==
    CASE s.k = "var" -> Var(s, k)
      [] s.k = "set" -> Set(s, k)
      [] s.k = "handback" -> Handback(s, k)
      [] s.k = "print" -> Prints(s, k)
      [] s.k = "loop" -> Loop(s, k)
      [] s.k = "while" -> While(s, k)
      [] s.k = "if" -> If(s, k)
      [] s.k = "break" -> Break(s, k)
      [] s.k = "return" -> Return(s, k)
      [] s.k = "do" -> Do(s, k)
      [] s.k \in {"fn", "defaults"} -> Kept(k, <<>>)
CheckBlock(stmts, k) == EachOf(CheckStmt, stmts, k)

Check(what, e, want, k) ==
    CASE what = "expr" -> CheckExpr(e, want, k)
      [] what = "all" -> CheckAll(e, want, k)
      [] what = "block" -> CheckBlock(e, k)

-----------------------------------------------------------------------------
(* The passes over a program *)

\* `apply_default`.
Default(s, k) ==
    LET setting == s.parts[1].parts[1].text
        behaviour == s.parts[1].parts[2].text
    IN  CASE setting = "overflow" /\ behaviour \in {"trap", "wrap"} -> [k EXCEPT !.overflow = behaviour]
          [] setting = "division" /\ behaviour \in {"floored", "truncated", "euclidean"} ->
                [k EXCEPT !.division = behaviour]
          [] setting = "no-visibility-stated" /\ behaviour \in {"error", "restricted"} ->
                [k EXCEPT !.required = behaviour = "error"]
          [] setting \notin {"overflow", "division", "no-visibility-stated"} -> Error(k, "E0201")
          [] OTHER -> Error(k, "E0200")

\* `collect_signatures`: a header, its body left for later.
ParamsOf(s) == [i \in DOMAIN s.parts[4].parts |-> Meant(s.parts[4].parts[i].parts[1])]
Signature(s, k) ==
    LET name == s.parts[3].text
        its == [index |-> Len(k.funcs) + 1, params |-> ParamsOf(s), returns |-> Meant(s.parts[2])]
    IN  IF name \in DOMAIN k.signatures THEN Error(k, "E0123")
        ELSE [k EXCEPT !.signatures = (name :> its) @@ @,
                       !.funcs = Append(@, [slots |-> 0, params |-> its.params,
                                            returns |-> its.returns, body |-> <<>>])]

\* `always_returns`.
RECURSIVE Answers(_)
Answers(stmts) ==
    \E i \in DOMAIN stmts :
        \/ stmts[i].k = "return"
        \/ /\ stmts[i].k = "if" /\ stmts[i].otherwise # <<>> /\ Answers(stmts[i].otherwise)
           /\ \A a \in DOMAIN stmts[i].arms : Answers(stmts[i].arms[a].body)

\* `check_bodies`: its own slots, and nothing around it in sight.
Param(param, k) ==
    Declare(Taken(k), param.parts[2].text, Variable(k, Meant(param.parts[1]), FALSE, "local"))
FuncBody(s, k) ==
    LET its == k.signatures[s.parts[3].text]
        returns == Meant(s.parts[2])
        inner == FoldLeft(LAMBDA so, param : Param(param, so),
                          [k EXCEPT !.slots = 0, !.scopes = <<<<>>>>, !.inside = returns, !.loop = <<>>],
                          s.parts[4].parts)
    IN  With(Block(s.parts[5].parts, inner), LAMBDA done :
             [done EXCEPT !.funcs[its.index].slots = done.slots, !.funcs[its.index].body = done.got,
                          !.errors = @ \o (IF returns # "nothing" /\ ~Answers(done.got)
                                           THEN <<"E0124">> ELSE <<>>),
                          !.slots = k.slots, !.scopes = k.scopes, !.inside = k.inside, !.loop = k.loop])

\* `check_with`: a program nothing has been read of, and what is handed on.
Fresh(start) ==
    [scopes |-> <<<<>>>>, slots |-> 0, overflow |-> start.overflow, division |-> start.division,
     required |-> start.required, signatures |-> <<>>, funcs |-> <<>>, inside |-> "", loop |-> <<>>,
     errors |-> <<>>, ok |-> TRUE, got |-> <<>>]
Checked(k) ==
    [slots |-> k.slots, overflow |-> k.overflow, division |-> k.division, funcs |-> k.funcs,
     stmts |-> k.got, proven |-> {}]
=============================================================================
