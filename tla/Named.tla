-------------------------------- MODULE Named --------------------------------
(* What a program means by its names: run straight from the tree, with every  *)
(* rule of the language looked at when, and only when, running comes to it.    *)
(* A name is looked up in the scopes that are open, a variable carries its     *)
(* type, and a written number has none until it meets something that has.      *)
(* Nothing of this is code: it is what the checker's slots and types promise   *)
(* to come to. Running carries one record:                                     *)
(*   scopes, inside   the variables in sight; what the function answers;       *)
(*   loop             none or one, of none or one counter of the loop run;     *)
(*   heap, out, depth, flow, answer, val, vals   as in TreeWalk;               *)
(*   fault            the code it stopped with, "" for none;                   *)
(*   wrong            the rule it broke, "" for none.                          *)
EXTENDS Lang, SequencesExt

CONSTANTS Halves, Spelling
C == INSTANCE Checker

Raw(n, texts) == [ty |-> "raw", n |-> n, texts |-> texts, plain |-> TRUE, negative |-> FALSE, counts |-> FALSE]
Untyped(v) == v.ty \in {"raw", "list", "fill"}
Halted(m) == m.wrong # "" \/ m.fault # ""
Wrong(m, rule) == [m EXCEPT !.wrong = rule]
Stop(m, code) == [m EXCEPT !.fault = code]
Then(m, Rest(_)) == IF Halted(m) THEN m ELSE Rest(m)
With(x, Rest(_)) == Rest(x)
Give(m, v) == [m EXCEPT !.val = v]
Went(m) == [m EXCEPT !.flow = "went"]
Settle(m, answer) == IF answer.code = "none" THEN Give(m, answer.value) ELSE Stop(m, answer.code)

-----------------------------------------------------------------------------
(* A value where one of a type is wanted *)

TextOf(raw) == CHOOSE text \in raw.texts : TRUE
CanBe(raw, ty) ==
    CASE ty = "text" -> raw.plain
      [] ty = "bool" -> raw.plain /\ raw.texts \subseteq {"true", "false"}
      [] ty = "float" -> raw.texts \subseteq DOMAIN Halves /\ ~raw.counts
      [] ty \in C!Arrays -> FALSE
      [] OTHER -> /\ raw.texts \subseteq DOMAIN Halves
                  /\ \A text \in raw.texts : Halves[text] % 2 = 0 /\ Fits(ty, Halves[text] \div 2)
                  /\ ty = "nat" => ~raw.negative
Became(raw, ty) ==
    CASE ty \in {"text", "bool"} -> C!Written(TextOf(raw), ty)
      [] ty = "float" -> Float(raw.n < 0, IF raw.n < 0 THEN -raw.n ELSE raw.n)
      [] OTHER -> Whole(ty, raw.n \div 2)

RECURSIVE Cast(_, _, _), CastAll(_, _, _)
CastAll(vs, tys, m) ==
    IF vs = <<>> THEN [m EXCEPT !.vals = <<>>]
    ELSE Then(Cast(Head(vs), Head(tys), m), LAMBDA first :
         Then(CastAll(Tail(vs), Tail(tys), first), LAMBDA rest : [rest EXCEPT !.vals = <<first.val>> \o @]))
Made(m, ty, elements) ==
    [m EXCEPT !.heap = Append(@, elements), !.val = [ty |-> ty, bits |-> Len(m.heap) + 1]]
Cast(v, ty, m) ==
    CASE v.ty = ty -> Give(m, v)
      [] v.ty = "raw" ->
            IF CanBe(v, ty) THEN Give(m, Became(v, ty))
            ELSE Wrong(m, IF v.negative /\ ty \in {"text", "bool"} THEN "misused" ELSE "unfit")
      [] v.ty = "list" ->
            IF ty \notin C!Arrays \/ C!LengthOf(ty) \notin {0, Len(v.items)} THEN Wrong(m, "unfit")
            ELSE Then(CastAll(v.items, C!Repeat("int", Len(v.items)), m), LAMBDA held : Made(held, ty, held.vals))
      [] v.ty = "fill" ->
            IF ty \notin C!Arrays \/ Len(v.items) # (IF C!LengthOf(ty) = 0 THEN 2 ELSE 1) THEN Wrong(m, "unfit")
            ELSE IF C!LengthOf(ty) # 0
            THEN Then(Cast(v.items[1], "int", m), LAMBDA held : Made(held, ty, C!Repeat(held.val, C!LengthOf(ty))))
            ELSE Then(CastAll(v.items, <<"nat", "int">>, m), LAMBDA held :
                      Made(held, ty, C!Repeat(held.vals[2], NumberOf(held.vals[1]))))
      [] OTHER -> Wrong(m, "mismatch")
\* Where nothing says what type: a count is a `nat`, and nothing else raw will do.
Known(v, m) == IF v.ty = "raw" /\ v.counts THEN Cast(v, "nat", m) ELSE IF Untyped(v) THEN Wrong(m, "untyped") ELSE Give(m, v)

\* Two sides brought to one type, in `vals`.
Meet(l, r, m) ==
    IF ~Untyped(l) THEN CastAll(<<l, r>>, <<l.ty, l.ty>>, m)
    ELSE IF ~Untyped(r) THEN CastAll(<<l, r>>, <<r.ty, r.ty>>, m)
    ELSE IF l.ty = "raw" /\ r.ty = "raw" /\ (l.counts \/ r.counts) THEN CastAll(<<l, r>>, <<"nat", "nat">>, m)
    ELSE Wrong(m, "untyped")

RawSum(op, l, r, m) ==
    Give(m, [l EXCEPT !.texts = @ \cup r.texts, !.plain = FALSE, !.negative = @ \/ r.negative,
                      !.counts = @ \/ r.counts,
                      !.n = CASE op = "+" -> @ + r.n [] op = "-" -> @ - r.n [] OTHER -> (@ * r.n) \div 2])
Operate(op, l, r, m, p) ==
    IF l.ty = "raw" /\ r.ty = "raw"
    THEN IF l.texts \cup r.texts \subseteq DOMAIN Halves THEN RawSum(op, l, r, m) ELSE Wrong(m, "unfit")
    ELSE Then(Meet(l, r, m), LAMBDA both :
         IF ~C!IsNumber(both.vals[1].ty) THEN Wrong(both, "not a number")
         ELSE Settle(both, BinaryOp(C!Operators[op], both.vals[1], both.vals[2], p)))
Order(op, l, r, m) ==
    Then(Meet(l, r, m), LAMBDA both :
         IF op \in C!Orders /\ ~C!IsNumber(both.vals[1].ty) THEN Wrong(both, "unordered")
         ELSE Give(both, Bool(Holds(C!Operators[op], Compare(both.vals[1], both.vals[2])))))
Minus(v, m, p) ==
    IF v.ty = "raw" THEN Give(m, [v EXCEPT !.n = -@, !.plain = FALSE, !.negative = TRUE])
    ELSE IF v.ty = "nat" THEN Wrong(m, "negative")
    ELSE IF ~C!IsNumber(v.ty) THEN Wrong(m, "misused")
    ELSE Settle(m, Negate(v, p))

-----------------------------------------------------------------------------
(* Names *)

InSight(m, name) == {i \in DOMAIN m.scopes : name \in DOMAIN m.scopes[i]}
Nearest(m, name) == CHOOSE i \in InSight(m, name) : \A j \in InSight(m, name) : j <= i
VarOf(m, name) == m.scopes[Nearest(m, name)][name]
Usable(m, name) ==
    IF InSight(m, name) = {} THEN Wrong(m, "undeclared")
    ELSE IF VarOf(m, name).visibility = "restricted" THEN Wrong(m, "restricted") ELSE m
Changeable(m, name) == IF VarOf(m, name).mutable THEN m ELSE Wrong(m, "not mut")
Assign(m, name, v) == [m EXCEPT !.scopes[Nearest(m, name)][name].val = v]
Variable(v, ty, mutable, visibility) == [val |-> v, ty |-> ty, mutable |-> mutable, visibility |-> visibility]
Introduce(m, name, var) == [m EXCEPT !.scopes[Len(m.scopes)] = (name :> var) @@ @]
ValueOf(m, name) ==
    Then(Usable(m, name), LAMBDA found :
         IF VarOf(m, name).val = Unset THEN Stop(m, "R0009") ELSE Give(m, VarOf(m, name).val))
Function(p, name) == {i \in DOMAIN p.tree : p.tree[i].k = "fn" /\ p.tree[i].parts[3].text = name}

-----------------------------------------------------------------------------
(* Running *)

RECURSIVE Run(_, _, _, _)
Eval(e, m, p) == Run("eval", e, m, p)
EvalAll(es, m, p) == Run("all", es, m, p)
Block(stmts, m, p) == Run("block", stmts, m, p)
\* An expression where a type is wanted of it.
As(e, ty, m, p) == Then(Eval(e, m, p), LAMBDA held : Cast(held.val, ty, held))

RunAll(es, m, p) ==
    IF es = <<>> THEN [m EXCEPT !.vals = <<>>]
    ELSE Then(Eval(Head(es), m, p), LAMBDA first :
         Then(EvalAll(Tail(es), first, p), LAMBDA rest : [rest EXCEPT !.vals = <<first.val>> \o @]))

\* The place of an element: an index is read, and looked at, before the next.
RECURSIVE Place(_, _, _, _, _)
Place(v, at, flat, m, p) ==
    LET n == C!Indices(v.ty) - Len(at) + 1
        past == IF Dims(v.ty) = <<>> THEN Len(m.heap[v.bits]) ELSE Dims(v.ty)[n]
    IN  IF at = <<>> THEN Give(m, Whole("nat", flat))
        ELSE Then(As(Head(at), "nat", m, p), LAMBDA held :
             IF NumberOf(held.val) \notin 1 .. past THEN Stop(held, "R0015")
             ELSE Place(v, Tail(at), flat * past + NumberOf(held.val) - 1, held, p))
Element(v, at, m, p) ==
    IF v.ty \notin C!Arrays \/ Len(at) # C!Indices(v.ty) THEN Wrong(m, "not so indexed") ELSE Place(v, at, 0, m, p)

Call(name, args, m, p) ==
    LET f == p.tree[CHOOSE i \in Function(p, name) : TRUE]
        params == f.parts[4].parts
        returns == C!Meant(f.parts[2])
        scope(vals) == FoldLeft(LAMBDA so, i :
                (params[i].parts[2].text :> Variable(vals[i], vals[i].ty, FALSE, "local")) @@ so,
                <<>>, [i \in DOMAIN params |-> i])
    IN  IF Function(p, name) = {} \/ Len(args) # Len(params) THEN Wrong(m, "no such function")
        ELSE Then(Run("args", <<args, C!ParamsOf(f)>>, m, p), LAMBDA ready :
             IF m.depth >= DepthLimit THEN Stop(ready, "R0011")
             ELSE Then(Block(f.parts[5].parts,
                             [ready EXCEPT !.depth = @ + 1, !.scopes = <<scope(ready.vals)>>, !.loop = <<>>,
                                           !.inside = returns], p), LAMBDA done :
                  IF returns # "nothing" /\ done.flow # "returned" THEN Wrong(done, "no answer")
                  ELSE [done EXCEPT !.depth = m.depth, !.scopes = m.scopes, !.loop = m.loop,
                                    !.inside = m.inside, !.flow = "went",
                                    !.val = IF returns = "nothing" THEN Unset ELSE done.answer]))

RunEval(e, m, p) ==
    CASE e.k = "math" -> Eval(e.parts[1], m, p)
      [] e.k \in {"literal", "number"} ->
            Give(m, Raw(IF e.text \in DOMAIN Halves THEN Halves[e.text] ELSE 0, {e.text}))
      [] e.k = "typed" -> As(e.parts[2], C!Meant(e.parts[1]), m, p)
      [] e.k = "name" -> ValueOf(m, e.text)
      [] e.k = "neg" -> Then(Eval(e.parts[1], m, p), LAMBDA held : Minus(held.val, held, p))
      [] e.k \in C!Comparisons ->
            Then(EvalAll(e.parts, m, p), LAMBDA both : Order(e.k, both.vals[1], both.vals[2], both))
      [] e.k \in {"percent", "time", "/", "mod", "**"} -> Wrong(m, "not run here")
      [] e.k \in {"+", "-", "*"} ->
            Then(EvalAll(e.parts, m, p), LAMBDA both : Operate(e.k, both.vals[1], both.vals[2], both, p))
      [] e.k \in {"and", "or"} ->
            Then(As(e.parts[1], "bool", m, p), LAMBDA lhs :
                 IF Truth(lhs.val) = (e.k = "or") THEN lhs ELSE As(e.parts[2], "bool", lhs, p))
      [] e.k = "not" -> Then(As(e.parts[1], "bool", m, p), LAMBDA held : Give(held, Bool(~Truth(held.val))))
      [] e.k = "items" ->
            Then(EvalAll(e.parts[1].parts, m, p), LAMBDA held : Give(held, [ty |-> "list", items |-> held.vals]))
      [] e.k = "index" ->
            Then(Eval(e.parts[1], m, p), LAMBDA held :
            Then(Element(held.val, e.parts[2].parts, held, p), LAMBDA found :
                 Give(found, found.heap[held.val.bits][NumberOf(found.val) + 1])))
      [] e.k = "call" /\ e.text = "count" ->
            IF Len(e.parts[1].parts) # 1 THEN Wrong(m, "unfit")
            ELSE Then(Eval(e.parts[1].parts[1], m, p), LAMBDA held :
                 IF held.val.ty \notin C!Arrays THEN Wrong(held, "not an array")
                 ELSE Give(held, [Raw(2 * Len(held.heap[held.val.bits]), {}) EXCEPT !.plain = FALSE, !.counts = TRUE]))
      [] e.k = "call" /\ e.text = "filled" ->
            Then(EvalAll(e.parts[1].parts, m, p), LAMBDA held : Give(held, [ty |-> "fill", items |-> held.vals]))
      [] e.k = "call" /\ e.text \notin {"count", "filled"} ->
            Then(Call(e.text, e.parts[1].parts, m, p), LAMBDA held :
                 IF held.val = Unset THEN Wrong(held, "no value") ELSE held)

RunArgs(args, tys, m, p) ==
    IF args = <<>> THEN [m EXCEPT !.vals = <<>>]
    ELSE Then(As(Head(args), Head(tys), m, p), LAMBDA first :
         Then(Run("args", <<Tail(args), Tail(tys)>>, first, p), LAMBDA rest :
              [rest EXCEPT !.vals = <<first.val>> \o @]))

\* A block in a scope of its own.
Scoped(stmts, m, p) ==
    Then(Block(stmts, [m EXCEPT !.scopes = Append(@, <<>>)], p), LAMBDA done :
         [done EXCEPT !.scopes = SubSeq(@, 1, Len(@) - 1)])

\* One after another, each where the last left things.
RunBlock(stmts, m, p) ==
    IF stmts = <<>> THEN Went(m)
    ELSE Then(Run("stmt", Head(stmts), m, p), LAMBDA done :
              IF done.flow # "went" THEN done ELSE Block(Tail(stmts), done, p))

Bind(binding, value, m, p) ==
    LET ty == C!Meant(binding.parts[3])
        visibility == C!Said(binding.parts[1], "restricted")
    IN  IF p.required /\ binding.parts[1].k = "nothing" THEN Wrong(m, "unstated")
        ELSE IF binding.text \in DOMAIN m.scopes[Len(m.scopes)] THEN Wrong(m, "declared twice")
        ELSE Then(As(value, ty, m, p), LAMBDA held :
                  Introduce(held, binding.text, Variable(held.val, ty, binding.parts[2].k # "nothing", visibility)))

\* Into a variable, or into one element of the array it holds: the value first,
\* then the place.
Into(target, value, m, p) ==
    LET name == C!TargetName(target)
    IN  Then(Usable(m, name), LAMBDA found :
        Then(Changeable(found, name), LAMBDA may :
             IF target.k # "element"
             THEN Then(As(value, VarOf(m, name).ty, may, p), LAMBDA held : Assign(held, name, held.val))
             ELSE Then(ValueOf(may, name), LAMBDA array :
                  IF array.val.ty \notin C!Arrays THEN Wrong(array, "not an array")
                  ELSE Then(As(value, "int", array, p), LAMBDA held :
                       Then(Element(array.val, target.parts[2].parts, held, p), LAMBDA found2 :
                            [found2 EXCEPT !.heap[array.val.bits][NumberOf(found2.val) + 1] = held.val])))))

Handback(s, m, p) ==
    LET source == s.parts[1].text
        target == s.parts[2].text
    IN  Then(Usable(m, source), LAMBDA found :
        Then(Usable(found, target), LAMBDA both :
        Then(Changeable(both, target), LAMBDA may :
             IF VarOf(m, source).ty # VarOf(m, target).ty THEN Wrong(may, "mismatch")
             ELSE IF ~C!IsNumber(VarOf(m, target).ty) THEN Wrong(may, "misused")
             ELSE Then(ValueOf(may, target), LAMBDA l :
                  Then(ValueOf(may, source), LAMBDA r :
                  Then(Settle(r, BinaryOp("add", l.val, r.val, p)), LAMBDA sum : Assign(sum, target, sum.val)))))))

Show(item, m, p) ==
    IF item.k \in {"text", "escape"}
    THEN [m EXCEPT !.out = Append(@, [ty |-> "text", bits |-> Spelling[item.text]])]
    ELSE Then(Eval(item, m, p), LAMBDA held :
         Then(Known(held.val, held), LAMBDA known : [known EXCEPT !.out = Append(@, known.val)]))

\* The body of a loop once, its counter as it is now: in a scope of the body
\* when it is `temp`, in the one the loop stands in when it is `perm`.
Pass(body, name, lifetime, counter, m, p) ==
    LET var == Variable(counter, counter.ty, FALSE, "local")
        around == IF name # "" /\ lifetime = "perm" THEN Introduce(m, name, var) ELSE m
        in == [around EXCEPT !.scopes = Append(@, IF name # "" /\ lifetime = "temp" THEN (name :> var) ELSE <<>>),
                             !.loop = <<IF name = "" THEN <<>> ELSE <<counter>>>>]
    IN  Then(Block(body, in, p), LAMBDA done :
             [done EXCEPT !.scopes = SubSeq(@, 1, Len(@) - 1), !.loop = m.loop])
\* Whether it is over, and what it leaves then.
Over(done) == Halted(done) \/ done.flow # "went"
After(done) == IF ~Halted(done) /\ done.flow = "broke" THEN Went(done) ELSE done

Step(ty) == IF ty = "float" THEN 2 ELSE 1
Counter(ty, n) == IF ty = "float" THEN Float(n < 0, IF n < 0 THEN -n ELSE n) ELSE Whole(ty, n)
\* Until the counter is no longer below the bound, as `loop` counts in halves.
RECURSIVE Counting(_, _, _, _, _)
Counting(s, n, to, m, p) ==
    LET ty == C!Meant(s.parts[3])
        done == Pass(s.parts[7].parts, s.parts[4].text, s.parts[1].text, Counter(ty, n), m, p)
    IN  IF Over(done) THEN After(done) ELSE IF n >= to THEN done ELSE Counting(s, n + Step(ty), to, done, p)
Loop(s, m, p) ==
    LET ty == C!Meant(s.parts[3])
        unset == Variable(Unset, ty, FALSE, "local")
    IN  IF ~C!IsNumber(ty) THEN Wrong(m, "not a number")
        ELSE Then(RunArgs(<<s.parts[5], s.parts[6]>>, <<ty, ty>>, m, p), LAMBDA bounds :
             With(Went(IF s.parts[1].text = "perm" THEN Introduce(bounds, s.parts[4].text, unset) ELSE bounds),
                  LAMBDA ready :
                  IF NumberOf(bounds.vals[1]) > NumberOf(bounds.vals[2]) THEN ready
                  ELSE Counting(s, NumberOf(bounds.vals[1]), NumberOf(bounds.vals[2]), ready, p)))

RECURSIVE Asking(_, _, _, _)
Asking(s, counter, m, p) ==
    LET named == s.parts[1].k # "nothing"
        next(asked) == IF named THEN Settle(asked, BinaryOp("add", counter, OneOf(counter.ty), p)) ELSE asked
        once(m1) == Pass(s.parts[3].parts, IF named THEN s.parts[1].parts[3].text ELSE "",
                         IF named THEN s.parts[1].parts[1].text ELSE "", m1.val, m1, p)
    IN  Then(As(s.parts[2], "bool", m, p), LAMBDA asked :
             IF ~Truth(asked.val) THEN Went(asked)
             ELSE Then(next(asked), LAMBDA counted :
                  LET done == once(counted)
                  IN  IF Over(done) THEN After(done) ELSE Asking(s, counted.val, done, p)))
While(s, m, p) ==
    LET counter == s.parts[1]
        ty == C!Meant(counter.parts[2])
        nought == Variable(Zero(ty), ty, FALSE, "local")
    IN  IF counter.k = "nothing" THEN Asking(s, Unset, m, p)
        ELSE IF ~C!IsNumber(ty) THEN Wrong(m, "misused")
        ELSE IF counter.parts[1].text = "perm"
        THEN Asking(s, Zero(ty), Introduce(m, counter.parts[3].text, nought), p)
        ELSE Asking(s, Zero(ty), m, p)

Break(s, m, p) ==
    IF m.loop = <<>> THEN Wrong(m, "no loop")
    ELSE IF s.parts = <<>> THEN [m EXCEPT !.flow = "broke"]
    ELSE IF m.loop[1] = <<>> THEN Wrong(m, "no counter")
    ELSE Then(As(s.parts[1], m.loop[1][1].ty, m, p), LAMBDA held :
              IF Compare(m.loop[1][1], held.val) = "equal" THEN [held EXCEPT !.flow = "broke"] ELSE Went(held))
Return(s, m, p) ==
    IF m.inside = "" THEN Wrong(m, "nothing to leave")
    ELSE IF (m.inside = "nothing") # (s.parts = <<>>) THEN Wrong(m, "not that answer")
    ELSE IF s.parts = <<>> THEN [m EXCEPT !.flow = "returned"]
    ELSE Then(As(s.parts[1], m.inside, m, p), LAMBDA held : [held EXCEPT !.flow = "returned", !.answer = held.val])

\* The first arm whose question is answered yes, or the `else`.
RunArms(arms, m, p) ==
    IF arms = <<>> THEN Went(m)
    ELSE IF Head(arms).k # "arm" THEN Scoped(Head(arms).parts, m, p)
    ELSE Then(As(Head(arms).parts[1], "bool", m, p), LAMBDA asked :
              IF Truth(asked.val) THEN Scoped(Head(arms).parts[2].parts, asked, p)
              ELSE Run("arms", Tail(arms), asked, p))

RunStmt(s, m, p) ==
    CASE s.k = "var" -> Run("binds", <<s.parts[1].parts, s.parts[2].parts>>, m, p)
      [] s.k = "set" -> Run("intos", <<s.parts[1].parts, s.parts[2].parts>>, m, p)
      [] s.k = "handback" -> Went(Handback(s, m, p))
      [] s.k = "print" -> Run("items", s.parts[1].parts, m, p)
      [] s.k = "loop" -> Loop(s, m, p)
      [] s.k = "while" -> While(s, m, p)
      [] s.k = "break" -> Break(s, m, p)
      [] s.k = "if" -> Run("arms", s.parts[1].parts, m, p)
      [] s.k = "return" -> Return(s, m, p)
      [] s.k = "do" -> Went(Call(s.parts[1].text, s.parts[1].parts[1].parts, m, p))
      [] s.k \in {"fn", "defaults"} -> Went(m)

Pairwise(Do(_, _, _, _), what, pair, m, p) ==
    IF Len(pair[1]) # Len(pair[2]) THEN Wrong(m, "no partner")
    ELSE IF pair[1] = <<>> THEN Went(m)
    ELSE Then(Do(Head(pair[1]), Head(pair[2]), m, p), LAMBDA done :
              Run(what, <<Tail(pair[1]), Tail(pair[2])>>, done, p))
Run(what, x, m, p) ==
    CASE what = "eval" -> RunEval(x, m, p)
      [] what = "all" -> RunAll(x, m, p)
      [] what = "args" -> RunArgs(x[1], x[2], m, p)
      [] what = "block" -> RunBlock(x, m, p)
      [] what = "stmt" -> RunStmt(x, m, p)
      [] what = "arms" -> RunArms(x, m, p)
      [] what = "binds" -> Pairwise(Bind, what, x, m, p)
      [] what = "intos" -> Pairwise(Into, what, x, m, p)
      [] what = "items" ->
            IF x = <<>> THEN Went(m) ELSE Then(Show(Head(x), m, p), LAMBDA done : Run(what, Tail(x), done, p))

-----------------------------------------------------------------------------
(* A program, with what its defaults say of it, the last of each *)

Setting(tree, name, otherwise) ==
    LET lines == {i \in DOMAIN tree : tree[i].k = "defaults" /\ tree[i].parts[1].parts[1].text = name}
    IN  IF lines = {} THEN otherwise
        ELSE tree[CHOOSE i \in lines : \A j \in lines : j <= i].parts[1].parts[2].text
Settled(tree, start) ==
    [tree |-> tree, overflow |-> Setting(tree, "overflow", start.overflow),
     division |-> Setting(tree, "division", start.division),
     required |-> Setting(tree, "no-visibility-stated", IF start.required THEN "error" ELSE "restricted") = "error"]
Meaning(tree, start) ==
    Block(tree, [scopes |-> <<<<>>>>, loop |-> <<>>, inside |-> "", heap |-> <<>>, out |-> <<>>, depth |-> 0,
                 flow |-> "went", answer |-> Unset, val |-> Unset, vals |-> <<>>, fault |-> "", wrong |-> ""],
          Settled(tree, start))
=============================================================================
