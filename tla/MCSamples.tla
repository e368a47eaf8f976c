----------------------------- MODULE MCSamples -----------------------------
(* Small checked programs for Machine: every expression of two levels, and   *)
(* statements put together in pairs. Slots: 0 x, 1 y, 2 a (an array that     *)
(* grows), 3 b (a bool), 4 and 5 loop counters, 6 g (a grid), 7 f (a float). *)
EXTENDS Compile, TreeWalk, Range

MCGrid == <<2, 2>>

N(n) == [k |-> "const", value |-> Whole("int", n)]
F(negative, halves) == [k |-> "const", value |-> Float(negative, halves)]
V(slot, ty) == [k |-> "load", slot |-> slot, ty |-> ty]
X == V(0, "int")
Y == V(1, "int")
A == V(2, "ints")
B == V(3, "bool")
I == V(4, "int")
J == V(5, "int")
G == V(6, "grid")
Fl == V(7, "float")
Bin(op, l, r) == [k |-> "binary", op |-> op, ty |-> TypeOf(l), lhs |-> l, rhs |-> r]
Cmp(op, l, r) == [k |-> "compare", op |-> op, lhs |-> l, rhs |-> r]
Logic(op, l, r) == [k |-> "logic", op |-> op, lhs |-> l, rhs |-> r]
Unary(k, ty, e) == [k |-> k, ty |-> ty, operand |-> e]
Ask(func, ty, args) == [k |-> "call", func |-> func, ty |-> ty, args |-> args]
Elem(array, at) == [k |-> "at", ty |-> "int", array |-> array, at |-> at]
Count_(array) == [k |-> "count", ty |-> "int", array |-> array]
Array(ty, items) == [k |-> "newarray", ty |-> ty, items |-> items]
Of(length, value) == [k |-> "filled", ty |-> "ints", length |-> length, value |-> value]

Set(slot, e) == [k |-> "store", slot |-> slot, value |-> e]
Show(e) == [k |-> "print", items |-> <<e>>]
For(slot, from, to, body) ==
    [k |-> "loop", slot |-> slot, ty |-> TypeOf(from), from |-> from, to |-> to, body |-> body]
When(c, body, otherwise) ==
    [k |-> "if", arms |-> <<[condition |-> c, body |-> body]>>, otherwise |-> otherwise]
As(counter, c, body) == [k |-> "while", counter |-> counter, condition |-> c, body |-> body]
Leave == [k |-> "break"]
Put_(array, at, e) == [k |-> "storeat", array |-> array, at |-> at, value |-> e]
Do(func, args) == [k |-> "call", func |-> func, args |-> args]
Back(value) == [k |-> "return", value |-> value]

\* echo(n) prints n and answers it; down(n) calls itself n times; find(a, n)
\* leaves from inside a loop; yes() prints and answers true.
Functions_ == <<
    [slots |-> 1, params |-> <<"int">>, returns |-> "int", body |-> <<Show(X), Back(<<X>>)>>],
    [slots |-> 1, params |-> <<"int">>, returns |-> "int",
     body |-> <<When(Cmp("lt", X, N(1)), <<Back(<<N(0)>>)>>, <<>>),
                Back(<<Bin("add", X, Ask(2, "int", <<Bin("sub", X, N(1))>>))>>)>>],
    [slots |-> 5, params |-> <<"ints", "int">>, returns |-> "nothing",
     body |-> <<For(4, N(1), Count_(V(0, "ints")),
                    <<When(Cmp("eq", Elem(V(0, "ints"), <<I>>), Y),
                           <<Put_(V(0, "ints"), <<I>>, N(0)), Back(<<>>)>>, <<>>)>>),
                Show(Y)>>],
    [slots |-> 0, params |-> <<>>, returns |-> "bool",
     body |-> <<Show(N(3)), Back(<<Cmp("eq", N(1), N(1))>>)>>]>>
Echo(e) == Ask(1, "int", <<e>>)
Yes == Ask(4, "bool", <<>>)

Prelude == <<Set(0, N(2)), Set(1, N(1)), Set(2, Array("ints", <<N(2), N(3)>>))>>
ProgramFor(overflow, division, stmts) ==
    [slots |-> 8, overflow |-> overflow, division |-> division, funcs |-> Functions_,
     stmts |-> Prelude \o stmts, proven |-> {}]
Program(overflow, stmts) == ProgramFor(overflow, "floored", stmts)

-----------------------------------------------------------------------------
(* Expressions. Lists are sequences, so that a program has a number. *)

\* Pair of every member of s with every member of t.
Each(Pair(_, _), s, t) ==
    [n \in 1 .. Len(s) * Len(t) |-> Pair(s[((n - 1) \div Len(t)) + 1], t[((n - 1) % Len(t)) + 1])]
Both == <<"wrap", "trap">>

Ints1 ==
    <<X, Bin("add", X, N(2)), Bin("add", X, Y), Bin("mul", X, Bin("sub", Y, X)),
      Bin("div", X, N(0)), Unary("neg", "int", X), Count_(A), Echo(X), Echo(Y),
      Elem(A, <<X>>), Elem(A, <<N(3)>>)>>
Ints2 ==
    Each(LAMBDA l, r : Bin("sub", l, r), Ints1, Ints1)
    \o Each(LAMBDA l, r : Elem(Array("ints", <<l, r>>), <<Y>>), Ints1, <<X, Echo(Y)>>)
    \o Each(LAMBDA l, i : Elem(Of(l, Echo(X)), <<i>>), Ints1, <<X, Echo(Y)>>)
    \o Each(LAMBDA op, n : Bin(op, X, N(n)), <<"div", "mod">>, <<0, -1, -2>>)
    \o Each(LAMBDA e, n : Elem(A, <<Bin("add", e, N(n))>>), Ints1, <<0>>)
    \o <<Count_(Of(N(0), X)), Count_(Of(N(-1), X)), Ask(2, "int", <<N(2)>>),
         Ask(2, "int", <<N(3)>>), Ask(2, "int", <<Echo(X)>>)>>

Bools1 ==
    <<B, Unary("not", "bool", B), Yes, Cmp("lt", X, Echo(Y)), Cmp("eq", Elem(A, <<N(3)>>), X)>>
Bools2 ==
    Each(LAMBDA l, r : Logic("and", l, r), Bools1, Bools1)
    \o Each(LAMBDA l, r : Logic("or", l, r), Bools1, Bools1)
Bools3 == Bools2 \o Each(LAMBDA op, e : Logic(op, B, e), <<"and", "or">>, Bools2)

Expressions ==
    Each(LAMBDA e, o : Program(o, <<Set(0, e), Show(X)>>), Ints2, Both)
    \o Each(LAMBDA e, op : Program("wrap", <<Set(3, Cmp(op, X, Y)), Set(3, e), Show(B)>>),
            Bools3, <<"lt", "ge">>)
    \o Each(LAMBDA i, j : Program("wrap", <<Set(6, Array("grid", <<X, Y, N(3), Echo(X)>>)),
                                            Put_(G, <<i, j>>, Y), Show(Elem(G, <<j, i>>))>>),
            <<Y, X, N(3)>>, <<N(2), Y, N(0)>>)
    \o Each(LAMBDA l, r : Program("wrap", <<Set(2, Array("ints", <<l, r>>)), Show(Elem(A, <<Y>>)),
                                            Show(Elem(A, <<X>>))>>),
            Ints1, Ints1)
    \o Each(LAMBDA l, r : Program("wrap", <<Put_(A, <<l>>, r), Do(3, <<A, l>>), Show(Elem(A, <<Y>>))>>),
            Ints1, <<X, N(3)>>)
    \o Each(LAMBDA n, h : Program("wrap", <<Set(7, F(n, h)), Show(Fl), Show(F(~n, h)),
                                            Show(Bin("add", Fl, Unary("neg", "float", F(n, 0))))>>),
            <<TRUE, FALSE>>, <<0, 3>>)

-----------------------------------------------------------------------------
(* Statements *)

\* What the body of a loop counting in slot 4 does, in pairs.
Acts ==
    <<Show(I), Set(1, Bin("add", Y, I)), Leave, Put_(A, <<I>>, Echo(Y)), Do(1, <<I>>), Do(3, <<A, I>>),
      When(Cmp("eq", I, N(2)), <<Leave>>, <<>>),
      When(Cmp("eq", I, N(2)), <<Show(Elem(A, <<I>>))>>, <<Show(Y)>>),
      [k |-> "if", arms |-> <<[condition |-> Cmp("lt", I, X), body |-> <<>>],
                              [condition |-> Yes, body |-> <<Set(1, N(0)), Show(Elem(A, <<X>>))>>]>>,
       otherwise |-> <<Leave>>]>>
Inner ==
    Each(LAMBDA c, to : For(5, c, to, <<Show(J), When(Cmp("gt", J, Y), <<Leave>>, <<>>)>>),
         <<N(1), Y, I>>, <<Echo(X), Bin("add", I, N(1))>>)
    \o <<As(<<5>>, Cmp("lt", J, I), <<Show(J)>>), As(<<5>>, Cmp("lt", J, Count_(A)), <<>>)>>

Statements ==
    Each(LAMBDA s, t : Program("trap", <<For(4, Y, Count_(A), <<s, t>>), Show(I), Show(Y)>>),
         Acts \o Inner, Acts)
    \o Each(LAMBDA from, to : Program("wrap", <<For(4, from, to, <<Show(I)>>)>>),
            <<N(2), Echo(X), Y>>, <<N(3), Bin("add", X, Y), Y>>)
    \o Each(LAMBDA c, s : Program("trap",
                <<As(<<4>>, c, <<s, When(Cmp("ge", I, X), <<Leave>>, <<>>)>>), Show(I)>>),
            <<Logic("and", Cmp("le", I, X), Yes), Cmp("lt", Elem(A, <<Y>>), N(3))>>, Acts)
    \o Each(LAMBDA o, to : Program(o, <<As(<<4>>, Cmp("ge", I, N(0)), <<>>), Show(I)>>), Both, <<0>>)
    \o <<Program("wrap", <<For(7, F(FALSE, 1), F(FALSE, 5), <<Show(Fl)>>)>>)>>

-----------------------------------------------------------------------------
(* Divisions *)

\* A division of its own: two alike are told apart by their line.
Divide(line, op, l, r) ==
    [k |-> "binary", op |-> op, ty |-> TypeOf(l), lhs |-> l, rhs |-> r, line |-> line]

\* What the body of a loop does to x and y, in pairs; divisions from a line on.
Moves(line) ==
    <<Set(0, Bin("add", X, N(1))), Set(0, Bin("sub", X, Y)), Set(1, X), Set(0, Bin("mul", I, X)),
      Set(0, Divide(line + 1, "mod", X, N(3))), Set(0, Elem(A, <<Y>>)),
      When(Cmp("eq", I, N(2)), <<Set(0, N(-1)), Leave, Set(1, N(0))>>, <<Set(0, N(1))>>),
      When(Cmp("lt", Y, X), <<>>, <<Set(0, Unary("neg", "int", X))>>),
      For(5, I, N(2), <<Set(0, Bin("sub", X, J)), Show(Divide(line + 2, "div", N(3), J))>>),
      As(<<5>>, Cmp("lt", J, Y), <<Set(0, Bin("sub", Divide(line, "div", X, N(2)), N(1)))>>)>>

\* A loop that moves x and y about and divides them, inside it and after it.
Dividing(overflow, division, x, s, t) ==
    ProgramFor(overflow, division,
        <<Set(0, N(x)),
          For(4, N(1), N(3), <<s, t, Show(Divide(0, "mod", X, Count_(A)))>>),
          Show(Divide(1, "div", X, N(2))), Show(Divide(2, "mod", Y, N(3)))>>)

Divisions ==
    Each(LAMBDA s, t : Dividing("trap", "floored", 0, s, t), Moves(3), Moves(6))
    \o Each(LAMBDA s, t : Dividing("wrap", "truncated", 2, s, t), Moves(3), Moves(6))
    \o Each(LAMBDA s, t : Dividing("wrap", "euclidean", -3, s, t), Moves(3), Moves(6))
    \o Each(LAMBDA o, d : ProgramFor(o, d,
                <<As(<<>>, Cmp("ne", Divide(0, "div", X, N(2)), N(0)),
                     <<Set(0, Bin("sub", X, N(3)))>>),
                  Set(0, N(-3)), For(5, N(2), N(1), <<Set(0, N(2))>>),
                  Show(Divide(1, "mod", X, N(3)))>>),
            Both, <<"floored", "truncated", "euclidean">>)

MCPrograms == Expressions \o Statements \o Divisions
============================================================================
