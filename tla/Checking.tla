------------------------------ MODULE Checking ------------------------------
(* A program checked a pass at a time (luarust-check, `check_with`): the      *)
(* defaults wherever they stand, every header of a function, every body, then *)
(* the statements in order. A pass steps from one statement of its own kind   *)
(* to the next; a checker that has panicked stops where it is.                *)
EXTENDS Checker

CONSTANTS Programs, Starts    \* the trees, and what a project may have settled

VARIABLES program, start, stage, at, k
vars == <<program, start, stage, at, k>>

Init ==
    /\ \E i \in DOMAIN Programs : program = Programs[i]
    /\ start \in Starts
    /\ stage = "defaults" /\ at = 0 /\ k = Fresh(start)

Panicked == \E i \in DOMAIN k.errors : k.errors[i] = "panicked"
Left(kinds) == {i \in DOMAIN program : i > at /\ program[i].k \in kinds}
First(places) == CHOOSE i \in places : \A j \in places : i <= j

Pass(name, kinds, Step(_, _)) ==
    /\ stage = name /\ ~Panicked /\ Left(kinds) # {}
    /\ at' = First(Left(kinds))
    /\ k' = Step(program[at'], k)
    /\ UNCHANGED <<program, start, stage>>
TurnTo(name, kinds, next) ==
    /\ stage = name /\ ~Panicked /\ Left(kinds) = {}
    /\ stage' = next /\ at' = 0
    /\ k' = [k EXCEPT !.ok = TRUE, !.got = <<>>]
    /\ UNCHANGED <<program, start>>

Statements == {"var", "set", "handback", "print", "loop", "while", "if", "break", "return", "do"}
\* What a statement became goes after what those before it did.
AfterThose(s, so) == LET done == CheckStmt(s, so) IN [done EXCEPT !.ok = TRUE, !.got = so.got \o @]

ReadDefault == Pass("defaults", {"defaults"}, Default)
ReadHeader == Pass("headers", {"fn"}, Signature)
ReadBody == Pass("bodies", {"fn"}, FuncBody)
ReadStatement == Pass("statements", Statements, AfterThose)
DefaultsRead == TurnTo("defaults", {"defaults"}, "headers")
HeadersRead == TurnTo("headers", {"fn"}, "bodies")
BodiesRead == TurnTo("bodies", {"fn"}, "statements")
Finish ==
    /\ stage = "statements" /\ ~Panicked /\ Left(Statements) = {}
    /\ stage' = "checked"
    /\ UNCHANGED <<program, start, at, k>>
Ended == (stage = "checked" \/ Panicked) /\ UNCHANGED vars

Next ==
    \/ ReadDefault \/ ReadHeader \/ ReadBody \/ ReadStatement
    \/ DefaultsRead \/ HeadersRead \/ BodiesRead \/ Finish \/ Ended
Spec == Init /\ [][Next]_vars

Accepted == stage = "checked" /\ k.errors = <<>>
=============================================================================
