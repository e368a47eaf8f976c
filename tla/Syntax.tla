------------------------------- MODULE Syntax -------------------------------
(* A source read to the end: the lexer a token at a time, then, if it had    *)
(* nothing to complain of, the parser a statement at a time (luarust-cli,    *)
(* `check`). What is made of it is the tree, when nobody complained.         *)
EXTENDS Lexer, FiniteSets

CONSTANTS Types, DimsOf, MaxRank, MaxDim,
          Sources,    \* texts, as sequences of characters
          Streams     \* and texts that come as their tokens

P == INSTANCE Parser

VARIABLES stage, lexer, c
vars == <<stage, lexer, c>>

\* What the parser sees: the tokens with the text of each in one piece.
Spelled(text) == FoldLeft(LAMBDA a, b : a \o b, "", text)
Handed(tokens) ==
    Append([i \in DOMAIN tokens |-> [kind |-> tokens[i].kind, text |-> Spelled(tokens[i].text)]],
           [kind |-> "end", text |-> ""])
Cursor(tokens) ==
    [tokens |-> tokens, at |-> 1, complaints |-> <<>>, failed |-> FALSE, out |-> <<P!Nothing>>]

Init ==
    \/ /\ stage = "lexing"
       /\ \E text \in Sources : lexer = Fresh(text)
       /\ c = Cursor(<<[kind |-> "end", text |-> ""]>>)
    \/ /\ stage = "parsing"
       /\ lexer = Fresh(<<>>)
       /\ \E tokens \in Streams : c = Cursor(tokens)

NextToken ==
    /\ stage = "lexing" /\ ~Lexed(lexer)
    /\ lexer' = Turn(lexer)
    /\ UNCHANGED <<stage, c>>

HandOver ==
    /\ stage = "lexing" /\ Lexed(lexer)
    /\ stage' = IF lexer.complaints = <<>> THEN "parsing" ELSE "refused"
    /\ c' = Cursor(Handed(lexer.tokens))
    /\ UNCHANGED lexer

\* `program`: a statement joins the tree, or is recovered from without it.
Reading == stage = "parsing" /\ P!Kind(c) # "end"
Accept ==
    /\ Reading
    /\ LET read == P!Statement(c) IN ~read.failed /\ c' = P!Collect(read)
    /\ UNCHANGED <<stage, lexer>>
PassOver ==
    /\ Reading
    /\ LET read == P!Statement(c)
       IN  read.failed /\ c' = [P!Recover(read) EXCEPT !.failed = FALSE, !.out = c.out]
    /\ UNCHANGED <<stage, lexer>>

Close ==
    /\ stage = "parsing" /\ P!Kind(c) = "end"
    /\ stage' = IF c.complaints = <<>> THEN "read" ELSE "refused"
    /\ UNCHANGED <<lexer, c>>

Ended == stage \in {"read", "refused"} /\ UNCHANGED vars

Next == NextToken \/ HandOver \/ Accept \/ PassOver \/ Close \/ Ended
Spec == Init /\ [][Next]_vars

Tree == c.out[1].parts
=============================================================================
