----------------------------- MODULE MCCompile -----------------------------
(* Machine on the programs of MCSamples, compiled and walked. *)
EXTENDS MCSamples, Machine, Blocks

\* The same programs through both implementations.
Coded(programs) == [p \in DOMAIN programs |-> CompileProgram(Flag(programs[p]))]
WithBlocks(c) ==
    [native |-> Emitted(c), code |-> c.code, registers |-> c.registers, consts |-> c.consts,
     funcs |-> c.funcs, overflow |-> c.overflow, division |-> c.division, proven |-> c.proven]
Compiled(codes) == [p \in DOMAIN codes |-> WithBlocks(codes[p])]
Walked(programs) ==
    [p \in DOMAIN programs |->
        LET walked == Walk(programs[p]) IN [out |-> walked.out, fault |-> walked.fault]]

\* What is known of the registers of a chunk: the dataflow of module Typed, an
\* instruction at a time, with the copy in front of an index forgotten past it.
Left(c, b, at, held) ==
    LET code == CodeOf(c, b)
        with == After(c, code[at], held)
    IN  IF at > 1 /\ IsStaged(code, at - 1) /\ code[at - 1].dst # code[at].dst
        THEN [with EXCEPT ![code[at - 1].dst] = "clash"] ELSE with
RECURSIVE Flowing(_, _, _, _)
Flowing(c, b, known, asking) ==
    IF asking = {} THEN known
    ELSE LET at == CHOOSE p \in asking : \A q \in asking : p <= q
             with == Left(c, b, at, known[at])
             met == [p \in Ways(c, b, at) |->
                        IF p \notin DOMAIN known THEN with
                        ELSE [r \in DOMAIN with |-> Join(known[p][r], with[r])]]
             news == {p \in DOMAIN met : p \notin DOMAIN known \/ met[p] # known[p]}
         IN  Flowing(c, b, met @@ known, (asking \ {at}) \cup news)
KnownOf(c) == [b \in 0 .. Len(c.funcs) |-> Flowing(c, b, 1 :> Entry(c, b), {1})]
KnownIn(codes) == [p \in DOMAIN codes |-> KnownOf(codes[p])]

\* A definition that only names another is evaluated by TLC once.
SampleCodes == Coded(MCPrograms)
SampleChunks == Compiled(SampleCodes)
SampleAnswers == Walked(MCPrograms)
SampleKnown == KnownIn(SampleCodes)
MCChunks == SampleChunks
MCExpected == SampleAnswers
MCKnown == SampleKnown

-----------------------------------------------------------------------------
(* A program the machine and the tree-walker do not agree about, kept out of *)
(* the lists above: its far bound is a variable the body changes.            *)

LiveBound == <<Program("wrap", <<For(4, N(1), X, <<Show(I), Set(0, Y)>>)>>)>>
MCLiveBoundChunks == Compiled(Coded(LiveBound))
MCLiveBoundExpected == Walked(LiveBound)
MCLiveBoundKnown == KnownIn(Coded(LiveBound))
============================================================================
