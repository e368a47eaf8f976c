------------------------------- MODULE Loader -------------------------------
(* Loading a chunk (luarust-vm/serialize.rs, `read` and `check`, then         *)
(* typed.rs): the file is identified, read, held against what it contains,    *)
(* and made to demonstrate its types. The file is what `write` made of a      *)
(* chunk, or that with one accident on the way.                               *)
EXTENDS ChunkFile, Typed

CONSTANTS
    ByHand,     \* chunks written to files
    Compiled,   \* those the compiler made of checked programs
    Fragile,    \* those that may meet an accident on the way
    Damage      \* what a cell may turn into

ASSUME LoaderAssumption == Damage \subseteq 0 .. 255

VARIABLES
    origin,   \* where the chunk came from: "hand", "compiler" or "fragile"
    sent,     \* the chunk that was written
    embed,    \* whether its text went with it
    mishap,   \* what became of it on the way: None, or one of Mishaps
    file,     \* the cells that arrived
    cursor,   \* how far they have been read
    stage     \* "write", "travel", "identify", "contents", "counts", "bodies" or "types"

vars == <<origin, sent, embed, mishap, file, cursor, stage, typedVars>>

Text == <<7, Newline, 7, 7, Newline>>

\* One cell changed, or a file that stops early: at which cell, and how.
Short == 256
Mishaps(cells) ==
    {[at |-> at, cell |-> cell] : at \in DOMAIN cells, cell \in Damage \cup {Short}}
None == [at |-> 0, cell |-> 0]
Arrived(cells, event) ==
    CASE event = None -> cells
      [] event.cell = Short -> SubSeq(cells, 1, event.at - 1)
      [] OTHER -> [cells EXCEPT ![event.at] = event.cell]

Init ==
    /\ \/ origin = "hand" /\ sent \in ByHand /\ embed = FALSE
       \/ origin = "compiler" /\ sent \in Compiled /\ embed = FALSE
       \/ origin = "fragile" /\ sent \in Fragile /\ embed \in BOOLEAN
    /\ mishap = None
    /\ file = <<>>
    /\ cursor = Cursor(<<>>)
    /\ stage = "write"
    /\ chunk = <<>> /\ body = 0 /\ atDoor = <<>> /\ asking = {}
    /\ here = 0 /\ state = <<>> /\ verdict = "reading"

Reads(at) == verdict = "reading" /\ stage = at
\* On to the next stage, or refused where it broke.
Onward(broken, next) ==
    IF broken THEN verdict' = "refused" /\ stage' = stage
    ELSE verdict' = verdict /\ stage' = next

WriteFile ==
    /\ Reads("write")
    /\ file' = Write(sent, Text, embed)
    /\ stage' = "travel"
    /\ UNCHANGED <<origin, sent, embed, mishap, cursor, typedVars>>

Travel ==
    /\ Reads("travel")
    /\ mishap' \in {None} \cup (IF origin = "fragile" THEN Mishaps(file) ELSE {})
    /\ file' = Arrived(file, mishap')
    /\ mishap' = None \/ file' # file
    /\ stage' = "identify"
    /\ UNCHANGED <<origin, sent, embed, cursor, typedVars>>

Identify ==
    /\ Reads("identify")
    /\ cursor' = Identified(file)
    /\ Onward(cursor'.broken # "no", "contents")
    /\ UNCHANGED <<origin, sent, embed, mishap, file, chunk, body, atDoor, asking, here, state>>

ReadContents ==
    /\ Reads("contents")
    /\ LET read == Contents(cursor)
       IN  /\ Onward(read.broken # "no", "counts")
           /\ chunk' = IF read.broken # "no" THEN chunk ELSE read.val
    /\ cursor' = Cursor(<<>>)
    /\ file' = <<>>
    /\ UNCHANGED <<origin, sent, embed, mishap, body, atDoor, asking, here, state>>

CheckCounts ==
    /\ Reads("counts")
    /\ Onward(\E b \in 0 .. Len(chunk.funcs) : RegistersOf(chunk, b) > RegMax + 1, "bodies")
    /\ UNCHANGED <<origin, sent, embed, mishap, file, cursor, chunk, body, atDoor, asking, here, state>>

CheckBody ==
    /\ Reads("bodies") /\ body <= Len(chunk.funcs)
    /\ Onward(~CheckedBody(body), "bodies")
    /\ body' = body + 1
    /\ UNCHANGED <<origin, sent, embed, mishap, file, cursor, chunk, atDoor, asking, here, state>>

\* The indices are good: now the types, from the top level on.
BeginTyping ==
    /\ Reads("bodies") /\ body > Len(chunk.funcs)
    /\ stage' = "types"
    /\ verdict' = "open"
    /\ body' = 0
    /\ atDoor' = Doorways(0)
    /\ asking' = {1}
    /\ UNCHANGED <<origin, sent, embed, mishap, file, cursor, chunk, here, state>>

\* The dataflow of typed.rs over what was read.
Types == Typing /\ UNCHANGED <<origin, sent, embed, mishap, file, cursor, stage>>

Next ==
    \/ WriteFile \/ Travel \/ Identify \/ ReadContents \/ CheckCounts \/ CheckBody \/ BeginTyping
    \/ Types

Spec == Init /\ [][Next]_vars
\* The dataflow is a loop: while it can take a step, it does.
FairSpec == Spec /\ WF_vars(Types)

-----------------------------------------------------------------------------
(* Properties *)

\* A file that arrives as it was written is read as the chunk that was
\* written, whichever way its source travels; and what is typed has passed
\* all the checks the dataflow counts on.
ReadsBack ==
    /\ verdict = "open" => WellFormed
    /\ verdict = "open" /\ mishap = None =>
        chunk = [overflow |-> sent.overflow, division |-> sent.division,
                 registers |-> sent.registers, consts |-> sent.consts,
                 texts |-> sent.texts, code |-> sent.code, spans |-> sent.spans,
                 funcs |-> sent.funcs,
                 source |-> IF embed THEN [k |-> "text", text |-> Text]
                            ELSE [k |-> "lines", starts |-> LineStarts(Text), len |-> Len(Text)]]

\* A file with one byte changed, or that stops early, is refused before its
\* instructions are looked at.
DamageRefused == stage \in {"counts", "bodies", "types"} => mishap = None

\* What the compiler makes of a checked program is loaded.
CompiledLoads == verdict = "refused" /\ mishap = None => origin # "compiler"

\* The dataflow ends: a state only ever loses knowledge, and doors are asked
\* only when theirs did.
LoadEnds == stage = "types" ~> verdict \in {"refused", "loaded"}
=============================================================================
