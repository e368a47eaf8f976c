------------------------------ MODULE TypedProofs ------------------------------
(***************************************************************************)
(* Proofs about Typed: the dataflow refuses a body exactly when some way   *)
(* through it reads a register that does not hold what the instruction     *)
(* says.  For any chunk whose indices have been checked, and any number    *)
(* of bodies, instructions and registers.                                  *)
(***************************************************************************)
EXTENDS Typed, NatFacts, FiniteSetTheorems

-----------------------------------------------------------------------------
(* A body, what may be known in it, and the ways through it. *)

Bodies == 0 .. Len(chunk.funcs)
Places(b) == DOMAIN CodeOf(chunk, b)
Op(b, at) == CodeOf(chunk, b)[at]
Registers(b) == DOMAIN Entry(chunk, b)

\* What may be known of a register, and what it may really hold.
States(b) == [Registers(b) -> Kinds \cup {"clash"}]
Fillings(b) == [Registers(b) -> Kinds]
Configurations(b) == [at : Places(b), held : Fillings(b)]

\* What an instruction leaves in a register that held k before it.
Hits(op, r) == \E write \in Writes(chunk, op) : write[1] = r
Chosen(S) == CHOOSE x \in S : TRUE
Written(op) == Chosen(Writes(chunk, op))[2]
Becomes(b, op, r, k) == IF r \in Registers(b) /\ Hits(op, r) THEN Written(op) ELSE k

\* What the proofs need of a body that was checked.
Good(b) ==
    /\ Len(CodeOf(chunk, b)) \in Nat \ {0} /\ Places(b) = 1 .. Len(CodeOf(chunk, b)) /\ 1 \in Places(b)
    /\ Entry(chunk, b) \in Fillings(b)
    /\ \A at \in Places(b) :
        /\ Ways(chunk, b, at) \subseteq Places(b)
        /\ \A claim \in Claims(chunk, Op(b, at)) : claim[2] \in Kinds
        /\ \A write \in Writes(chunk, Op(b, at)) : write[2] \in Kinds

\* A sequence of its own elements is a sequence.
LEMMA ListHas ==
    ASSUME NEW s, IsList(s)
    PROVE  Len(s) \in Nat /\ DOMAIN s = 1 .. Len(s)
<1> DEFINE S == {s[i] : i \in DOMAIN s}
<1>1. s \in Seq(S)
  BY DEF IsList
<1> HIDE DEF S
<1> QED  BY <1>1

\* Bodies that were checked are good.
LEMMA BodyGood ==
    ASSUME WellFormed, NEW b \in Bodies
    PROVE  Good(b)
<1> DEFINE n == Len(CodeOf(chunk, b))
<1>1. IsList(CodeOf(chunk, b)) /\ CheckedBody(b)
  BY DEF WellFormed, Bodies
<1>2. n \in Nat /\ Places(b) = 1 .. n
  BY <1>1, ListHas DEF Places
<1>3. n # 0 /\ Op(b, n).k \in Stops
  <2>1. CodeOf(chunk, b) # <<>> /\ Op(b, n).k \in {"halt", "return", "returnnothing"}
    BY <1>1 DEF CheckedBody, EndsRightly, Op
  <2>2. CodeOf(chunk, b) \in Seq({CodeOf(chunk, b)[i] : i \in DOMAIN CodeOf(chunk, b)})
    BY <1>1 DEF IsList
  <2>3. n # 0
    BY <2>1, <2>2
  <2> QED  BY <2>1, <2>3 DEF Stops
<1> HIDE DEF n
<1>4. Entry(chunk, b) \in Fillings(b)
  <2>1. \A r \in DOMAIN Entry(chunk, b) : Entry(chunk, b)[r] \in Kinds
    BY DEF WellFormed, Bodies
  <2>2. Entry(chunk, b) = [r \in DOMAIN Entry(chunk, b) |-> Entry(chunk, b)[r]]
    BY DEF Entry
  <2> QED  BY <2>1, <2>2 DEF Fillings, Registers
<1>5. ASSUME NEW at \in Places(b)
      PROVE  /\ Ways(chunk, b, at) \subseteq Places(b)
             /\ \A claim \in Claims(chunk, Op(b, at)) : claim[2] \in Kinds
             /\ \A write \in Writes(chunk, Op(b, at)) : write[2] \in Kinds
  <2>1. Op(b, at).k \in Jumps => Op(b, at).target \in Places(b)
    BY <1>1, <1>5 DEF CheckedBody, Placed, Op, Places
  <2>2. at = n \/ at + 1 \in Places(b)
    BY <1>2, <1>5
  <2>3. Ways(chunk, b, at) \subseteq Places(b)
    BY <1>3, <2>1, <2>2 DEF Ways, Op
  <2>4. \A part \in Claims(chunk, Op(b, at)) \cup Writes(chunk, Op(b, at)) : part[2] \in Kinds
    BY <1>5 DEF WellFormed, Bodies, Op, Places
  <2> QED  BY <2>3, <2>4
<1> QED  BY <1>2, <1>3, <1>4, <1>5 DEF Good, n

\* An instruction writes one register at most.
LEMMA WritesOnce ==
    ASSUME NEW c, NEW op, NEW one \in Writes(c, op), NEW other \in Writes(c, op)
    PROVE  one = other
  BY DEF Writes

\* An instruction changes the registers it writes.
LEMMA AfterIs ==
    ASSUME NEW b, Good(b), NEW at \in Places(b), NEW K, Kinds \subseteq K,
           NEW held \in [Registers(b) -> K]
    PROVE  /\ After(chunk, Op(b, at), held) \in [Registers(b) -> K]
           /\ \A r \in Registers(b) :
                After(chunk, Op(b, at), held)[r] = Becomes(b, Op(b, at), r, held[r])
<1> DEFINE op == Op(b, at)
<1>1. After(chunk, op, held) = [r \in Registers(b) |-> IF Hits(op, r) THEN Written(op) ELSE held[r]]
  <2> DEFINE W == Writes(chunk, op)
             write == CHOOSE w \in W : TRUE
  <2>1. CASE W = {}
    <3>1. After(chunk, op, held) = held /\ \A r : ~Hits(op, r)
      BY <2>1 DEF After, Hits
    <3> QED  BY <3>1
  <2>2. CASE W # {}
    <3>1. After(chunk, op, held) = [held EXCEPT ![write[1]] = write[2]] /\ write[2] = Written(op)
      BY <2>2 DEF After, Written, Chosen
    <3>2. W = {write}
      BY <2>2, WritesOnce
    <3>3. \A r : Hits(op, r) <=> r = write[1]
      BY <3>2 DEF Hits
    <3> HIDE DEF write, W
    <3> QED  BY <3>1, <3>3
  <2> QED  BY <2>1, <2>2
<1>2. \A write \in Writes(chunk, op) : write[2] \in Kinds
  BY DEF Good
<1> HIDE DEF op
<1>3. ASSUME NEW r, Hits(op, r)  PROVE Written(op) \in K
  BY <1>2, <1>3 DEF Hits, Written, Chosen
<1>4. \A r \in Registers(b) : After(chunk, op, held)[r] = Becomes(b, op, r, held[r])
  BY <1>1 DEF Becomes
<1>5. After(chunk, op, held) \in [Registers(b) -> K]
  BY <1>1, <1>3
<1> QED  BY <1>4, <1>5 DEF op

\* So a state stays one.
LEMMA AfterState ==
    ASSUME NEW b, Good(b), NEW at \in Places(b), NEW s \in States(b)
    PROVE  /\ After(chunk, Op(b, at), s) \in States(b)
           /\ \A r \in Registers(b) : After(chunk, Op(b, at), s)[r] = Becomes(b, Op(b, at), r, s[r])
<1> DEFINE K == Kinds \cup {"clash"}
<1>1. Kinds \subseteq K /\ States(b) = [Registers(b) -> K]
  BY DEF States
<1> HIDE DEF K
<1> QED  BY <1>1, AfterIs

\* Where a configuration goes.
LEMMA FollowingIs ==
    ASSUME NEW b, Good(b), NEW c \in Configurations(b)
    PROVE  /\ Following(b, c) \subseteq Configurations(b)
           /\ \A d : d \in Following(b, c) <=>
                \E q \in Ways(chunk, b, c.at) : d = Now(q, After(chunk, Op(b, c.at), c.held))
<1>1. c.at \in Places(b) /\ c.held \in Fillings(b)
  BY DEF Configurations
<1>2. Ways(chunk, b, c.at) \subseteq Places(b)
  BY <1>1 DEF Good
<1>3. After(chunk, Op(b, c.at), c.held) \in Fillings(b)
  BY <1>1, AfterIs DEF Fillings
<1>4. \A d : d \in Following(b, c) <=>
          \E q \in Ways(chunk, b, c.at) : d = Now(q, After(chunk, Op(b, c.at), c.held))
  BY DEF Following, Ways, Op
<1>5. \A q \in Ways(chunk, b, c.at) : Now(q, After(chunk, Op(b, c.at), c.held)) \in Configurations(b)
  BY <1>2, <1>3 DEF Now, Configurations
<1> QED  BY <1>4, <1>5

-----------------------------------------------------------------------------
(* The search of its configurations. *)

Searches(b) == [seen : SUBSET Configurations(b), fresh : SUBSET Configurations(b)]

\* One more step of it: what was come to is kept, and gone on from where it is not
\* wrong; and nothing else is come to.
LEMMA FurtherIs ==
    ASSUME NEW b, Good(b), NEW s \in Searches(b)
    PROVE  /\ Further(b, s) \in Searches(b)
           /\ Further(b, s).seen = s.seen \cup s.fresh
           /\ \A c \in s.fresh : ~Wrong(b, c) =>
                Following(b, c) \subseteq Further(b, s).seen \cup Further(b, s).fresh
           /\ \A d \in Further(b, s).fresh :
                \E c \in s.fresh : ~Wrong(b, c) /\ d \in Following(b, c)
<1> DEFINE next == UNION {Following(b, now) : now \in {c \in s.fresh : ~Wrong(b, c)}}
<1>1. s.seen \subseteq Configurations(b) /\ s.fresh \subseteq Configurations(b)
  BY DEF Searches
<1>2. Further(b, s) = [seen |-> s.seen \cup s.fresh, fresh |-> next \ (s.seen \cup s.fresh)]
  BY DEF Further
<1>3. \A d : d \in next <=> \E c \in s.fresh : ~Wrong(b, c) /\ d \in Following(b, c)
  OBVIOUS
<1> HIDE DEF next
<1>4. next \subseteq Configurations(b)
  BY <1>1, <1>3, FollowingIs
<1>5. Further(b, s) \in Searches(b)
  BY <1>1, <1>2, <1>4 DEF Searches
<1>6. Further(b, s).seen = s.seen \cup s.fresh /\ Further(b, s).fresh = next \ (s.seen \cup s.fresh)
  BY <1>2
<1> QED  BY <1>3, <1>5, <1>6

\* The recursive function Within is read from.
Sought(b, n) ==
    CHOOSE search : search = [i \in 0 .. n |->
                                 IF i = 0 THEN Begun(b) ELSE Further(b, search[i - 1])]

\* f is the search, step by step, as far as N.
Search(b, N, f) ==
    /\ f \in [0 .. N -> Searches(b)]
    /\ f[0] = Begun(b)
    /\ \A i \in 1 .. N : f[i] = Further(b, f[i - 1])

Searching(g, b, n) == [i \in 0 .. n |-> IF i = 0 THEN Begun(b) ELSE Further(b, g[i - 1])]

\* The search comes to what Within says.
LEMMA SearchIs ==
    ASSUME NEW b, Good(b), NEW N \in Nat, NEW f, Search(b, N, f), NEW n \in 0 .. N
    PROVE  Within(b, n) = f[n].seen \cup f[n].fresh
<1> DEFINE h == [i \in 0 .. n |-> f[i]]
<1>1. h = Searching(h, b, n)
  <2>1. ASSUME NEW i \in 0 .. n  PROVE h[i] = IF i = 0 THEN Begun(b) ELSE Further(b, h[i - 1])
    <3>1. CASE i = 0  BY <3>1 DEF Search
    <3>2. CASE i # 0
      <4>1. i \in 1 .. N /\ i - 1 \in 0 .. n
        BY <3>2
      <4> QED  BY <3>2, <4>1 DEF Search
    <3> QED  BY <3>1, <3>2
  <2> HIDE DEF h
  <2>2. h = [i \in 0 .. n |-> h[i]]
    BY DEF h
  <2> QED  BY <2>1, <2>2 DEF Searching
<1> HIDE DEF h
<1>2. PICK g : g = Sought(b, n)
  OBVIOUS
<1>3. g = Searching(g, b, n)
  BY <1>1, <1>2, Zenon DEF Sought, Searching
<1>4. ASSUME NEW i \in 0 .. n
      PROVE  g[i] = IF i = 0 THEN Begun(b) ELSE Further(b, g[i - 1])
  BY <1>3 DEF Searching
<1> DEFINE T == {i \in Nat : i <= n => g[i] = f[i]}
<1>5. T \in SUBSET Nat /\ 0 \in T
  BY <1>4 DEF Search
<1>6. ASSUME NEW i \in T  PROVE i + 1 \in T
  <2>1. CASE i + 1 <= n
    <3>1. i + 1 \in 1 .. N /\ i + 1 \in 0 .. n /\ i + 1 # 0 /\ (i + 1) - 1 = i /\ g[i] = f[i]
      BY <2>1
    <3>2. g[i + 1] = Further(b, g[i])
      BY <1>4, <3>1
    <3>3. f[i + 1] = Further(b, f[i])
      BY <3>1 DEF Search
    <3> QED  BY <3>1, <3>2, <3>3
  <2> QED  BY <2>1
<1> HIDE DEF T
<1>7. n \in T
  BY <1>5, <1>6, Induction
<1>8. g[n] = f[n]
  BY <1>7 DEF T
<1>9. Within(b, n) = g[n].seen \cup g[n].fresh
  BY <1>2, Zenon DEF Within, Sought
<1> QED  BY <1>8, <1>9

\* and there is one.
LEMMA SearchExists ==
    ASSUME NEW b, Good(b), NEW N \in Nat
    PROVE  \E f : Search(b, N, f)
<1> DEFINE G == [i \in 1 .. N |-> [s \in Searches(b) |-> Further(b, s)]]
<1>1. G \in [1 .. N -> [Searches(b) -> Searches(b)]]
  BY FurtherIs
<1>2. Begun(b) \in Searches(b)
  <2>1. Now(1, Entry(chunk, b)) \in Configurations(b)
    BY DEF Good, Now, Configurations
  <2> QED  BY <2>1 DEF Begun, Searches
<1>3. \A i \in 1 .. N : \A s \in Searches(b) : G[i][s] = Further(b, s)
  OBVIOUS
<1> HIDE DEF G
<1>4. PICK f : Iterates(f, Searches(b), Begun(b), N, G)
  BY <1>1, <1>2, Recursion
<1>5. f \in [0 .. N -> Searches(b)] /\ f[0] = Begun(b) /\ \A i \in 1 .. N : f[i] = G[i][f[i - 1]]
  BY <1>4 DEF Iterates
<1>6. ASSUME NEW i \in 1 .. N  PROVE f[i] = Further(b, f[i - 1])
  <2>1. i - 1 \in 0 .. N
    OBVIOUS
  <2>2. f[i - 1] \in Searches(b)
    BY <1>5, <2>1
  <2> QED  BY <1>3, <1>5, <2>2
<1> QED  BY <1>5, <1>6 DEF Search

-----------------------------------------------------------------------------
(* What the dataflow ends with shows a body honest. *)

\* States for the places of V that nothing read disagrees with, each weaker than
\* what comes to it.
Certificate(b, V, W) ==
    /\ V \subseteq Places(b) /\ W \in [V -> States(b)]
    /\ 1 \in V /\ Weaker(Entry(chunk, b), W[1])
    /\ \A p \in V :
        /\ ~Misreads(chunk, Op(b, p), W[p])
        /\ \A q \in Ways(chunk, b, p) : q \in V /\ Weaker(After(chunk, Op(b, p), W[p]), W[q])
Certified(b) == \E V, W : Certificate(b, V, W)

\* What can be read where less is known can be read where more is.
LEMMA ReadsStronger ==
    ASSUME NEW b, Good(b), NEW p \in Places(b), NEW s \in States(b), NEW t \in States(b),
           Weaker(s, t), ~Misreads(chunk, Op(b, p), t)
    PROVE  /\ ~Misreads(chunk, Op(b, p), s)
           /\ Op(b, p).k = "count" => s[Op(b, p).src] = t[Op(b, p).src]
<1> DEFINE op == Op(b, p)
<1>1. DOMAIN s = Registers(b) /\ DOMAIN t = Registers(b)
  BY DEF States
<1>2. /\ ~Malformed(chunk, op)
      /\ \A claim \in Claims(chunk, op) : claim[1] \in Registers(b) /\ t[claim[1]] = claim[2]
      /\ op.k = "count" => op.src \in Registers(b) /\ t[op.src] \in Arrays
      /\ \A write \in Writes(chunk, op) : write[1] \in Registers(b)
  BY <1>1 DEF Misreads
<1>3. "clash" \notin Kinds /\ "clash" \notin Arrays
  BY DEF Kinds, Arrays
<1>4. \A r \in Registers(b) : t[r] # "clash" => s[r] = t[r]
  BY <1>1 DEF Weaker
<1>5. \A claim \in Claims(chunk, op) : claim[2] \in Kinds
  BY DEF Good
<1> HIDE DEF op
<1>6. \A claim \in Claims(chunk, op) : s[claim[1]] = claim[2]
  BY <1>2, <1>3, <1>4, <1>5
<1>7. op.k = "count" => s[op.src] = t[op.src]
  BY <1>2, <1>3, <1>4
<1>8. ~Misreads(chunk, op, s)
  BY <1>1, <1>2, <1>6, <1>7 DEF Misreads
<1> QED  BY <1>7, <1>8 DEF op

\* An instruction knows no more after it from knowing less before it.
LEMMA AfterWeaker ==
    ASSUME NEW b, Good(b), NEW p \in Places(b), NEW s \in States(b), NEW t \in States(b),
           Weaker(s, t)
    PROVE  Weaker(After(chunk, Op(b, p), s), After(chunk, Op(b, p), t))
<1>1. /\ After(chunk, Op(b, p), s) \in States(b)
      /\ \A r \in Registers(b) : After(chunk, Op(b, p), s)[r] = Becomes(b, Op(b, p), r, s[r])
  BY AfterState
<1>2. \A r \in Registers(b) : After(chunk, Op(b, p), t)[r] = Becomes(b, Op(b, p), r, t[r])
  BY AfterState
<1>3. \A r \in Registers(b) : t[r] = s[r] \/ t[r] = "clash"
  BY DEF Weaker, States
<1> QED  BY <1>1, <1>2, <1>3 DEF Weaker, States, Becomes

\* Knowing less is transitive.
LEMMA WeakerStill ==
    ASSUME NEW b, NEW s \in States(b), NEW t \in States(b), NEW u \in States(b),
           Weaker(s, t), Weaker(t, u)
    PROVE  Weaker(s, u)
  BY DEF Weaker, States

\* A configuration is one the certificate speaks of.
Covered(b, V, W, c) ==
    c \in Configurations(b) /\ c.at \in V /\ Weaker(c.held, W[c.at])

\* What really is held is a state too.
LEMMA FillingIs ==
    ASSUME NEW b, NEW s \in Fillings(b)
    PROVE  s \in States(b)
  BY DEF Fillings, States

\* It is not wrong there, and the configurations after it are covered as well.
LEMMA CoveredGoes ==
    ASSUME NEW b, Good(b), NEW V, NEW W, Certificate(b, V, W), NEW c, Covered(b, V, W, c)
    PROVE  /\ Contained(b) => ~Wrong(b, c)
           /\ Op(b, c.at).k = "count" => c.held[Op(b, c.at).src] = W[c.at][Op(b, c.at).src]
           /\ \A d \in Following(b, c) : Covered(b, V, W, d)
<1> DEFINE p == c.at
           s == c.held
<1>1. c \in Configurations(b) /\ p \in V /\ Weaker(s, W[p])
  BY DEF Covered
<1>2. p \in Places(b) /\ s \in Fillings(b)
  BY <1>1 DEF Configurations
<1>3. s \in States(b) /\ W[p] \in States(b)
  BY <1>1, <1>2, FillingIs DEF Certificate
<1>4. /\ ~Misreads(chunk, Op(b, p), W[p])
      /\ \A q \in Ways(chunk, b, p) : q \in V /\ Weaker(After(chunk, Op(b, p), W[p]), W[q])
  BY <1>1 DEF Certificate
<1>5. ~Misreads(chunk, Op(b, p), s) /\ (Op(b, p).k = "count" => s[Op(b, p).src] = W[p][Op(b, p).src])
  BY <1>1, <1>2, <1>3, <1>4, ReadsStronger
<1>6. Contained(b) => ~Wrong(b, c)
  BY <1>2, <1>5 DEF Wrong, Op, Places, Contained
<1>7. Weaker(After(chunk, Op(b, p), s), After(chunk, Op(b, p), W[p]))
  BY <1>1, <1>2, <1>3, AfterWeaker
<1>8. After(chunk, Op(b, p), s) \in States(b) /\ After(chunk, Op(b, p), W[p]) \in States(b)
  BY <1>2, <1>3, AfterState
<1>9. ASSUME NEW d \in Following(b, c)  PROVE Covered(b, V, W, d)
  <2>1. PICK q \in Ways(chunk, b, p) : d = Now(q, After(chunk, Op(b, p), s))
    BY <1>1, FollowingIs
  <2>2. d \in Configurations(b)
    BY <1>1, FollowingIs
  <2>3. q \in V /\ Weaker(After(chunk, Op(b, p), W[p]), W[q]) /\ W[q] \in States(b)
    BY <1>4 DEF Certificate
  <2>4. Weaker(After(chunk, Op(b, p), s), W[q])
    BY <1>7, <1>8, <2>3, WeakerStill
  <2> QED  BY <2>1, <2>2, <2>3, <2>4 DEF Covered, Now
<1> QED  BY <1>5, <1>6, <1>9

\* All that is come to is covered.
LEMMA SearchCovered ==
    ASSUME NEW b, Good(b), NEW V, NEW W, Certificate(b, V, W), NEW n \in Nat
    PROVE  \A c \in Within(b, n) : Covered(b, V, W, c)
<1>1. PICK f : Search(b, n, f)
  BY SearchExists
<1> DEFINE All(i) == \A c \in f[i].seen \cup f[i].fresh : Covered(b, V, W, c)
           T == {i \in Nat : i <= n => All(i)}
<1>2. All(0)
  <2>1. f[0] = [seen |-> {}, fresh |-> {Now(1, Entry(chunk, b))}]
    BY <1>1 DEF Search, Begun
  <2>2. Covered(b, V, W, Now(1, Entry(chunk, b)))
    BY DEF Covered, Certificate, Now, Good, Configurations
  <2> QED  BY <2>1, <2>2
<1>3. ASSUME NEW i \in Nat, i + 1 <= n, All(i)  PROVE All(i + 1)
  <2>1. i + 1 \in 1 .. n /\ (i + 1) - 1 = i /\ i \in 0 .. n
    BY <1>3
  <2>2. f[i] \in Searches(b) /\ f[i + 1] = Further(b, f[i])
    BY <1>1, <2>1 DEF Search
  <2>3. f[i + 1].seen = f[i].seen \cup f[i].fresh
    BY <2>2, FurtherIs
  <2>4. ASSUME NEW d \in f[i + 1].fresh  PROVE Covered(b, V, W, d)
    <3>1. PICK c \in f[i].fresh : d \in Following(b, c)
      BY <2>2, <2>4, FurtherIs
    <3>2. Covered(b, V, W, c)
      BY <1>3
    <3> QED  BY <3>1, <3>2, CoveredGoes
  <2> QED  BY <1>3, <2>3, <2>4
<1> HIDE DEF All
<1>4. T \in SUBSET Nat /\ 0 \in T
  BY <1>2
<1>5. \A i \in T : i + 1 \in T
  BY <1>3
<1> HIDE DEF T
<1>6. n \in T
  BY <1>4, <1>5, Induction
<1>7. All(n)
  BY <1>6 DEF T
<1>8. Within(b, n) = f[n].seen \cup f[n].fresh
  BY <1>1, SearchIs
<1> QED  BY <1>7, <1>8 DEF All

\* A body with a certificate whose calls stay within the registers is honest,
\* however far it is followed.
LEMMA CertifiedHonest ==
    ASSUME NEW b, Good(b), Certified(b), Contained(b), NEW n \in Nat
    PROVE  HonestWithin(b, n)
<1>1. PICK V, W : Certificate(b, V, W)
  BY DEF Certified
<1>2. \A c \in Within(b, n) : Covered(b, V, W, c)
  BY <1>1, SearchCovered
<1>3. \A c \in Within(b, n) : ~Wrong(b, c)
  BY <1>1, <1>2, CoveredGoes
<1>4. ASSUME NEW one \in Within(b, n), NEW other \in Within(b, n),
             one.at = other.at, CodeOf(chunk, b)[one.at].k = "count"
      PROVE  one.held[CodeOf(chunk, b)[one.at].src] = other.held[CodeOf(chunk, b)[one.at].src]
  BY <1>1, <1>2, <1>4, CoveredGoes DEF Op
<1> QED  BY <1>3, <1>4, Zenon DEF HonestWithin

-----------------------------------------------------------------------------
(* What the search of an honest body comes to. *)

\* A growing chain of sets stops growing somewhere, if it may grow no further than
\* it is long.
LEMMA Stabilises ==
    ASSUME NEW U, IsFiniteSet(U), NEW N \in Nat, Cardinality(U) <= N,
           NEW P \in [0 .. N -> SUBSET U], P[0] # {},
           \A i \in 1 .. N : P[i - 1] \subseteq P[i]
    PROVE  \E i \in 1 .. N : P[i] = P[i - 1]
<1> SUFFICES ASSUME \A i \in 1 .. N : P[i] # P[i - 1]  PROVE FALSE
  OBVIOUS
<1>1. ASSUME NEW i \in 0 .. N
      PROVE  IsFiniteSet(P[i]) /\ Cardinality(P[i]) \in Nat /\ Cardinality(P[i]) <= Cardinality(U)
  <2>1. P[i] \in SUBSET U
    OBVIOUS
  <2> QED  BY <2>1, FS_Subset, FS_CardinalityType
<1> DEFINE Big(i) == Cardinality(P[i]) >= i + 1
           T == {i \in Nat : i <= N => Big(i)}
<1>2. Big(0)
  <2>1. Cardinality(P[0]) # 0
    BY <1>1, FS_EmptySet
  <2> QED  BY <1>1, <2>1
<1>3. ASSUME NEW i \in Nat, i + 1 <= N, Big(i)  PROVE Big(i + 1)
  <2>1. i \in 0 .. N /\ i + 1 \in 0 .. N /\ i + 1 \in 1 .. N /\ (i + 1) - 1 = i
    BY <1>3
  <2>2. P[i] \in SUBSET P[i + 1] /\ P[i + 1] # P[i]
    BY <2>1
  <2>3. Cardinality(P[i]) <= Cardinality(P[i + 1]) /\ Cardinality(P[i + 1]) # Cardinality(P[i])
    BY <1>1, <2>1, <2>2, FS_Subset
  <2> QED  BY <1>1, <1>3, <2>1, <2>3
<1> HIDE DEF Big
<1>4. T \in SUBSET Nat /\ 0 \in T
  BY <1>2
<1>5. \A i \in T : i + 1 \in T
  BY <1>3
<1> HIDE DEF T
<1>6. N \in T
  BY <1>4, <1>5, Induction
<1>7. Big(N)
  BY <1>6 DEF T
<1>8. Cardinality(U) \in Nat
  BY FS_CardinalityType
<1> QED  BY <1>1, <1>7, <1>8 DEF Big

\* There are finitely many kinds.
LEMMA KindsFinite == IsFiniteSet(Kinds) /\ Cardinality(Kinds) \in Nat
<1>1. \A S, x : IsFiniteSet(S) => IsFiniteSet(S \cup {x})
  BY FS_AddElement
<1>2. IsFiniteSet({"int"} \cup {"nat"} \cup {"float"} \cup {"bool"} \cup {"ints"} \cup {"grid"} \cup {"unset"})
  <2>1. IsFiniteSet({"int"})
    BY FS_Singleton
  <2>2. IsFiniteSet({"int"} \cup {"nat"})
    BY <1>1, <2>1
  <2>3. IsFiniteSet({"int"} \cup {"nat"} \cup {"float"})
    BY <1>1, <2>2
  <2>4. IsFiniteSet({"int"} \cup {"nat"} \cup {"float"} \cup {"bool"})
    BY <1>1, <2>3
  <2>5. IsFiniteSet({"int"} \cup {"nat"} \cup {"float"} \cup {"bool"} \cup {"ints"})
    BY <1>1, <2>4
  <2>6. IsFiniteSet({"int"} \cup {"nat"} \cup {"float"} \cup {"bool"} \cup {"ints"} \cup {"grid"})
    BY <1>1, <2>5
  <2> QED  BY <1>1, <2>6
<1>3. Kinds = {"int"} \cup {"nat"} \cup {"float"} \cup {"bool"} \cup {"ints"} \cup {"grid"} \cup {"unset"}
  BY DEF Kinds
<1> QED  BY <1>2, <1>3, FS_CardinalityType

\* What a register holds; one there is not, nothing ever.
Has(s, r) == IF r \in DOMAIN s THEN s[r] ELSE "unset"

\* Closed sets have what r holds at the entry, and what it comes to hold from there on.
Closed(b, r, X) ==
    /\ X \subseteq Places(b) \X Kinds
    /\ <<1, Has(Entry(chunk, b), r)>> \in X
    /\ \A p \in Places(b), k \in Kinds : <<p, k>> \in X =>
        \A q \in Ways(chunk, b, p) : <<q, Becomes(b, Op(b, p), r, k)>> \in X

\* All that a search has come to.
Met(f, i) == f[i].seen \cup f[i].fresh

\* Where nothing is wrong, a search keeps what it met and goes on from it.
LEMMA SearchGoesOn ==
    ASSUME NEW b, Good(b), NEW N \in Nat, NEW f, Search(b, N, f),
           \A c \in Within(b, N) : ~Wrong(b, c)
    PROVE  /\ \A i \in 0 .. N : Met(f, i) \subseteq Within(b, N) /\ Met(f, i) \subseteq Configurations(b)
           /\ \A i \in 1 .. N : Met(f, i - 1) \subseteq Met(f, i)
           /\ \A i \in 1 .. N : \A c \in Met(f, i - 1) : Following(b, c) \subseteq Met(f, i)
<1>1. \A i \in 0 .. N : f[i] \in Searches(b)
  BY DEF Search
<1>2. \A i \in 0 .. N : Met(f, i) \subseteq Configurations(b)
  BY <1>1 DEF Met, Searches
<1>3. ASSUME NEW i \in 1 .. N
      PROVE  /\ i - 1 \in 0 .. N /\ f[i - 1] \in Searches(b)
             /\ f[i] = Further(b, f[i - 1]) /\ f[i].seen = Met(f, i - 1)
  <2>1. i - 1 \in 0 .. N /\ f[i] = Further(b, f[i - 1])
    BY DEF Search
  <2>2. f[i - 1] \in Searches(b)
    BY <1>1, <2>1
  <2> QED  BY <2>1, <2>2, FurtherIs DEF Met
<1>4. \A i \in 1 .. N : Met(f, i - 1) \subseteq Met(f, i)
  BY <1>3 DEF Met
<1> DEFINE Rest(j) == Met(f, N - j) \subseteq Within(b, N)
           T == {j \in Nat : j <= N => Rest(j)}
<1>5. T = Nat
  <2>1. Rest(0)
    <3>1. Within(b, N) = Met(f, N) /\ N - 0 = N
      BY SearchIs DEF Met
    <3> QED  BY <3>1
  <2>2. ASSUME NEW j \in Nat, j + 1 <= N, Rest(j)  PROVE Rest(j + 1)
    <3>1. N - j \in 1 .. N /\ (N - j) - 1 = N - (j + 1)
      BY <2>2
    <3>2. Met(f, N - (j + 1)) \subseteq Met(f, N - j)
      BY <1>4, <3>1
    <3> QED  BY <2>2, <3>2
  <2> HIDE DEF Rest
  <2>3. T \in SUBSET Nat /\ 0 \in T
    BY <2>1
  <2>4. \A j \in T : j + 1 \in T
    BY <2>2
  <2> HIDE DEF T
  <2> QED  BY <2>3, <2>4, Induction
<1>6. ASSUME NEW i \in 0 .. N  PROVE Met(f, i) \subseteq Within(b, N)
  <2>1. N - i \in Nat /\ N - i <= N /\ N - (N - i) = i
    BY <1>6
  <2>2. Rest(N - i)
    BY <1>5, <2>1
  <2> QED  BY <2>1, <2>2
<1> DEFINE Goes(i) == \A c \in f[i].seen : Following(b, c) \subseteq Met(f, i)
           S == {i \in Nat : i <= N => Goes(i)}
<1>7. Goes(0)
  BY DEF Search, Begun
<1>8. ASSUME NEW i \in Nat, i + 1 <= N, Goes(i)
      PROVE  \A c \in Met(f, i) : Following(b, c) \subseteq Met(f, i + 1)
  <2>1. i + 1 \in 1 .. N /\ (i + 1) - 1 = i /\ i \in 0 .. N
    BY <1>8
  <2>2. f[i] \in Searches(b) /\ f[i + 1] = Further(b, f[i])
    BY <1>3, <2>1
  <2>3. Met(f, i) \subseteq Met(f, i + 1)
    BY <1>4, <2>1
  <2>4. ASSUME NEW c \in f[i].seen  PROVE Following(b, c) \subseteq Met(f, i + 1)
    BY <1>8, <2>3, <2>4
  <2>5. ASSUME NEW c \in f[i].fresh  PROVE Following(b, c) \subseteq Met(f, i + 1)
    <3>1. ~Wrong(b, c)
      BY <1>6, <2>1, <2>5 DEF Met
    <3> QED  BY <2>2, <2>5, <3>1, FurtherIs DEF Met
  <2> QED  BY <2>4, <2>5 DEF Met
<1>9. ASSUME NEW i \in Nat, i + 1 <= N, Goes(i)  PROVE Goes(i + 1)
  <2>1. i + 1 \in 1 .. N /\ (i + 1) - 1 = i
    BY <1>9
  <2>2. f[i + 1].seen = Met(f, i)
    BY <1>3, <2>1
  <2> QED  BY <1>8, <1>9, <2>2
<1> HIDE DEF Goes
<1>10. S \in SUBSET Nat /\ 0 \in S
  BY <1>7
<1>11. \A i \in S : i + 1 \in S
  BY <1>9
<1> HIDE DEF S
<1>12. S = Nat
  BY <1>10, <1>11, Induction
<1>13. ASSUME NEW i \in 1 .. N, NEW c \in Met(f, i - 1)
       PROVE  Following(b, c) \subseteq Met(f, i)
  <2>1. i - 1 \in Nat /\ (i - 1) + 1 = i /\ (i - 1) + 1 <= N
    BY <1>13
  <2>2. Goes(i - 1)
    BY <1>12, <2>1 DEF S
  <2> QED  BY <1>8, <1>13, <2>1, <2>2
<1> QED  BY <1>2, <1>4, <1>6, <1>13

\* What is held after an instruction.
LEMMA HasAfter ==
    ASSUME NEW b, Good(b), NEW p \in Places(b), NEW s \in States(b), NEW r
    PROVE  Has(After(chunk, Op(b, p), s), r) = Becomes(b, Op(b, p), r, Has(s, r))
<1>1. /\ After(chunk, Op(b, p), s) \in States(b)
      /\ \A q \in Registers(b) : After(chunk, Op(b, p), s)[q] = Becomes(b, Op(b, p), q, s[q])
  BY AfterState
<1>2. DOMAIN s = Registers(b) /\ DOMAIN After(chunk, Op(b, p), s) = Registers(b)
  BY <1>1 DEF States
<1>3. CASE r \in Registers(b)
  BY <1>1, <1>2, <1>3 DEF Has
<1>4. CASE r \notin Registers(b)
  BY <1>2, <1>4 DEF Has, Becomes
<1> QED  BY <1>3, <1>4

\* What is really held is a kind.
LEMMA HasKind ==
    ASSUME NEW b, NEW s \in Fillings(b), NEW r
    PROVE  Has(s, r) \in Kinds
  BY DEF Has, Fillings, Kinds

\* What r is met with, place by place.
MetWith(b, f, r, i) ==
    {x \in Places(b) \X Kinds : \E c \in Met(f, i) : c.at = x[1] /\ Has(c.held, r) = x[2]}

\* An honest body has, for every register, a closed set of what it really holds.
LEMMA HonestClosed ==
    ASSUME NEW b, Good(b), HonestBody(b), NEW r
    PROVE  \E X : /\ Closed(b, r, X)
                  /\ \A p, k : <<p, k>> \in X =>
                        \E c \in Within(b, Patience(b)) :
                            c \in Configurations(b) /\ c.at = p /\ Has(c.held, r) = k
<1> DEFINE U == Places(b) \X Kinds
           N == Patience(b)
<1>1. N \in Nat /\ IsFiniteSet(U) /\ Cardinality(U) = N
  <2>1. Len(CodeOf(chunk, b)) \in Nat /\ Places(b) = 1 .. Len(CodeOf(chunk, b))
    BY DEF Good
  <2>2. IsFiniteSet(Places(b)) /\ Cardinality(Places(b)) = Len(CodeOf(chunk, b))
    <3>1. \A n \in Nat : IsFiniteSet(1 .. n) /\ Cardinality(1 .. n) = n
      BY FS_Interval
    <3> QED  BY <2>1, <3>1
  <2>3. IsFiniteSet(U) /\ Cardinality(U) = Cardinality(Places(b)) * Cardinality(Kinds)
    BY <2>2, KindsFinite, FS_Product
  <2> QED  BY <2>1, <2>2, <2>3, KindsFinite DEF Patience
<1> HIDE DEF N
<1>2. \A c \in Within(b, N) : ~Wrong(b, c)
  BY DEF HonestBody, HonestWithin, N
<1>3. PICK f : Search(b, N, f)
  BY <1>1, SearchExists
<1>4. /\ \A i \in 0 .. N : Met(f, i) \subseteq Within(b, N) /\ Met(f, i) \subseteq Configurations(b)
      /\ \A i \in 1 .. N : Met(f, i - 1) \subseteq Met(f, i)
      /\ \A i \in 1 .. N : \A c \in Met(f, i - 1) : Following(b, c) \subseteq Met(f, i)
  BY <1>1, <1>2, <1>3, SearchGoesOn
<1> DEFINE P == [i \in 0 .. N |-> MetWith(b, f, r, i)]
<1>5. ASSUME NEW i \in 0 .. N, NEW p, NEW k
      PROVE  <<p, k>> \in P[i] <=> \E c \in Met(f, i) : c.at = p /\ Has(c.held, r) = k
  <2>1. ASSUME NEW c \in Met(f, i), c.at = p, Has(c.held, r) = k  PROVE <<p, k>> \in U
    <3>1. c \in Configurations(b)
      BY <1>4
    <3>2. c.at \in Places(b) /\ c.held \in Fillings(b)
      BY <3>1 DEF Configurations
    <3> QED  BY <2>1, <3>2, HasKind
  <2> QED  BY <2>1 DEF MetWith
<1>6. P \in [0 .. N -> SUBSET U]
  BY DEF MetWith
<1>7. <<1, Has(Entry(chunk, b), r)>> \in P[0]
  <2>1. Now(1, Entry(chunk, b)) \in Met(f, 0)
    BY <1>3 DEF Search, Begun, Met
  <2>2. 0 \in 0 .. N
    BY <1>1
  <2> QED  BY <1>5, <2>1, <2>2 DEF Now
<1>8. \A i \in 1 .. N : P[i - 1] \subseteq P[i]
  <2> SUFFICES ASSUME NEW i \in 1 .. N  PROVE P[i - 1] \subseteq P[i]
    OBVIOUS
  <2>1. i - 1 \in 0 .. N /\ i \in 0 .. N /\ Met(f, i - 1) \subseteq Met(f, i)
    BY <1>1, <1>4
  <2>2. P[i - 1] = MetWith(b, f, r, i - 1) /\ P[i] = MetWith(b, f, r, i)
    BY <2>1
  <2> QED  BY <2>1, <2>2 DEF MetWith
<1> HIDE DEF P, U
<1>9. Cardinality(U) <= N /\ P[0] # {}
  BY <1>1, <1>7
<1>10. PICK i \in 1 .. N : P[i] = P[i - 1]
  BY <1>1, <1>6, <1>8, <1>9, Stabilises
<1>11. i \in 0 .. N /\ i - 1 \in 0 .. N
  BY <1>1, <1>10
<1>12. P[i] \subseteq Places(b) \X Kinds
  BY <1>6, <1>11 DEF U
<1>13. <<1, Has(Entry(chunk, b), r)>> \in P[i]
  <2> DEFINE T == {j \in Nat : j <= N => P[0] \subseteq P[j]}
  <2>1. T \in SUBSET Nat /\ 0 \in T
    OBVIOUS
  <2>2. ASSUME NEW j \in T  PROVE j + 1 \in T
    <3>1. CASE j + 1 <= N
      <4>1. j + 1 \in 1 .. N /\ (j + 1) - 1 = j /\ P[0] \subseteq P[j]
        BY <1>1, <3>1
      <4> QED  BY <1>8, <4>1
    <3> QED  BY <1>1, <3>1
  <2> HIDE DEF T
  <2>3. i \in T
    BY <1>1, <1>11, <2>1, <2>2, Induction
  <2> QED  BY <1>7, <1>11, <2>3 DEF T
<1>14. ASSUME NEW p \in Places(b), NEW k \in Kinds, <<p, k>> \in P[i], NEW q \in Ways(chunk, b, p)
       PROVE  <<q, Becomes(b, Op(b, p), r, k)>> \in P[i]
  <2>1. PICK c \in Met(f, i - 1) : c.at = p /\ Has(c.held, r) = k
    BY <1>5, <1>10, <1>11, <1>14
  <2>2. c \in Configurations(b) /\ Following(b, c) \subseteq Met(f, i)
    BY <1>4, <1>10, <1>11, <2>1
  <2> DEFINE d == Now(q, After(chunk, Op(b, p), c.held))
  <2>3. d \in Met(f, i)
    BY <1>14, <2>1, <2>2, FollowingIs
  <2>4. c.held \in States(b)
    BY <2>2, FillingIs DEF Configurations
  <2>5. d.at = q /\ Has(d.held, r) = Becomes(b, Op(b, p), r, k)
    BY <2>1, <2>4, HasAfter DEF Now
  <2> HIDE DEF d
  <2> QED  BY <1>5, <1>11, <2>3, <2>5
<1>15. Closed(b, r, P[i])
  BY <1>12, <1>13, <1>14 DEF Closed
<1>16. ASSUME NEW p, NEW k, <<p, k>> \in P[i]
       PROVE  \E c \in Within(b, Patience(b)) :
                  c \in Configurations(b) /\ c.at = p /\ Has(c.held, r) = k
  <2>1. PICK c \in Met(f, i) : c.at = p /\ Has(c.held, r) = k
    BY <1>5, <1>11, <1>16
  <2>2. c \in Within(b, N) /\ c \in Configurations(b)
    BY <1>4, <1>11, <2>1
  <2> QED  BY <2>1, <2>2 DEF N
<1> QED  BY <1>15, <1>16

\* A set has what is known at p: the kind, or two of them for a clash.
Supports(X, p, k) ==
    IF k = "clash"
    THEN \E k1, k2 \in Kinds : k1 # k2 /\ <<p, k1>> \in X /\ <<p, k2>> \in X
    ELSE <<p, k>> \in X

\* What is known at p cannot be helped: every closed set has it.
Backed(b, p, s) == \A r, X : Closed(b, r, X) => Supports(X, p, Has(s, r))

\* An instruction that misreads what cannot be helped is misread on some way.
LEMMA RefusedRightly ==
    ASSUME NEW b, Good(b), NEW p \in Places(b), NEW s \in States(b),
           Backed(b, p, s), Misreads(chunk, Op(b, p), s)
    PROVE  ~HonestBody(b)
<1> SUFFICES ASSUME HonestBody(b)  PROVE FALSE
  OBVIOUS
<1> DEFINE op == Op(b, p)
           All == Within(b, Patience(b))
           Here == {c \in All : c \in Configurations(b) /\ c.at = p}
<1>1. ASSUME NEW c \in Here  PROVE c.held \in Fillings(b) /\ ~Misreads(chunk, op, c.held)
  <2>1. ~Wrong(b, c) /\ c.at = p /\ c \in Configurations(b)
    BY DEF HonestBody, HonestWithin
  <2> QED  BY <2>1 DEF Wrong, Configurations, Op
<1>2. ASSUME NEW r
      PROVE  IF Has(s, r) = "clash"
             THEN \E c, d \in Here : Has(c.held, r) # Has(d.held, r)
             ELSE \E c \in Here : Has(c.held, r) = Has(s, r)
  <2>1. PICK X : /\ Closed(b, r, X)
                 /\ \A q, k : <<q, k>> \in X =>
                        \E c \in All : c \in Configurations(b) /\ c.at = q /\ Has(c.held, r) = k
    BY HonestClosed
  <2>2. Supports(X, p, Has(s, r))
    BY <2>1 DEF Backed
  <2> HIDE DEF All
  <2>3. ASSUME NEW k, <<p, k>> \in X  PROVE \E c \in Here : Has(c.held, r) = k
    BY <2>1, <2>3
  <2> HIDE DEF Here
  <2>4. CASE Has(s, r) = "clash"
    <3>1. PICK k1, k2 \in Kinds : k1 # k2 /\ <<p, k1>> \in X /\ <<p, k2>> \in X
      BY <2>2, <2>4 DEF Supports
    <3>2. PICK c \in Here : Has(c.held, r) = k1
      BY <2>3, <3>1
    <3>3. PICK d \in Here : Has(d.held, r) = k2
      BY <2>3, <3>1
    <3> QED  BY <2>4, <3>1, <3>2, <3>3
  <2>5. CASE Has(s, r) # "clash"
    <3>1. <<p, Has(s, r)>> \in X
      BY <2>2, <2>5 DEF Supports
    <3> QED  BY <2>3, <2>5, <3>1
  <2> QED  BY <2>4, <2>5
<1>3. ASSUME NEW c \in Here, NEW d \in Here, op.k = "count"
      PROVE  c.held[op.src] = d.held[op.src]
  <2>1. c \in All /\ d \in All /\ c.at = p /\ d.at = p /\ CodeOf(chunk, b)[p] = op
    BY DEF Op
  <2>2. HonestWithin(b, Patience(b))
    BY DEF HonestBody
  <2> HIDE DEF op
  <2> QED  BY <1>3, <2>1, <2>2 DEF HonestWithin
<1> HIDE DEF Here, op
<1>4. PICK c0 \in Here : TRUE
  BY <1>2
<1>5. ASSUME NEW c \in Here
      PROVE  /\ ~Malformed(chunk, op)
             /\ \A claim \in Claims(chunk, op) : claim[1] \in Registers(b) /\ c.held[claim[1]] = claim[2]
             /\ op.k = "count" => op.src \in Registers(b) /\ c.held[op.src] \in Arrays
             /\ \A write \in Writes(chunk, op) : write[1] \in Registers(b)
             /\ \A r \in Registers(b) : Has(c.held, r) = c.held[r]
  BY <1>1, <1>5 DEF Misreads, Fillings, Has
<1>6. DOMAIN s = Registers(b) /\ \A r \in Registers(b) : Has(s, r) = s[r]
  BY DEF States, Has
<1>7. ASSUME NEW claim \in Claims(chunk, op)
      PROVE  claim[1] \in Registers(b) /\ s[claim[1]] = claim[2]
  <2>1. claim[1] \in Registers(b) /\ \A c \in Here : Has(c.held, claim[1]) = claim[2]
    BY <1>4, <1>5, <1>7
  <2> QED  BY <1>2, <1>6, <2>1
<1>8. ASSUME op.k = "count"  PROVE op.src \in Registers(b) /\ s[op.src] \in Arrays
  <2>1. op.src \in Registers(b)
    BY <1>4, <1>5, <1>8
  <2>2. \A c, d \in Here : Has(c.held, op.src) = Has(d.held, op.src)
    BY <1>3, <1>5, <1>8, <2>1
  <2>3. PICK c \in Here : Has(c.held, op.src) = Has(s, op.src)
    BY <1>2, <2>2
  <2> QED  BY <1>5, <1>6, <1>8, <2>1, <2>3
<1>9. ~Misreads(chunk, op, s)
  BY <1>4, <1>5, <1>6, <1>7, <1>8 DEF Misreads
<1> QED  BY <1>9 DEF op

-----------------------------------------------------------------------------
(* The invariant of the walk, over the values it keeps for a body b: what each *)
(* door D knows, which are asked for, A, where it is, h, and what it knows, s.  *)

Shape(b, D, A, h, s) ==
    /\ D \in [Places(b) -> {<<>>} \cup {<<t>> : t \in States(b)}]
    /\ A \subseteq Places(b) /\ \A d \in A : D[d] # <<>>
    /\ h \in {0} \cup Places(b)
    /\ h # 0 => s \in States(b)

\* What an instruction leaves was handed on: to the door there, or along the walk.
Handed(b, D, V, W, q, t) ==
    IF q \in Doors(CodeOf(chunk, b))
    THEN D[q] # <<>> /\ Weaker(t, D[q][1])
    ELSE q \in V /\ Weaker(t, W[q])

\* The places V walked over so far, with the state last walked with at each: at all
\* but where the walk is now nothing was misread, and what was left was handed on. A
\* door that knows something is asked for, or was walked from with what it knows.
Walked(b, D, A, h, s, V, W) ==
    /\ V \subseteq Places(b) /\ W \in [V -> States(b)]
    /\ \A p \in V : p # h =>
        /\ ~Misreads(chunk, Op(b, p), W[p])
        /\ \A q \in Ways(chunk, b, p) : Handed(b, D, V, W, q, After(chunk, Op(b, p), W[p]))
    /\ h # 0 => h \in V /\ W[h] = s
    /\ \A d \in Doors(CodeOf(chunk, b)) : D[d] # <<>> => d \in A \/ (d \in V /\ W[d] = D[d][1])
    /\ D[1] # <<>> /\ Weaker(Entry(chunk, b), D[1][1])
Walk(b, D, A, h, s) == \E V, W : Walked(b, D, A, h, s, V, W)

\* Nothing is known that could be helped.
AllBacked(b, D, h, s) ==
    /\ \A d \in Places(b) : D[d] # <<>> => Backed(b, d, D[d][1])
    /\ h # 0 => Backed(b, h, s)

BodyInv(b, D, A, h, s) ==
    Shape(b, D, A, h, s) /\ Walk(b, D, A, h, s) /\ AllBacked(b, D, h, s)

\* The doors of a body are places of it.
LEMMA DoorsIn ==
    ASSUME NEW b, Good(b)
    PROVE  /\ Doors(CodeOf(chunk, b)) \subseteq Places(b) /\ 1 \in Doors(CodeOf(chunk, b))
           /\ \A p \in Places(b) : Op(b, p).k \in Jumps => Op(b, p).target \in Doors(CodeOf(chunk, b))
<1>1. \A p \in Places(b) : Op(b, p).k \in Jumps => Op(b, p).target \in Places(b)
  BY DEF Good, Ways, Op
<1>2. Doors(CodeOf(chunk, b)) =
          {1} \cup {Op(b, p).target : p \in {j \in Places(b) : Op(b, j).k \in Jumps}}
  BY DEF Doors, Op, Places
<1> QED  BY <1>1, <1>2 DEF Good

\* Nothing is lost by knowing as much.
LEMMA WeakerSelf ==
    ASSUME NEW b, NEW s \in States(b)
    PROVE  Weaker(s, s)
  BY DEF Weaker

\* A body begins with its entry known, and nothing else.
LEMMA BodyBegins ==
    ASSUME NEW b, Good(b)
    PROVE  BodyInv(b, Doorways(b), {1}, 0, <<>>)
<1> DEFINE D == Doorways(b)
<1>1. 1 \in Places(b) /\ Places(b) = 1 .. Len(CodeOf(chunk, b)) /\ Entry(chunk, b) \in States(b)
  BY FillingIs DEF Good
<1>2. D = [at \in Places(b) |-> IF at = 1 THEN <<Entry(chunk, b)>> ELSE <<>>]
  BY DEF Doorways, Places
<1>3. D[1] = <<Entry(chunk, b)>> /\ D[1] # <<>> /\ D[1][1] = Entry(chunk, b)
      /\ \A d \in Places(b) : d # 1 => D[d] = <<>>
  BY <1>1, <1>2
<1>4. D \in [Places(b) -> {<<>>} \cup {<<t>> : t \in States(b)}]
  BY <1>1, <1>2
<1> HIDE DEF D
<1>5. Shape(b, D, {1}, 0, <<>>)
  BY <1>1, <1>3, <1>4 DEF Shape
<1>6. Walked(b, D, {1}, 0, <<>>, {}, [p \in {} |-> Entry(chunk, b)])
  BY <1>1, <1>3, DoorsIn, WeakerSelf DEF Walked
<1>7. Backed(b, 1, Entry(chunk, b))
  <2> SUFFICES ASSUME NEW r, NEW X, Closed(b, r, X)  PROVE Supports(X, 1, Has(Entry(chunk, b), r))
    BY DEF Backed
  <2>1. Has(Entry(chunk, b), r) # "clash"
    BY HasKind DEF Good, Kinds
  <2> QED  BY <2>1 DEF Closed, Supports
<1>8. AllBacked(b, D, 0, <<>>)
  BY <1>3, <1>7 DEF AllBacked
<1>9. Walk(b, D, {1}, 0, <<>>)
  BY <1>6 DEF Walk
<1> QED  BY <1>5, <1>8, <1>9 DEF BodyInv, D

\* A walk from a door begins with what the door knows.
LEMMA BodyAsks ==
    ASSUME NEW b, Good(b), NEW D, NEW A, NEW s, BodyInv(b, D, A, 0, s), NEW d \in A,
           d \in Doors(CodeOf(chunk, b))
    PROVE  BodyInv(b, D, A \ {d}, d, D[d][1])
<1> DEFINE t == D[d][1]
<1>1. d \in Places(b) /\ D[d] # <<>> /\ 0 \notin Places(b)
  BY DEF BodyInv, Shape, Good
<1>2. D[d] \in {<<>>} \cup {<<u>> : u \in States(b)}
  BY <1>1 DEF BodyInv, Shape
<1>3. D[d] = <<t>> /\ t \in States(b)
  BY <1>1, <1>2
<1> HIDE DEF t
<1>4. Shape(b, D, A \ {d}, d, t)
  BY <1>1, <1>3 DEF BodyInv, Shape
<1>5. AllBacked(b, D, d, t)
  BY <1>1, <1>3 DEF BodyInv, AllBacked
<1>6. PICK V, W : Walked(b, D, A, 0, s, V, W)
  BY DEF BodyInv, Walk
<1> DEFINE V2 == V \cup {d}
           W2 == [p \in V2 |-> IF p = d THEN t ELSE W[p]]
<1>7. /\ V \subseteq Places(b) /\ W \in [V -> States(b)]
      /\ D[1] # <<>> /\ Weaker(Entry(chunk, b), D[1][1])
  BY <1>6 DEF Walked
<1>8. V2 \subseteq Places(b) /\ W2 \in [V2 -> States(b)] /\ W2[d] = t /\ d \in V2
      /\ V \subseteq V2 /\ (\A p \in V2 : p # d => p \in V /\ W2[p] = W[p])
  BY <1>1, <1>3, <1>7
<1> HIDE DEF V2, W2
<1>9. ASSUME NEW p \in V2, p # d
      PROVE  /\ ~Misreads(chunk, Op(b, p), W2[p])
             /\ \A q \in Ways(chunk, b, p) : Handed(b, D, V2, W2, q, After(chunk, Op(b, p), W2[p]))
  <2>1. p \in V /\ W2[p] = W[p] /\ p # 0
    BY <1>1, <1>7, <1>8, <1>9
  <2>2. /\ ~Misreads(chunk, Op(b, p), W[p])
        /\ \A q \in Ways(chunk, b, p) : Handed(b, D, V, W, q, After(chunk, Op(b, p), W[p]))
    BY <1>6, <2>1 DEF Walked
  <2>3. ASSUME NEW q, NEW u, Handed(b, D, V, W, q, u)  PROVE Handed(b, D, V2, W2, q, u)
    <3>1. q # d \/ q \in Doors(CodeOf(chunk, b))
      OBVIOUS
    <3>2. q \in V /\ q # d => q \in V2 /\ W2[q] = W[q]
      BY <1>8
    <3> QED  BY <2>3, <3>1, <3>2 DEF Handed
  <2> QED  BY <2>1, <2>2, <2>3
<1>10. ASSUME NEW e \in Doors(CodeOf(chunk, b)), D[e] # <<>>
       PROVE  e \in A \ {d} \/ (e \in V2 /\ W2[e] = D[e][1])
  <2>1. CASE e = d  BY <1>8, <2>1 DEF t
  <2>2. CASE e # d
    <3>1. e \in A \/ (e \in V /\ W[e] = D[e][1])
      BY <1>6, <1>10 DEF Walked
    <3> QED  BY <1>8, <2>2, <3>1
  <2> QED  BY <2>1, <2>2
<1>11. Walked(b, D, A \ {d}, d, t, V2, W2)
  BY <1>7, <1>8, <1>9, <1>10 DEF Walked
<1> QED  BY <1>4, <1>5, <1>11 DEF BodyInv, Walk, t

\* With nothing left to walk, what was walked with is a certificate.
LEMMA BodyEnds ==
    ASSUME NEW b, Good(b), NEW D, NEW s, BodyInv(b, D, {}, 0, s)
    PROVE  Certified(b)
<1>1. PICK V, W : Walked(b, D, {}, 0, s, V, W)
  BY DEF BodyInv, Walk
<1>2. V \subseteq Places(b) /\ W \in [V -> States(b)]
  BY <1>1 DEF Walked
<1>3. \A d \in Doors(CodeOf(chunk, b)) : D[d] # <<>> => d \in V /\ W[d] = D[d][1]
  BY <1>1 DEF Walked
<1>4. 1 \in V /\ Weaker(Entry(chunk, b), W[1])
  BY <1>1, <1>3, DoorsIn DEF Walked
<1>5. ASSUME NEW p \in V
      PROVE  /\ ~Misreads(chunk, Op(b, p), W[p])
             /\ \A q \in Ways(chunk, b, p) : q \in V /\ Weaker(After(chunk, Op(b, p), W[p]), W[q])
  <2>1. p # 0
    BY <1>2 DEF Good
  <2>2. /\ ~Misreads(chunk, Op(b, p), W[p])
        /\ \A q \in Ways(chunk, b, p) : Handed(b, D, V, W, q, After(chunk, Op(b, p), W[p]))
    BY <1>1, <2>1 DEF Walked
  <2> QED  BY <1>3, <2>2 DEF Handed
<1>6. Certificate(b, V, W)
  BY <1>2, <1>4, <1>5 DEF Certificate
<1> QED  BY <1>6 DEF Certified

\* What two ways bring is backed where they meet.
LEMMA JoinBacked ==
    ASSUME NEW X, NEW p, NEW j \in Kinds \cup {"clash"}, NEW k \in Kinds \cup {"clash"},
           Supports(X, p, j), Supports(X, p, k)
    PROVE  Supports(X, p, Join(j, k))
<1>1. CASE j = k
  BY <1>1 DEF Join
<1>2. CASE j # k
  <2>1. Join(j, k) = "clash"
    BY <1>2 DEF Join
  <2>2. CASE j = "clash" \/ k = "clash"
    BY <2>1, <2>2
  <2>3. CASE j # "clash" /\ k # "clash"
    <3>1. j \in Kinds /\ k \in Kinds /\ <<p, j>> \in X /\ <<p, k>> \in X
      BY <2>3 DEF Supports
    <3> QED  BY <1>2, <2>1, <3>1 DEF Supports
  <2> QED  BY <2>2, <2>3
<1> QED  BY <1>1, <1>2

\* What cannot be helped at p cannot be helped after it.
LEMMA BackedAfter ==
    ASSUME NEW b, Good(b), NEW p \in Places(b), NEW s \in States(b), Backed(b, p, s),
           NEW q \in Ways(chunk, b, p)
    PROVE  Backed(b, q, After(chunk, Op(b, p), s))
<1> SUFFICES ASSUME NEW r, NEW X, Closed(b, r, X)
             PROVE  Supports(X, q, Has(After(chunk, Op(b, p), s), r))
  BY DEF Backed
<1> DEFINE op == Op(b, p)
           k == Has(s, r)
           t == Becomes(b, op, r, k)
<1>1. Has(After(chunk, op, s), r) = t
  BY HasAfter
<1>2. Supports(X, p, k)
  BY DEF Backed
<1>3. \A j \in Kinds : <<p, j>> \in X => <<q, Becomes(b, op, r, j)>> \in X
  BY DEF Closed
<1>4. X \subseteq Places(b) \X Kinds
  BY DEF Closed
<1>5. \A write \in Writes(chunk, op) : write[2] \in Kinds
  BY DEF Good
<1> HIDE DEF op
<1>6. CASE r \in Registers(b) /\ Hits(op, r)
  <2>1. t = Written(op) /\ \A j : Becomes(b, op, r, j) = Written(op)
    BY <1>6 DEF Becomes
  <2>2. Written(op) # "clash"
    BY <1>5, <1>6 DEF Hits, Written, Chosen, Kinds
  <2>3. \E j \in Kinds : <<p, j>> \in X
    BY <1>2, <1>4 DEF Supports
  <2>4. <<q, t>> \in X
    BY <1>3, <2>1, <2>3
  <2> QED  BY <1>1, <2>1, <2>2, <2>4 DEF Supports, op
<1>7. CASE ~(r \in Registers(b) /\ Hits(op, r))
  <2>1. t = k /\ \A j : Becomes(b, op, r, j) = j
    BY <1>7 DEF Becomes
  <2>2. \A j \in Kinds : <<p, j>> \in X => <<q, j>> \in X
    BY <1>3, <2>1
  <2> HIDE DEF t, k
  <2>3. CASE k = "clash"
    <3>1. PICK k1, k2 \in Kinds : k1 # k2 /\ <<p, k1>> \in X /\ <<p, k2>> \in X
      BY <1>2, <2>3 DEF Supports
    <3> QED  BY <1>1, <2>1, <2>2, <2>3, <3>1 DEF Supports, op
  <2>4. CASE k # "clash"
    <3>1. <<p, k>> \in X
      BY <1>2, <2>4 DEF Supports
    <3>2. k \in Kinds
      BY <1>4, <3>1
    <3> QED  BY <1>1, <2>1, <2>2, <2>4, <3>1, <3>2 DEF Supports, op
  <2> QED  BY <2>3, <2>4
<1> QED  BY <1>6, <1>7

\* What a door is to know, t having come to it.
Merges(b, D, q, t, u) ==
    /\ u \in States(b) /\ Weaker(t, u)
    /\ D[q] # <<>> => Weaker(D[q][1], u)
    /\ Backed(b, q, t) /\ (D[q] # <<>> => Backed(b, q, D[q][1])) => Backed(b, q, u)

\* What a door is to know is no more than either arrival knew, and cannot
\* be helped if neither could.
LEMMA MergedIs ==
    ASSUME Good(body), NEW A, NEW h, NEW s, Shape(body, atDoor, A, h, s),
           NEW q \in Places(body), NEW t \in States(body)
    PROVE  \E u : Merged(q, t) = <<u>> /\ Merges(body, atDoor, q, t, u)
<1>1. CASE atDoor[q] = <<>>
  <2>1. Merged(q, t) = <<t>>
    BY <1>1 DEF Merged
  <2> QED  BY <1>1, <2>1, WeakerSelf DEF Merges
<1>2. CASE atDoor[q] # <<>>
  <2> DEFINE e == atDoor[q][1]
             u == [r \in DOMAIN t |-> Join(e[r], t[r])]
  <2>1. Merged(q, t) = <<u>>
    BY <1>2 DEF Merged
  <2>2. e \in States(body)
    <3>1. atDoor[q] \in {<<>>} \cup {<<v>> : v \in States(body)}
      BY DEF Shape
    <3> QED  BY <1>2, <3>1
  <2> HIDE DEF e
  <2>3. DOMAIN t = Registers(body) /\ DOMAIN e = Registers(body)
    BY <2>2 DEF States
  <2>4. \A r \in Registers(body) :
            e[r] \in Kinds \cup {"clash"} /\ t[r] \in Kinds \cup {"clash"}
    BY <2>2 DEF States
  <2>5. u \in States(body) /\ DOMAIN u = Registers(body)
        /\ \A r \in Registers(body) : u[r] = Join(e[r], t[r])
    BY <2>3, <2>4 DEF States, Join
  <2> HIDE DEF u
  <2>6. Weaker(t, u) /\ Weaker(e, u)
    BY <2>3, <2>5 DEF Weaker, Join
  <2>7. ASSUME Backed(body, q, t), Backed(body, q, e)  PROVE Backed(body, q, u)
    <3> SUFFICES ASSUME NEW r, NEW X, Closed(body, r, X)  PROVE Supports(X, q, Has(u, r))
      BY DEF Backed
    <3>1. Supports(X, q, Has(t, r)) /\ Supports(X, q, Has(e, r))
      BY <2>7 DEF Backed
    <3>2. CASE r \in Registers(body)
      <4>1. Has(t, r) = t[r] /\ Has(e, r) = e[r] /\ Has(u, r) = Join(e[r], t[r])
        BY <2>3, <2>5, <3>2 DEF Has
      <4> QED  BY <2>4, <3>1, <3>2, <4>1, JoinBacked
    <3>3. CASE r \notin Registers(body)
      BY <2>3, <2>5, <3>1, <3>3 DEF Has
    <3> QED  BY <3>2, <3>3
  <2>8. Merges(body, atDoor, q, t, u)
    <3>1. e = atDoor[q][1]
      BY DEF e
    <3> QED  BY <1>2, <2>5, <2>6, <2>7, <3>1 DEF Merges
  <2> QED  BY <2>1, <2>8
<1> QED  BY <1>1, <1>2

\* Where an instruction's state is handed: to doors, and on to the next place.
LEMMA HandsOn ==
    ASSUME Good(body), here \in Places(body)
    PROVE  /\ Arrives = Ways(chunk, body, here) \cap Doors(Code)
           /\ FallsTo \ Doors(Code) = Ways(chunk, body, here) \ Doors(Code)
           /\ FallsTo \ Doors(Code) \subseteq {here + 1}
<1>1. JumpsTo \subseteq Doors(Code)
  BY DoorsIn DEF JumpsTo, Code, Op
<1>2. here = Len(CodeOf(chunk, body)) => Op(body, here).k \in Stops
  <2>1. Op(body, here).k \notin Stops => here + 1 \in Ways(chunk, body, here)
    BY DEF Ways, Op
  <2>2. Ways(chunk, body, here) \subseteq 1 .. Len(CodeOf(chunk, body)) /\ Len(CodeOf(chunk, body)) \in Nat
    BY DEF Good
  <2> QED  BY <2>1, <2>2
<1>3. FallsTo = IF Op(body, here).k \in Stops THEN {} ELSE {here + 1}
  BY <1>2 DEF FallsTo, Code, Op
<1>4. JumpsTo \cup FallsTo = Ways(chunk, body, here)
  BY <1>3 DEF JumpsTo, Ways, Code, Op
<1> QED  BY <1>1, <1>3, <1>4 DEF Arrives

\* Nothing comes along the walk but from the place before.
LEMMA AlongFrom ==
    ASSUME NEW b, Good(b), NEW p \in Places(b), NEW q \in Ways(chunk, b, p), q \notin Doors(CodeOf(chunk, b))
    PROVE  q = p + 1
  BY DoorsIn DEF Ways, Op

\* One instruction walked.
LEMMA BodySteps ==
    ASSUME Good(body), BodyInv(body, atDoor, asking, here, state), here # 0,
           ~Misreads(chunk, Op(body, here), state),
           NEW t, t = After(chunk, Op(body, here), state),
           NEW D, D = [at \in DOMAIN atDoor |->
                          IF at \in Changed(t) THEN Merged(at, t) ELSE atDoor[at]],
           NEW h, NEW s,
           IF FallsTo \ Doors(Code) = {} THEN h = 0 ELSE h = here + 1 /\ s = t
    PROVE  BodyInv(body, D, asking \cup Changed(t), h, s)
<1> DEFINE b == body
           ds == Doors(Code)
           A == asking \cup Changed(t)
<1>1. /\ here \in Places(b) /\ state \in States(b) /\ asking \subseteq Places(b)
      /\ \A d \in asking : atDoor[d] # <<>>
      /\ atDoor \in [Places(b) -> {<<>>} \cup {<<u>> : u \in States(b)}]
  BY DEF BodyInv, Shape
<1>2. Places(b) \subseteq Nat \ {0}
  BY DEF Good
<1>3. /\ Arrives = Ways(chunk, b, here) \cap ds
      /\ FallsTo \ ds = Ways(chunk, b, here) \ ds /\ FallsTo \ ds \subseteq {here + 1}
  BY <1>1, HandsOn
<1>4. Ways(chunk, b, here) \subseteq Places(b) /\ ds \subseteq Places(b)
  BY <1>1, DoorsIn DEF Good, Code
<1>5. t \in States(b)
  BY <1>1, AfterState
<1>6. Changed(t) = {d \in Arrives : Merged(d, t) # atDoor[d]}
  BY DEF Changed
<1>7. /\ \A q \in Arrives : D[q] = Merged(q, t)
      /\ \A q \in Places(b) : q \notin Changed(t) => D[q] = atDoor[q]
      /\ Changed(t) \subseteq Arrives /\ Arrives \subseteq Places(b)
      /\ D = [at \in Places(b) |-> D[at]]
  <2>1. DOMAIN atDoor = Places(b)
    BY <1>1
  <2>2. Changed(t) \subseteq Arrives /\ Arrives \subseteq Places(b)
    BY <1>3, <1>4, <1>6
  <2>3. \A q \in Places(b) : D[q] = IF q \in Changed(t) THEN Merged(q, t) ELSE atDoor[q]
    BY <2>1
  <2>4. \A q \in Arrives : D[q] = Merged(q, t)
    BY <1>6, <2>2, <2>3
  <2> QED  BY <2>1, <2>2, <2>3, <2>4
<1>8. ASSUME NEW q \in Arrives
      PROVE  \E u : D[q] = <<u>> /\ Merges(b, atDoor, q, t, u)
  <2>1. \E u : Merged(q, t) = <<u>> /\ Merges(b, atDoor, q, t, u)
    BY <1>5, <1>7, MergedIs DEF BodyInv
  <2> QED  BY <1>7, <2>1
<1> HIDE DEF ds, A, b
<1>9. ASSUME NEW q \in Places(b)
      PROVE  /\ D[q] \in {<<>>} \cup {<<u>> : u \in States(b)}
             /\ atDoor[q] # <<>> => D[q] # <<>> /\ Weaker(atDoor[q][1], D[q][1])
             /\ q \in Arrives => D[q] # <<>> /\ Weaker(t, D[q][1])
  <2>1. CASE q \in Arrives
    <3>1. PICK u : D[q] = <<u>> /\ Merges(b, atDoor, q, t, u)
      BY <1>8, <2>1
    <3>2. D[q] # <<>> /\ D[q][1] = u
      BY <3>1
    <3> QED  BY <3>1, <3>2 DEF Merges
  <2>2. CASE q \notin Arrives
    <3>1. D[q] = atDoor[q]
      BY <1>7, <2>2
    <3>2. atDoor[q] \in {<<>>} \cup {<<u>> : u \in States(b)}
      BY <1>1
    <3>3. atDoor[q] # <<>> => Weaker(atDoor[q][1], atDoor[q][1])
      BY <3>2, WeakerSelf
    <3> QED  BY <2>2, <3>1, <3>2, <3>3
  <2> QED  BY <2>1, <2>2
<1>10. h \in {0} \cup Places(b) /\ (h # 0 => s = t /\ h = here + 1 /\ h \in Ways(chunk, b, here) \ ds)
  BY <1>3, <1>4 DEF ds
<1>11. Shape(b, D, A, h, s)
  <2>1. D \in [Places(b) -> {<<>>} \cup {<<u>> : u \in States(b)}]
    BY <1>7, <1>9
  <2>2. A \subseteq Places(b)
    BY <1>1, <1>7 DEF A
  <2>3. ASSUME NEW d \in A  PROVE D[d] # <<>>
    BY <1>1, <1>7, <1>9, <2>3 DEF A
  <2> QED  BY <1>5, <1>10, <2>1, <2>2, <2>3 DEF Shape
<1>12. AllBacked(b, D, h, s)
  <2>1. Backed(b, here, state)
    BY DEF BodyInv, AllBacked, b
  <2>2. \A q \in Ways(chunk, b, here) : Backed(b, q, t)
    BY <1>1, <2>1, BackedAfter DEF b
  <2>3. \A q \in Places(b) : atDoor[q] # <<>> => Backed(b, q, atDoor[q][1])
    BY DEF BodyInv, AllBacked, b
  <2>4. ASSUME NEW q \in Places(b), D[q] # <<>>  PROVE Backed(b, q, D[q][1])
    <3>1. CASE q \in Arrives
      <4>1. PICK u : D[q] = <<u>> /\ Merges(b, atDoor, q, t, u)
        BY <1>8, <3>1
      <4>2. D[q][1] = u
        BY <4>1
      <4>3. Backed(b, q, t)
        BY <1>3, <2>2, <3>1
      <4> QED  BY <2>3, <4>1, <4>2, <4>3 DEF Merges
    <3>2. CASE q \notin Arrives
      BY <1>7, <2>3, <2>4, <3>2
    <3> QED  BY <3>1, <3>2
  <2> QED  BY <1>10, <2>2, <2>4 DEF AllBacked
<1>13. PICK V, W : Walked(b, atDoor, asking, here, state, V, W)
  BY DEF BodyInv, Walk, b
<1>14. /\ V \subseteq Places(b) /\ W \in [V -> States(b)] /\ here \in V /\ W[here] = state
       /\ atDoor[1] # <<>> /\ Weaker(Entry(chunk, b), atDoor[1][1])
  BY <1>13 DEF Walked
<1> DEFINE V2 == IF h = 0 THEN V ELSE V \cup {h}
           W2 == [p \in V2 |-> IF p = h THEN t ELSE W[p]]
<1>15. /\ V2 \subseteq Places(b) /\ W2 \in [V2 -> States(b)] /\ V \subseteq V2
       /\ h # 0 => h \in V2 /\ W2[h] = t
       /\ \A p \in V2 : p # h => p \in V /\ W2[p] = W[p]
  BY <1>5, <1>10, <1>14
<1> HIDE DEF V2, W2
<1>16. ASSUME NEW p \in V2, p # h
       PROVE  /\ ~Misreads(chunk, Op(b, p), W2[p])
              /\ \A q \in Ways(chunk, b, p) : Handed(b, D, V2, W2, q, After(chunk, Op(b, p), W2[p]))
  <2>1. p \in V /\ W2[p] = W[p] /\ p \in Places(b)
    BY <1>14, <1>15, <1>16
  <2>2. CASE p = here
    <3>1. W[p] = state /\ ~Misreads(chunk, Op(b, p), W[p]) /\ After(chunk, Op(b, p), W[p]) = t
      BY <1>14, <2>2 DEF b
    <3>2. ASSUME NEW q \in Ways(chunk, b, p)  PROVE Handed(b, D, V2, W2, q, t)
      <4>1. CASE q \in ds
        <5>1. q \in Arrives /\ q \in Places(b)
          BY <1>3, <1>4, <2>2, <3>2, <4>1 DEF ds, b
        <5> QED  BY <1>9, <4>1, <5>1 DEF Handed, ds, Code, b
      <4>2. CASE q \notin ds
        <5>1. q \in FallsTo \ ds /\ q = here + 1
          BY <1>3, <2>2, <3>2, <4>2 DEF ds, b
        <5>2. h = q /\ h # 0
          BY <1>1, <1>2, <5>1 DEF ds, b
        <5> QED  BY <1>5, <1>15, <4>2, <5>2, WeakerSelf DEF Handed, ds, Code, b
      <4> QED  BY <4>1, <4>2
    <3> QED  BY <2>1, <3>1, <3>2
  <2>3. CASE p # here
    <3>1. /\ ~Misreads(chunk, Op(b, p), W[p])
          /\ \A q \in Ways(chunk, b, p) : Handed(b, atDoor, V, W, q, After(chunk, Op(b, p), W[p]))
      BY <1>13, <2>1, <2>3 DEF Walked
    <3>2. W[p] \in States(b)
      BY <1>14, <2>1
    <3>3. After(chunk, Op(b, p), W[p]) \in States(b)
      BY <2>1, <3>2, AfterState DEF b
    <3>4. ASSUME NEW q \in Ways(chunk, b, p)
          PROVE  Handed(b, D, V2, W2, q, After(chunk, Op(b, p), W[p]))
      <4>1. Handed(b, atDoor, V, W, q, After(chunk, Op(b, p), W[p])) /\ q \in Places(b)
        BY <2>1, <3>1, <3>4 DEF Good, b
      <4>2. CASE q \in ds
        <5>1. atDoor[q] # <<>> /\ Weaker(After(chunk, Op(b, p), W[p]), atDoor[q][1])
          BY <4>1, <4>2 DEF Handed, ds, Code, b
        <5>2. D[q] # <<>> /\ Weaker(atDoor[q][1], D[q][1])
          BY <1>9, <4>1, <5>1
        <5>3. atDoor[q][1] \in States(b) /\ D[q][1] \in States(b)
          <6>1. atDoor[q] \in {<<u>> : u \in States(b)} /\ D[q] \in {<<u>> : u \in States(b)}
            BY <1>1, <1>9, <4>1, <5>1, <5>2
          <6> QED  BY <6>1
        <5>4. Weaker(After(chunk, Op(b, p), W[p]), D[q][1])
          BY <3>3, <5>1, <5>2, <5>3, WeakerStill
        <5> QED  BY <4>2, <5>2, <5>4 DEF Handed, ds, Code, b
      <4>3. CASE q \notin ds
        <5>1. q \in V /\ Weaker(After(chunk, Op(b, p), W[p]), W[q]) /\ q = p + 1
          BY <2>1, <3>4, <4>1, <4>3, AlongFrom DEF Handed, ds, Code, b
        <5>2. q # h
          BY <1>1, <1>2, <1>10, <2>1, <2>3, <4>1, <5>1 DEF b
        <5>3. q \in V2 /\ W2[q] = W[q]
          BY <1>15, <5>1, <5>2
        <5> QED  BY <4>3, <5>1, <5>3 DEF Handed, ds, Code, b
      <4> QED  BY <4>2, <4>3
    <3> QED  BY <2>1, <3>1, <3>4
  <2> QED  BY <2>2, <2>3
<1>17. ASSUME NEW d \in ds, D[d] # <<>>
       PROVE  d \in A \/ (d \in V2 /\ W2[d] = D[d][1])
  <2>1. CASE d \in Changed(t)
    BY <2>1 DEF A
  <2>2. CASE d \notin Changed(t)
    <3>1. D[d] = atDoor[d]
      BY <1>4, <1>7, <2>2 DEF ds, b
    <3>2. d \in asking \/ (d \in V /\ W[d] = atDoor[d][1])
      BY <1>13, <1>17, <3>1 DEF Walked, ds, Code, b
    <3>3. d # h
      BY <1>2, <1>4, <1>10, <1>17 DEF ds, b
    <3>4. d \in V => d \in V2 /\ W2[d] = W[d]
      BY <1>15, <3>3
    <3> QED  BY <3>1, <3>2, <3>4 DEF A
  <2> QED  BY <2>1, <2>2
<1>18. D[1] # <<>> /\ Weaker(Entry(chunk, b), D[1][1])
  <2>1. 1 \in Places(b) /\ Entry(chunk, b) \in States(b)
    BY FillingIs DEF Good, b
  <2>2. D[1] # <<>> /\ Weaker(atDoor[1][1], D[1][1])
    BY <1>9, <1>14, <2>1
  <2>3. atDoor[1][1] \in States(b) /\ D[1][1] \in States(b)
    <3>1. atDoor[1] \in {<<u>> : u \in States(b)} /\ D[1] \in {<<u>> : u \in States(b)}
      BY <1>1, <1>9, <1>14, <2>1, <2>2 DEF b
    <3> QED  BY <3>1
  <2> QED  BY <1>14, <2>1, <2>2, <2>3, WeakerStill
<1>19. Walked(b, D, A, h, s, V2, W2)
  BY <1>10, <1>15, <1>16, <1>17, <1>18 DEF Walked, ds, Code, b
<1> QED  BY <1>11, <1>12, <1>19 DEF BodyInv, Walk, A, b

-----------------------------------------------------------------------------
(* The inductive invariant, over every body of the chunk. *)

TInv ==
    /\ WellFormed /\ body \in Bodies
    /\ verdict \in {"open", "refused", "loaded"}
    /\ BodyInv(body, atDoor, asking, here, state)
    /\ asking \subseteq Doors(Code)
    /\ \A b \in Bodies : b < body => Certified(b)
    /\ verdict = "loaded" => here = 0 /\ asking = {} /\ body = Len(chunk.funcs)
    /\ verdict = "refused" => here # 0 /\ Misreads(chunk, Op(body, here), state)

\* Nothing that is said of a chunk changes while it is looked at.
LEMMA SameOps ==
    ASSUME chunk' = chunk
    PROVE  /\ \A b : CodeOf(chunk, b)' = CodeOf(chunk, b) /\ Entry(chunk, b)' = Entry(chunk, b)
           /\ \A op : Claims(chunk, op)' = Claims(chunk, op) /\ Writes(chunk, op)' = Writes(chunk, op)
           /\ \A op : Malformed(chunk, op)' = Malformed(chunk, op)
<1>1. \A b : CodeOf(chunk, b)' = CodeOf(chunk, b) /\ Entry(chunk, b)' = Entry(chunk, b)
  BY DEF CodeOf, Entry, RegistersOf
<1>2. \A op : Claims(chunk, op)' = Claims(chunk, op)
  BY DEF Claims
<1>3. \A op : Writes(chunk, op)' = Writes(chunk, op)
  BY DEF Writes
<1>4. \A op : Malformed(chunk, op)' = Malformed(chunk, op)
  BY DEF Malformed
<1> QED  BY <1>1, <1>2, <1>3, <1>4

\* What an instruction reads and leaves does not change with the walk.
LEMMA SameSteps ==
    ASSUME chunk' = chunk
    PROVE  /\ \A op, held : Misreads(chunk, op, held)' = Misreads(chunk, op, held)
           /\ \A op, held : After(chunk, op, held)' = After(chunk, op, held)
           /\ \A b, op, r, k : Becomes(b, op, r, k)' = Becomes(b, op, r, k)
           /\ \A b, p : Op(b, p)' = Op(b, p) /\ Ways(chunk, b, p)' = Ways(chunk, b, p)
           /\ \A b : Places(b)' = Places(b) /\ Registers(b)' = Registers(b)
<1>1. /\ \A b : CodeOf(chunk, b)' = CodeOf(chunk, b) /\ Entry(chunk, b)' = Entry(chunk, b)
      /\ \A op : Claims(chunk, op)' = Claims(chunk, op) /\ Writes(chunk, op)' = Writes(chunk, op)
      /\ \A op : Malformed(chunk, op)' = Malformed(chunk, op)
  BY SameOps
<1>2. \A op, held : Misreads(chunk, op, held)' = Misreads(chunk, op, held)
  BY <1>1 DEF Misreads
<1>3. \A op, held : After(chunk, op, held)' = After(chunk, op, held)
  <2> SUFFICES ASSUME NEW op, NEW held  PROVE After(chunk, op, held)' = After(chunk, op, held)
    OBVIOUS
  <2>1. After(chunk, op, held) =
            IF Writes(chunk, op) = {} THEN held
            ELSE [held EXCEPT ![Chosen(Writes(chunk, op))[1]] = Chosen(Writes(chunk, op))[2]]
    BY DEF After, Chosen
  <2>2. After(chunk, op, held)' =
            IF Writes(chunk, op)' = {} THEN held
            ELSE [held EXCEPT ![Chosen(Writes(chunk, op)')[1]] = Chosen(Writes(chunk, op)')[2]]
    BY DEF After, Chosen
  <2>3. Writes(chunk, op)' = Writes(chunk, op)
    BY <1>1
  <2> QED  BY <2>1, <2>2, <2>3
<1>4. \A b, p : Op(b, p)' = Op(b, p)
  BY <1>1 DEF Op
<1>5. \A b, p : Ways(chunk, b, p)' = Ways(chunk, b, p)
  BY <1>4 DEF Ways
<1>6. \A b : Places(b)' = Places(b) /\ Registers(b)' = Registers(b)
  BY <1>1 DEF Places, Registers
<1>7. \A b, op, r, k : Becomes(b, op, r, k)' = Becomes(b, op, r, k)
  <2>1. \A op : Written(op)' = Written(op)
    <3> SUFFICES ASSUME NEW op  PROVE Written(op)' = Written(op)
      OBVIOUS
    <3>1. Writes(chunk, op)' = Writes(chunk, op)
      BY <1>1
    <3> QED  BY <3>1 DEF Written
  <2> QED  BY <1>1, <1>6, <2>1 DEF Becomes, Hits
<1> QED  BY <1>2, <1>3, <1>4, <1>5, <1>6, <1>7

\* So what has been found of a body stays found.
LEMMA SameWalk ==
    ASSUME chunk' = chunk
    PROVE  /\ WellFormed' = WellFormed /\ Bodies' = Bodies
           /\ \A b : Certified(b) => Certified(b)'
           /\ \A b, D, A, h, s : BodyInv(b, D, A, h, s) => BodyInv(b, D, A, h, s)'
           /\ \A b : Doorways(b)' = Doorways(b)
<1>1. /\ \A b : CodeOf(chunk, b)' = CodeOf(chunk, b) /\ Entry(chunk, b)' = Entry(chunk, b)
      /\ \A op : Claims(chunk, op)' = Claims(chunk, op) /\ Writes(chunk, op)' = Writes(chunk, op)
  BY SameOps
<1>2. /\ \A op, held : Misreads(chunk, op, held)' = Misreads(chunk, op, held)
      /\ \A op, held : After(chunk, op, held)' = After(chunk, op, held)
      /\ \A b, op, r, k : Becomes(b, op, r, k)' = Becomes(b, op, r, k)
      /\ \A b, p : Op(b, p)' = Op(b, p) /\ Ways(chunk, b, p)' = Ways(chunk, b, p)
      /\ \A b : Places(b)' = Places(b) /\ Registers(b)' = Registers(b)
  BY SameSteps
<1>3. \A b : States(b)' = States(b)
  BY <1>2 DEF States
<1>4. Bodies' = Bodies
  BY DEF Bodies
<1>5. \A b : Doorways(b)' = Doorways(b)
  BY <1>1 DEF Doorways
<1>6. WellFormed' = WellFormed
  <2>1. \A b : CheckedBody(b)' = CheckedBody(b)
    BY <1>1 DEF CheckedBody, EndsRightly, Placed, RegistersOf
  <2> QED  BY <1>1, <2>1 DEF WellFormed
<1>7. \A b, V, W : Certificate(b, V, W) => Certificate(b, V, W)'
  BY <1>1, <1>2, <1>3 DEF Certificate
<1>8. \A b : Certified(b) => Certified(b)'
  BY <1>7 DEF Certified
<1>9. \A b, D, A, h, s : Shape(b, D, A, h, s) => Shape(b, D, A, h, s)'
  BY <1>2, <1>3 DEF Shape
<1>10. \A b, D, V, W, q, t : Handed(b, D, V, W, q, t) => Handed(b, D, V, W, q, t)'
  BY <1>1 DEF Handed
<1>11. \A b, D, A, h, s, V, W : Walked(b, D, A, h, s, V, W) => Walked(b, D, A, h, s, V, W)'
  BY <1>1, <1>2, <1>3, <1>10 DEF Walked
<1>12. \A b, D, A, h, s : Walk(b, D, A, h, s) => Walk(b, D, A, h, s)'
  BY <1>11 DEF Walk
<1>13. \A b, r, X : Closed(b, r, X)' = Closed(b, r, X)
  BY <1>1, <1>2 DEF Closed
<1>14. \A b, p, s : Backed(b, p, s) => Backed(b, p, s)'
  BY <1>13 DEF Backed
<1>15. \A b, D, h, s : AllBacked(b, D, h, s) => AllBacked(b, D, h, s)'
  BY <1>2, <1>14 DEF AllBacked
<1> QED  BY <1>4, <1>5, <1>6, <1>8, <1>9, <1>12, <1>15 DEF BodyInv

\* A step that stays in a body keeps the invariant if it keeps what is said of it.
LEMMA StaysInBody ==
    ASSUME TInv, chunk' = chunk, body' = body,
           BodyInv(body, atDoor', asking', here', state'),
           asking' \subseteq Doors(Code), verdict' \in {"open", "refused", "loaded"},
           verdict' = "loaded" => here' = 0 /\ asking' = {} /\ body = Len(chunk.funcs),
           verdict' = "refused" => here' # 0 /\ Misreads(chunk, Op(body, here'), state')
    PROVE  TInv'
<1>1. /\ WellFormed' = WellFormed /\ Bodies' = Bodies
      /\ \A b : Certified(b) => Certified(b)'
      /\ \A b, D, A, h, s : BodyInv(b, D, A, h, s) => BodyInv(b, D, A, h, s)'
  BY SameWalk
<1>2. WellFormed' /\ (body \in Bodies)'
  BY <1>1 DEF TInv
<1>3. BodyInv(body, atDoor, asking, here, state)'
  BY <1>1
<1>4. Code' = Code
  BY DEF Code, CodeOf
<1>5. (\A b \in Bodies : b < body => Certified(b))'
  BY <1>1 DEF TInv
<1>6. (verdict = "refused" => here # 0 /\ Misreads(chunk, Op(body, here), state))'
  BY SameSteps
<1> QED  BY <1>2, <1>3, <1>4, <1>5, <1>6 DEF TInv

\* The walk begins with its entry known and asked for.
LEMMA TypedBegins == TypedInit => TInv
<1> SUFFICES ASSUME TypedInit  PROVE TInv
  OBVIOUS
<1>1. WellFormed /\ verdict = "open" /\ body = 0 /\ here = 0 /\ state = <<>>
      /\ atDoor = Doorways(0) /\ asking = {1}
  BY DEF TypedInit
<1>2. Len(chunk.funcs) \in Nat /\ 0 \in Bodies
  BY <1>1, ListHas DEF WellFormed, Bodies
<1>3. Good(0)
  BY <1>1, <1>2, BodyGood
<1>4. BodyInv(0, Doorways(0), {1}, 0, <<>>) /\ 1 \in Doors(CodeOf(chunk, 0))
  BY <1>3, BodyBegins, DoorsIn
<1> QED  BY <1>1, <1>2, <1>4 DEF TInv, Code, Bodies

\* What the invariant says of the body that is walked.
LEMMA BodyHas ==
    ASSUME TInv
    PROVE  /\ Good(body) /\ Len(chunk.funcs) \in Nat
           /\ here \in {0} \cup Places(body)
           /\ \A d \in asking : d \in Places(body)
<1>1. Good(body)
  BY BodyGood DEF TInv
<1>2. Len(chunk.funcs) \in Nat
  BY ListHas DEF TInv, WellFormed
<1> QED  BY <1>1, <1>2 DEF TInv, BodyInv, Shape

\* Taking up the first door asked for keeps what is known of every other.
LEMMA AskDoorKeeps == TInv /\ AskDoor => TInv'
<1> SUFFICES ASSUME TInv, AskDoor  PROVE TInv'
  OBVIOUS
<1> DEFINE d == CHOOSE door \in asking : \A other \in asking : door <= other
<1>1. Good(body) /\ Places(body) \subseteq Nat \ {0} /\ asking \subseteq Places(body)
  BY BodyHas DEF Good
<1>2. /\ asking # {} /\ here = 0 /\ verdict = "open"
      /\ here' = d /\ state' = atDoor[d][1] /\ asking' = asking \ {d}
      /\ chunk' = chunk /\ body' = body /\ atDoor' = atDoor /\ verdict' = verdict
  BY DEF AskDoor
<1>3. d \in asking
  <2>1. PICK x \in asking : \A y \in asking : ~(y < x)
    BY <1>1, <1>2, LeastNatural
  <2>2. \A y \in asking : x <= y
    BY <1>1, <2>1
  <2> QED  BY <2>1, <2>2
<1> HIDE DEF d
<1>4. d \in Doors(CodeOf(chunk, body)) /\ BodyInv(body, atDoor, asking, 0, state)
      /\ asking \subseteq Doors(Code)
  BY <1>2, <1>3 DEF TInv, Code
<1>5. BodyInv(body, atDoor, asking \ {d}, d, atDoor[d][1])
  BY <1>1, <1>3, <1>4, BodyAsks
<1> QED  BY <1>2, <1>4, <1>5, StaysInBody

\* Refusing changes nothing that is known.
LEMMA RefuseKeeps == TInv /\ Refuse => TInv'
<1> SUFFICES ASSUME TInv, Refuse  PROVE TInv'
  OBVIOUS
<1>1. /\ here # 0 /\ Misreads(chunk, Op(body, here), state) /\ verdict' = "refused"
      /\ chunk' = chunk /\ body' = body /\ atDoor' = atDoor /\ asking' = asking
      /\ here' = here /\ state' = state
  BY DEF Refuse, Op, Code
<1>2. BodyInv(body, atDoor, asking, here, state) /\ asking \subseteq Doors(Code)
  BY DEF TInv
<1> QED  BY <1>1, <1>2, StaysInBody

\* One instruction walked: it is in the history, and what it hands on is merged.
LEMMA WalkOneKeeps == TInv /\ WalkOne => TInv'
<1> SUFFICES ASSUME TInv, WalkOne  PROVE TInv'
  OBVIOUS
<1> DEFINE t == After(chunk, Op(body, here), state)
<1>1. Good(body) /\ here \in {0} \cup Places(body)
  BY BodyHas
<1>2. /\ here # 0 /\ ~Misreads(chunk, Op(body, here), state) /\ verdict = "open"
      /\ atDoor' = [at \in DOMAIN atDoor |->
                       IF at \in Changed(t) THEN Merged(at, t) ELSE atDoor[at]]
      /\ asking' = asking \cup Changed(t)
      /\ here' = IF FallsTo \ Doors(Code) = {} THEN 0 ELSE here + 1
      /\ state' = IF FallsTo \ Doors(Code) = {} THEN <<>> ELSE t
      /\ chunk' = chunk /\ body' = body /\ verdict' = verdict
  BY DEF WalkOne, Op, Code
<1>3. BodyInv(body, atDoor, asking, here, state) /\ asking \subseteq Doors(Code)
  BY DEF TInv
<1> HIDE DEF t
<1>4. t = After(chunk, Op(body, here), state)
  BY DEF t
<1>5. IF FallsTo \ Doors(Code) = {} THEN here' = 0 ELSE here' = here + 1 /\ state' = t
  BY <1>2
<1>6. BodyInv(body, atDoor', asking', here', state')
  BY <1>1, <1>2, <1>3, <1>4, <1>5, BodySteps
<1>7. Changed(t) \subseteq Doors(Code)
  BY <1>1, <1>2, HandsOn DEF Changed
<1> QED  BY <1>2, <1>3, <1>6, <1>7, StaysInBody

\* A body is left with its certificate, and the next begins afresh.
LEMMA NextBodyKeeps == TInv /\ NextBody => TInv'
<1> SUFFICES ASSUME TInv, NextBody  PROVE TInv'
  OBVIOUS
<1> DEFINE b == body + 1
<1>1. /\ here = 0 /\ asking = {} /\ verdict = "open" /\ body < Len(chunk.funcs)
      /\ body' = b /\ atDoor' = Doorways(b) /\ asking' = {1} /\ here' = 0 /\ state' = <<>>
      /\ chunk' = chunk /\ verdict' = verdict
  BY DEF NextBody, Enter
<1>2. Good(body) /\ Len(chunk.funcs) \in Nat /\ body \in Bodies /\ WellFormed
      /\ BodyInv(body, atDoor, {}, 0, state)
      /\ \A c \in Bodies : c < body => Certified(c)
  BY <1>1, BodyHas DEF TInv
<1>3. Certified(body)
  BY <1>2, BodyEnds
<1>4. b \in Bodies /\ body \in Int /\ \A c \in Bodies : c < b => c < body \/ c = body
  BY <1>1, <1>2 DEF Bodies
<1>5. \A c \in Bodies : c < b => Certified(c)
  BY <1>2, <1>3, <1>4
<1>6. Good(b)
  BY <1>2, <1>4, BodyGood
<1>7. BodyInv(b, Doorways(b), {1}, 0, <<>>) /\ 1 \in Doors(CodeOf(chunk, b))
  BY <1>6, BodyBegins, DoorsIn
<1> HIDE DEF b
<1>8. /\ WellFormed' = WellFormed /\ Bodies' = Bodies
      /\ \A c : Certified(c) => Certified(c)'
      /\ \A c, D, A, h, s : BodyInv(c, D, A, h, s) => BodyInv(c, D, A, h, s)'
      /\ \A c : CodeOf(chunk, c)' = CodeOf(chunk, c)
  BY <1>1, SameWalk, SameOps
<1>9. BodyInv(body, atDoor, asking, here, state)'
  BY <1>1, <1>7, <1>8
<1>10. WellFormed' /\ (body \in Bodies)' /\ (\A c \in Bodies : c < body => Certified(c))'
  BY <1>1, <1>2, <1>4, <1>5, <1>8
<1>11. (asking \subseteq Doors(Code))'
  BY <1>1, <1>7, <1>8 DEF Code
<1> QED  BY <1>1, <1>9, <1>10, <1>11 DEF TInv

\* A chunk is believed once its last body asks for nothing more.
LEMMA BelieveKeeps == TInv /\ Believe => TInv'
<1> SUFFICES ASSUME TInv, Believe  PROVE TInv'
  OBVIOUS
<1>1. /\ here = 0 /\ asking = {} /\ body = Len(chunk.funcs) /\ verdict' = "loaded"
      /\ chunk' = chunk /\ body' = body /\ atDoor' = atDoor /\ asking' = asking
      /\ here' = here /\ state' = state
  BY DEF Believe
<1>2. BodyInv(body, atDoor, asking, here, state) /\ asking \subseteq Doors(Code)
  BY DEF TInv
<1> QED  BY <1>1, <1>2, StaysInBody

\* Every step keeps the invariant.
LEMMA TypedNext == TInv /\ [Typing]_typedVars => TInv'
<1> SUFFICES ASSUME TInv, UNCHANGED typedVars  PROVE TInv'
  BY AskDoorKeeps, RefuseKeeps, WalkOneKeeps, NextBodyKeeps, BelieveKeeps DEF Typing
<1>1. /\ chunk' = chunk /\ body' = body /\ atDoor' = atDoor /\ asking' = asking
      /\ here' = here /\ state' = state /\ verdict' = verdict
  BY DEF typedVars
<1> QED  BY <1>1, StaysInBody DEF TInv

\* Every body of what is loaded has a certificate.
LEMMA LoadedCertified ==
    ASSUME TInv, verdict = "loaded", NEW b \in Bodies
    PROVE  Good(b) /\ Certified(b)
<1>1. Good(b)
  BY BodyGood DEF TInv
<1>2. CASE b < body
  BY <1>1, <1>2 DEF TInv
<1>3. CASE ~(b < body)
  <2>1. b = body
    BY <1>3, BodyHas DEF TInv, Bodies
  <2> QED  BY <1>1, <2>1, BodyEnds DEF TInv
<1> QED  BY <1>1, <1>2, <1>3

\* What is loaded can be followed on every way for any number of steps, and no
\* instruction finds in a register what it does not say it has, where no call's
\* arguments go past the last register.
SoundAt(n) == verdict = "loaded" => \A b \in Bodies : Contained(b) => HonestWithin(b, n)

\* The walk believes a chunk only if, as far as any way through any of its bodies is
\* followed, nothing is misread.
THEOREM LoadedIsSound ==
    ASSUME NEW n \in Nat
    PROVE  TypedSpec => []SoundAt(n)
<1>1. TInv => SoundAt(n)
  <2> SUFFICES ASSUME TInv, verdict = "loaded", NEW b \in Bodies, Contained(b)  PROVE HonestWithin(b, n)
    BY DEF SoundAt
  <2> QED  BY LoadedCertified, CertifiedHonest
<1> QED  BY <1>1, TypedBegins, TypedNext, PTL DEF TypedSpec

\* The walk refuses exactly the bodies of which some way misreads a register: what it
\* loads is honest, and what it refuses is not.
THEOREM TypesHonestly == TypedSpec => []LoadedIsHonest
<1>1. TInv => LoadedIsHonest
  <2> SUFFICES ASSUME TInv  PROVE LoadedIsHonest
    OBVIOUS
  <2>1. ASSUME verdict = "loaded", NEW b \in Bodies, Contained(b)  PROVE HonestBody(b)
    <3>1. Good(b) /\ Certified(b)
      BY <2>1, LoadedCertified
    <3>2. Patience(b) \in Nat
      BY <3>1, KindsFinite DEF Patience, Good
    <3> QED  BY <2>1, <3>1, <3>2, CertifiedHonest DEF HonestBody
  <2>2. ASSUME verdict = "refused"  PROVE ~HonestBody(body)
    <3>1. Good(body) /\ here \in Places(body) /\ Misreads(chunk, Op(body, here), state)
      BY <2>2, BodyHas DEF TInv
    <3>2. state \in States(body) /\ Backed(body, here, state)
      BY <2>2 DEF TInv, BodyInv, Shape, AllBacked
    <3> QED  BY <3>1, <3>2, RefusedRightly
  <2> QED  BY <2>1, <2>2 DEF LoadedIsHonest, Bodies
<1> QED  BY <1>1, TypedBegins, TypedNext, PTL DEF TypedSpec

\* Every body of what is loaded has its types shown.
Demonstrated == verdict = "loaded" => \A b \in Bodies : \E known : Demonstrates(chunk, b, known)

\* What the walk ends with shows the types of every body it loads: what the
\* machine takes of a chunk it is given (module Machine, ChunksAssumption).
THEOREM LoadedDemonstrates == TypedSpec => []Demonstrated
<1>1. TInv => Demonstrated
  <2> SUFFICES ASSUME TInv, verdict = "loaded", NEW b \in Bodies
               PROVE  \E known : Demonstrates(chunk, b, known)
    BY DEF Demonstrated
  <2>1. PICK V, W : Certificate(b, V, W)
    BY LoadedCertified DEF Certified
  <2>2. DOMAIN W = V /\ Registers(b) = 0 .. RegistersOf(chunk, b) - 1
    BY <2>1 DEF Certificate, Registers, Entry
  <2>3. Demonstrates(chunk, b, W)
    BY <2>1, <2>2 DEF Certificate, Demonstrates, States, Places, Op
  <2> QED  BY <2>3
<1> QED  BY <1>1, TypedBegins, TypedNext, PTL DEF TypedSpec

=============================================================================
