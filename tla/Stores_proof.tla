----------------------------- MODULE Stores_proof -----------------------------
(***************************************************************************)
(* Proofs about what the history threads make durable. Of pulses and their     *)
(* reminders, for any pulses, scopes, levels, batch sizes and limits: nothing  *)
(* is lost while the process lives, nobody starves, and nothing that was       *)
(* stored or told is taken back. Of the cohorts of scores, for any horizons,    *)
(* shares and limits: a verdict rests on what was looked at, cohorts follow     *)
(* each other, and a verdict stands. Of the samples of the books: each is in   *)
(* the files, waits, or was counted as dropped, and the first of a bucket stays. *)
(* Of the opening episodes of a spread: the table holds those of the readings    *)
(* its states rest on, however the writes, failures and restarts fell.           *)
(***************************************************************************)
EXTENDS PulseStore, Cohorts, BookSamples, Episodes, FiniteSetTheorems, SequenceTheorems, TLAPS

-----------------------------------------------------------------------------
(* Sequences, the life of pulses, and the queue. *)

\* A set of numbers that is not empty has a least one: what induction on numbers needs.
LEMMA LeastExists ==
  ASSUME NEW S, S \subseteq Nat, S # {}
  PROVE  \E m \in S : \A u \in S : m <= u
<1>1. PICK m \in S : \A u \in S : ~ (<<u, m>> \in OpToRel(<, Nat))
  BY NatLessThanWellFounded, WFMin
<1>2. \A u \in S : ~ (u < m)
  BY <1>1 DEF OpToRel
<1>3. QED BY <1>2

\* A function on an interval from one on is a sequence.
LEMMA FunctionIsSeq ==
  ASSUME NEW S, NEW n \in Nat, NEW f \in [1 .. n -> S]
  PROVE  f \in Seq(S) /\ Len(f) = n
BY SeqDef

\* The recursion of Only, up to m.
KeptUpTo(seq, set, f, m) ==
  f = [n \in 0 .. m |-> IF n = 0 THEN <<>>
                        ELSE IF seq[n] \in set THEN Append(f[n - 1], seq[n]) ELSE f[n - 1]]

\* It has a solution.
LEMMA KeptExists ==
  ASSUME NEW s, NEW E, NEW m \in Nat
  PROVE  \E f : KeptUpTo(s, E, f, m)
<1> DEFINE Bad == {n \in Nat : ~ \E f : KeptUpTo(s, E, f, n)}
<1>1. SUFFICES ASSUME Bad # {} PROVE FALSE
  OBVIOUS
<1>2. PICK k \in Bad : \A u \in Bad : k <= u
  BY <1>1, LeastExists
<1>3. k # 0
  <2>1. KeptUpTo(s, E, [n \in 0 .. 0 |-> <<>>], 0)
    BY DEF KeptUpTo
  <2>2. QED BY <2>1
<1>4. k - 1 \in Nat /\ k - 1 \notin Bad
  BY <1>2, <1>3
<1>5. PICK f : KeptUpTo(s, E, f, k - 1)
  BY <1>4
<1> DEFINE g == [n \in 0 .. k |-> IF n < k THEN f[n]
                                  ELSE IF s[n] \in E THEN Append(f[n - 1], s[n]) ELSE f[n - 1]]
<1>6. KeptUpTo(s, E, g, k)
  <2>1. \A n \in 0 .. k : n < k => g[n] = f[n]
    OBVIOUS
  <2>2. ASSUME NEW n \in 0 .. k
        PROVE  g[n] = IF n = 0 THEN <<>> ELSE IF s[n] \in E THEN Append(g[n - 1], s[n]) ELSE g[n - 1]
    <3>1. CASE n = k
      BY <3>1, <1>3, <1>4, <2>1
    <3>2. CASE n # k
      <4>1. n \in 0 .. k - 1 /\ n < k /\ (n # 0 => n - 1 \in 0 .. k /\ n - 1 < k)
        BY <3>2, <1>4
      <4>2. f[n] = IF n = 0 THEN <<>> ELSE IF s[n] \in E THEN Append(f[n - 1], s[n]) ELSE f[n - 1]
        BY <1>5, <4>1 DEF KeptUpTo
      <4>3. QED BY <4>1, <4>2, <2>1
    <3>3. QED BY <3>1, <3>2
  <2>3. QED BY <2>2 DEF KeptUpTo
<1>7. QED BY <1>6

\* What a sequence keeps of its first n elements: g says where they were.
Selects(s, E, n, t, g) ==
  /\ g \in [1 .. Len(t) -> 1 .. n]
  /\ \A k \in 1 .. Len(t) : t[k] = s[g[k]] /\ s[g[k]] \in E
  /\ \A k, l \in 1 .. Len(t) : k < l => g[k] < g[l]
  /\ \A i \in 1 .. n : s[i] \in E => \E k \in 1 .. Len(t) : g[k] = i

\* One more element is kept or passed over.
LEMMA SelectsMore ==
  ASSUME NEW T, NEW s \in Seq(T), NEW E, NEW n \in 1 .. Len(s), NEW t \in Seq(T), NEW g,
         Selects(s, E, n - 1, t, g)
  PROVE  IF s[n] \in E THEN \E h : Selects(s, E, n, Append(t, s[n]), h)
                       ELSE Selects(s, E, n, t, g)
<1>0. Len(t) \in Nat /\ Len(s) \in Nat /\ n \in Nat
  BY LenProperties
<1>1. CASE s[n] \notin E
  <2>1. g \in [1 .. Len(t) -> 1 .. n]
    BY <1>0 DEF Selects
  <2>2. \A i \in 1 .. n : s[i] \in E => i \in 1 .. n - 1
    BY <1>0, <1>1
  <2>3. QED BY <1>1, <2>1, <2>2 DEF Selects
<1>2. CASE s[n] \in E
  <2> DEFINE u == Append(t, s[n])
             h == [k \in 1 .. Len(u) |-> IF k = Len(u) THEN n ELSE g[k]]
  <2>1. /\ u \in Seq(T) /\ Len(u) = Len(t) + 1 /\ u[Len(t) + 1] = s[n]
        /\ \A k \in 1 .. Len(t) : u[k] = t[k]
    <3>1. s[n] \in T
      BY ElementOfSeq
    <3>2. QED BY <3>1, AppendProperties
  <2> HIDE DEF u
  <2>2. \A k \in 1 .. Len(u) : k = Len(u) \/ k \in 1 .. Len(t)
    BY <1>0, <2>1
  <2>3. ASSUME NEW k \in 1 .. Len(t)
        PROVE  k \in 1 .. Len(u) /\ k # Len(u) /\ h[k] = g[k] /\ g[k] \in 1 .. n - 1
    <3>1. k \in 1 .. Len(u) /\ k # Len(u)
      BY <1>0, <2>1
    <3>2. g[k] \in 1 .. n - 1
      BY DEF Selects
    <3>3. QED BY <3>1, <3>2
  <2>4. Len(u) \in 1 .. Len(u) /\ h[Len(u)] = n
    BY <1>0, <2>1
  <2> HIDE DEF h
  <2>5. h \in [1 .. Len(u) -> 1 .. n]
    <3>1. \A k \in 1 .. Len(u) : h[k] \in 1 .. n
      BY <2>2, <2>3, <2>4, <1>0
    <3>2. h = [k \in 1 .. Len(u) |-> h[k]]
      BY DEF h
    <3>3. QED BY <3>1, <3>2
  <2>6. \A k \in 1 .. Len(u) : u[k] = s[h[k]] /\ s[h[k]] \in E
    BY <2>1, <2>2, <2>3, <2>4, <1>2 DEF Selects
  <2>7. ASSUME NEW k \in 1 .. Len(u), NEW l \in 1 .. Len(u), k < l
        PROVE  h[k] < h[l]
    <3>1. k \in 1 .. Len(t)
      BY <2>7, <2>1, <1>0
    <3>2. CASE l = Len(u)
      BY <3>1, <3>2, <2>3, <2>4, <1>0
    <3>3. CASE l \in 1 .. Len(t)
      BY <3>1, <3>3, <2>3, <2>7 DEF Selects
    <3>4. QED BY <3>2, <3>3, <2>2
  <2>8. ASSUME NEW i \in 1 .. n, s[i] \in E
        PROVE  \E k \in 1 .. Len(u) : h[k] = i
    <3>1. CASE i = n
      BY <3>1, <2>4
    <3>2. CASE i # n
      <4>1. i \in 1 .. n - 1
        BY <3>2, <1>0
      <4>2. PICK k \in 1 .. Len(t) : g[k] = i
        BY <4>1, <2>8 DEF Selects
      <4>3. QED BY <4>2, <2>3
    <3>3. QED BY <3>1, <3>2
  <2>9. Selects(s, E, n, u, h)
    BY <2>5, <2>6, <2>7, <2>8 DEF Selects
  <2>10. QED BY <2>9, <1>2 DEF u
<1>3. QED BY <1>1, <1>2

\* Only keeps exactly those of the set, in their order.
LEMMA OnlyIs ==
  ASSUME NEW T, NEW s \in Seq(T), NEW E
  PROVE  Only(s, E) \in Seq(T) /\ \E g : Selects(s, E, Len(s), Only(s, E), g)
<1> DEFINE kept == CHOOSE f : KeptUpTo(s, E, f, Len(s))
           P(n) == kept[n] \in Seq(T) /\ \E g : Selects(s, E, n, kept[n], g)
           Bad == {n \in 0 .. Len(s) : ~ P(n)}
<1>0. Len(s) \in Nat
  BY LenProperties
<1>1. Only(s, E) = kept[Len(s)]
  BY DEF Only, KeptUpTo
<1>2. KeptUpTo(s, E, kept, Len(s))
  BY <1>0, KeptExists
<1> HIDE DEF kept
<1>3. kept[0] = <<>>
  BY <1>0, <1>2 DEF KeptUpTo
<1>4. \A n \in 1 .. Len(s) : kept[n] = IF s[n] \in E THEN Append(kept[n - 1], s[n]) ELSE kept[n - 1]
  <2>1. ASSUME NEW n \in 1 .. Len(s)
        PROVE  kept[n] = IF s[n] \in E THEN Append(kept[n - 1], s[n]) ELSE kept[n - 1]
    <3>1. n \in 0 .. Len(s) /\ n # 0
      BY <1>0
    <3>2. QED BY <3>1, <1>2 DEF KeptUpTo
  <2>2. QED BY <2>1
<1>5. Bad = {}
  <2>1. SUFFICES ASSUME Bad # {} PROVE FALSE
    OBVIOUS
  <2>2. Bad \subseteq Nat /\ Bad \subseteq 0 .. Len(s) /\ \A n \in 0 .. Len(s) : n \notin Bad => P(n)
    BY <1>0
  <2>3. PICK k \in Bad : \A u \in Bad : k <= u
    <3> HIDE DEF Bad
    <3>1. QED BY <2>1, <2>2, LeastExists
  <2>4. k # 0
    <3>1. <<>> \in Seq(T) /\ Len(<<>>) = 0
      BY EmptySeq
    <3>2. Selects(s, E, 0, <<>>, [i \in 1 .. 0 |-> 1])
      BY <3>1 DEF Selects
    <3>3. P(0)
      BY <3>1, <3>2, <1>3
    <3>4. QED BY <3>3
  <2>5. k \in 1 .. Len(s) /\ k - 1 \in 0 .. Len(s) /\ k - 1 \notin Bad
    <3> HIDE DEF Bad
    <3>1. QED BY <2>2, <2>3, <2>4, <1>0
  <2>6. P(k - 1)
    BY <2>2, <2>5
  <2>7. PICK g : Selects(s, E, k - 1, kept[k - 1], g)
    BY <2>6
  <2>8. IF s[k] \in E THEN \E h : Selects(s, E, k, Append(kept[k - 1], s[k]), h)
                      ELSE Selects(s, E, k, kept[k - 1], g)
    BY <2>5, <2>6, <2>7, SelectsMore
  <2>9. kept[k] \in Seq(T)
    <3>1. s[k] \in T
      BY <2>5, ElementOfSeq
    <3>2. kept[k] \in {Append(kept[k - 1], s[k]), kept[k - 1]} /\ kept[k - 1] \in Seq(T)
      BY <2>6, <1>4, <2>5
    <3>3. Append(kept[k - 1], s[k]) \in Seq(T)
      BY <3>1, <3>2, AppendProperties
    <3>4. QED BY <3>2, <3>3
  <2>10. P(k)
    BY <2>8, <2>9, <1>4, <2>5
  <2>11. QED BY <2>10, <2>3
<1>6. Len(s) \in 0 .. Len(s)
  BY <1>0
<1>7. P(Len(s))
  BY <1>5, <1>6
<1>8. QED BY <1>7, <1>1
\* What evidence may become: the same pulse, with a later version, more notices, a peak that
\* only moves outwards, and a stage that changes only with a notice or the end.
Later(e, f) ==
  /\ e.id = f.id /\ e.dir = f.dir
  /\ e.version <= f.version /\ (e.version = f.version => e = f)
  /\ (e.ended => e = f)
  /\ e.notice <= f.notice /\ (e.notice = f.notice /\ ~ f.ended => e.state = f.state)
  /\ (e.dir = 1 => e.peak <= f.peak) /\ (e.dir = -1 => f.peak <= e.peak)
LifeShape ==
  /\ now \in 0 .. MaxNow
  /\ life = [p \in DOMAIN life |-> life[p]] /\ DOMAIN life \subseteq Pulses
  /\ \A p \in DOMAIN life : life[p] \in Evidence /\ life[p].id = p
  /\ held \subseteq DOMAIN life \ lost /\ lost \subseteq DOMAIN life
  /\ \A p \in held : ~ life[p].ended

\* The numbers of evidence are numbers.
LEMMA EvidenceNumbers ==
  ASSUME NEW e \in Evidence
  PROVE  /\ e.version \in Nat \ {0} /\ e.notice \in Nat \ {0} /\ e.peak \in Int /\ e.baseline \in Int
         /\ e.dir \in {-1, 1} /\ e.ended \in BOOLEAN /\ e.peakAt \in Nat /\ e.triggeredAt \in Nat
         /\ e.id \in Pulses /\ e.state \in States
<1>1. Levels \subseteq Int /\ MaxNow \in Nat
  BY LifeAssumption
<1>2. e.peak \in Levels /\ e.baseline \in Levels /\ e.peakAt \in 0 .. MaxNow /\ e.triggeredAt \in 0 .. MaxNow
  BY DEF Evidence
<1>3. e.peak \in Int /\ e.baseline \in Int /\ e.peakAt \in Nat /\ e.triggeredAt \in Nat
  <2>1. e.peak \in Int /\ e.baseline \in Int
    BY <1>1, <1>2
  <2>2. \A n \in 0 .. MaxNow : n \in Nat
    BY <1>1
  <2>3. QED BY <1>2, <2>1, <2>2
<1>4. QED BY <1>3 DEF Evidence

\* It is an order.
LEMMA LaterOrders ==
  ASSUME NEW e \in Evidence
  PROVE  /\ Later(e, e)
         /\ \A f, g \in Evidence : Later(e, f) /\ Later(f, g) => Later(e, g)
<1>1. Later(e, e)
  BY EvidenceNumbers DEF Later
<1>2. ASSUME NEW f \in Evidence, NEW g \in Evidence, Later(e, f), Later(f, g)
      PROVE  Later(e, g)
  <2>1. /\ e.version \in Int /\ f.version \in Int /\ g.version \in Int
        /\ e.notice \in Int /\ f.notice \in Int /\ g.notice \in Int
        /\ e.peak \in Int /\ f.peak \in Int /\ g.peak \in Int
    BY EvidenceNumbers
  <2>2. e.id = g.id /\ e.dir = g.dir /\ e.version <= g.version /\ (e.version = g.version => e = g)
    BY <1>2, <2>1 DEF Later
  <2>3. e.ended => e = g
    BY <1>2 DEF Later
  <2>4. e.notice <= g.notice
    BY <1>2, <2>1 DEF Later
  <2>5. ASSUME e.notice = g.notice, ~ g.ended
        PROVE  e.state = g.state
    <3>1. e.notice = f.notice /\ f.notice = g.notice
      BY <1>2, <2>1, <2>5 DEF Later
    <3>2. ~ f.ended
      BY <1>2, <2>5 DEF Later
    <3>3. QED BY <1>2, <2>5, <3>1, <3>2 DEF Later
  <2>6. (e.dir = 1 => e.peak <= g.peak) /\ (e.dir = -1 => g.peak <= e.peak)
    BY <1>2, <2>1 DEF Later
  <2>7. QED BY <2>2, <2>3, <2>4, <2>5, <2>6 DEF Later
<1>3. QED BY <1>1, <1>2

\* What a tick makes of evidence that has not ended is later evidence.
LEMMA UpdatedLater ==
  ASSUME now \in 0 .. MaxNow, NEW e \in Evidence, ~ e.ended, NEW state \in States, NEW ended \in BOOLEAN,
         ended \/ state \in {e.state, "retraced", "expanded"}
  PROVE  LET f == Updated(e, state, ended)
         IN /\ f \in Evidence /\ Later(e, f) /\ f.id = e.id /\ f.ended = ended /\ f.peak = e.peak
            /\ f.baseline = e.baseline /\ f.dir = e.dir /\ e.version < f.version
            /\ f.notice \in {e.notice, e.notice + 1} /\ f.state = state
            /\ (f.notice = e.notice /\ ~ ended => state = e.state)
<1> DEFINE n == IF state # e.state /\ state \in {"retraced", "expanded"} THEN e.notice + 1 ELSE e.notice
           f == [e EXCEPT !.version = e.version + 1, !.state = state, !.ended = ended,
                          !.currentAt = now, !.notice = n]
<1>1. e.version \in Nat \ {0} /\ e.notice \in Nat \ {0} /\ e.peak \in Int
  BY EvidenceNumbers
<1>2. n \in Nat \ {0} /\ n \in {e.notice, e.notice + 1} /\ (n = e.notice /\ ~ ended => state = e.state)
  BY <1>1
<1>3. Updated(e, state, ended) = f
  BY DEF Updated, Evidence, n
<1> HIDE DEF n
<1>4. f \in Evidence
  <2>1. e.version + 1 \in Nat \ {0} /\ n \in Nat \ {0}
    BY <1>1, <1>2
  <2>2. QED BY <2>1 DEF Evidence
<1>5. /\ f.id = e.id /\ f.dir = e.dir /\ f.peak = e.peak /\ f.baseline = e.baseline
      /\ f.version = e.version + 1 /\ f.state = state /\ f.ended = ended /\ f.notice = n
  BY DEF Evidence
<1> HIDE DEF f
<1>6. Later(e, f) /\ e.version < f.version
  BY <1>1, <1>2, <1>5 DEF Later
<1>7. QED BY <1>2, <1>3, <1>4, <1>5, <1>6

\* So is what a new extreme makes of it.
LEMMA HigherLater ==
  ASSUME now \in 0 .. MaxNow, NEW e \in Evidence, ~ e.ended, e.state \in {"watch", "expanded"},
         NEW value \in Levels, e.dir * (value - e.peak) > 0
  PROVE  LET f == [Updated(e, Stage(Abs(value - e.baseline), e.state), FALSE) EXCEPT !.peak = value, !.peakAt = now]
         IN f \in Evidence /\ Later(e, f) /\ f.id = e.id /\ ~ f.ended /\ e.version < f.version
<1> DEFINE state == Stage(Abs(value - e.baseline), e.state)
           u == Updated(e, state, FALSE)
           f == [u EXCEPT !.peak = value, !.peakAt = now]
<1>1. state \in {e.state, "expanded"} /\ state \in States
  BY DEF Stage, States
<1>2. /\ u \in Evidence /\ Later(e, u) /\ u.id = e.id /\ u.ended = FALSE /\ u.dir = e.dir /\ e.version < u.version
      /\ u.state = state /\ (u.notice = e.notice => state = e.state)
  <2> HIDE DEF state
  <2>1. QED BY <1>1, UpdatedLater
<1> HIDE DEF u, state
<1>3. f \in Evidence
  BY <1>2 DEF Evidence
<1>4. /\ f.id = u.id /\ f.dir = u.dir /\ f.peak = value /\ f.version = u.version /\ f.state = u.state
      /\ f.ended = u.ended /\ f.notice = u.notice
  BY <1>2 DEF Evidence
<1> HIDE DEF f
<1>5. value \in Int /\ e.peak \in Int /\ e.dir \in {-1, 1} /\ e.version \in Int /\ u.version \in Int
  BY <1>2, EvidenceNumbers, LifeAssumption
<1>6. (e.dir = 1 => e.peak <= value) /\ (e.dir = -1 => value <= e.peak)
  BY <1>5
<1>7. Later(e, f)
  BY <1>2, <1>4, <1>5, <1>6 DEF Later
<1>8. QED BY <1>2, <1>3, <1>4, <1>7 DEF f, u, state

\* A pulse begins with evidence.
LEMMA NewIsEvidence ==
  ASSUME now \in 0 .. MaxNow, NEW p \in Pulses, NEW b \in Baselines, NEW v \in Levels
  PROVE  NewPulse(p, b, v) \in Evidence /\ NewPulse(p, b, v).id = p /\ ~ NewPulse(p, b, v).ended
<1>1. Stage(Abs(v - b), "watch") \in States /\ b \in Levels
  BY LifeAssumption DEF Stage, States, LifeAssumption
<1>2. QED BY <1>1 DEF NewPulse, Evidence

\* What an observation does to the pulses: it changes held ones, to later evidence, and adds
\* new ones.
Observes ==
  /\ life' = [p \in DOMAIN life' |-> life'[p]] /\ DOMAIN life \subseteq DOMAIN life' /\ DOMAIN life' \subseteq Pulses
  /\ \A p \in DOMAIN life' : life'[p] \in Evidence /\ life'[p].id = p
  /\ \A p \in DOMAIN life : Later(life[p], life'[p]) /\ (life'[p] # life[p] => p \in held)
  /\ held' \subseteq held \cup (DOMAIN life' \ DOMAIN life)
  /\ \A p \in held' : ~ life'[p].ended

\* Later evidence of one held pulse is an observation.
LEMMA OneObserves ==
  ASSUME LifeShape, NEW p \in held, NEW f \in Evidence, Later(life[p], f), f.id = p,
         life' = [life EXCEPT ![p] = f], (held' = held /\ ~ f.ended) \/ held' = held \ {p}
  PROVE  Observes
<1>1. p \in DOMAIN life
  BY DEF LifeShape
<1>2. DOMAIN life' = DOMAIN life /\ life'[p] = f /\ \A q \in DOMAIN life : q # p => life'[q] = life[q]
  BY <1>1
<1>3. life' = [q \in DOMAIN life' |-> life'[q]]
  BY <1>1
<1>4. \A q \in DOMAIN life' : life'[q] \in Evidence /\ life'[q].id = q
  BY <1>2 DEF LifeShape
<1>5. \A q \in DOMAIN life : Later(life[q], life'[q]) /\ (life'[q] # life[q] => q \in held)
  BY <1>2, LaterOrders DEF LifeShape
<1>6. \A q \in held' : ~ life'[q].ended
  BY <1>2 DEF LifeShape
<1>7. QED BY <1>2, <1>3, <1>4, <1>5, <1>6 DEF LifeShape, Observes

\* Every way a tick or a reset changes evidence is one.
LEMMA ObservationIs ==
  ASSUME LifeShape, Observation
  PROVE  Observes
<1>0. now \in 0 .. MaxNow /\ \A p \in held : p \in DOMAIN life /\ life[p] \in Evidence /\ ~ life[p].ended /\ life[p].id = p
  BY DEF LifeShape
<1>1. ASSUME NEW p \in Pulses, NEW b \in Baselines, NEW v \in Levels, Trigger(p, b, v)
      PROVE  Observes
  <2> DEFINE f == NewPulse(p, b, v)
  <2>1. f \in Evidence /\ f.id = p /\ ~ f.ended
    BY <1>0, NewIsEvidence
  <2> HIDE DEF f
  <2>2. /\ p \notin DOMAIN life /\ life' = [q \in DOMAIN life \cup {p} |-> IF q = p THEN f ELSE life[q]]
        /\ held' = held \cup {p}
    BY <1>1 DEF Trigger, f
  <2>3. DOMAIN life' = DOMAIN life \cup {p} /\ life'[p] = f /\ \A q \in DOMAIN life : life'[q] = life[q]
    BY <2>2
  <2>4. life' = [q \in DOMAIN life' |-> life'[q]]
    BY <2>2
  <2>5. \A q \in DOMAIN life' : life'[q] \in Evidence /\ life'[q].id = q
    BY <2>1, <2>3 DEF LifeShape
  <2>6. \A q \in DOMAIN life : Later(life[q], life'[q]) /\ (life'[q] # life[q] => q \in held)
    BY <2>3, LaterOrders DEF LifeShape
  <2>7. \A q \in held' : ~ life'[q].ended
    BY <2>1, <2>2, <2>3 DEF LifeShape
  <2>8. QED BY <2>2, <2>3, <2>4, <2>5, <2>6, <2>7 DEF LifeShape, Observes
<1>2. ASSUME NEW p \in Pulses, Quiet(p) \/ Retrace(p) \/ Settle(p)
      PROVE  Observes
  <2>1. p \in held
    BY <1>2 DEF Quiet, Retrace, Settle, Ticks
  <2>2. life[p].state \in States
    BY <1>0, <2>1 DEF Evidence
  <2>3. \E st \in States, ended \in BOOLEAN :
          /\ life' = [life EXCEPT ![p] = Updated(life[p], st, ended)]
          /\ (held' = held /\ ~ ended) \/ held' = held \ {p}
          /\ ended \/ st \in {life[p].state, "retraced", "expanded"}
    BY <1>2, <2>2 DEF Quiet, Retrace, Settle, States
  <2>4. PICK st \in States, ended \in BOOLEAN :
          /\ life' = [life EXCEPT ![p] = Updated(life[p], st, ended)]
          /\ (held' = held /\ ~ ended) \/ held' = held \ {p}
          /\ ended \/ st \in {life[p].state, "retraced", "expanded"}
    BY <2>3
  <2> DEFINE f == Updated(life[p], st, ended)
  <2>5. f \in Evidence /\ Later(life[p], f) /\ f.id = p /\ f.ended = ended
    BY <1>0, <2>1, <2>4, UpdatedLater
  <2> HIDE DEF f
  <2>6. life' = [life EXCEPT ![p] = f] /\ ((held' = held /\ ~ f.ended) \/ held' = held \ {p})
    BY <2>4, <2>5 DEF f
  <2>7. QED BY <2>1, <2>5, <2>6, OneObserves
<1>3. ASSUME NEW p \in Pulses, NEW v \in Levels, Higher(p, v)
      PROVE  Observes
  <2> DEFINE f == [Updated(life[p], Stage(Abs(v - life[p].baseline), life[p].state), FALSE) EXCEPT !.peak = v, !.peakAt = now]
  <2>1. /\ p \in held /\ life[p].state \in {"watch", "expanded"} /\ life[p].dir * (v - life[p].peak) > 0
        /\ life' = [life EXCEPT ![p] = f] /\ held' = held
    BY <1>3 DEF Higher, Ticks
  <2>2. f \in Evidence /\ Later(life[p], f) /\ f.id = p /\ ~ f.ended
    BY <1>0, <2>1, HigherLater
  <2> HIDE DEF f
  <2>3. QED BY <2>1, <2>2, OneObserves
<1>4. ASSUME NEW p \in Pulses, NEW q \in Pulses, NEW b \in Baselines, NEW v \in Levels, Restart(p, q, b, v)
      PROVE  Observes
  <2> DEFINE f == NewPulse(q, b, v)
             g == Updated(life[p], "retraced", TRUE)
  <2>1. f \in Evidence /\ f.id = q /\ ~ f.ended
    BY <1>0, NewIsEvidence
  <2>2. p \in held /\ q \notin DOMAIN life
    BY <1>4 DEF Restart, Ticks
  <2>3. g \in Evidence /\ Later(life[p], g) /\ g.id = p
    <3>1. "retraced" \in States /\ life[p] \in Evidence /\ ~ life[p].ended /\ life[p].id = p
      BY <1>0, <2>2 DEF States
    <3>2. QED BY <1>0, <3>1, UpdatedLater
  <2> HIDE DEF f, g
  <2>4. /\ life' = [r \in DOMAIN life \cup {q} |-> CASE r = q -> f [] r = p -> g [] OTHER -> life[r]]
        /\ held' = (held \ {p}) \cup {q}
    BY <1>4 DEF Restart, f, g
  <2>5. p \in DOMAIN life /\ p # q
    BY <1>0, <2>2
  <2>6. /\ DOMAIN life' = DOMAIN life \cup {q} /\ life'[q] = f /\ life'[p] = g
        /\ \A r \in DOMAIN life : r # p => life'[r] = life[r]
    BY <2>2, <2>4, <2>5
  <2>7. life' = [r \in DOMAIN life' |-> life'[r]]
    BY <2>4
  <2>8. \A r \in DOMAIN life' : life'[r] \in Evidence /\ life'[r].id = r
    BY <2>1, <2>3, <2>6 DEF LifeShape
  <2>9. \A r \in DOMAIN life : Later(life[r], life'[r]) /\ (life'[r] # life[r] => r \in held)
    BY <2>2, <2>3, <2>6, LaterOrders DEF LifeShape
  <2>10. \A r \in held' : ~ life'[r].ended
    BY <2>1, <2>4, <2>6 DEF LifeShape
  <2>11. QED BY <2>2, <2>4, <2>6, <2>7, <2>8, <2>9, <2>10 DEF LifeShape, Observes
<1>5. ASSUME NEW p \in Pulses, NEW reason \in {"data_gap", "isolated"}, CutOff(p, reason)
      PROVE  Observes
  <2> DEFINE u == Updated(life[p], reason, TRUE)
             f == [u EXCEPT !.currentAt = life[p].currentAt]
  <2>1. p \in held /\ life' = [life EXCEPT ![p] = f] /\ held' = held \ {p}
    BY <1>5 DEF CutOff
  <2>2. u \in Evidence /\ Later(life[p], u) /\ u.id = p /\ u.ended /\ life[p].version < u.version
    <3>1. reason \in States /\ life[p] \in Evidence /\ ~ life[p].ended /\ life[p].id = p
      BY <1>0, <2>1 DEF States
    <3>2. QED BY <1>0, <3>1, UpdatedLater
  <2> HIDE DEF u
  <2>3. life[p].currentAt \in 0 .. MaxNow
    BY <1>0, <2>1 DEF Evidence
  <2>4. f \in Evidence
    BY <2>2, <2>3 DEF Evidence
  <2>5. /\ f.id = u.id /\ f.dir = u.dir /\ f.peak = u.peak /\ f.version = u.version /\ f.state = u.state
        /\ f.ended = u.ended /\ f.notice = u.notice
    BY <2>2 DEF Evidence
  <2> HIDE DEF f
  <2>6. life[p].version \in Int /\ u.version \in Int /\ ~ life[p].ended
    BY <1>0, <2>1, <2>2 DEF Evidence
  <2>7. Later(life[p], f)
    BY <2>2, <2>5, <2>6 DEF Later
  <2>8. QED BY <2>1, <2>2, <2>4, <2>5, <2>7, OneObserves
<1>6. QED BY <1>1, <1>2, <1>3, <1>4, <1>5 DEF Observation

-----------------------------------------------------------------------------

\* A sequence of the elements of a finite set has each of them once.
LEMMA SetToSeqIs ==
  ASSUME NEW S, IsFiniteSet(S)
  PROVE  /\ SetToSeq(S) \in Seq(S) /\ Len(SetToSeq(S)) = Cardinality(S) /\ Cardinality(S) \in Nat
         /\ \A i, j \in 1 .. Cardinality(S) : SetToSeq(S)[i] = SetToSeq(S)[j] => i = j
         /\ \A x \in S : \E i \in 1 .. Cardinality(S) : SetToSeq(S)[i] = x
<1> DEFINE n == Cardinality(S)
           t == SetToSeq(S)
<1>1. n \in Nat /\ ExistsBijection(1 .. n, S)
  BY FS_CardinalityType
<1>2. \E f \in [1 .. n -> S] : IsInjective(f)
  BY <1>1 DEF ExistsBijection, Bijection, Injection
<1>3. t \in [1 .. n -> S] /\ IsInjective(t)
  BY <1>2 DEF SetToSeq
<1> HIDE DEF t
<1>4. t \in Seq(S) /\ Len(t) = n
  BY <1>1, <1>3, SeqDef
<1>5. \A i, j \in 1 .. n : t[i] = t[j] => i = j
  BY <1>3 DEF IsInjective
<1>6. t \in Surjection(1 .. n, S)
  <2>1. t \in Injection(1 .. n, S)
    BY <1>3 DEF Injection
  <2>2. Cardinality(1 .. n) = n
    BY <1>1, FS_Interval
  <2>3. QED BY <2>1, <2>2, FS_Injection
<1>7. QED BY <1>1, <1>4, <1>5, <1>6 DEF Surjection, t

\* A queue of the newest evidence of pulses, each once.
Distinct(s) == \A i, j \in 1 .. Len(s) : s[i].id = s[j].id => i = j
QueueSound(s) == /\ s \in Seq(Evidence) /\ Distinct(s)
                 /\ \A i \in 1 .. Len(s) : s[i].id \in DOMAIN life \ lost /\ s[i] = life[s[i].id]

\* The elements of a queue, and whose they are.
LEMMA IdsAre ==
  ASSUME NEW T, NEW s \in Seq(T)
  PROVE  /\ ToSet(s) = {s[i] : i \in 1 .. Len(s)}
         /\ Ids(s) = {s[i].id : i \in 1 .. Len(s)}
<1>1. DOMAIN s = 1 .. Len(s)
  BY LenProperties
<1>2. QED BY <1>1 DEF Ids, ToSet

\* The element of a pulse in a queue that has each pulse once.
LEMMA OfIs ==
  ASSUME NEW T, NEW s \in Seq(T), Distinct(s), NEW i \in 1 .. Len(s)
  PROVE  Of(s, s[i].id) = s[i]
<1>1. DOMAIN s = 1 .. Len(s)
  BY LenProperties
<1>2. (CHOOSE j \in DOMAIN s : s[j].id = s[i].id) = i
  BY <1>1 DEF Distinct
<1>3. QED BY <1>2 DEF Of

\* What is queued by an observation.
LEMMA QueuedIs ==
  ASSUME IsFiniteSet(Pulses), LifeShape, Observes, QueueSound(pending)
  PROVE  /\ Queued \in Seq(Evidence) /\ Distinct(Queued)
         /\ \A i \in 1 .. Len(Queued) : Queued[i].id \in DOMAIN life' \ lost /\ Queued[i] = life'[Queued[i].id]
         /\ Len(Queued) >= Len(pending)
         /\ \A i \in 1 .. Len(pending) : Queued[i].id = pending[i].id
         /\ \A i \in 1 .. Len(Queued) : i > Len(pending) => Queued[i].id \notin Ids(pending)
         /\ Changed \subseteq Ids(Queued)
<1> DEFINE added == Changed \ Ids(pending)
           A == added \cap DOMAIN life
           B == added \ DOMAIN life
           all == SetToSeq(A) \o SetToSeq(B)
           n == Len(pending)
           a == Cardinality(A)
           m == Cardinality(added)
           kept == [i \in DOMAIN pending |-> IF pending[i].id \in Changed THEN life'[pending[i].id] ELSE pending[i]]
           new == [i \in 1 .. m |-> life'[all[i]]]
<1>1. Queued = kept \o new
  BY DEF Queued
<1>2. Changed \subseteq DOMAIN life' \ lost /\ \A p \in DOMAIN life' : p \notin Changed => p \in DOMAIN life /\ life'[p] = life[p]
  <2>1. ASSUME NEW p \in Changed
        PROVE  p \in DOMAIN life' \ lost
    BY DEF Changed, LifeShape, Observes
  <2>2. QED BY <2>1 DEF Changed
<1>3. IsFiniteSet(added) /\ IsFiniteSet(A) /\ IsFiniteSet(B)
  <2>1. added \subseteq Pulses /\ A \subseteq Pulses /\ B \subseteq Pulses
    BY <1>2 DEF Observes
  <2> HIDE DEF A, B, added
  <2>2. QED BY <2>1, FS_Subset
<1>4. a \in Nat /\ Cardinality(B) \in Nat /\ m = a + Cardinality(B)
  <2>1. A \cup B = added /\ A \cap B = {}
    OBVIOUS
  <2> HIDE DEF A, B, added
  <2>2. a \in Nat /\ Cardinality(B) \in Nat /\ Cardinality(A \cap B) = 0
    BY <1>3, <2>1, FS_CardinalityType, FS_EmptySet
  <2>3. Cardinality(A \cup B) = Cardinality(A) + Cardinality(B) - Cardinality(A \cap B)
    BY <1>3, FS_Union
  <2>4. Cardinality(A \cup B) = Cardinality(added)
    BY <2>1
  <2> DEFINE x == Cardinality(A)
             y == Cardinality(B)
             z == Cardinality(A \cap B)
  <2>5. x \in Nat /\ y \in Nat /\ z = 0 /\ Cardinality(added) = x + y - z
    BY <2>2, <2>3, <2>4
  <2> HIDE DEF x, y, z
  <2>6. x \in Nat /\ y \in Nat /\ Cardinality(added) = x + y
    BY <2>5
  <2>7. QED BY <2>6 DEF x, y
<1>5. /\ all \in Seq(added) /\ Len(all) = m
      /\ \A i \in 1 .. m : all[i] = IF i <= a THEN SetToSeq(A)[i] ELSE SetToSeq(B)[i - a]
  <2>1. A \subseteq added /\ B \subseteq added
    OBVIOUS
  <2> HIDE DEF A, B, added
  <2>2. SetToSeq(A) \in Seq(added) /\ SetToSeq(B) \in Seq(added) /\ Len(SetToSeq(A)) = a /\ Len(SetToSeq(B)) = Cardinality(B)
    BY <1>3, <2>1, SetToSeqIs, SeqMonotonic
  <2> DEFINE x == SetToSeq(A)
             y == SetToSeq(B)
  <2>3. all = x \o y
    BY DEF all
  <2> HIDE DEF all, x, y
  <2>4. /\ all \in Seq(added) /\ Len(all) = Len(x) + Len(y)
        /\ \A i \in 1 .. Len(x) + Len(y) : all[i] = IF i <= Len(x) THEN x[i] ELSE y[i - Len(x)]
    BY <2>2, <2>3, ConcatProperties DEF x, y
  <2>5. Len(x) = a /\ Len(x) + Len(y) = m
    BY <1>4, <2>2 DEF x, y
  <2>6. QED BY <2>4, <2>5 DEF x, y
<1>6. ASSUME NEW i \in 1 .. m, NEW j \in 1 .. m, all[i] = all[j]
      PROVE  i = j
  <2>1. A \cap B = {}
    OBVIOUS
  <2> HIDE DEF A, B, added, all
  <2>2. \A k \in 1 .. m : k <= a => k \in 1 .. a /\ all[k] = SetToSeq(A)[k] /\ all[k] \in A
    <3>1. ASSUME NEW k \in 1 .. m, k <= a
          PROVE  k \in 1 .. a /\ all[k] = SetToSeq(A)[k] /\ all[k] \in A
      <4>1. k \in 1 .. a
        BY <1>4, <3>1
      <4>2. SetToSeq(A)[k] \in A
        BY <1>3, <4>1, SetToSeqIs, ElementOfSeq
      <4>3. QED BY <1>5, <3>1, <4>1, <4>2
    <3>2. QED BY <3>1
  <2>3. \A k \in 1 .. m : ~ (k <= a) => k - a \in 1 .. Cardinality(B) /\ all[k] = SetToSeq(B)[k - a] /\ all[k] \in B
    <3>1. ASSUME NEW k \in 1 .. m, ~ (k <= a)
          PROVE  k - a \in 1 .. Cardinality(B) /\ all[k] = SetToSeq(B)[k - a] /\ all[k] \in B
      <4>1. k - a \in 1 .. Cardinality(B)
        BY <1>4, <3>1
      <4>2. SetToSeq(B)[k - a] \in B
        BY <1>3, <4>1, SetToSeqIs, ElementOfSeq
      <4>3. QED BY <1>5, <3>1, <4>1, <4>2
    <3>2. QED BY <3>1
  <2>4. CASE i <= a /\ j <= a
    BY <1>3, <1>6, <2>2, <2>4, SetToSeqIs
  <2>5. CASE ~ (i <= a) /\ ~ (j <= a)
    <3>0. \A u, v \in 1 .. Cardinality(B) : SetToSeq(B)[u] = SetToSeq(B)[v] => u = v
      BY <1>3, SetToSeqIs
    <3>1. i - a = j - a
      BY <1>6, <2>3, <2>5, <3>0
    <3>2. QED BY <3>1, <1>4
  <2>6. QED BY <1>6, <2>1, <2>2, <2>3, <2>4, <2>5
<1>7. ASSUME NEW p \in added
      PROVE  \E i \in 1 .. m : all[i] = p
  <2>1. p \in A \/ p \in B
    OBVIOUS
  <2> HIDE DEF A, B, added, all
  <2>2. CASE p \in A
    <3>1. PICK i \in 1 .. a : SetToSeq(A)[i] = p
      BY <1>3, <2>2, SetToSeqIs
    <3>2. QED BY <3>1, <1>4, <1>5
  <2>3. CASE p \in B
    <3>1. PICK i \in 1 .. Cardinality(B) : SetToSeq(B)[i] = p
      BY <1>3, <2>3, SetToSeqIs
    <3>2. i + a \in 1 .. m /\ ~ (i + a <= a) /\ (i + a) - a = i
      BY <1>4
    <3>3. QED BY <3>1, <3>2, <1>5
  <2>4. QED BY <2>1, <2>2, <2>3
<1>8. n \in Nat /\ DOMAIN pending = 1 .. n /\ pending \in Seq(Evidence) /\ m \in Nat
  BY <1>4, LenProperties DEF QueueSound
<1> HIDE DEF all, A, B, a
<1>9. ASSUME NEW i \in 1 .. n
      PROVE  /\ kept[i] = life'[pending[i].id] /\ kept[i].id = pending[i].id /\ kept[i] \in Evidence
             /\ pending[i].id \in DOMAIN life' \ lost
  <2>1. pending[i].id \in DOMAIN life \ lost /\ pending[i] = life[pending[i].id]
    BY DEF QueueSound
  <2>2. pending[i].id \in DOMAIN life' \ lost
    BY <2>1 DEF Observes
  <2>3. kept[i] = life'[pending[i].id]
    BY <2>1, <2>2, <1>2, <1>8
  <2>4. QED BY <2>2, <2>3 DEF Observes
<1>10. ASSUME NEW i \in 1 .. m
       PROVE  new[i] = life'[all[i]] /\ new[i].id = all[i] /\ new[i] \in Evidence /\ all[i] \in added /\ all[i] \in DOMAIN life' \ lost
  <2>1. all[i] \in added
    BY <1>5, ElementOfSeq
  <2>2. all[i] \in DOMAIN life' \ lost
    BY <2>1, <1>2
  <2>3. QED BY <2>1, <2>2 DEF Observes
<1>11. kept \in Seq(Evidence) /\ Len(kept) = n /\ new \in Seq(Evidence) /\ Len(new) = m
  <2>1. kept \in [1 .. n -> Evidence]
    BY <1>8, <1>9
  <2>2. new \in [1 .. m -> Evidence]
    BY <1>10
  <2> HIDE DEF kept, new
  <2>3. QED BY <2>1, <2>2, <1>8, FunctionIsSeq
<1> HIDE DEF kept, new
<1>12. /\ Queued \in Seq(Evidence) /\ Len(Queued) = n + m
       /\ \A i \in 1 .. n + m : Queued[i] = IF i <= n THEN kept[i] ELSE new[i - n]
  <2>1. /\ Queued \in Seq(Evidence) /\ Len(Queued) = Len(kept) + Len(new)
        /\ \A i \in 1 .. Len(kept) + Len(new) : Queued[i] = IF i <= Len(kept) THEN kept[i] ELSE new[i - Len(kept)]
    BY <1>1, <1>11, ConcatProperties
  <2>2. Len(kept) = n /\ Len(new) = m
    BY <1>11
  <2> HIDE DEF n, m
  <2>3. QED BY <2>1, <2>2
<1>13. ASSUME NEW i \in 1 .. n + m, i <= n
       PROVE  i \in 1 .. n /\ Queued[i] = life'[pending[i].id] /\ Queued[i].id = pending[i].id /\ pending[i].id \in DOMAIN life' \ lost
  <2>1. i \in 1 .. n
    BY <1>8, <1>13
  <2>2. QED BY <2>1, <1>9, <1>12, <1>13
<1>14. ASSUME NEW i \in 1 .. n + m, ~ (i <= n)
       PROVE  i - n \in 1 .. m /\ Queued[i] = life'[all[i - n]] /\ Queued[i].id = all[i - n] /\ all[i - n] \in DOMAIN life' \ lost
              /\ all[i - n] \in added
  <2>1. i - n \in 1 .. m
    BY <1>8, <1>14
  <2>2. QED BY <2>1, <1>10, <1>12, <1>14
<1>15. Ids(pending) = {pending[i].id : i \in 1 .. n}
  BY <1>8, IdsAre
<1>16. ASSUME NEW i \in 1 .. n + m, NEW j \in 1 .. n + m, Queued[i].id = Queued[j].id
       PROVE  i = j
  <2>1. CASE i <= n /\ j <= n
    BY <1>13, <1>16, <2>1 DEF QueueSound, Distinct
  <2>2. CASE ~ (i <= n) /\ ~ (j <= n)
    <3>1. i - n \in 1 .. m /\ j - n \in 1 .. m /\ all[i - n] = all[j - n]
      BY <1>14, <1>16, <2>2
    <3>2. i - n = j - n
      BY <3>1, <1>6
    <3>3. QED BY <3>2, <1>8
  <2>3. CASE i <= n /\ ~ (j <= n)
    <3>1. Queued[i].id \in Ids(pending)
      BY <1>13, <1>15, <2>3
    <3>2. Queued[j].id \notin Ids(pending)
      BY <1>14, <2>3
    <3>3. QED BY <3>1, <3>2, <1>16
  <2>4. CASE ~ (i <= n) /\ j <= n
    <3>1. Queued[j].id \in Ids(pending)
      BY <1>13, <1>15, <2>4
    <3>2. Queued[i].id \notin Ids(pending)
      BY <1>14, <2>4
    <3>3. QED BY <3>1, <3>2, <1>16
  <2>5. QED BY <2>1, <2>2, <2>3, <2>4
<1>17. \A i \in 1 .. n + m : Queued[i].id \in DOMAIN life' \ lost /\ Queued[i] = life'[Queued[i].id]
  BY <1>13, <1>14
<1>18. \A i \in 1 .. n : i \in 1 .. n + m /\ i <= n
  BY <1>8
<1>19. \A i \in 1 .. n + m : i > n => Queued[i].id \notin Ids(pending)
  <2>1. ASSUME NEW i \in 1 .. n + m, i > n
        PROVE  Queued[i].id \notin Ids(pending)
    <3>1. ~ (i <= n)
      BY <1>8, <2>1
    <3>2. QED BY <3>1, <1>14
  <2>2. QED BY <2>1
<1>20. ASSUME NEW p \in Changed
       PROVE  p \in Ids(Queued)
  <2>1. Ids(Queued) = {Queued[i].id : i \in 1 .. n + m}
    BY <1>12, IdsAre
  <2>2. CASE p \in Ids(pending)
    BY <2>1, <2>2, <1>13, <1>15, <1>18
  <2>3. CASE p \notin Ids(pending)
    <3>1. PICK i \in 1 .. m : all[i] = p
      BY <1>7, <1>20, <2>3
    <3>2. i + n \in 1 .. n + m /\ ~ (i + n <= n) /\ (i + n) - n = i
      BY <1>8
    <3>3. Queued[i + n].id = p
      BY <3>1, <3>2, <1>14
    <3>4. QED BY <2>1, <3>2, <3>3
  <2>4. QED BY <2>2, <2>3
<1>21. n + m >= n
  BY <1>8
<1>22. QED BY <1>12, <1>13, <1>16, <1>17, <1>18, <1>19, <1>20, <1>21 DEF Distinct

-----------------------------------------------------------------------------
(* The order of a batch. *)

\* The order of the peaks is an order of all, the earlier first, each at a place of its own.
Precedes(s, j, i) == \/ s[j].peakAt < s[i].peakAt
                     \/ s[j].peakAt = s[i].peakAt /\ s[j].triggeredAt < s[i].triggeredAt
                     \/ s[j].peakAt = s[i].peakAt /\ s[j].triggeredAt = s[i].triggeredAt /\ j <= i

\* The ranks are the numbers from one on, each once.
LEMMA RankIs ==
  ASSUME NEW s \in Seq(Evidence)
  PROVE  /\ Rank(s) \in [1 .. Len(s) -> 1 .. Len(s)]
         /\ \A i, j \in 1 .. Len(s) : Rank(s)[i] = Rank(s)[j] => i = j
         /\ \A n \in 1 .. Len(s) : \E i \in 1 .. Len(s) : Rank(s)[i] = n
<1> DEFINE D == 1 .. Len(s)
           Earlier(i) == {j \in D : Precedes(s, j, i)}
<1>1. Len(s) \in Nat /\ DOMAIN s = D /\ IsFiniteSet(D) /\ Cardinality(D) = Len(s)
  <2>1. Len(s) \in Nat /\ DOMAIN s = D
    BY LenProperties
  <2>2. QED BY <2>1, FS_Interval
<1>2. \A i \in D : s[i].peakAt \in Int /\ s[i].triggeredAt \in Int
  <2>1. \A i \in D : s[i] \in Evidence
    BY ElementOfSeq
  <2>2. QED BY <2>1 DEF Evidence
<1>3. Rank(s) = [i \in D |-> Cardinality(Earlier(i))]
  BY <1>1 DEF Rank, Precedes
<1>4. ASSUME NEW i \in D
      PROVE  /\ i \in Earlier(i) /\ IsFiniteSet(Earlier(i))
             /\ Cardinality(Earlier(i)) \in 1 .. Len(s)
  <2>1. i \in Earlier(i)
    BY <1>1, <1>2 DEF Precedes
  <2>2. IsFiniteSet(Earlier(i)) /\ Cardinality(Earlier(i)) <= Len(s)
    BY <1>1, FS_Subset
  <2>3. Cardinality(Earlier(i)) \in Nat /\ Cardinality(Earlier(i)) # 0
    <3> HIDE DEF Earlier
    <3>1. QED BY <2>1, <2>2, FS_CardinalityType, FS_EmptySet
  <2>4. QED BY <2>1, <2>2, <2>3, <1>1
<1>5. ASSUME NEW i \in D, NEW j \in D, i # j, Precedes(s, j, i)
      PROVE  Cardinality(Earlier(j)) # Cardinality(Earlier(i))
  <2>1. i \notin Earlier(j)
    BY <1>1, <1>2, <1>5 DEF Precedes
  <2>2. Earlier(j) \subseteq Earlier(i)
    <3>1. ASSUME NEW k \in D, Precedes(s, k, j)
          PROVE  Precedes(s, k, i)
      BY <1>1, <1>2, <1>5, <3>1 DEF Precedes
    <3>2. QED BY <3>1
  <2>3. Earlier(i) # Earlier(j)
    BY <2>1, <1>4
  <2> HIDE DEF Earlier
  <2>4. QED BY <2>2, <2>3, <1>4, FS_Subset
<1>6. \A i, j \in D : i # j => Precedes(s, j, i) \/ Precedes(s, i, j)
  BY <1>1, <1>2 DEF Precedes
<1>7. Rank(s) \in [D -> D] /\ \A i, j \in D : Rank(s)[i] = Rank(s)[j] => i = j
  <2> HIDE DEF Earlier
  <2>1. Rank(s) \in [D -> D]
    BY <1>3, <1>4
  <2>2. ASSUME NEW i \in D, NEW j \in D, Rank(s)[i] = Rank(s)[j]
        PROVE  i = j
    BY <1>3, <1>5, <1>6, <2>2
  <2>3. QED BY <2>1, <2>2
<1>8. Rank(s) \in Injection(D, D)
  BY <1>7 DEF Injection, IsInjective
<1>9. Rank(s) \in Surjection(D, D)
  BY <1>1, <1>8, FS_Injection
<1>10. QED BY <1>7, <1>9 DEF Surjection

\* So the batch in the order of its peaks has all its elements, each once.
LEMMA PeakOrderIs ==
  ASSUME NEW s \in Seq(Evidence)
  PROVE  /\ \A n \in 1 .. Len(s) : InPeakOrder(s)[n] \in ToSet(s)
         /\ \A e \in ToSet(s) : \E n \in 1 .. Len(s) : InPeakOrder(s)[n] = e
         /\ (\A i, j \in 1 .. Len(s) : s[i].id = s[j].id => i = j)
              => \A m, n \in 1 .. Len(s) : InPeakOrder(s)[m].id = InPeakOrder(s)[n].id => m = n
<1> DEFINE D == 1 .. Len(s)
           at(n) == CHOOSE i \in D : Rank(s)[i] = n
<1>1. DOMAIN s = D
  BY LenProperties
<1>2. \A n \in D : InPeakOrder(s)[n] = s[at(n)]
  BY <1>1 DEF InPeakOrder
<1>3. \A n \in D : at(n) \in D /\ Rank(s)[at(n)] = n
  BY RankIs
<1>4. \A i \in D : Rank(s)[i] \in D /\ at(Rank(s)[i]) = i
  BY <1>3, RankIs
<1> HIDE DEF at
<1>5. \A n \in D : InPeakOrder(s)[n] \in ToSet(s)
  BY <1>1, <1>2, <1>3 DEF ToSet
<1>6. ASSUME NEW e \in ToSet(s)
      PROVE  \E n \in D : InPeakOrder(s)[n] = e
  <2>1. PICK i \in D : e = s[i]
    BY <1>1 DEF ToSet
  <2>2. QED BY <2>1, <1>2, <1>4
<1>7. ASSUME \A i, j \in D : s[i].id = s[j].id => i = j,
             NEW m \in D, NEW n \in D, InPeakOrder(s)[m].id = InPeakOrder(s)[n].id
      PROVE  m = n
  <2>1. at(m) = at(n)
    BY <1>2, <1>3, <1>7
  <2>2. QED BY <2>1, <1>3
<1>8. QED BY <1>5, <1>6, <1>7

-----------------------------------------------------------------------------
(* Known levels. *)

\* One of finitely many numbers is the greatest, and one place of it the first.
LEMMA FirstGreatest ==
  ASSUME NEW n \in Nat \ {0}, NEW w \in [1 .. n -> Int]
  PROVE  \E i \in 1 .. n : /\ \A j \in 1 .. n : w[j] <= w[i]
                           /\ \A j \in 1 .. i - 1 : w[j] < w[i]
<1> DEFINE Most(m, i) == i \in 1 .. m /\ \A j \in 1 .. m : w[j] <= w[i]
           Bad == {m \in 1 .. n : \A i : ~ Most(m, i)}
<1>1. \E i : Most(n, i)
  <2>1. SUFFICES ASSUME Bad # {} PROVE FALSE
    BY n \in 1 .. n
  <2>2. Bad \subseteq Nat
    OBVIOUS
  <2>3. PICK m \in Bad : \A u \in Bad : m <= u
    <3> HIDE DEF Bad
    <3>1. QED BY <2>1, <2>2, LeastExists
  <2>4. m # 1
    BY Most(1, 1)
  <2>5. m - 1 \in 1 .. n /\ m - 1 \notin Bad /\ m \in 1 .. n
    <3>1. Bad \subseteq 1 .. n
      OBVIOUS
    <3> HIDE DEF Bad
    <3>2. m \in 1 .. n /\ \A u \in Bad : m <= u
      BY <2>3, <3>1
    <3>3. m - 1 \in 1 .. n /\ ~ (m <= m - 1)
      BY <2>4, <3>2
    <3>4. QED BY <3>2, <3>3
  <2>6. PICK i : Most(m - 1, i)
    BY <2>5
  <2>7. \A j \in 1 .. m : j \in 1 .. m - 1 \/ j = m
    BY <2>5
  <2>8. CASE w[m] <= w[i]
    <3>1. Most(m, i)
      BY <2>5, <2>6, <2>7, <2>8
    <3>2. QED BY <3>1, <2>3
  <2>9. CASE ~ (w[m] <= w[i])
    <3>1. w[i] \in Int /\ w[m] \in Int /\ \A j \in 1 .. m : w[j] \in Int
      BY <2>5, <2>6
    <3>2. \A j \in 1 .. m : w[j] <= w[m]
      BY <2>6, <2>7, <2>9, <3>1
    <3>3. Most(m, m)
      BY <2>5, <3>2
    <3>4. QED BY <3>3, <2>3
  <2>10. QED BY <2>8, <2>9
<1> DEFINE Best == {i \in 1 .. n : Most(n, i)}
<1>2. Best # {} /\ Best \subseteq Nat
  BY <1>1
<1>3. PICK i \in Best : \A u \in Best : i <= u
  <2> HIDE DEF Best
  <2>1. QED BY <1>2, LeastExists
<1>4. ASSUME NEW j \in 1 .. i - 1
      PROVE  w[j] < w[i]
  <2>1. j \in 1 .. n /\ ~ (i <= j) /\ j \notin Best
    BY <1>3
  <2>2. PICK k \in 1 .. n : ~ (w[k] <= w[j])
    BY <2>1
  <2>3. w[k] <= w[i] /\ w[k] \in Int /\ w[j] \in Int /\ w[i] \in Int
    BY <1>3, <2>1
  <2>4. QED BY <2>2, <2>3
<1>5. QED BY <1>3, <1>4

\* The outermost known level of a direction.
Points == [at : Int, value : Int, origin : Int]

\* The edge is one of the known levels, and none is further out.
LEMMA EdgeIs ==
  ASSUME NEW points \in Seq(Points), points # <<>>, NEW dir \in {-1, 1}
  PROVE  \E i \in 1 .. Len(points) : /\ Edge(points, dir) = points[i]
                                     /\ \A j \in 1 .. Len(points) : dir * points[j].value <= dir * points[i].value
<1> DEFINE n == Len(points)
           w == [i \in 1 .. n |-> dir * points[i].value]
<1>1. n \in Nat \ {0} /\ DOMAIN points = 1 .. n
  BY EmptySeq, LenProperties
<1>2. \A i \in 1 .. n : points[i].value \in Int
  <2>1. \A i \in 1 .. n : points[i] \in Points
    BY ElementOfSeq
  <2>2. QED BY <2>1 DEF Points
<1>3. w \in [1 .. n -> Int]
  <2>1. ASSUME NEW i \in 1 .. n
        PROVE  dir * points[i].value \in Int
    <3>1. CASE dir = 1
      BY <1>2, <3>1
    <3>2. CASE dir = -1
      BY <1>2, <3>2
    <3>3. QED BY <3>1, <3>2
  <2>2. QED BY <2>1
<1>4. \A i \in 1 .. n : w[i] = dir * points[i].value
  OBVIOUS
<1> HIDE DEF w
<1>5. PICK i \in 1 .. n : /\ \A j \in 1 .. n : w[j] <= w[i]
                          /\ \A j \in 1 .. i - 1 : w[j] < w[i]
  BY <1>1, <1>3, FirstGreatest
<1>6. \A h \in 1 .. n : \A j \in 1 .. h - 1 : j \in 1 .. n
  BY <1>1
<1> DEFINE k == CHOOSE k \in DOMAIN points :
                   /\ \A j \in DOMAIN points : dir * points[j].value <= dir * points[k].value
                   /\ \A j \in 1 .. (k - 1) : dir * points[j].value < dir * points[k].value
<1>7. \E h \in DOMAIN points : /\ \A j \in DOMAIN points : dir * points[j].value <= dir * points[h].value
                               /\ \A j \in 1 .. (h - 1) : dir * points[j].value < dir * points[h].value
  BY <1>1, <1>4, <1>5, <1>6
<1>8. k \in 1 .. n /\ \A j \in 1 .. n : dir * points[j].value <= dir * points[k].value
  BY <1>1, <1>7
<1>9. Edge(points, dir) = points[k]
  BY DEF Edge
<1> HIDE DEF k
<1>10. QED BY <1>8, <1>9

-----------------------------------------------------------------------------
(* The two tables. *)

\* The two tables, and a pair of them as a transaction makes it.
NoticeType == [at : Int, value : Int, dir : {-1, 1}, kind : {"first", "breakout"}]
ScopeType == [points : Seq(Points), last : Nat]
RowSound(row, p) ==
  /\ row = [evidence |-> row.evidence, notices |-> row.notices]
  /\ row.evidence \in Evidence /\ row.evidence.id = p /\ row.notices \in Seq(NoticeType)
TablesSound(db) ==
  /\ db = [stored |-> db.stored, scopes |-> db.scopes]
  /\ db.stored = [p \in DOMAIN db.stored |-> db.stored[p]] /\ DOMAIN db.stored \subseteq DOMAIN life
  /\ \A p \in DOMAIN db.stored : RowSound(db.stored[p], p) /\ Later(db.stored[p].evidence, life[p])
  /\ db.scopes \in [Scopes -> ScopeType]

\* A notice still counted is a level its scope knows, and no level is known without a notice
\* of its time.
Counted(scope, a) == scope.last - Window <= a.at
TellsItsLevels(db, p, s) ==
  \A i \in 1 .. Len(db.stored[p].notices) :
    Counted(db.scopes[s], db.stored[p].notices[i]) =>
      \E k \in 1 .. Len(db.scopes[s].points) :
        /\ db.scopes[s].points[k].at = db.stored[p].notices[i].at
        /\ db.scopes[s].points[k].value = db.stored[p].notices[i].value
LevelIsTold(db, s, k) ==
  \E p \in DOMAIN db.stored : /\ ScopeOf[p] = s
                              /\ \E i \in 1 .. Len(db.stored[p].notices) :
                                   db.stored[p].notices[i].at = db.scopes[s].points[k].at
BoundsMatch(db) ==
  /\ \A p \in DOMAIN db.stored : TellsItsLevels(db, p, ScopeOf[p])
  /\ \A s \in Scopes : \A k \in 1 .. Len(db.scopes[s].points) : LevelIsTold(db, s, k)

\* What a transaction may do to the tables: evidence becomes later, notices are added, and
\* each of these is a step beyond all that its scope still counts.
RowGrows(old, new) ==
  /\ Later(old.evidence, new.evidence) /\ Len(old.notices) <= Len(new.notices)
  /\ \A i \in 1 .. Len(old.notices) : new.notices[i] = old.notices[i]
Had(db, p) == IF p \in DOMAIN db.stored THEN Len(db.stored[p].notices) ELSE 0
Beyond(a, b) == a.dir = b.dir => a.dir * (b.value - a.value) >= 2
NewsIsNew(db, d) ==
  \A p \in DOMAIN d.stored : \A i \in 1 .. Len(d.stored[p].notices) : i > Had(db, p) =>
    \A q \in DOMAIN db.stored : ScopeOf[q] = ScopeOf[p] =>
      \A j \in 1 .. Len(db.stored[q].notices) :
        Counted(d.scopes[ScopeOf[p]], db.stored[q].notices[j])
          => Beyond(db.stored[q].notices[j], d.stored[p].notices[i])
TablesGrow(db, d) ==
  /\ \A p \in DOMAIN db.stored : p \in DOMAIN d.stored /\ RowGrows(db.stored[p], d.stored[p])
  /\ \A s \in Scopes : db.scopes[s].last <= d.scopes[s].last
  /\ NewsIsNew(db, d)

\* What a scope makes of evidence that is shown to it.
Admitted(scope, notices, e, r) ==
  /\ r.scope \in ScopeType /\ scope.last <= r.scope.last
  /\ \A k \in 1 .. Len(r.scope.points) :
       \/ \E h \in 1 .. Len(scope.points) : r.scope.points[k] = scope.points[h]
       \/ r.notices = Append(notices, r.notices[Len(notices) + 1]) /\ r.scope.points[k].at = e.peakAt
  /\ \A h \in 1 .. Len(scope.points) : Counted(r.scope, scope.points[h]) =>
       \E k \in 1 .. Len(r.scope.points) : r.scope.points[k] = scope.points[h]
  /\ \/ r.notices = notices
     \/ \E kind \in {"first", "breakout"} :
          LET b == Notice(e, kind)
          IN /\ r.notices = Append(notices, b)
             /\ \E k \in 1 .. Len(r.scope.points) : r.scope.points[k].at = e.peakAt /\ r.scope.points[k].value = e.peak
             /\ \A h \in 1 .. Len(scope.points) : Counted(r.scope, scope.points[h]) =>
                  e.dir * (e.peak - scope.points[h].value) >= 2

\* A notice tells the peak of its evidence.
LEMMA NoticeIs ==
  ASSUME NEW e \in Evidence, NEW kind \in {"first", "breakout"}
  PROVE  /\ Notice(e, kind) \in NoticeType /\ Notice(e, kind).at = e.peakAt
         /\ Notice(e, kind).value = e.peak /\ Notice(e, kind).dir = e.dir
<1>1. e.peakAt \in Int /\ e.peak \in Int /\ e.dir \in {-1, 1}
  BY EvidenceNumbers
<1>2. QED BY <1>1 DEF Notice, NoticeType

\* A level that breaks through is at least two beyond each known one of its direction.
LEMMA BreaksBeyond ==
  ASSUME NEW s \in Scopes, NEW points \in Seq(Points), points # <<>>, NEW e \in Evidence, Breaks(s, points, e),
         NEW h \in 1 .. Len(points)
  PROVE  e.dir * (e.peak - points[h].value) >= 2
<1>1. e.dir \in {-1, 1} /\ e.peak \in Int
  BY EvidenceNumbers
<1>2. PICK i \in 1 .. Len(points) :
        /\ Edge(points, e.dir) = points[i]
        /\ \A j \in 1 .. Len(points) : e.dir * points[j].value <= e.dir * points[i].value
  BY <1>1, EdgeIs
<1>3. points[i] \in Points /\ points[h] \in Points
  BY ElementOfSeq
<1>4. points[i].value \in Int /\ points[i].origin \in Int /\ points[h].value \in Int
  BY <1>3 DEF Points
<1> DEFINE edge == points[i]
           distance == e.dir * (e.peak - edge.value)
<1>5. distance >= 0 /\ ReachesStep(s, edge, distance)
  BY <1>2 DEF Breaks
<1>6. distance \in Int /\ distance >= 2
  <2>1. distance \in Int
    BY <1>1, <1>4
  <2>2. Dist(edge.value, edge.origin) \in Int /\ Dist(edge.value, 0) \in Int
    BY <1>4 DEF Dist
  <2> HIDE DEF distance, edge
  <2>3. 5 * distance >= 10
    BY <1>5, <2>1, <2>2 DEF ReachesStep, Larger
  <2>4. QED BY <2>1, <2>3
<1>7. e.dir * points[h].value <= e.dir * points[i].value
  BY <1>2
<1>8. CASE e.dir = 1
  BY <1>1, <1>4, <1>6, <1>7, <1>8
<1>9. CASE e.dir = -1
  BY <1>1, <1>4, <1>6, <1>7, <1>9
<1>10. QED BY <1>1, <1>8, <1>9

\* Known keeps the levels of the window.
LEMMA KnownIs ==
  ASSUME NEW points \in Seq(Points), NEW latest \in Nat
  PROVE  /\ Known(points, latest) \in Seq(Points)
         /\ \A k \in 1 .. Len(Known(points, latest)) : \E h \in 1 .. Len(points) : Known(points, latest)[k] = points[h]
         /\ \A h \in 1 .. Len(points) : latest - Window <= points[h].at =>
              \E k \in 1 .. Len(Known(points, latest)) : Known(points, latest)[k] = points[h]
<1> DEFINE E == {p \in ToSet(points) : latest - Window <= p.at}
           t == Known(points, latest)
<1>1. t = Only(points, E)
  BY DEF Known
<1> HIDE DEF t
<1>2. t \in Seq(Points) /\ \E g : Selects(points, E, Len(points), t, g)
  BY <1>1, OnlyIs
<1>3. PICK g : Selects(points, E, Len(points), t, g)
  BY <1>2
<1>4. \A k \in 1 .. Len(t) : g[k] \in 1 .. Len(points) /\ t[k] = points[g[k]]
  BY <1>3 DEF Selects
<1>5. \A h \in 1 .. Len(points) : latest - Window <= points[h].at => points[h] \in E
  BY IdsAre
<1> HIDE DEF E
<1>6. \A h \in 1 .. Len(points) : points[h] \in E => \E k \in 1 .. Len(t) : g[k] = h
  BY <1>3 DEF Selects
<1>7. QED BY <1>2, <1>4, <1>5, <1>6 DEF t

-----------------------------------------------------------------------------
(* What a scope makes of evidence. *)

\* What evidence that is shown to a scope changes.
LEMMA AdmitIs ==
  ASSUME NEW s \in Scopes, NEW scope \in ScopeType, NEW notices \in Seq(NoticeType), NEW e \in Evidence, NEW old,
         Window \in Nat
  PROVE  Admitted(scope, notices, e, Admit(s, scope, notices, e, old))
<1> DEFINE latest == Larger(e.peakAt, scope.last)
           points == Known(scope.points, latest)
           base   == [at |-> e.peakAt, value |-> e.baseline, origin |-> e.baseline]
           level  == [at |-> e.peakAt, value |-> e.peak, origin |-> e.baseline]
           first  == points = <<>>
           kind   == IF first THEN "first" ELSE "breakout"
           news   == IF first THEN <<base, level>> ELSE <<level>>
           all    == points \o news
           r      == Admit(s, scope, notices, e, old)
<1>1. /\ e.peakAt \in Nat /\ e.peak \in Int /\ e.baseline \in Int /\ e.dir \in {-1, 1}
      /\ scope.points \in Seq(Points) /\ scope.last \in Nat
  BY EvidenceNumbers DEF ScopeType
<1>2. latest \in Nat /\ scope.last <= latest
  BY <1>1 DEF Larger
<1>3. /\ points \in Seq(Points)
      /\ \A k \in 1 .. Len(points) : \E h \in 1 .. Len(scope.points) : points[k] = scope.points[h]
      /\ \A h \in 1 .. Len(scope.points) : latest - Window <= scope.points[h].at =>
           \E k \in 1 .. Len(points) : points[k] = scope.points[h]
  BY <1>1, <1>2, KnownIs
<1>4. base \in Points /\ level \in Points /\ base.at = e.peakAt /\ level.at = e.peakAt /\ level.value = e.peak
  BY <1>1 DEF Points
<1>5. news \in Seq(Points) /\ Len(news) \in Nat \ {0} /\ news[Len(news)] = level /\ \A k \in 1 .. Len(news) : news[k].at = e.peakAt
  <2>1. CASE first
    <3>1. news = <<base, level>>
      BY <2>1
    <3> HIDE DEF base, level, news
    <3>2. QED BY <3>1, <1>4
  <2>2. CASE ~ first
    <3>1. news = <<level>>
      BY <2>2
    <3> HIDE DEF base, level, news
    <3>2. QED BY <3>1, <1>4
  <2>3. QED BY <2>1, <2>2
<1>6. \/ r = [scope |-> scope, notices |-> notices]
      \/ /\ r = [scope |-> [last |-> latest, points |-> all], notices |-> Append(notices, Notice(e, kind))]
         /\ first \/ Breaks(s, points, e)
      \/ r = [scope |-> [last |-> latest, points |-> points], notices |-> notices]
  BY DEF Admit
<1> HIDE DEF latest, points, base, level, first, kind, news, r, all
<1>7. CASE r = [scope |-> scope, notices |-> notices]
  <2>1. r.scope = scope /\ r.notices = notices
    BY <1>7
  <2>2. QED BY <2>1, <1>1 DEF Admitted, r
<1>8. CASE r = [scope |-> [last |-> latest, points |-> points], notices |-> notices]
  <2>1. r.scope \in ScopeType /\ r.scope.last = latest /\ r.scope.points = points /\ r.notices = notices
    BY <1>2, <1>3, <1>8 DEF ScopeType
  <2> HIDE DEF r
  <2>2. QED BY <2>1, <1>2, <1>3 DEF Admitted, Counted, r
<1>9. CASE /\ r = [scope |-> [last |-> latest, points |-> all], notices |-> Append(notices, Notice(e, kind))]
           /\ first \/ Breaks(s, points, e)
  <2>1. /\ all \in Seq(Points) /\ Len(all) = Len(points) + Len(news)
        /\ \A k \in 1 .. Len(points) + Len(news) : all[k] = IF k <= Len(points) THEN points[k] ELSE news[k - Len(points)]
    BY <1>3, <1>5, ConcatProperties DEF all
  <2>2. Len(points) \in Nat /\ Len(news) \in Nat \ {0} /\ Len(notices) \in Nat
    BY <1>3, <1>5, LenProperties
  <2>3. \A k \in 1 .. Len(all) : \/ k \in 1 .. Len(points) /\ all[k] = points[k]
                                 \/ all[k].at = e.peakAt
    <3>1. ASSUME NEW k \in 1 .. Len(all)
          PROVE  \/ k \in 1 .. Len(points) /\ all[k] = points[k]
                 \/ all[k].at = e.peakAt
      <4>1. CASE k <= Len(points)
        BY <4>1, <2>1, <2>2
      <4>2. CASE ~ (k <= Len(points))
        <5>1. k - Len(points) \in 1 .. Len(news)
          BY <4>2, <2>1, <2>2
        <5>2. all[k] = news[k - Len(points)]
          BY <4>2, <2>1
        <5>3. QED BY <5>1, <5>2, <1>5
      <4>3. QED BY <4>1, <4>2
    <3>2. QED BY <3>1
  <2>4. \A k \in 1 .. Len(points) : k \in 1 .. Len(all) /\ all[k] = points[k]
    BY <2>1, <2>2
  <2>5. Len(all) \in 1 .. Len(all) /\ all[Len(all)] = level
    <3>1. Len(all) \in 1 .. Len(points) + Len(news) /\ ~ (Len(all) <= Len(points)) /\ Len(all) - Len(points) = Len(news)
      BY <2>1, <2>2
    <3>2. QED BY <3>1, <2>1, <1>5
  <2>6. r.scope \in ScopeType /\ r.scope.last = latest /\ r.scope.points = all /\ r.notices = Append(notices, Notice(e, kind))
    BY <1>2, <1>9, <2>1 DEF ScopeType
  <2>7. kind \in {"first", "breakout"}
    BY DEF kind
  <2>8. Notice(e, kind) \in NoticeType
    BY <2>7, NoticeIs
  <2>9. r.notices[Len(notices) + 1] = Notice(e, kind)
    BY <2>6, <2>8, AppendProperties
  <2>10. \A h \in 1 .. Len(scope.points) : latest - Window <= scope.points[h].at => e.dir * (e.peak - scope.points[h].value) >= 2
    <3>1. ASSUME NEW h \in 1 .. Len(scope.points), latest - Window <= scope.points[h].at
          PROVE  e.dir * (e.peak - scope.points[h].value) >= 2
      <4>1. PICK k \in 1 .. Len(points) : points[k] = scope.points[h]
        BY <1>3, <3>1
      <4>2. points # <<>>
        BY <4>1, EmptySeq
      <4>3. Breaks(s, points, e)
        BY <1>9, <4>2 DEF first
      <4>4. e.dir * (e.peak - points[k].value) >= 2
        BY <1>3, <4>2, <4>3, BreaksBeyond
      <4>5. QED BY <4>1, <4>4
    <3>2. QED BY <3>1
  <2>11. \A k \in 1 .. Len(r.scope.points) :
           \/ \E h \in 1 .. Len(scope.points) : r.scope.points[k] = scope.points[h]
           \/ r.notices = Append(notices, r.notices[Len(notices) + 1]) /\ r.scope.points[k].at = e.peakAt
    BY <1>3, <2>3, <2>6, <2>9
  <2>12. \A h \in 1 .. Len(scope.points) : Counted(r.scope, scope.points[h]) =>
           \E k \in 1 .. Len(r.scope.points) : r.scope.points[k] = scope.points[h]
    BY <1>3, <2>4, <2>6 DEF Counted
  <2>13. \E k \in 1 .. Len(r.scope.points) : r.scope.points[k].at = e.peakAt /\ r.scope.points[k].value = e.peak
    BY <1>4, <2>5, <2>6
  <2>14. \A h \in 1 .. Len(scope.points) : Counted(r.scope, scope.points[h]) => e.dir * (e.peak - scope.points[h].value) >= 2
    BY <2>6, <2>10 DEF Counted
  <2> HIDE DEF r
  <2>15. Admitted(scope, notices, e, r)
    BY <1>2, <2>6, <2>7, <2>11, <2>12, <2>13, <2>14 DEF Admitted
  <2>16. QED BY <2>15 DEF r
<1>10. QED BY <1>6, <1>7, <1>8, <1>9

-----------------------------------------------------------------------------
(* Writing one piece of evidence. *)

\* Two pieces of evidence of one pulse, one of them the later.
Comparable(e, f) == Later(e, f) \/ Later(f, e)
\* What writing one piece of evidence does.
Writes(db, e, d) ==
  /\ TablesSound(d) /\ BoundsMatch(d) /\ TablesGrow(db, d)
  /\ e.id \in DOMAIN d.stored /\ Later(e, d.stored[e.id].evidence)
  /\ \A p \in DOMAIN d.stored : p # e.id => p \in DOMAIN db.stored /\ d.stored[p] = db.stored[p]

\* Tables that stay have grown.
LEMMA GrowsItself ==
  ASSUME NEW db, TablesSound(db)
  PROVE  TablesGrow(db, db)
<1>1. ASSUME NEW p \in DOMAIN db.stored
      PROVE  RowGrows(db.stored[p], db.stored[p]) /\ Had(db, p) = Len(db.stored[p].notices) /\ Len(db.stored[p].notices) \in Nat
  <2>1. db.stored[p].evidence \in Evidence /\ Len(db.stored[p].notices) \in Nat
    BY LenProperties DEF TablesSound, RowSound
  <2>2. QED BY <2>1, LaterOrders DEF RowGrows, Had
<1>2. \A s \in Scopes : db.scopes[s].last <= db.scopes[s].last
  BY DEF TablesSound, ScopeType
<1>3. NewsIsNew(db, db)
  BY <1>1 DEF NewsIsNew
<1>4. QED BY <1>1, <1>2, <1>3 DEF TablesGrow

\* Evidence that is written becomes what is stored; a notice it brings is new to its scope, and

\* the two tables agree again.
LEMMA WrittenIs ==
  ASSUME NEW db, TablesSound(db), BoundsMatch(db), NEW e \in Evidence, e.id \in DOMAIN life, Later(e, life[e.id]),
         e.id \in DOMAIN db.stored => Comparable(e, db.stored[e.id].evidence)
  PROVE  Writes(db, e, Written(db, e))
<1> DEFINE known    == e.id \in DOMAIN db.stored
           previous == IF known THEN db.stored[e.id].evidence ELSE <<>>
           notices  == IF known THEN db.stored[e.id].notices ELSE <<>>
           s        == ScopeOf[e.id]
           r        == Admit(s, db.scopes[s], notices, e, previous)
           d        == [stored |-> [p \in DOMAIN db.stored \cup {e.id} |->
                         IF p = e.id THEN [evidence |-> e, notices |-> r.notices] ELSE db.stored[p]],
                        scopes |-> [db.scopes EXCEPT ![s] = r.scope]]
<1>1. Written(db, e) = IF known /\ e.version <= previous.version THEN db ELSE d
  BY DEF Written, Evidenced
<1>2. /\ \A p \in DOMAIN db.stored : db.stored[p].evidence \in Evidence /\ db.stored[p].notices \in Seq(NoticeType)
      /\ \A p \in DOMAIN db.stored : p \in DOMAIN life /\ db.stored[p].evidence.id = p
      /\ \A t \in Scopes : db.scopes[t] \in ScopeType /\ db.scopes[t].points \in Seq(Points) /\ db.scopes[t].last \in Nat
  BY DEF TablesSound, RowSound, ScopeType
<1>3. s \in Scopes /\ e.id \in Pulses /\ \A p \in Pulses : ScopeOf[p] \in Scopes
  BY LifeAssumption, EvidenceNumbers
<1>4. notices \in Seq(NoticeType) /\ Len(notices) \in Nat /\ Len(notices) = Had(db, e.id)
  <2>1. CASE known
    <3>1. notices = db.stored[e.id].notices
      BY <2>1
    <3>2. QED BY <3>1, <2>1, <1>2, LenProperties DEF Had
  <2>2. CASE ~ known
    <3>1. notices = <<>>
      BY <2>2
    <3>2. QED BY <3>1, <2>2, EmptySeq DEF Had
  <2>3. QED BY <2>1, <2>2
<1>5. Admitted(db.scopes[s], notices, e, r)
  <2> HIDE DEF notices, previous
  <2>1. QED BY <1>2, <1>3, <1>4, StoreAssumption, AdmitIs
<1>6. CASE known /\ e.version <= previous.version
  <2>1. previous \in Evidence /\ previous = db.stored[e.id].evidence
    BY <1>6, <1>2
  <2>2. Later(e, previous)
    <3>1. CASE Later(e, previous)
      BY <3>1
    <3>2. CASE Later(previous, e)
      <4>1. previous.version <= e.version /\ (previous.version = e.version => previous = e)
        BY <3>2 DEF Later
      <4>2. previous.version \in Nat /\ e.version \in Nat
        BY <2>1, EvidenceNumbers
      <4>3. previous = e
        BY <1>6, <4>1, <4>2
      <4>4. QED BY <4>3, LaterOrders
    <3>3. QED BY <3>1, <3>2, <2>1, <1>6 DEF Comparable
  <2>3. Written(db, e) = db
    BY <1>1, <1>6
  <2>4. TablesGrow(db, db)
    BY GrowsItself
  <2>5. QED BY <1>6, <2>1, <2>2, <2>3, <2>4 DEF Writes
<1>7. CASE ~ (known /\ e.version <= previous.version)
  <2>1. Written(db, e) = d
    BY <1>1, <1>7
  <2>2. known => Later(db.stored[e.id].evidence, e)
    <3>1. ASSUME known, Later(e, db.stored[e.id].evidence)
          PROVE  FALSE
      <4>1. e.version <= db.stored[e.id].evidence.version
        BY <3>1 DEF Later
      <4>2. QED BY <1>7, <3>1, <4>1
    <3>2. QED BY <3>1 DEF Comparable
  <2> HIDE DEF previous, notices, r
  <2>3. /\ DOMAIN d.stored = DOMAIN db.stored \cup {e.id} /\ d.stored[e.id] = [evidence |-> e, notices |-> r.notices]
        /\ \A p \in DOMAIN db.stored : p # e.id => d.stored[p] = db.stored[p]
        /\ d.scopes[s] = r.scope /\ \A t \in Scopes : t # s => d.scopes[t] = db.scopes[t]
        /\ d = [stored |-> d.stored, scopes |-> d.scopes] /\ d.stored = [p \in DOMAIN d.stored |-> d.stored[p]]
        /\ d.scopes \in [Scopes -> ScopeType]
    <3>1. db.scopes \in [Scopes -> ScopeType] /\ r.scope \in ScopeType
      BY <1>5 DEF Admitted, TablesSound
    <3>2. QED BY <3>1, <1>3
  <2> HIDE DEF d, s
  <2>4. PICK kind \in {"first", "breakout"} :
          \/ r.notices = notices
          \/ LET b == Notice(e, kind)
             IN /\ r.notices = Append(notices, b)
                /\ \E k \in 1 .. Len(r.scope.points) : r.scope.points[k].at = e.peakAt /\ r.scope.points[k].value = e.peak
                /\ \A h \in 1 .. Len(db.scopes[s].points) : Counted(r.scope, db.scopes[s].points[h]) =>
                     e.dir * (e.peak - db.scopes[s].points[h].value) >= 2
    BY <1>5 DEF Admitted
  <2> DEFINE b == Notice(e, kind)
             n == Len(notices)
  <2>5. b \in NoticeType /\ b.at = e.peakAt /\ b.value = e.peak /\ b.dir = e.dir
    BY NoticeIs
  <2> HIDE DEF b
  <2>6. /\ r.notices \in Seq(NoticeType) /\ Len(r.notices) \in {n, n + 1} /\ \A i \in 1 .. n : r.notices[i] = notices[i]
        /\ Len(r.notices) = n + 1 => /\ r.notices[n + 1] = b
             /\ \E k \in 1 .. Len(r.scope.points) : r.scope.points[k].at = e.peakAt /\ r.scope.points[k].value = e.peak
             /\ \A h \in 1 .. Len(db.scopes[s].points) : Counted(r.scope, db.scopes[s].points[h]) =>
                     e.dir * (e.peak - db.scopes[s].points[h].value) >= 2
    <3>1. CASE r.notices = notices
      BY <3>1, <1>4
    <3>2. CASE r.notices # notices
      <4>1. r.notices = Append(notices, b)
        BY <2>4, <3>2 DEF b
      <4>2. QED BY <4>1, <2>4, <2>5, <1>4, <3>2, AppendProperties DEF b
    <3>3. QED BY <3>1, <3>2
  <2>7. d.stored[e.id].evidence = e /\ d.stored[e.id].notices = r.notices
    BY <2>3
  <2>8. TablesSound(d)
    <3>1. ASSUME NEW p \in DOMAIN d.stored
          PROVE  p \in DOMAIN life /\ RowSound(d.stored[p], p) /\ Later(d.stored[p].evidence, life[p])
      <4>1. CASE p = e.id
        BY <4>1, <2>3, <2>6, <2>7 DEF RowSound
      <4>2. CASE p # e.id
        BY <4>2, <2>3 DEF TablesSound
      <4>3. QED BY <4>1, <4>2
    <3>2. QED BY <3>1, <2>3 DEF TablesSound
  <2>9. ASSUME NEW p \in DOMAIN db.stored
        PROVE  /\ p \in DOMAIN d.stored /\ RowGrows(db.stored[p], d.stored[p])
               /\ p \in Pulses /\ ScopeOf[p] \in Scopes /\ Len(db.stored[p].notices) = Had(db, p) /\ Had(db, p) \in Nat
    <3>0. p \in Pulses /\ Len(db.stored[p].notices) = Had(db, p) /\ Had(db, p) \in Nat
      <4>1. db.stored[p].evidence \in Evidence /\ db.stored[p].evidence.id = p /\ db.stored[p].notices \in Seq(NoticeType)
        BY <1>2
      <4>2. QED BY <4>1, EvidenceNumbers, LenProperties DEF Had
    <3>1. CASE p = e.id
      <4>1. notices = db.stored[p].notices /\ n = Len(db.stored[p].notices)
        BY <3>1 DEF notices
      <4>2. n <= Len(r.notices)
        BY <2>6, <1>4
      <4>3. QED BY <3>0, <3>1, <4>1, <4>2, <2>2, <2>3, <2>6, <2>7, <1>3 DEF RowGrows
    <3>2. CASE p # e.id
      <4>1. d.stored[p] = db.stored[p] /\ db.stored[p].evidence \in Evidence
        BY <3>2, <2>3, <1>2
      <4>2. QED BY <3>0, <4>1, <2>3, <1>3, LaterOrders DEF RowGrows
    <3>3. QED BY <3>1, <3>2
  <2>10. \A t \in Scopes : db.scopes[t].last <= d.scopes[t].last /\ db.scopes[t].last \in Nat /\ d.scopes[t].last \in Nat
    <3>1. ASSUME NEW t \in Scopes
          PROVE  db.scopes[t].last <= d.scopes[t].last /\ db.scopes[t].last \in Nat /\ d.scopes[t].last \in Nat
      <4>1. db.scopes[t].last \in Nat /\ d.scopes[t].last \in Nat
        BY <1>2, <2>3 DEF ScopeType
      <4>2. CASE t = s
        BY <4>1, <4>2, <2>3, <1>5 DEF Admitted
      <4>3. CASE t # s
        BY <4>1, <4>3, <2>3
      <4>4. QED BY <4>1, <4>2, <4>3
    <3>2. QED BY <3>1
  <2>11. \A t \in Scopes, a \in NoticeType \cup Points : Counted(d.scopes[t], a) => Counted(db.scopes[t], a)
    <3>1. Window \in Nat /\ \A a \in NoticeType \cup Points : a.at \in Int
      BY StoreAssumption DEF NoticeType, Points
    <3>2. QED BY <3>1, <2>10 DEF Counted
  \* A level that tells a notice of the scope that is still counted.
  <2>12. ASSUME NEW p \in DOMAIN db.stored, ScopeOf[p] = s, NEW i \in 1 .. Len(db.stored[p].notices),
                Counted(r.scope, db.stored[p].notices[i])
         PROVE  \E h \in 1 .. Len(db.scopes[s].points) :
                  /\ db.scopes[s].points[h].at = db.stored[p].notices[i].at
                  /\ db.scopes[s].points[h].value = db.stored[p].notices[i].value
                  /\ Counted(r.scope, db.scopes[s].points[h])
    <3> DEFINE a == db.stored[p].notices[i]
    <3>1. a \in NoticeType
      BY <1>2, ElementOfSeq
    <3>2. Counted(db.scopes[s], a)
      BY <1>3, <2>3, <2>11, <2>12, <3>1 DEF s
    <3>3. PICK h \in 1 .. Len(db.scopes[s].points) :
            db.scopes[s].points[h].at = a.at /\ db.scopes[s].points[h].value = a.value
      BY <2>12, <3>2 DEF BoundsMatch, TellsItsLevels
    <3>4. QED BY <3>3, <2>12 DEF Counted
  <2>13. BoundsMatch(d)
    <3>1. ASSUME NEW p \in DOMAIN d.stored, NEW i \in 1 .. Len(d.stored[p].notices),
                 Counted(d.scopes[ScopeOf[p]], d.stored[p].notices[i])
          PROVE  \E k \in 1 .. Len(d.scopes[ScopeOf[p]].points) :
                   /\ d.scopes[ScopeOf[p]].points[k].at = d.stored[p].notices[i].at
                   /\ d.scopes[ScopeOf[p]].points[k].value = d.stored[p].notices[i].value
      <4>1. ASSUME p \in DOMAIN db.stored, ScopeOf[p] = s, i \in 1 .. Len(db.stored[p].notices),
                   d.stored[p].notices[i] = db.stored[p].notices[i]
            PROVE  \E k \in 1 .. Len(r.scope.points) :
                     /\ r.scope.points[k].at = d.stored[p].notices[i].at
                     /\ r.scope.points[k].value = d.stored[p].notices[i].value
        <5>1. PICK h \in 1 .. Len(db.scopes[s].points) :
                /\ db.scopes[s].points[h].at = db.stored[p].notices[i].at
                /\ db.scopes[s].points[h].value = db.stored[p].notices[i].value
                /\ Counted(r.scope, db.scopes[s].points[h])
          BY <2>12, <4>1, <3>1, <2>3
        <5>2. PICK k \in 1 .. Len(r.scope.points) : r.scope.points[k] = db.scopes[s].points[h]
          BY <1>5, <5>1 DEF Admitted
        <5>3. QED BY <5>1, <5>2, <4>1
      <4>2. CASE p = e.id
        <5>1. d.stored[p].notices = r.notices /\ ScopeOf[p] = s /\ i \in 1 .. Len(r.notices)
          BY <4>2, <2>7, <3>1 DEF s
        <5>2. CASE i \in 1 .. n
          <6>1. 1 .. n # {} /\ n = Had(db, e.id)
            BY <5>2, <1>4
          <6>2. p \in DOMAIN db.stored
            BY <4>2, <6>1 DEF Had
          <6>3. notices = db.stored[p].notices
            BY <4>2, <6>2 DEF notices
          <6>4. i \in 1 .. Len(db.stored[p].notices) /\ d.stored[p].notices[i] = db.stored[p].notices[i]
            BY <5>1, <5>2, <6>3, <2>6
          <6>5. QED BY <4>1, <5>1, <6>2, <6>4, <2>3
        <5>3. CASE i \notin 1 .. n
          <6>1. i = n + 1 /\ Len(r.notices) = n + 1
            BY <5>1, <5>3, <2>6, <1>4
          <6>2. QED BY <5>1, <6>1, <2>3, <2>5, <2>6
        <5>4. QED BY <5>2, <5>3
      <4>3. CASE p # e.id
        <5>1. p \in DOMAIN db.stored /\ d.stored[p] = db.stored[p]
          BY <4>3, <2>3
        <5>2. CASE ScopeOf[p] = s
          BY <4>1, <5>1, <5>2, <2>3
        <5>3. CASE ScopeOf[p] # s
          <6>1. d.scopes[ScopeOf[p]] = db.scopes[ScopeOf[p]]
            BY <5>1, <5>3, <2>3, <2>9
          <6>2. QED BY <5>1, <6>1, <3>1 DEF BoundsMatch, TellsItsLevels
        <5>4. QED BY <5>2, <5>3
      <4>4. QED BY <4>2, <4>3
    <3>2. ASSUME NEW t \in Scopes, NEW k \in 1 .. Len(d.scopes[t].points)
          PROVE  LevelIsTold(d, t, k)
      <4>1. ASSUME NEW h \in 1 .. Len(db.scopes[t].points), d.scopes[t].points[k] = db.scopes[t].points[h]
            PROVE  LevelIsTold(d, t, k)
        <5>1. PICK p \in DOMAIN db.stored : /\ ScopeOf[p] = t
                 /\ \E i \in 1 .. Len(db.stored[p].notices) : db.stored[p].notices[i].at = db.scopes[t].points[h].at
          BY DEF BoundsMatch, LevelIsTold
        <5>2. PICK i \in 1 .. Len(db.stored[p].notices) : db.stored[p].notices[i].at = db.scopes[t].points[h].at
          BY <5>1
        <5>3. p \in DOMAIN d.stored /\ d.stored[p].notices[i] = db.stored[p].notices[i] /\ Len(db.stored[p].notices) <= Len(d.stored[p].notices)
              /\ Len(db.stored[p].notices) \in Nat
          BY <2>9 DEF RowGrows
        <5>4. Len(d.stored[p].notices) \in Nat
          BY <5>3, <2>8, LenProperties DEF TablesSound, RowSound
        <5>5. i \in 1 .. Len(d.stored[p].notices)
          BY <5>3, <5>4
        <5>6. QED BY <4>1, <5>1, <5>2, <5>3, <5>5 DEF LevelIsTold
      <4>2. CASE t # s
        BY <4>1, <4>2, <2>3
      <4>3. CASE t = s
        <5>1. d.scopes[t] = r.scope
          BY <4>3, <2>3
        <5>2. CASE \E h \in 1 .. Len(db.scopes[s].points) : r.scope.points[k] = db.scopes[s].points[h]
          BY <4>1, <4>3, <5>1, <5>2
        <5>3. CASE r.notices = Append(notices, r.notices[Len(notices) + 1]) /\ r.scope.points[k].at = e.peakAt
          <6>1. Len(r.notices) = n + 1
            <7>0. r.notices[n + 1] = b \/ r.notices = notices
              BY <2>4, <1>4, <2>5, AppendProperties DEF b
            <7>1. Len(r.notices) # n
              <8>1. \A x : Len(Append(notices, x)) = n + 1
                BY <1>4
              <8>2. QED BY <5>3, <8>1, <1>4
            <7>2. QED BY <7>1, <2>6
          <6>2. r.notices[n + 1] = b /\ n + 1 \in 1 .. Len(r.notices)
            BY <6>1, <2>6, <1>4
          <6>3. e.id \in DOMAIN d.stored /\ ScopeOf[e.id] = t
            BY <2>3, <4>3 DEF s
          <6>4. QED BY <5>1, <5>3, <6>2, <6>3, <2>5, <2>7 DEF LevelIsTold
        <5>4. QED BY <5>1, <5>2, <5>3, <1>5 DEF Admitted
      <4>4. QED BY <4>2, <4>3
    <3>3. QED BY <3>1, <3>2 DEF BoundsMatch, TellsItsLevels
  <2>14. NewsIsNew(db, d)
    <3>1. ASSUME NEW p \in DOMAIN d.stored, NEW i \in 1 .. Len(d.stored[p].notices), i > Had(db, p),
                 NEW q \in DOMAIN db.stored, ScopeOf[q] = ScopeOf[p], NEW j \in 1 .. Len(db.stored[q].notices),
                 Counted(d.scopes[ScopeOf[p]], db.stored[q].notices[j])
          PROVE  Beyond(db.stored[q].notices[j], d.stored[p].notices[i])
      <4>1. p = e.id
        <5>1. ASSUME p # e.id PROVE FALSE
          <6>1. p \in DOMAIN db.stored /\ d.stored[p] = db.stored[p]
            BY <5>1, <2>3
          <6>2. Len(d.stored[p].notices) = Had(db, p) /\ Had(db, p) \in Nat
            BY <6>1, <2>9
          <6>3. QED BY <6>2, <3>1
        <5>2. QED BY <5>1
      <4>2. d.stored[p].notices = r.notices /\ ScopeOf[p] = s /\ i \in 1 .. Len(r.notices) /\ i > n
        BY <4>1, <2>7, <3>1, <1>4 DEF s
      <4>3. Len(r.notices) = n + 1 /\ i = n + 1 /\ d.stored[p].notices[i] = b
        BY <4>2, <2>6, <1>4
      <4>4. PICK h \in 1 .. Len(db.scopes[s].points) :
                /\ db.scopes[s].points[h].at = db.stored[q].notices[j].at
                /\ db.scopes[s].points[h].value = db.stored[q].notices[j].value
                /\ Counted(r.scope, db.scopes[s].points[h])
        BY <2>12, <3>1, <4>2, <2>3
      <4>5. e.dir * (e.peak - db.stored[q].notices[j].value) >= 2
        BY <4>3, <4>4, <2>6
      <4>6. QED BY <4>3, <4>5, <2>5 DEF Beyond
    <3>2. QED BY <3>1 DEF NewsIsNew
  <2>15. TablesGrow(db, d)
    BY <2>9, <2>10, <2>14 DEF TablesGrow
  <2>16. Later(e, d.stored[e.id].evidence)
    BY <2>7, LaterOrders
  <2>17. QED BY <2>1, <2>3, <2>8, <2>13, <2>15, <2>16 DEF Writes
<1>8. QED BY <1>6, <1>7

-----------------------------------------------------------------------------
(* A transaction. *)

\* What grows twice has grown.
LEMMA GrowsOn ==
  ASSUME NEW a, NEW b, NEW c, TablesSound(a), TablesSound(b), TablesSound(c), TablesGrow(a, b), TablesGrow(b, c)
  PROVE  TablesGrow(a, c)
<1>0. ASSUME NEW d, TablesSound(d)
      PROVE  /\ \A p \in DOMAIN d.stored : /\ d.stored[p].evidence \in Evidence /\ d.stored[p].notices \in Seq(NoticeType)
                                           /\ Len(d.stored[p].notices) \in Nat /\ Had(d, p) = Len(d.stored[p].notices)
                                           /\ p \in Pulses /\ ScopeOf[p] \in Scopes
             /\ \A s \in Scopes : d.scopes[s].last \in Nat
  <2>1. ASSUME NEW p \in DOMAIN d.stored
        PROVE  /\ d.stored[p].evidence \in Evidence /\ d.stored[p].notices \in Seq(NoticeType) /\ p \in Pulses
               /\ Len(d.stored[p].notices) \in Nat
    <3>1. d.stored[p].evidence \in Evidence /\ d.stored[p].evidence.id = p /\ d.stored[p].notices \in Seq(NoticeType)
      BY <1>0 DEF TablesSound, RowSound
    <3>2. QED BY <3>1, EvidenceNumbers, LenProperties
  <2>2. \A s \in Scopes : d.scopes[s].last \in Nat
    BY <1>0 DEF TablesSound, ScopeType
  <2>3. QED BY <2>1, <2>2, LifeAssumption DEF Had
<1>1. ASSUME NEW p \in DOMAIN a.stored
      PROVE  p \in DOMAIN c.stored /\ RowGrows(a.stored[p], c.stored[p])
  <2>1. p \in DOMAIN b.stored /\ RowGrows(a.stored[p], b.stored[p])
    BY DEF TablesGrow
  <2>2. p \in DOMAIN c.stored /\ RowGrows(b.stored[p], c.stored[p])
    BY <2>1 DEF TablesGrow
  <2>3. Later(a.stored[p].evidence, c.stored[p].evidence)
    BY <1>0, <2>1, <2>2, LaterOrders DEF RowGrows
  <2>4. /\ Len(a.stored[p].notices) \in Nat /\ Len(b.stored[p].notices) \in Nat /\ Len(c.stored[p].notices) \in Nat
        /\ Len(a.stored[p].notices) <= Len(b.stored[p].notices) /\ Len(b.stored[p].notices) <= Len(c.stored[p].notices)
    BY <1>0, <2>1, <2>2 DEF RowGrows
  <2>5. ASSUME NEW i \in 1 .. Len(a.stored[p].notices)
        PROVE  c.stored[p].notices[i] = a.stored[p].notices[i]
    <3>1. i \in 1 .. Len(b.stored[p].notices)
      BY <2>4
    <3>2. QED BY <3>1, <2>1, <2>2 DEF RowGrows
  <2>6. QED BY <2>2, <2>3, <2>4, <2>5 DEF RowGrows
<1>2. \A s \in Scopes : a.scopes[s].last <= c.scopes[s].last
  BY <1>0 DEF TablesGrow
<1>3. ASSUME NEW p \in DOMAIN c.stored, NEW i \in 1 .. Len(c.stored[p].notices), i > Had(a, p),
             NEW q \in DOMAIN a.stored, ScopeOf[q] = ScopeOf[p], NEW j \in 1 .. Len(a.stored[q].notices),
             Counted(c.scopes[ScopeOf[p]], a.stored[q].notices[j])
      PROVE  Beyond(a.stored[q].notices[j], c.stored[p].notices[i])
  <2>1. /\ q \in DOMAIN b.stored /\ b.stored[q].notices[j] = a.stored[q].notices[j] /\ j \in 1 .. Len(b.stored[q].notices)
    <3>1. q \in DOMAIN b.stored /\ RowGrows(a.stored[q], b.stored[q])
      BY DEF TablesGrow
    <3>2. Len(a.stored[q].notices) \in Nat /\ Len(b.stored[q].notices) \in Nat /\ Len(a.stored[q].notices) <= Len(b.stored[q].notices)
      BY <1>0, <3>1 DEF RowGrows
    <3>3. j \in 1 .. Len(b.stored[q].notices)
      BY <3>2
    <3>4. QED BY <3>1, <3>3 DEF RowGrows
  <2>2. CASE i > Had(b, p)
    BY <1>3, <2>1, <2>2 DEF TablesGrow, NewsIsNew
  <2>3. CASE ~ (i > Had(b, p))
    <3>1. p \in DOMAIN b.stored
      <4>1. ASSUME p \notin DOMAIN b.stored PROVE FALSE
        <5>1. Had(b, p) = 0
          BY <4>1 DEF Had
        <5>2. QED BY <5>1, <2>3
      <4>2. QED BY <4>1
    <3>2. RowGrows(b.stored[p], c.stored[p]) /\ Had(b, p) = Len(b.stored[p].notices) /\ Had(b, p) \in Nat
      BY <1>0, <3>1 DEF TablesGrow
    <3>3. i \in 1 .. Len(b.stored[p].notices)
      BY <2>3, <3>2
    <3>4. c.stored[p].notices[i] = b.stored[p].notices[i]
      BY <3>2, <3>3 DEF RowGrows
    <3>5. Counted(b.scopes[ScopeOf[p]], a.stored[q].notices[j])
      <4>1. a.stored[q].notices[j] \in NoticeType
        BY <1>0, ElementOfSeq
      <4>2. a.stored[q].notices[j].at \in Int /\ Window \in Nat
        BY <4>1, StoreAssumption DEF NoticeType
      <4>3. /\ b.scopes[ScopeOf[p]].last \in Nat /\ c.scopes[ScopeOf[p]].last \in Nat
            /\ b.scopes[ScopeOf[p]].last <= c.scopes[ScopeOf[p]].last
        BY <1>0, <3>1 DEF TablesGrow
      <4>4. QED BY <1>3, <4>2, <4>3 DEF Counted
    <3>6. Beyond(a.stored[q].notices[j], b.stored[p].notices[i])
      BY <1>3, <3>1, <3>3, <3>5 DEF TablesGrow, NewsIsNew
    <3>7. QED BY <3>4, <3>6
  <2>4. QED BY <2>2, <2>3
<1>4. QED BY <1>1, <1>2, <1>3 DEF TablesGrow, NewsIsNew

\* The recursion of After, up to m.
Tables == [stored |-> stored, scopes |-> scopes]
WrittenUpTo(f, m) ==
  f = [n \in 0 .. m |-> IF n = 0 THEN [stored |-> stored, scopes |-> scopes]
                        ELSE Written(f[n - 1], InPeakOrder(taken)[n])]

\* It has a solution.
LEMMA AfterExists ==
  ASSUME NEW m \in Nat
  PROVE  \E f : WrittenUpTo(f, m)
<1> DEFINE Bad == {n \in Nat : ~ \E f : WrittenUpTo(f, n)}
           s(n) == InPeakOrder(taken)[n]
<1> HIDE DEF s
<1>1. SUFFICES ASSUME Bad # {} PROVE FALSE
  OBVIOUS
<1>2. PICK k \in Bad : \A u \in Bad : k <= u
  BY <1>1, LeastExists
<1>3. k # 0
  <2>1. WrittenUpTo([n \in 0 .. 0 |-> [stored |-> stored, scopes |-> scopes]], 0)
    BY DEF WrittenUpTo
  <2>2. QED BY <2>1
<1>4. k - 1 \in Nat /\ k - 1 \notin Bad
  BY <1>2, <1>3
<1>5. PICK f : WrittenUpTo(f, k - 1)
  BY <1>4
<1> DEFINE g == [n \in 0 .. k |-> IF n < k THEN f[n] ELSE Written(f[n - 1], s(n))]
<1>6. WrittenUpTo(g, k)
  <2>1. \A n \in 0 .. k : n < k => g[n] = f[n]
    OBVIOUS
  <2>2. ASSUME NEW n \in 0 .. k
        PROVE  g[n] = IF n = 0 THEN [stored |-> stored, scopes |-> scopes] ELSE Written(g[n - 1], s(n))
    <3>1. CASE n = k
      BY <3>1, <1>3, <1>4, <2>1
    <3>2. CASE n # k
      <4>1. n \in 0 .. k - 1 /\ n < k /\ (n # 0 => n - 1 \in 0 .. k /\ n - 1 < k)
        BY <3>2, <1>4
      <4>2. f[n] = IF n = 0 THEN [stored |-> stored, scopes |-> scopes] ELSE Written(f[n - 1], s(n))
        BY <1>5, <4>1 DEF WrittenUpTo, s
      <4>3. QED BY <4>1, <4>2, <2>1
    <3>3. QED BY <3>1, <3>2
  <2>3. QED BY <2>2 DEF WrittenUpTo, s
<1>7. QED BY <1>6

\* A batch as the writer holds it.
BatchSound(batch) ==
  /\ batch \in Seq(Evidence) /\ Distinct(batch)
  /\ \A i \in 1 .. Len(batch) : /\ batch[i].id \in DOMAIN life \ lost /\ Later(batch[i], life[batch[i].id])
                                /\ batch[i].id \in DOMAIN stored => Comparable(batch[i], stored[batch[i].id].evidence)

\* A commit writes each piece of evidence of its batch, one at a time, and nothing else.
LEMMA CommittedIs ==
  ASSUME TablesSound(Tables), BoundsMatch(Tables), BatchSound(taken)
  PROVE  /\ TablesSound(Committed) /\ BoundsMatch(Committed) /\ TablesGrow(Tables, Committed)
         /\ \A i \in 1 .. Len(taken) : /\ taken[i].id \in DOMAIN Committed.stored
                                       /\ Later(taken[i], Committed.stored[taken[i].id].evidence)
         /\ \A p \in DOMAIN Committed.stored : p \notin Ids(taken) => p \in DOMAIN stored /\ Committed.stored[p] = stored[p]
<1> DEFINE after == CHOOSE f : WrittenUpTo(f, Len(taken))
           s == [n \in 1 .. Len(taken) |-> InPeakOrder(taken)[n]]
           P(n) == /\ TablesSound(after[n]) /\ BoundsMatch(after[n]) /\ TablesGrow(Tables, after[n])
                   /\ \A k \in 1 .. n : /\ s[k].id \in DOMAIN after[n].stored
                                        /\ Later(s[k], after[n].stored[s[k].id].evidence)
                   /\ \A p \in DOMAIN after[n].stored : (\A k \in 1 .. n : s[k].id # p) =>
                        p \in DOMAIN stored /\ after[n].stored[p] = stored[p]
           Bad == {n \in 0 .. Len(taken) : ~ P(n)}
<1>0. Len(taken) \in Nat /\ taken \in Seq(Evidence) /\ Tables.stored = stored
  BY LenProperties DEF BatchSound, Tables
<1>1. Committed = after[Len(taken)]
  BY DEF Committed, After, WrittenUpTo
<1>2. WrittenUpTo(after, Len(taken))
  BY <1>0, AfterExists
<1>3. /\ \A n \in 1 .. Len(taken) : s[n] \in ToSet(taken)
      /\ \A e \in ToSet(taken) : \E n \in 1 .. Len(taken) : s[n] = e
      /\ \A m, n \in 1 .. Len(taken) : s[m].id = s[n].id => m = n
  <2>1. \A i, j \in 1 .. Len(taken) : taken[i].id = taken[j].id => i = j
    BY DEF BatchSound, Distinct
  <2>2. QED BY <2>1, <1>0, PeakOrderIs
<1>4. after[0] = Tables
  <2>1. 0 \in 0 .. Len(taken)
    BY <1>0
  <2>2. after[0] = [stored |-> stored, scopes |-> scopes]
    BY <1>2, <2>1, Zenon DEF WrittenUpTo
  <2>3. QED BY <2>2 DEF Tables
<1>5. \A n \in 1 .. Len(taken) : after[n] = Written(after[n - 1], s[n])
  <2>1. ASSUME NEW n \in 1 .. Len(taken)
        PROVE  after[n] = Written(after[n - 1], s[n])
    <3>1. n \in 0 .. Len(taken) /\ n # 0
      BY <1>0
    <3>2. QED BY <3>1, <1>2 DEF WrittenUpTo
  <2>2. QED BY <2>1
<1> HIDE DEF after, s
<1>6. ASSUME NEW n \in 1 .. Len(taken)
      PROVE  /\ s[n] \in Evidence /\ s[n].id \in DOMAIN life /\ Later(s[n], life[s[n].id])
             /\ s[n].id \in DOMAIN stored => Comparable(s[n], stored[s[n].id].evidence)
  <2>1. PICK i \in 1 .. Len(taken) : s[n] = taken[i]
    BY <1>3, <1>0, IdsAre
  <2>2. taken[i] \in Evidence
    BY <1>0, ElementOfSeq
  <2>3. QED BY <2>1, <2>2 DEF BatchSound
<1>7. Bad = {}
  <2>1. SUFFICES ASSUME Bad # {} PROVE FALSE
    OBVIOUS
  <2>2. Bad \subseteq Nat /\ Bad \subseteq 0 .. Len(taken) /\ \A n \in 0 .. Len(taken) : n \notin Bad => P(n)
    BY <1>0
  <2>3. PICK n \in Bad : \A u \in Bad : n <= u
    <3> HIDE DEF Bad
    <3>1. QED BY <2>1, <2>2, LeastExists
  <2>4. n # 0
    <3>1. \A k \in 1 .. 0 : FALSE
      OBVIOUS
    <3>2. TablesGrow(Tables, Tables)
      BY GrowsItself
    <3>3. P(0)
      BY <1>0, <1>4, <3>1, <3>2
    <3>4. QED BY <3>3
  <2>5. n \in 1 .. Len(taken) /\ n - 1 \in 0 .. Len(taken) /\ n - 1 \notin Bad
    <3> HIDE DEF Bad
    <3>1. QED BY <2>2, <2>3, <2>4, <1>0
  <2>6. P(n - 1)
    BY <2>2, <2>5
  <2> DEFINE db == after[n - 1]
             e == s[n]
             d == after[n]
  <2>7. d = Written(db, e)
    BY <1>5, <2>5
  <2>8. \A k \in 1 .. n : k \in 1 .. n - 1 \/ k = n
    BY <2>5
  <2>9. \A k \in 1 .. n - 1 : s[k].id # e.id /\ k \in 1 .. n
    <3>1. \A k \in 1 .. n - 1 : k \in 1 .. Len(taken) /\ k # n /\ k \in 1 .. n
      BY <2>5, <1>0
    <3>2. QED BY <3>1, <1>3, <2>5
  <2>10. e.id \in DOMAIN db.stored => Comparable(e, db.stored[e.id].evidence)
    BY <2>5, <2>6, <2>9, <1>6
  <2>11. Writes(db, e, d)
    <3> HIDE DEF db, e, d
    <3>1. TablesSound(db) /\ BoundsMatch(db)
      BY <2>6 DEF db
    <3>2. e \in Evidence /\ e.id \in DOMAIN life /\ Later(e, life[e.id])
      BY <1>6, <2>5 DEF e
    <3>3. QED BY <2>7, <2>10, <3>1, <3>2, WrittenIs
  <2>12. TablesGrow(Tables, d)
    <3>1. TablesSound(db) /\ TablesGrow(Tables, db)
      BY <2>6
    <3>2. TablesSound(d) /\ TablesGrow(db, d)
      BY <2>11 DEF Writes
    <3> HIDE DEF db, d
    <3>3. QED BY <3>1, <3>2, GrowsOn
  <2>13. ASSUME NEW k \in 1 .. n
         PROVE  s[k].id \in DOMAIN d.stored /\ Later(s[k], d.stored[s[k].id].evidence)
    <3>1. CASE k = n
      BY <3>1, <2>11 DEF Writes
    <3>2. CASE k \in 1 .. n - 1
      <4>1. s[k].id \in DOMAIN db.stored /\ Later(s[k], db.stored[s[k].id].evidence) /\ s[k].id # e.id
        BY <3>2, <2>6, <2>9
      <4>2. s[k].id \in DOMAIN d.stored
        BY <4>1, <2>11 DEF Writes, TablesGrow
      <4>3. d.stored[s[k].id] = db.stored[s[k].id]
        BY <4>1, <4>2, <2>11 DEF Writes
      <4>4. QED BY <4>1, <4>2, <4>3
    <3>3. QED BY <3>1, <3>2, <2>8
  <2>14. ASSUME NEW p \in DOMAIN d.stored, \A k \in 1 .. n : s[k].id # p
         PROVE  p \in DOMAIN stored /\ d.stored[p] = stored[p]
    <3>1. p # e.id /\ \A k \in 1 .. n - 1 : s[k].id # p
      <4>1. n \in 1 .. n
        BY <2>5
      <4>2. QED BY <4>1, <2>9, <2>14
    <3>2. p \in DOMAIN db.stored /\ d.stored[p] = db.stored[p]
      BY <3>1, <2>11 DEF Writes
    <3>3. QED BY <3>1, <3>2, <2>6
  <2>15. P(n)
    <3>1. TablesSound(d) /\ BoundsMatch(d)
      BY <2>11 DEF Writes
    <3>2. QED BY <3>1, <2>12, <2>13, <2>14
  <2>16. QED BY <2>15, <2>3
<1>8. P(Len(taken))
  <2>1. Len(taken) \in 0 .. Len(taken)
    BY <1>0
  <2>2. QED BY <2>1, <1>7
<1>9. ASSUME NEW i \in 1 .. Len(taken)
      PROVE  \E n \in 1 .. Len(taken) : s[n] = taken[i]
  <2>1. taken[i] \in ToSet(taken)
    BY <1>0, IdsAre
  <2>2. QED BY <2>1, <1>3
<1>10. ASSUME NEW p, p \notin Ids(taken)
       PROVE  \A k \in 1 .. Len(taken) : s[k].id # p
  <2>1. ASSUME NEW k \in 1 .. Len(taken)
        PROVE  s[k].id \in Ids(taken)
    BY <1>3 DEF Ids
  <2>2. QED BY <2>1, <1>10
<1>11. QED BY <1>1, <1>8, <1>9, <1>10

-----------------------------------------------------------------------------
(* The invariant. *)

\* A mark of what was acknowledged: it says what some stored evidence said.
Marks == [id : Pulses, at : Int, state : States, notice : Nat \ {0}, ended : BOOLEAN, peak : Levels]
Says(mark, e) == /\ mark.id = e.id /\ mark.state = e.state /\ mark.notice = e.notice
                 /\ mark.ended = e.ended /\ mark.peak = e.peak
IsStored(e) == e.id \in DOMAIN stored /\ Later(e, stored[e.id].evidence)
MarksSound == /\ checkpoints \in Seq(Marks)
              /\ \A i \in 1 .. Len(checkpoints) : \E e \in Evidence : Says(checkpoints[i], e) /\ IsStored(e)
\* Evidence the database does not have is queued.
Unsaved == \A p \in DOMAIN life \ lost :
             \/ p \in DOMAIN stored /\ stored[p].evidence.version = life[p].version
             \/ \E i \in 1 .. Len(pending) : pending[i].id = p
WriterSound == /\ writer \in {"idle", "writing", "committed"} /\ (writer = "idle" => taken = <<>>)
               /\ BatchSound(taken)
               /\ writer = "committed" => \A i \in 1 .. Len(taken) : IsStored(taken[i])
StoreInv == /\ LifeShape /\ QueueSound(pending) /\ WriterSound /\ TablesSound(Tables) /\ BoundsMatch(Tables)
            /\ MarksSound /\ Unsaved
\* Whoever waits has been passed over no more often than the batches of those that were
\* ahead of it, and those still ahead count too.
Turns == /\ passed \in [Pulses -> Nat]
         /\ \A i \in 1 .. Len(pending) : passed[pending[i].id] * Limit + (i - 1) <= Cardinality(Pulses) - 1
         /\ \A p \in Pulses : p \notin Ids(pending) \/ p \in Ids(taken) => passed[p] = 0

-----------------------------------------------------------------------------
(* Queues that lose or move elements. *)

\* What is left of a queue without some pulses: g says where each element was, and none moves
\* back.
Keeps(s, P, t, g) ==
  /\ g \in [1 .. Len(t) -> 1 .. Len(s)]
  /\ \A k \in 1 .. Len(t) : t[k] = s[g[k]] /\ s[g[k]].id \notin P /\ k <= g[k]
  /\ \A k, l \in 1 .. Len(t) : k < l => g[k] < g[l]
  /\ \A i \in 1 .. Len(s) : s[i].id \notin P => \E k \in 1 .. Len(t) : g[k] = i

\* An element is kept no further back than it was.
LEMMA SelectsForward ==
  ASSUME NEW s, NEW E, NEW n \in Nat, NEW t, Len(t) \in Nat, NEW g, Selects(s, E, n, t, g)
  PROVE  \A k \in 1 .. Len(t) : k <= g[k]
<1> DEFINE Bad == {k \in 1 .. Len(t) : ~ (k <= g[k])}
<1>1. SUFFICES ASSUME Bad # {} PROVE FALSE
  OBVIOUS
<1>2. Bad \subseteq Nat /\ Bad \subseteq 1 .. Len(t)
  OBVIOUS
<1>3. PICK k \in Bad : \A u \in Bad : k <= u
  <2> HIDE DEF Bad
  <2>1. QED BY <1>1, <1>2, LeastExists
<1>4. k \in 1 .. Len(t) /\ ~ (k <= g[k]) /\ g[k] \in 1 .. n
  BY <1>3 DEF Selects
<1>5. k # 1
  BY <1>4
<1>6. k - 1 \in 1 .. Len(t) /\ k - 1 \notin Bad
  <2>1. k - 1 \in 1 .. Len(t) /\ ~ (k <= k - 1)
    BY <1>4, <1>5
  <2> HIDE DEF Bad
  <2>2. QED BY <2>1, <1>3
<1>7. k - 1 <= g[k - 1] /\ g[k - 1] \in 1 .. n
  BY <1>6 DEF Selects
<1>8. g[k - 1] < g[k]
  <2>1. k - 1 < k
    BY <1>4
  <2>2. QED BY <2>1, <1>4, <1>6 DEF Selects
<1>9. QED BY <1>4, <1>7, <1>8

\* That is what Others leaves.
LEMMA OthersIs ==
  ASSUME NEW T, NEW s \in Seq(T), NEW P
  PROVE  Others(s, P) \in Seq(T) /\ \E g : Keeps(s, P, Others(s, P), g)
<1> DEFINE E == {e \in ToSet(s) : e.id \notin P}
           t == Others(s, P)
<1>1. t = Only(s, E)
  BY DEF Others
<1>2. \A i \in 1 .. Len(s) : s[i] \in E <=> s[i].id \notin P
  BY IdsAre
<1> HIDE DEF t, E
<1>3. t \in Seq(T)
  BY <1>1, OnlyIs
<1>4. PICK g : Selects(s, E, Len(s), t, g)
  BY <1>1, OnlyIs
<1>5. Len(t) \in Nat /\ Len(s) \in Nat
  BY <1>3, LenProperties
<1>6. \A k \in 1 .. Len(t) : k <= g[k]
  BY <1>4, <1>5, SelectsForward
<1>7. Keeps(s, P, t, g)
  <2>1. \A k \in 1 .. Len(t) : g[k] \in 1 .. Len(s)
    BY <1>4 DEF Selects
  <2>2. QED BY <2>1, <1>2, <1>4, <1>6 DEF Selects, Keeps
<1>8. QED BY <1>3, <1>7 DEF t

\* Without some pulses a queue is a queue, of the others.
LEMMA OthersSound ==
  ASSUME NEW s, QueueSound(s), NEW P
  PROVE  /\ QueueSound(Others(s, P))
         /\ \A p : (\E i \in 1 .. Len(Others(s, P)) : Others(s, P)[i].id = p)
                     <=> p \notin P /\ \E i \in 1 .. Len(s) : s[i].id = p
<1> DEFINE t == Others(s, P)
<1>0. s \in Seq(Evidence)
  BY DEF QueueSound
<1>1. t \in Seq(Evidence)
  BY <1>0, OthersIs
<1>2. PICK g : Keeps(s, P, t, g)
  BY <1>0, OthersIs
<1> HIDE DEF t
<1>3. \A k \in 1 .. Len(t) : g[k] \in 1 .. Len(s) /\ t[k] = s[g[k]]
  BY <1>2 DEF Keeps
<1>4. Distinct(t)
  <2>1. ASSUME NEW k \in 1 .. Len(t), NEW l \in 1 .. Len(t), t[k].id = t[l].id
        PROVE  k = l
    <3>1. g[k] = g[l]
      BY <1>3, <2>1 DEF QueueSound, Distinct
    <3>2. g[k] \in Int /\ Len(t) \in Nat
      BY <1>1, <1>3, LenProperties
    <3>3. ~ (k < l) /\ ~ (l < k)
      BY <1>2, <3>1, <3>2 DEF Keeps
    <3>4. QED BY <3>2, <3>3
  <2>2. QED BY <2>1 DEF Distinct
<1>5. QueueSound(t)
  BY <1>1, <1>3, <1>4 DEF QueueSound
<1>6. ASSUME NEW p
      PROVE  (\E i \in 1 .. Len(t) : t[i].id = p) <=> p \notin P /\ \E i \in 1 .. Len(s) : s[i].id = p
  <2>1. ASSUME NEW i \in 1 .. Len(t), t[i].id = p
        PROVE  p \notin P /\ \E j \in 1 .. Len(s) : s[j].id = p
    BY <1>2, <1>3, <2>1 DEF Keeps
  <2>2. ASSUME p \notin P, NEW i \in 1 .. Len(s), s[i].id = p
        PROVE  \E j \in 1 .. Len(t) : t[j].id = p
    <3>1. PICK k \in 1 .. Len(t) : g[k] = i
      BY <1>2, <2>2 DEF Keeps
    <3>2. QED BY <3>1, <1>3, <2>2
  <2>3. QED BY <2>1, <2>2
<1>7. QED BY <1>5, <1>6 DEF t

\* A queue of pulses is no longer than there are pulses.
LEMMA QueueFits ==
  ASSUME NEW s \in Seq(Evidence), Distinct(s)
  PROVE  Len(s) <= Cardinality(Pulses) /\ Cardinality(Pulses) \in Nat
<1> DEFINE f == [i \in 1 .. Len(s) |-> s[i].id]
<1>1. Len(s) \in Nat /\ IsFiniteSet(Pulses) /\ Cardinality(Pulses) \in Nat
  BY LenProperties, StoreAssumption, FS_CardinalityType
<1>2. f \in [1 .. Len(s) -> Pulses]
  <2>1. \A i \in 1 .. Len(s) : s[i] \in Evidence
    BY ElementOfSeq
  <2>2. QED BY <2>1, EvidenceNumbers
<1>3. \A x, y \in 1 .. Len(s) : f[x] = f[y] => x = y
  BY DEF Distinct
<1> HIDE DEF f
<1>4. IsFiniteSet(1 .. Len(s)) /\ Cardinality(1 .. Len(s)) = Len(s)
  <2> DEFINE n == Len(s)
  <2>1. n \in Nat
    BY <1>1
  <2> HIDE DEF n
  <2>2. IsFiniteSet(1 .. n) /\ Cardinality(1 .. n) = n
    BY <2>1, FS_Interval
  <2>3. QED BY <2>2 DEF n
<1>5. ~ (Cardinality(Pulses) < Cardinality(1 .. Len(s)))
  BY <1>1, <1>2, <1>3, <1>4, FS_PigeonHole
<1>6. QED BY <1>1, <1>4, <1>5

-----------------------------------------------------------------------------

\* The batch that is taken: where its elements were (d), and what is left (g).
LEMMA BatchIs ==
  ASSUME QueueSound(pending)
  PROVE  /\ QueueSound(Due)
         /\ \E d : Selects(pending, {e \in ToSet(pending) : WriteDue(e)}, Len(pending), Due, d)
<1> DEFINE E == {e \in ToSet(pending) : WriteDue(e)}
           t == Due
<1>1. t = Only(pending, E) /\ pending \in Seq(Evidence)
  BY DEF Due, QueueSound
<1> HIDE DEF E, t
<1>2. t \in Seq(Evidence)
  BY <1>1, OnlyIs
<1>3. PICK d : Selects(pending, E, Len(pending), t, d)
  BY <1>1, OnlyIs
<1>4. \A k \in 1 .. Len(t) : d[k] \in 1 .. Len(pending) /\ t[k] = pending[d[k]]
  BY <1>3 DEF Selects
<1>5. Distinct(t)
  <2>1. ASSUME NEW k \in 1 .. Len(t), NEW l \in 1 .. Len(t), t[k].id = t[l].id
        PROVE  k = l
    <3>1. d[k] = d[l]
      BY <1>4, <2>1 DEF QueueSound, Distinct
    <3>2. d[k] \in Int /\ Len(t) \in Nat
      BY <1>2, <1>4, LenProperties
    <3>3. ~ (k < l) /\ ~ (l < k)
      BY <1>3, <3>1, <3>2 DEF Selects
    <3>4. QED BY <3>2, <3>3
  <2>2. QED BY <2>1 DEF Distinct
<1>6. QueueSound(t)
  BY <1>2, <1>4, <1>5 DEF QueueSound
<1>7. QED BY <1>3, <1>6 DEF t, E

\* A batch is the first of what is due.
LEMMA FirstOnes ==
  ASSUME NEW due, QueueSound(due)
  PROVE  /\ QueueSound(BatchOf(due)) /\ Len(BatchOf(due)) <= Limit /\ Len(BatchOf(due)) <= Len(due)
         /\ (Len(BatchOf(due)) < Len(due) => Len(BatchOf(due)) = Limit)
         /\ \A k \in 1 .. Len(BatchOf(due)) : k \in 1 .. Len(due) /\ BatchOf(due)[k] = due[k]
<1> DEFINE n == IF Len(due) < Limit THEN Len(due) ELSE Limit
           b == BatchOf(due)
<1>1. Len(due) \in Nat /\ Limit \in Nat \ {0} /\ due \in Seq(Evidence)
  BY StoreAssumption, LenProperties DEF QueueSound
<1>2. n \in Nat /\ n <= Limit /\ n <= Len(due) /\ (n < Len(due) => n = Limit)
  BY <1>1
<1>3. b = SubSeq(due, 1, n)
  BY DEF BatchOf
<1> HIDE DEF b, n
<1>4. \A i \in 1 .. n : i \in 1 .. Len(due) /\ due[i] \in Evidence
  <2>1. \A i \in 1 .. n : i \in 1 .. Len(due)
    BY <1>1, <1>2
  <2>2. QED BY <2>1, <1>1, ElementOfSeq
<1>5. /\ SubSeq(due, 1, n) \in Seq(Evidence) /\ Len(SubSeq(due, 1, n)) = (IF 1 <= n THEN n - 1 + 1 ELSE 0)
      /\ \A i \in 1 .. n - 1 + 1 : SubSeq(due, 1, n)[i] = due[1 + i - 1]
  <2>1. 1 \in Int /\ n \in Int
    BY <1>2
  <2>2. \A i \in 1 .. n : due[i] \in Evidence
    BY <1>4
  <2>3. QED BY <2>1, <2>2, SubSeqProperties
<1>6. b \in Seq(Evidence) /\ Len(b) = n /\ \A k \in 1 .. n : b[k] = due[k]
  <2>1. Len(b) = n
    BY <1>2, <1>3, <1>5
  <2>2. ASSUME NEW k \in 1 .. n PROVE b[k] = due[k]
    <3>1. k \in 1 .. n - 1 + 1 /\ 1 + k - 1 = k
      BY <1>2
    <3>2. QED BY <3>1, <1>3, <1>5
  <2>3. QED BY <2>1, <2>2, <1>3, <1>5
<1>7. QueueSound(b)
  <2>1. \A k \in 1 .. Len(b) : k \in 1 .. Len(due) /\ b[k] = due[k]
    BY <1>4, <1>6
  <2>2. QED BY <2>1, <1>6 DEF QueueSound, Distinct
<1>8. QED BY <1>2, <1>4, <1>6, <1>7 DEF b

-----------------------------------------------------------------------------
(* The steps. *)

\* In r those of s outside P come first, as they are in t, and then only pulses of P.
OthersFirst(s, P, t, r) ==
  /\ Len(t) \in Nat /\ \E g : Keeps(s, P, t, g)
  /\ \A k \in 1 .. Len(r) : (k \in 1 .. Len(t) /\ r[k] = t[k]) \/ r[k].id \in P

\* A queue whose chosen ones went behind the others has the same pulses.
LEMMA RequeuedIs ==
  ASSUME NEW s, QueueSound(s), NEW b, QueueSound(b), \A k \in 1 .. Len(b) : \E i \in 1 .. Len(s) : b[k] = s[i]
  PROVE  /\ QueueSound(Requeued(s, b))
         /\ \A p : (\E i \in 1 .. Len(Requeued(s, b)) : Requeued(s, b)[i].id = p) <=> \E i \in 1 .. Len(s) : s[i].id = p
         /\ OthersFirst(s, Ids(b), Others(s, Ids(b)), Requeued(s, b))
<1> DEFINE t == Others(s, Ids(b))
           r == Requeued(s, b)
<1>1. s \in Seq(Evidence) /\ b \in Seq(Evidence) /\ Len(b) \in Nat
  BY LenProperties DEF QueueSound
<1>2. r = t \o b
  BY DEF Requeued
<1>3. QueueSound(t) /\ \A p : (\E i \in 1 .. Len(t) : t[i].id = p) <=> p \notin Ids(b) /\ \E i \in 1 .. Len(s) : s[i].id = p
  BY OthersSound
<1>4. PICK g : Keeps(s, Ids(b), t, g)
  BY <1>1, OthersIs
<1> HIDE DEF t, r
<1>5. t \in Seq(Evidence) /\ Len(t) \in Nat
  BY <1>3, LenProperties DEF QueueSound
<1>6. /\ r \in Seq(Evidence) /\ Len(r) = Len(t) + Len(b)
      /\ \A i \in 1 .. Len(t) + Len(b) : r[i] = IF i <= Len(t) THEN t[i] ELSE b[i - Len(t)]
  BY <1>1, <1>2, <1>5, ConcatProperties
<1>7. \A p : p \in Ids(b) <=> \E k \in 1 .. Len(b) : b[k].id = p
  BY <1>1, IdsAre
<1>8. \A i \in 1 .. Len(r) : \/ i \in 1 .. Len(t) /\ i <= Len(t) /\ r[i] = t[i] /\ r[i].id \notin Ids(b)
                             \/ /\ i - Len(t) \in 1 .. Len(b) /\ r[i] = b[i - Len(t)] /\ r[i].id \in Ids(b)
  <2>1. ASSUME NEW i \in 1 .. Len(r)
        PROVE  \/ i \in 1 .. Len(t) /\ i <= Len(t) /\ r[i] = t[i] /\ r[i].id \notin Ids(b)
               \/ /\ i - Len(t) \in 1 .. Len(b) /\ r[i] = b[i - Len(t)] /\ r[i].id \in Ids(b)
    <3>1. CASE i <= Len(t)
      <4>1. i \in 1 .. Len(t)
        BY <3>1, <1>5
      <4>2. r[i] = t[i]
        BY <3>1, <1>6
      <4>3. QED BY <3>1, <4>1, <4>2, <1>3
    <3>2. CASE ~ (i <= Len(t))
      <4>1. i - Len(t) \in 1 .. Len(b)
        BY <3>2, <1>1, <1>5, <1>6
      <4>2. r[i] = b[i - Len(t)]
        BY <3>2, <1>6
      <4>3. QED BY <4>1, <4>2, <1>7
    <3>3. QED BY <3>1, <3>2
  <2>2. QED BY <2>1
<1>9. Distinct(r)
  <2>1. ASSUME NEW i \in 1 .. Len(r), NEW j \in 1 .. Len(r), r[i].id = r[j].id
        PROVE  i = j
    <3>1. CASE r[i].id \in Ids(b)
      <4>0. /\ i - Len(t) \in 1 .. Len(b) /\ r[i] = b[i - Len(t)] /\ j - Len(t) \in 1 .. Len(b) /\ r[j] = b[j - Len(t)]
            /\ Distinct(b)
        BY <1>8, <2>1, <3>1 DEF QueueSound
      <4>1. i - Len(t) = j - Len(t)
        BY <2>1, <4>0 DEF Distinct
      <4>2. QED BY <4>1, <1>5
    <3>2. CASE r[i].id \notin Ids(b)
      <4>0. i \in 1 .. Len(t) /\ r[i] = t[i] /\ j \in 1 .. Len(t) /\ r[j] = t[j] /\ Distinct(t)
        BY <1>3, <1>8, <2>1, <3>2 DEF QueueSound
      <4>1. QED BY <2>1, <4>0 DEF Distinct
    <3>3. QED BY <3>1, <3>2
  <2>2. QED BY <2>1 DEF Distinct
<1>13. ASSUME NEW i \in 1 .. Len(r)
       PROVE  r[i].id \in DOMAIN life \ lost /\ r[i] = life[r[i].id] /\ \E j \in 1 .. Len(s) : s[j].id = r[i].id
  <2>1. CASE i \in 1 .. Len(t) /\ r[i] = t[i]
    BY <1>3, <2>1 DEF QueueSound
  <2>2. CASE i - Len(t) \in 1 .. Len(b) /\ r[i] = b[i - Len(t)]
    BY <2>2 DEF QueueSound
  <2>3. QED BY <1>8, <2>1, <2>2
<1>10. QueueSound(r)
  BY <1>6, <1>9, <1>13 DEF QueueSound
<1>11. ASSUME NEW p
       PROVE  (\E i \in 1 .. Len(r) : r[i].id = p) <=> \E i \in 1 .. Len(s) : s[i].id = p
  <2>1. ASSUME NEW i \in 1 .. Len(r), r[i].id = p
        PROVE  \E j \in 1 .. Len(s) : s[j].id = p
    BY <1>13, <2>1
  <2>2. ASSUME NEW i \in 1 .. Len(s), s[i].id = p
        PROVE  \E j \in 1 .. Len(r) : r[j].id = p
    <3>1. CASE p \in Ids(b)
      <4>1. PICK k \in 1 .. Len(b) : b[k].id = p
        BY <3>1, <1>7
      <4>2. k + Len(t) \in 1 .. Len(r) /\ ~ (k + Len(t) <= Len(t)) /\ k + Len(t) - Len(t) = k
        BY <1>1, <1>5, <1>6
      <4>3. r[k + Len(t)] = b[k]
        BY <4>2, <1>6
      <4>4. QED BY <4>1, <4>2, <4>3
    <3>2. CASE p \notin Ids(b)
      <4>1. PICK k \in 1 .. Len(t) : t[k].id = p
        BY <3>2, <2>2, <1>3
      <4>2. k \in 1 .. Len(r) /\ k <= Len(t)
        BY <1>1, <1>5, <1>6
      <4>3. r[k] = t[k]
        BY <4>2, <1>6
      <4>4. QED BY <4>1, <4>2, <4>3
    <3>3. QED BY <3>1, <3>2
  <2>3. QED BY <2>1, <2>2
<1>12. OthersFirst(s, Ids(b), t, r)
  BY <1>4, <1>5, <1>8 DEF OthersFirst
<1>14. QED BY <1>10, <1>11, <1>12 DEF t, r

\* It holds at the start.
LEMMA StoreStarts ==
  ASSUME Init
  PROVE  StoreInv
<1>1. /\ now = 0 /\ life = <<>> /\ held = {} /\ pending = <<>> /\ checkpoints = <<>> /\ writer = "idle" /\ taken = <<>>
      /\ stored = <<>> /\ scopes = [s \in Scopes |-> EmptyScope] /\ lost = {}
  BY DEF Init, LifeInit
<1>2. DOMAIN life = {} /\ DOMAIN stored = {} /\ life = [p \in {} |-> life[p]] /\ stored = [p \in {} |-> stored[p]]
  BY <1>1
<1>3. <<>> \in Seq(Evidence) /\ <<>> \in Seq(Marks) /\ <<>> \in Seq(Points) /\ Len(<<>>) = 0 /\ 1 .. 0 = {}
  BY EmptySeq
<1>4. LifeShape
  <2>1. MaxNow \in Nat
    BY LifeAssumption
  <2>2. now \in 0 .. MaxNow
    BY <1>1, <2>1
  <2>3. QED BY <1>1, <1>2, <2>2 DEF LifeShape
<1>5. QueueSound(pending) /\ WriterSound /\ MarksSound /\ Unsaved
  BY <1>1, <1>2, <1>3 DEF QueueSound, WriterSound, BatchSound, Distinct, MarksSound, Unsaved
<1>6. TablesSound(Tables) /\ BoundsMatch(Tables)
  <2>1. EmptyScope \in ScopeType /\ EmptyScope.points = <<>>
    BY <1>3 DEF EmptyScope, ScopeType
  <2>2. Tables.stored = stored /\ Tables.scopes = scopes /\ Tables = [stored |-> stored, scopes |-> scopes]
    BY DEF Tables
  <2>3. \A s \in Scopes : Tables.scopes[s] = EmptyScope
    BY <1>1, <2>2
  <2>4. TablesSound(Tables)
    BY <1>1, <1>2, <2>1, <2>2 DEF TablesSound
  <2>5. BoundsMatch(Tables)
    BY <1>2, <1>3, <2>1, <2>2, <2>3 DEF BoundsMatch
  <2>6. QED BY <2>4, <2>5
<1>7. QED BY <1>4, <1>5, <1>6 DEF StoreInv

-----------------------------------------------------------------------------

\* The parts of the invariant, as they are after a step that leaves what they are about alone.
LEMMA PartsStay ==
  ASSUME StoreInv
  PROVE  /\ UNCHANGED lifeVars /\ UNCHANGED lost => LifeShape'
         /\ UNCHANGED <<life, lost, pending>> => QueueSound(pending)'
         /\ UNCHANGED <<life, lost, writer, taken, stored>> => WriterSound'
         /\ UNCHANGED <<life, stored, scopes>> => TablesSound(Tables)' /\ BoundsMatch(Tables)'
         /\ UNCHANGED <<stored, scopes>> => BoundsMatch(Tables)'
         /\ UNCHANGED <<checkpoints, stored>> => MarksSound'
         /\ UNCHANGED <<life, lost, pending, stored>> => Unsaved'
<1>1. UNCHANGED lifeVars /\ UNCHANGED lost => LifeShape'
  BY DEF StoreInv, LifeShape, lifeVars
<1>2. UNCHANGED <<life, lost, pending>> => QueueSound(pending)'
  BY DEF StoreInv, QueueSound
<1>3. UNCHANGED <<life, lost, writer, taken, stored>> => WriterSound'
  BY DEF StoreInv, WriterSound, BatchSound, IsStored
<1>4. UNCHANGED <<life, stored, scopes>> => TablesSound(Tables)'
  <2>1. SUFFICES ASSUME UNCHANGED <<life, stored, scopes>> PROVE TablesSound(Tables)'
    OBVIOUS
  <2>2. Tables' = Tables /\ life' = life /\ TablesSound(Tables)
    BY <2>1 DEF Tables, StoreInv
  <2>3. QED BY <2>2 DEF TablesSound
<1>5. UNCHANGED <<stored, scopes>> => BoundsMatch(Tables)'
  <2>1. SUFFICES ASSUME UNCHANGED <<stored, scopes>> PROVE BoundsMatch(Tables)'
    OBVIOUS
  <2>2. Tables' = Tables /\ BoundsMatch(Tables)
    BY <2>1 DEF Tables, StoreInv
  <2>3. QED BY <2>2
<1>6. UNCHANGED <<checkpoints, stored>> => MarksSound'
  BY DEF StoreInv, MarksSound, IsStored
<1>7. UNCHANGED <<life, lost, pending, stored>> => Unsaved'
  BY DEF StoreInv, Unsaved
<1>8. QED BY <1>1, <1>2, <1>3, <1>4, <1>5, <1>6, <1>7

\* New evidence takes the place of what is queued, or goes last.
LEMMA ObserveKeeps ==
  ASSUME StoreInv, Observe
  PROVE  StoreInv'
<1>0. /\ LifeShape /\ QueueSound(pending) /\ WriterSound /\ TablesSound(Tables) /\ BoundsMatch(Tables) /\ MarksSound /\ Unsaved
      /\ Observation /\ pending' = Queued /\ UNCHANGED <<now, checkpoints, writer, taken, stored, scopes, failures, lost, passed>>
  BY DEF StoreInv, Observe
<1>1. Observes
  BY <1>0, ObservationIs
<1>2. LifeShape'
  BY <1>0, <1>1 DEF LifeShape, Observes
<1>3. /\ Queued \in Seq(Evidence) /\ Distinct(Queued)
      /\ \A i \in 1 .. Len(Queued) : Queued[i].id \in DOMAIN life' \ lost /\ Queued[i] = life'[Queued[i].id]
      /\ Len(Queued) >= Len(pending) /\ \A i \in 1 .. Len(pending) : Queued[i].id = pending[i].id
      /\ Changed \subseteq Ids(Queued)
  BY <1>0, <1>1, StoreAssumption, QueuedIs
<1>4. QueueSound(pending)'
  BY <1>0, <1>3 DEF QueueSound, Distinct
<1>5. ASSUME NEW p \in DOMAIN life, NEW e \in Evidence, Later(e, life[p])
      PROVE  Later(e, life'[p])
  <2>1. life[p] \in Evidence /\ life'[p] \in Evidence /\ Later(life[p], life'[p])
    BY <1>0, <1>1 DEF LifeShape, Observes
  <2>2. QED BY <1>5, <2>1, LaterOrders
<1>6. WriterSound'
  <2>1. ASSUME NEW i \in 1 .. Len(taken)
        PROVE  taken[i].id \in DOMAIN life' \ lost /\ Later(taken[i], life'[taken[i].id])
    <3>1. taken[i] \in Evidence /\ taken[i].id \in DOMAIN life \ lost /\ Later(taken[i], life[taken[i].id])
      BY <1>0, ElementOfSeq DEF WriterSound, BatchSound
    <3>2. QED BY <3>1, <1>1, <1>5 DEF Observes
  <2>2. BatchSound(taken)'
    BY <1>0, <2>1 DEF WriterSound, BatchSound
  <2>3. QED BY <1>0, <2>2 DEF WriterSound, IsStored
<1>7. TablesSound(Tables)'
  <2>1. Tables' = Tables /\ Tables.stored = stored
    BY <1>0 DEF Tables
  <2>2. ASSUME NEW p \in DOMAIN Tables.stored
        PROVE  p \in DOMAIN life' /\ RowSound(Tables.stored[p], p) /\ Later(Tables.stored[p].evidence, life'[p])
    <3>1. p \in DOMAIN life /\ RowSound(Tables.stored[p], p) /\ Later(Tables.stored[p].evidence, life[p])
      BY <1>0 DEF TablesSound
    <3>2. Tables.stored[p].evidence \in Evidence
      BY <3>1 DEF RowSound
    <3>3. QED BY <3>1, <3>2, <1>1, <1>5 DEF Observes
  <2>3. QED BY <2>1, <2>2, <1>0 DEF TablesSound
<1>8. BoundsMatch(Tables)' /\ MarksSound'
  BY <1>0, PartsStay
<1>9. Unsaved'
  <2>1. ASSUME NEW p \in DOMAIN life' \ lost
        PROVE  \/ p \in DOMAIN stored /\ stored[p].evidence.version = life'[p].version
               \/ \E i \in 1 .. Len(Queued) : Queued[i].id = p
    <3>1. CASE p \in Changed
      BY <1>3, <3>1, IdsAre
    <3>2. CASE p \notin Changed
      <4>1. p \in DOMAIN life /\ life'[p] = life[p]
        BY <3>2 DEF Changed
      <4>2. CASE \E i \in 1 .. Len(pending) : pending[i].id = p
        <5>1. PICK i \in 1 .. Len(pending) : pending[i].id = p
          BY <4>2
        <5>2. Len(pending) \in Nat /\ Len(Queued) \in Nat
          BY <1>0, <1>3, LenProperties DEF QueueSound
        <5>3. i \in 1 .. Len(Queued) /\ Queued[i].id = p
          BY <1>3, <5>1, <5>2
        <5>4. QED BY <5>3
      <4>3. QED BY <1>0, <4>1, <4>2 DEF Unsaved
    <3>3. QED BY <3>1, <3>2
  <2>2. QED BY <1>0, <2>1 DEF Unsaved
<1>10. QED BY <1>2, <1>4, <1>6, <1>7, <1>8, <1>9 DEF StoreInv

\* A batch is of the newest evidence, and stays queued.
LEMMA TakeKeeps ==
  ASSUME StoreInv, Take
  PROVE  StoreInv'
<1> DEFINE b == BatchOf(Due)
           r == Requeued(pending, b)
<1>0. /\ LifeShape /\ QueueSound(pending) /\ WriterSound /\ TablesSound(Tables) /\ Unsaved
      /\ writer = "idle" /\ writer' = "writing" /\ taken' = b /\ pending' = r
      /\ UNCHANGED lifeVars /\ UNCHANGED <<life, checkpoints, stored, scopes, failures, lost>>
  BY DEF StoreInv, Take, lifeVars
<1>1. QueueSound(Due) /\ \E d : Selects(pending, {e \in ToSet(pending) : WriteDue(e)}, Len(pending), Due, d)
  BY <1>0, BatchIs
<1>2. QueueSound(b) /\ \A k \in 1 .. Len(b) : k \in 1 .. Len(Due) /\ b[k] = Due[k]
  BY <1>1, FirstOnes
<1>3. \A k \in 1 .. Len(b) : \E i \in 1 .. Len(pending) : b[k] = pending[i]
  BY <1>1, <1>2 DEF Selects
<1> HIDE DEF b
<1>4. QueueSound(r) /\ \A p : (\E i \in 1 .. Len(r) : r[i].id = p) <=> \E i \in 1 .. Len(pending) : pending[i].id = p
  <2>1. QueueSound(pending) /\ QueueSound(b)
    BY <1>0, <1>2
  <2>2. /\ QueueSound(Requeued(pending, b))
        /\ \A p : (\E i \in 1 .. Len(Requeued(pending, b)) : Requeued(pending, b)[i].id = p)
                    <=> \E i \in 1 .. Len(pending) : pending[i].id = p
    BY <2>1, <1>3, RequeuedIs
  <2>3. QED BY <2>2
<1> HIDE DEF r
<1>5. QueueSound(pending)'
  BY <1>0, <1>4 DEF QueueSound
<1>6. WriterSound'
  <2>1. ASSUME NEW i \in 1 .. Len(b)
        PROVE  /\ b[i].id \in DOMAIN life \ lost /\ Later(b[i], life[b[i].id])
               /\ b[i].id \in DOMAIN stored => Comparable(b[i], stored[b[i].id].evidence)
    <3>1. b[i] \in Evidence /\ b[i].id \in DOMAIN life \ lost /\ b[i] = life[b[i].id]
      BY <1>2, ElementOfSeq DEF QueueSound
    <3>2. b[i].id \in DOMAIN stored => Later(stored[b[i].id].evidence, b[i])
      BY <1>0, <3>1 DEF TablesSound, Tables
    <3>3. QED BY <3>1, <3>2, LaterOrders DEF Comparable
  <2>2. BatchSound(taken)'
    BY <1>0, <1>2, <2>1 DEF BatchSound, QueueSound
  <2>3. QED BY <1>0, <2>2 DEF WriterSound
<1>7. Unsaved'
  BY <1>0, <1>4 DEF Unsaved
<1>8. LifeShape' /\ TablesSound(Tables)' /\ BoundsMatch(Tables)' /\ MarksSound'
  BY <1>0, PartsStay
<1>9. QED BY <1>5, <1>6, <1>7, <1>8 DEF StoreInv

\* What a commit leaves stored is no older than before, and holds the batch.
LEMMA CommitDoes ==
  ASSUME StoreInv, Commit
  PROVE  /\ Tables' = Committed /\ TablesSound(Committed) /\ BoundsMatch(Committed) /\ TablesGrow(Tables, Committed)
         /\ \A p \in DOMAIN stored : p \in DOMAIN stored' /\ RowGrows(stored[p], stored'[p])
         /\ \A i \in 1 .. Len(taken) : taken[i].id \in DOMAIN stored' /\ Later(taken[i], stored'[taken[i].id].evidence)
         /\ \A p \in DOMAIN stored' : stored'[p].evidence \in Evidence /\ p \in DOMAIN life /\ Later(stored'[p].evidence, life[p])
<1>1. stored' = Committed.stored /\ scopes' = Committed.scopes
  BY DEF Commit
<1>2. /\ TablesSound(Committed) /\ BoundsMatch(Committed) /\ TablesGrow(Tables, Committed)
      /\ \A i \in 1 .. Len(taken) : /\ taken[i].id \in DOMAIN Committed.stored
                                    /\ Later(taken[i], Committed.stored[taken[i].id].evidence)
  BY CommittedIs DEF StoreInv, WriterSound
<1>3. Committed = [stored |-> Committed.stored, scopes |-> Committed.scopes]
  BY <1>2 DEF TablesSound
<1>4. Tables' = Committed /\ Tables.stored = stored
  BY <1>1, <1>3 DEF Tables
<1>5. \A p \in DOMAIN stored : p \in DOMAIN stored' /\ RowGrows(stored[p], stored'[p])
  BY <1>1, <1>2, <1>4 DEF TablesGrow
<1>6. ASSUME NEW p \in DOMAIN stored'
      PROVE  stored'[p].evidence \in Evidence /\ p \in DOMAIN life /\ Later(stored'[p].evidence, life[p])
  BY <1>1, <1>2 DEF TablesSound, RowSound
<1>7. QED BY <1>1, <1>2, <1>4, <1>5, <1>6

\* A commit brings what is stored forward, and no further than the pulses are.
LEMMA CommitKeeps ==
  ASSUME StoreInv, Commit
  PROVE  StoreInv'
<1>0. /\ LifeShape /\ QueueSound(pending) /\ WriterSound /\ TablesSound(Tables) /\ MarksSound /\ Unsaved
      /\ writer' = "committed" /\ UNCHANGED lifeVars
      /\ UNCHANGED <<life, pending, checkpoints, taken, failures, lost>>
  BY DEF StoreInv, Commit, lifeVars
<1>1. /\ Tables' = Committed /\ TablesSound(Committed) /\ BoundsMatch(Committed)
      /\ \A p \in DOMAIN stored : p \in DOMAIN stored' /\ RowGrows(stored[p], stored'[p])
      /\ \A i \in 1 .. Len(taken) : taken[i].id \in DOMAIN stored' /\ Later(taken[i], stored'[taken[i].id].evidence)
      /\ \A p \in DOMAIN stored' : stored'[p].evidence \in Evidence /\ p \in DOMAIN life /\ Later(stored'[p].evidence, life[p])
  BY CommitDoes
<1>2. ASSUME NEW p \in DOMAIN stored
      PROVE  /\ p \in DOMAIN stored' /\ Later(stored[p].evidence, stored'[p].evidence) /\ stored[p].evidence \in Evidence
             /\ stored'[p].evidence \in Evidence
  BY <1>0, <1>1 DEF RowGrows, TablesSound, RowSound, Tables
<1>3. TablesSound(Tables)'
  <2> HIDE DEF Committed
  <2>1. QED BY <1>0, <1>1 DEF TablesSound
<1>4. BoundsMatch(Tables)'
  BY <1>1
<1>5. WriterSound'
  <2>1. BatchSound(taken)'
    BY <1>0, <1>1 DEF WriterSound, BatchSound, Comparable
  <2>2. QED BY <1>0, <1>1, <2>1 DEF WriterSound, IsStored
<1>6. MarksSound'
  <2>1. ASSUME NEW e \in Evidence, IsStored(e)
        PROVE  IsStored(e)'
    <3>1. e.id \in DOMAIN stored /\ Later(e, stored[e.id].evidence)
      BY <2>1 DEF IsStored
    <3>2. QED BY <1>2, <3>1, LaterOrders DEF IsStored
  <2>2. ASSUME NEW i \in 1 .. Len(checkpoints)
        PROVE  \E e \in Evidence : Says(checkpoints[i], e) /\ IsStored(e)'
    <3>1. PICK e \in Evidence : Says(checkpoints[i], e) /\ IsStored(e)
      BY <1>0 DEF MarksSound
    <3>2. QED BY <3>1, <2>1
  <2>3. QED BY <1>0, <2>2 DEF MarksSound
<1>7. Unsaved'
  <2>1. ASSUME NEW p \in DOMAIN life \ lost, p \in DOMAIN stored, stored[p].evidence.version = life[p].version
        PROVE  p \in DOMAIN stored' /\ stored'[p].evidence.version = life[p].version
    <3>1. /\ stored[p].evidence.version <= stored'[p].evidence.version
          /\ stored'[p].evidence.version <= life[p].version
      BY <1>1, <1>2, <2>1 DEF Later
    <3>2. stored[p].evidence.version \in Nat /\ stored'[p].evidence.version \in Nat /\ life[p].version \in Nat
      BY <1>0, <1>2, <2>1, EvidenceNumbers DEF LifeShape
    <3>3. QED BY <1>2, <2>1, <3>1, <3>2
  <2>2. QED BY <1>0, <2>1 DEF Unsaved
<1>8. LifeShape' /\ QueueSound(pending)'
  BY <1>0, PartsStay DEF Commit
<1>9. QED BY <1>3, <1>4, <1>5, <1>6, <1>7, <1>8 DEF StoreInv

\* The marks of an acknowledged batch.
LEMMA MarksKeep ==
  ASSUME StoreInv, Acknowledge
  PROVE  MarksSound'
<1> DEFINE rest == Others(checkpoints, Ids(taken))
           new == [i \in DOMAIN taken |-> Marked(taken[i])]
           marks == rest \o new
           excess == IF Len(marks) > Watermarks THEN Len(marks) - Watermarks ELSE 0
           GoodMark(m) == m \in Marks /\ \E e \in Evidence : Says(m, e) /\ IsStored(e)
<1>0. /\ checkpoints \in Seq(Marks) /\ \A i \in 1 .. Len(checkpoints) : \E e \in Evidence : Says(checkpoints[i], e) /\ IsStored(e)
      /\ taken \in Seq(Evidence) /\ \A i \in 1 .. Len(taken) : IsStored(taken[i])
      /\ checkpoints' = SubSeq(marks, excess + 1, Len(marks)) /\ stored' = stored /\ now \in 0 .. MaxNow
  BY DEF StoreInv, MarksSound, WriterSound, BatchSound, Acknowledge, LifeShape
<1>1. Len(taken) \in Nat /\ DOMAIN taken = 1 .. Len(taken) /\ Watermarks \in Nat \ {0}
  BY <1>0, LenProperties, StoreAssumption
<1>2. ASSUME NEW e \in Evidence, IsStored(e)
      PROVE  GoodMark(Marked(e))
  <2>1. now \in Int
    BY <1>0, LifeAssumption
  <2>2. e.id \in Pulses /\ e.state \in States /\ e.notice \in Nat \ {0} /\ e.ended \in BOOLEAN /\ e.peak \in Levels
    BY DEF Evidence
  <2>3. Marked(e) = [id |-> e.id, at |-> now, state |-> e.state, notice |-> e.notice, ended |-> e.ended, peak |-> e.peak]
    BY DEF Marked, Watermark
  <2>4. Marked(e) \in Marks
    BY <2>1, <2>2, <2>3 DEF Marks
  <2>5. Says(Marked(e), e)
    BY <2>3 DEF Says
  <2>6. QED BY <1>2, <2>4, <2>5
<1>3. new \in Seq(Marks) /\ Len(new) = Len(taken) /\ \A i \in 1 .. Len(taken) : GoodMark(new[i])
  <2>1. \A i \in 1 .. Len(taken) : taken[i] \in Evidence
    BY <1>0, ElementOfSeq
  <2>2. ASSUME NEW i \in 1 .. Len(taken)
        PROVE  GoodMark(new[i])
    <3>1. new[i] = Marked(taken[i])
      BY <1>1
    <3> HIDE DEF GoodMark, new
    <3>2. QED BY <3>1, <2>1, <1>0, <1>2
  <2>3. new \in [1 .. Len(taken) -> Marks]
    <3>1. \A i \in 1 .. Len(taken) : Marked(taken[i]) \in Marks
      BY <2>2, <1>1
    <3>2. QED BY <3>1, <1>1
  <2> HIDE DEF new, GoodMark
  <2>4. QED BY <1>1, <2>2, <2>3, FunctionIsSeq
<1>4. rest \in Seq(Marks) /\ \E g : Keeps(checkpoints, Ids(taken), rest, g)
  BY <1>0, OthersIs
<1>5. \A i \in 1 .. Len(rest) : GoodMark(rest[i])
  <2>1. PICK g : Keeps(checkpoints, Ids(taken), rest, g)
    BY <1>4
  <2> HIDE DEF rest
  <2>2. ASSUME NEW i \in 1 .. Len(rest)
        PROVE  GoodMark(rest[i])
    <3>1. g[i] \in 1 .. Len(checkpoints) /\ rest[i] = checkpoints[g[i]]
      BY <2>1 DEF Keeps
    <3>2. rest[i] \in Marks
      BY <1>4, ElementOfSeq
    <3>3. QED BY <1>0, <3>1, <3>2
  <2>3. QED BY <2>2
<1> HIDE DEF rest, new, GoodMark
<1>6. /\ marks \in Seq(Marks) /\ Len(marks) = Len(rest) + Len(new)
      /\ \A i \in 1 .. Len(rest) + Len(new) : marks[i] = IF i <= Len(rest) THEN rest[i] ELSE new[i - Len(rest)]
  BY <1>3, <1>4, ConcatProperties
<1>7. Len(rest) \in Nat /\ Len(new) \in Nat
  BY <1>3, <1>4, LenProperties
<1> HIDE DEF marks
<1>8. \A i \in 1 .. Len(marks) : GoodMark(marks[i])
  <2>1. ASSUME NEW i \in 1 .. Len(marks)
        PROVE  GoodMark(marks[i])
    <3>1. CASE i <= Len(rest)
      <4>1. i \in 1 .. Len(rest) /\ marks[i] = rest[i]
        BY <1>6, <1>7, <3>1
      <4>2. QED BY <4>1, <1>5
    <3>2. CASE ~ (i <= Len(rest))
      <4>1. i - Len(rest) \in 1 .. Len(new) /\ marks[i] = new[i - Len(rest)]
        BY <1>6, <1>7, <3>2
      <4>2. QED BY <4>1, <1>3
    <3>3. QED BY <3>1, <3>2
  <2>2. QED BY <2>1
<1>9. Len(marks) \in Nat /\ excess \in Nat /\ excess <= Len(marks)
  BY <1>1, <1>6, <1>7
<1> HIDE DEF excess
<1>10. \A i \in excess + 1 .. Len(marks) : i \in 1 .. Len(marks)
  BY <1>9
<1>11. /\ checkpoints' \in Seq(Marks)
       /\ Len(checkpoints') = (IF excess + 1 <= Len(marks) THEN Len(marks) - (excess + 1) + 1 ELSE 0)
       /\ \A i \in 1 .. Len(marks) - (excess + 1) + 1 : checkpoints'[i] = marks[excess + 1 + i - 1]
  <2>1. excess + 1 \in Int /\ Len(marks) \in Int
    BY <1>9
  <2>2. \A i \in excess + 1 .. Len(marks) : marks[i] \in Marks
    BY <1>8, <1>10 DEF GoodMark
  <2>3. QED BY <1>0, <2>1, <2>2, SubSeqProperties
<1>12. ASSUME NEW i \in 1 .. Len(checkpoints')
       PROVE  GoodMark(checkpoints'[i])
  <2>1. i \in 1 .. Len(marks) - (excess + 1) + 1 /\ excess + 1 + i - 1 \in 1 .. Len(marks)
    BY <1>9, <1>11
  <2>2. checkpoints'[i] = marks[excess + 1 + i - 1]
    BY <1>11, <2>1
  <2>3. QED BY <2>1, <2>2, <1>8
<1>13. QED BY <1>0, <1>11, <1>12 DEF MarksSound, GoodMark, IsStored

\* What is acknowledged is stored as it is queued.
LEMMA AckedIsStored ==
  ASSUME StoreInv, writer = "committed", NEW p \in Acked(taken), p \in DOMAIN life \ lost,
         NEW i \in 1 .. Len(pending), pending[i].id = p
  PROVE  p \in DOMAIN stored /\ stored[p].evidence.version = life[p].version
<1>0. /\ LifeShape /\ QueueSound(pending) /\ BatchSound(taken) /\ TablesSound(Tables) /\ Tables.stored = stored
      /\ \A k \in 1 .. Len(taken) : IsStored(taken[k])
  BY DEF StoreInv, WriterSound, Tables
<1>1. PICK k \in 1 .. Len(taken) : taken[k].id = p
  <2>1. p \in Ids(taken)
    BY DEF Acked
  <2>2. QED BY <2>1, <1>0, IdsAre DEF BatchSound
<1>2. Of(taken, p) = taken[k]
  BY <1>0, <1>1, OfIs DEF BatchSound
<1>3. Of(pending, p) = pending[i] /\ p \in Ids(pending)
  <2>1. Of(pending, pending[i].id) = pending[i]
    BY <1>0, OfIs DEF QueueSound
  <2>2. QED BY <2>1, <1>0, IdsAre DEF QueueSound
<1>4. taken[k].version = life[p].version
  <2>1. ~ Superseded(taken[k])
    BY <1>2 DEF Acked
  <2>2. pending[i] = life[p]
    BY <1>0 DEF QueueSound
  <2>3. QED BY <1>1, <1>3, <2>1, <2>2 DEF Superseded
<1>5. taken[k] \in Evidence /\ p \in DOMAIN stored /\ Later(taken[k], stored[p].evidence)
  BY <1>0, <1>1, ElementOfSeq DEF BatchSound, IsStored
<1>6. stored[p].evidence \in Evidence /\ Later(stored[p].evidence, life[p])
  BY <1>0, <1>5 DEF TablesSound, RowSound
<1>7. taken[k].version \in Nat /\ stored[p].evidence.version \in Nat /\ life[p].version \in Nat
  BY <1>0, <1>5, <1>6, EvidenceNumbers DEF LifeShape
<1>8. taken[k].version <= stored[p].evidence.version /\ stored[p].evidence.version <= life[p].version
  BY <1>5, <1>6 DEF Later
<1>9. QED BY <1>4, <1>5, <1>7, <1>8

\* What is acknowledged is stored, and what overtook it stays queued.
LEMMA AcknowledgeKeeps ==
  ASSUME StoreInv, Acknowledge
  PROVE  StoreInv'
<1> DEFINE r == Others(pending, Acked(taken))
<1>0. /\ LifeShape /\ QueueSound(pending) /\ Unsaved
      /\ writer = "committed" /\ writer' = "idle" /\ taken' = <<>> /\ pending' = r
      /\ UNCHANGED lifeVars /\ UNCHANGED <<life, stored, scopes, lost>>
  BY DEF StoreInv, Acknowledge, lifeVars
<1>1. /\ QueueSound(r)
      /\ \A p : (\E i \in 1 .. Len(r) : r[i].id = p) <=> p \notin Acked(taken) /\ \E i \in 1 .. Len(pending) : pending[i].id = p
  BY <1>0, OthersSound
<1> HIDE DEF r
<1>2. QueueSound(pending)'
  BY <1>0, <1>1 DEF QueueSound
<1>3. WriterSound'
  <2>1. <<>> \in Seq(Evidence) /\ Len(<<>>) = 0 /\ 1 .. 0 = {}
    BY EmptySeq
  <2>2. QED BY <1>0, <2>1 DEF WriterSound, BatchSound, Distinct
<1>4. Unsaved'
  <2>1. ASSUME NEW p \in DOMAIN life \ lost
        PROVE  \/ p \in DOMAIN stored /\ stored[p].evidence.version = life[p].version
               \/ \E i \in 1 .. Len(r) : r[i].id = p
    <3>1. CASE \E i \in 1 .. Len(pending) : pending[i].id = p
      BY <1>0, <1>1, <3>1, AckedIsStored
    <3>2. QED BY <1>0, <3>1 DEF Unsaved
  <2>2. QED BY <1>0, <2>1 DEF Unsaved
<1>5. MarksSound'
  BY MarksKeep
<1>6. LifeShape' /\ TablesSound(Tables)' /\ BoundsMatch(Tables)'
  BY <1>0, PartsStay
<1>7. QED BY <1>2, <1>3, <1>4, <1>5, <1>6 DEF StoreInv

\* A failed batch is still queued.
LEMMA FailKeeps ==
  ASSUME StoreInv, Fail
  PROVE  StoreInv'
<1>0. writer' = "idle" /\ taken' = <<>> /\ UNCHANGED lifeVars /\ UNCHANGED <<life, pending, checkpoints, stored, scopes, lost>>
  BY DEF Fail, lifeVars
<1>1. WriterSound'
  <2>1. <<>> \in Seq(Evidence) /\ Len(<<>>) = 0 /\ 1 .. 0 = {}
    BY EmptySeq
  <2>2. QED BY <1>0, <2>1 DEF WriterSound, BatchSound, Distinct
<1>2. /\ LifeShape' /\ QueueSound(pending)' /\ TablesSound(Tables)' /\ BoundsMatch(Tables)' /\ MarksSound' /\ Unsaved'
  BY <1>0, PartsStay
<1>3. QED BY <1>1, <1>2 DEF StoreInv

\* A dead process leaves the two tables, which agree.
LEMMA CrashKeeps ==
  ASSUME StoreInv, Crash
  PROVE  StoreInv'
<1>0. /\ lost' = DOMAIN life /\ held' = {} /\ pending' = <<>> /\ checkpoints' = <<>> /\ writer' = "idle" /\ taken' = <<>>
      /\ UNCHANGED <<now, life, stored, scopes>> /\ LifeShape
  BY DEF Crash, StoreInv
<1>1. <<>> \in Seq(Evidence) /\ <<>> \in Seq(Marks) /\ Len(<<>>) = 0 /\ 1 .. 0 = {}
  BY EmptySeq
<1>2. QueueSound(pending)' /\ WriterSound' /\ MarksSound' /\ Unsaved'
  BY <1>0, <1>1 DEF QueueSound, WriterSound, BatchSound, Distinct, MarksSound, Unsaved
<1>3. LifeShape'
  BY <1>0 DEF LifeShape
<1>4. TablesSound(Tables)' /\ BoundsMatch(Tables)'
  BY <1>0, PartsStay
<1>5. QED BY <1>2, <1>3, <1>4 DEF StoreInv

\* So does time passing, and a step that changes nothing.
LEMMA TimeKeeps ==
  ASSUME StoreInv, Time \/ UNCHANGED vars
  PROVE  StoreInv'
<1>0. /\ LifeShape /\ UNCHANGED <<life, held, pending, checkpoints, writer, taken, stored, scopes, lost>>
      /\ now' = now \/ (now < MaxNow /\ now' = now + 1)
  BY DEF StoreInv, Time, Tick, vars, storeVars
<1>1. LifeShape'
  <2>1. MaxNow \in Nat
    BY LifeAssumption
  <2>2. now' \in 0 .. MaxNow
    BY <1>0, <2>1 DEF LifeShape
  <2>3. QED BY <1>0, <2>2 DEF LifeShape
<1>2. /\ QueueSound(pending)' /\ WriterSound' /\ TablesSound(Tables)' /\ BoundsMatch(Tables)' /\ MarksSound' /\ Unsaved'
  BY <1>0, PartsStay
<1>3. QED BY <1>1, <1>2 DEF StoreInv

\* Every step keeps it.
LEMMA StoreKept ==
  ASSUME StoreInv, [Next]_vars
  PROVE  StoreInv'
BY ObserveKeeps, TakeKeeps, CommitKeeps, FailKeeps, AcknowledgeKeeps, CrashKeeps, TimeKeeps DEF Next

-----------------------------------------------------------------------------
(* Turns. *)

\* At first nobody waits.
LEMMA TurnsStart ==
  ASSUME Init
  PROVE  Turns
<1>1. pending = <<>> /\ passed = [p \in Pulses |-> 0] /\ Len(<<>>) = 0 /\ 1 .. 0 = {}
  BY DEF Init
<1>2. QED BY <1>1 DEF Turns

\* What a turn costs: those who are still ahead in the new queue, and the batch, were all ahead

\* in the old one.
LEMMA BatchWasAhead ==
  ASSUME NEW d, NEW g, NEW k \in Nat, NEW l \in Nat, NEW i \in Nat,
         \A m \in 1 .. k : g[m] \in 1 .. i, \A m \in 1 .. l : d[m] \in 1 .. i,
         \A m, o \in 1 .. k : g[m] = g[o] => m = o, \A m, o \in 1 .. l : d[m] = d[o] => m = o,
         \A m \in 1 .. k, o \in 1 .. l : g[m] # d[o]
  PROVE  k + l <= i
<1> DEFINE h == [m \in 1 .. k + l |-> IF m <= k THEN g[m] ELSE d[m - k]]
<1>1. \A m \in 1 .. k + l : \/ m <= k /\ m \in 1 .. k /\ h[m] = g[m]
                            \/ ~ (m <= k) /\ m - k \in 1 .. l /\ h[m] = d[m - k]
  <2>1. ASSUME NEW m \in 1 .. k + l
        PROVE  (m <= k /\ m \in 1 .. k) \/ (~ (m <= k) /\ m - k \in 1 .. l)
    OBVIOUS
  <2>2. QED BY <2>1
<1>2. h \in [1 .. k + l -> 1 .. i]
  <2>1. \A m \in 1 .. k + l : h[m] \in 1 .. i
    <3>1. ASSUME NEW m \in 1 .. k + l PROVE h[m] \in 1 .. i
      <4> HIDE DEF h
      <4>1. QED BY <1>1
    <3>2. QED BY <3>1
  <2>2. h = [m \in 1 .. k + l |-> h[m]]
    OBVIOUS
  <2> HIDE DEF h
  <2>3. QED BY <2>1, <2>2
<1> HIDE DEF h
<1>3. ASSUME NEW m \in 1 .. k + l, NEW o \in 1 .. k + l, h[m] = h[o]
      PROVE  m = o
  <2>1. CASE m <= k /\ o <= k
    BY <1>1, <1>3, <2>1
  <2>2. CASE ~ (m <= k) /\ ~ (o <= k)
    <3>1. m - k = o - k
      BY <1>1, <1>3, <2>2
    <3>2. QED BY <3>1
  <2>3. QED BY <1>1, <1>3, <2>1, <2>2
<1>4. i \in Nat /\ k + l \in Nat
  OBVIOUS
<1> DEFINE a == k + l
<1>5. IsFiniteSet(1 .. a) /\ Cardinality(1 .. a) = a /\ IsFiniteSet(1 .. i) /\ Cardinality(1 .. i) = i
  <2> HIDE DEF a
  <2>1. a \in Nat
    BY <1>4 DEF a
  <2>2. QED BY <2>1, <1>4, FS_Interval
<1>6. ~ (Cardinality(1 .. i) < Cardinality(1 .. a))
  BY <1>2, <1>3, <1>5, FS_PigeonHole
<1>7. QED BY <1>4, <1>5, <1>6

\* Who is passed over has come forward by a batch.
LEMMA TakeTurns ==
  ASSUME StoreInv, Turns, Take
  PROVE  Turns'
<1> DEFINE b == BatchOf(Due)
           r == Requeued(pending, b)
           t == Others(pending, Ids(b))
           all == Cardinality(Pulses)
           E == {e \in ToSet(pending) : WriteDue(e)}
<1>0. /\ QueueSound(pending) /\ pending' = r /\ taken' = b
      /\ passed' = [p \in Pulses |-> IF p \in Ids(b) \/ p \notin Ids(Due) THEN 0 ELSE passed[p] + 1]
      /\ passed \in [Pulses -> Nat] /\ pending \in Seq(Evidence)
  BY DEF StoreInv, Take, Turns, QueueSound
<1>1. QueueSound(Due) /\ \E d : Selects(pending, E, Len(pending), Due, d)
  BY <1>0, BatchIs
<1>2. PICK d : Selects(pending, E, Len(pending), Due, d)
  BY <1>1
<1> HIDE DEF E
<1>3. /\ QueueSound(b) /\ Len(b) <= Len(Due) /\ (Len(b) < Len(Due) => Len(b) = Limit)
      /\ \A k \in 1 .. Len(b) : k \in 1 .. Len(Due) /\ b[k] = Due[k]
  BY <1>1, FirstOnes
<1>4. \A k \in 1 .. Len(b) : \E i \in 1 .. Len(pending) : b[k] = pending[i]
  BY <1>2, <1>3 DEF Selects
<1> HIDE DEF b
<1>5. /\ QueueSound(r) /\ \A p : (\E i \in 1 .. Len(r) : r[i].id = p) <=> \E i \in 1 .. Len(pending) : pending[i].id = p
      /\ OthersFirst(pending, Ids(b), t, r)
  <2>1. QueueSound(pending) /\ QueueSound(b)
    BY <1>0, <1>3
  <2>2. /\ QueueSound(Requeued(pending, b))
        /\ \A p : (\E i \in 1 .. Len(Requeued(pending, b)) : Requeued(pending, b)[i].id = p)
                    <=> \E i \in 1 .. Len(pending) : pending[i].id = p
        /\ OthersFirst(pending, Ids(b), Others(pending, Ids(b)), Requeued(pending, b))
    BY <2>1, <1>4, RequeuedIs
  <2>3. QED BY <2>2
<1> HIDE DEF r, t
<1>6. PICK g : Keeps(pending, Ids(b), t, g)
  BY <1>5 DEF OthersFirst
<1>7. r \in Seq(Evidence) /\ Len(r) \in Nat /\ Len(r) <= all /\ all \in Nat /\ Limit \in Nat \ {0}
  BY <1>5, QueueFits, StoreAssumption, LenProperties DEF QueueSound
<1>8. \A p : /\ p \in Ids(b) <=> \E k \in 1 .. Len(b) : b[k].id = p
             /\ p \in Ids(Due) <=> \E k \in 1 .. Len(Due) : Due[k].id = p
             /\ p \in Ids(pending) <=> \E k \in 1 .. Len(pending) : pending[k].id = p
             /\ p \in Ids(r) <=> \E k \in 1 .. Len(r) : r[k].id = p
  <2>1. b \in Seq(Evidence) /\ Due \in Seq(Evidence) /\ pending \in Seq(Evidence) /\ r \in Seq(Evidence)
    BY <1>0, <1>1, <1>3, <1>7 DEF QueueSound
  <2>2. \A s \in Seq(Evidence) : \A p : p \in Ids(s) <=> \E k \in 1 .. Len(s) : s[k].id = p
    BY IdsAre
  <2>3. QED BY <2>1, <2>2
<1>9. passed' \in [Pulses -> Nat]
  <2>1. \A p \in Pulses : passed[p] + 1 \in Nat
    BY <1>0
  <2>2. QED BY <1>0, <2>1
<1>10. ASSUME NEW k \in 1 .. Len(r)
       PROVE  passed'[r[k].id] * Limit + (k - 1) <= all - 1
  <2>1. r[k].id \in Pulses
    BY <1>7, ElementOfSeq, EvidenceNumbers
  <2>2. CASE passed'[r[k].id] = 0
    BY <1>7, <2>2
  <2>3. CASE passed'[r[k].id] # 0
    <3> DEFINE p == r[k].id
    <3>1. p \notin Ids(b) /\ p \in Ids(Due) /\ passed'[p] = passed[p] + 1 /\ passed[p] \in Nat
      BY <1>0, <2>1, <2>3
    <3>2. k \in 1 .. Len(t) /\ r[k] = t[k]
      BY <1>5, <3>1 DEF OthersFirst
    <3> DEFINE i == g[k]
    <3>3. i \in 1 .. Len(pending) /\ pending[i].id = p
      BY <1>6, <3>2 DEF Keeps
    <3>4. PICK j \in 1 .. Len(Due) : Due[j].id = p
      BY <1>8, <3>1
    <3>5. d[j] \in 1 .. Len(pending) /\ pending[d[j]] = Due[j]
      BY <1>2 DEF Selects
    <3>6. d[j] = i
      BY <1>0, <3>3, <3>4, <3>5 DEF QueueSound, Distinct
    <3>7. Len(b) \in Nat /\ Len(Due) \in Nat /\ Len(t) \in Nat /\ Len(pending) \in Nat
      BY <1>0, <1>1, <1>3, <1>5, LenProperties DEF QueueSound, OthersFirst
    <3>8. j > Len(b)
      <4>1. ASSUME j \in 1 .. Len(b) PROVE FALSE
        BY <1>3, <1>8, <3>1, <3>4, <4>1
      <4>2. QED BY <4>1, <3>7
    <3>9. Len(b) = Limit
      BY <1>3, <3>7, <3>8
    <3>10. \A m \in 1 .. Limit : m \in 1 .. Len(Due) /\ m < j /\ d[m] \in 1 .. i /\ d[m] \in 1 .. Len(pending) /\ pending[d[m]].id \in Ids(b)
      <4>1. ASSUME NEW m \in 1 .. Limit
            PROVE  m \in 1 .. Len(Due) /\ m < j /\ d[m] \in 1 .. i /\ d[m] \in 1 .. Len(pending) /\ pending[d[m]].id \in Ids(b)
        <5>1. m \in 1 .. Len(b) /\ m \in 1 .. Len(Due) /\ m < j
          BY <1>3, <3>7, <3>8, <3>9
        <5>2. d[m] < d[j] /\ d[m] \in 1 .. Len(pending) /\ pending[d[m]] = Due[m]
          BY <1>2, <5>1 DEF Selects
        <5>3. d[m] \in 1 .. i
          BY <5>2, <3>3, <3>6, <3>7
        <5>4. b[m] = Due[m]
          BY <1>3, <5>1
        <5>5. QED BY <5>1, <5>2, <5>3, <5>4, <1>8
      <4>2. QED BY <4>1
    <3>11. \A m \in 1 .. k : m \in 1 .. Len(t) /\ g[m] \in 1 .. i /\ g[m] \in 1 .. Len(pending) /\ pending[g[m]].id \notin Ids(b)
      <4>1. ASSUME NEW m \in 1 .. k
            PROVE  m \in 1 .. Len(t) /\ g[m] \in 1 .. i /\ g[m] \in 1 .. Len(pending) /\ pending[g[m]].id \notin Ids(b)
        <5>1. m \in 1 .. Len(t) /\ (m < k \/ m = k)
          BY <3>2, <3>7
        <5>2. g[m] \in 1 .. Len(pending) /\ pending[g[m]].id \notin Ids(b) /\ (m < k => g[m] < g[k])
          BY <1>6, <3>2, <5>1 DEF Keeps
        <5>3. g[m] \in 1 .. i
          BY <3>3, <3>7, <5>1, <5>2
        <5>4. QED BY <5>1, <5>2, <5>3
      <4>2. QED BY <4>1
    <3>12. \A m, o \in 1 .. Limit : d[m] = d[o] => m = o
      <4>1. ASSUME NEW m \in 1 .. Limit, NEW o \in 1 .. Limit, d[m] = d[o]
            PROVE  m = o
        <5>1. ~ (m < o) /\ ~ (o < m)
          <6>1. (m < o => d[m] < d[o]) /\ (o < m => d[o] < d[m])
            BY <1>2, <3>10 DEF Selects
          <6>2. d[m] \in Int
            BY <3>10
          <6>3. QED BY <6>1, <6>2, <4>1
        <5>2. QED BY <5>1, <1>7
      <4>2. QED BY <4>1
    <3>13. \A m, o \in 1 .. k : g[m] = g[o] => m = o
      <4>1. ASSUME NEW m \in 1 .. k, NEW o \in 1 .. k, g[m] = g[o]
            PROVE  m = o
        <5>1. ~ (m < o) /\ ~ (o < m)
          <6>1. (m < o => g[m] < g[o]) /\ (o < m => g[o] < g[m])
            BY <1>6, <3>11 DEF Keeps
          <6>2. g[m] \in Int
            BY <3>11
          <6>3. QED BY <6>1, <6>2, <4>1
        <5>2. QED BY <5>1
      <4>2. QED BY <4>1
    <3>14. \A m \in 1 .. k, o \in 1 .. Limit : g[m] # d[o]
      BY <3>10, <3>11
    <3>15. passed[p] * Limit + (i - 1) <= all - 1
      BY <3>3 DEF Turns
    <3> HIDE DEF i, p
    <3>16. k + Limit <= i
      <4>1. k \in Nat /\ Limit \in Nat /\ i \in Nat
        BY <1>7, <3>3, <3>7
      <4>2. (\A m \in 1 .. k : g[m] \in 1 .. i) /\ (\A m \in 1 .. Limit : d[m] \in 1 .. i)
        BY <3>10, <3>11
      <4>3. QED BY <4>1, <4>2, <3>12, <3>13, <3>14, BatchWasAhead
    <3>17. i \in Nat /\ k \in Nat
      BY <3>3, <3>7
    <3> HIDE DEF all
    <3>18. (passed[p] + 1) * Limit = passed[p] * Limit + Limit
      BY <1>7, <3>1
    <3> DEFINE x == passed[p] * Limit
    <3>19. x \in Nat
      BY <1>7, <3>1
    <3>20. passed'[p] * Limit = x + Limit /\ x + (i - 1) <= all - 1
      BY <3>1, <3>15, <3>18
    <3> HIDE DEF x
    <3>21. x + Limit + (k - 1) <= all - 1
      BY <1>7, <3>16, <3>17, <3>19, <3>20
    <3>22. QED BY <3>20, <3>21 DEF p
  <2>4. QED BY <2>2, <2>3
<1>11. ASSUME NEW p \in Pulses, p \notin Ids(r) \/ p \in Ids(b)
       PROVE  passed'[p] = 0
  <2>1. CASE p \in Ids(b)
    BY <1>0, <2>1
  <2>2. CASE p \notin Ids(r)
    <3>1. p \notin Ids(Due)
      <4>1. ASSUME NEW k \in 1 .. Len(Due), Due[k].id = p PROVE FALSE
        <5>1. d[k] \in 1 .. Len(pending) /\ pending[d[k]].id = p
          BY <1>2, <4>1 DEF Selects
        <5>2. QED BY <5>1, <1>5, <1>8, <2>2
      <4>2. QED BY <4>1, <1>8
    <3>2. QED BY <1>0, <3>1
  <2>3. QED BY <1>11, <2>1, <2>2
<1>12. pending' = r /\ taken' = b
  BY <1>0
<1>13. QED BY <1>9, <1>10, <1>11, <1>12 DEF Turns

\* Who is new waits behind all others, and they are fewer than the pulses.
LEMMA ObserveTurns ==
  ASSUME StoreInv, Turns, Observe
  PROVE  Turns'
<1> DEFINE all == Cardinality(Pulses)
<1>0. /\ LifeShape /\ QueueSound(pending) /\ pending \in Seq(Evidence) /\ Observation
      /\ pending' = Queued /\ UNCHANGED <<taken, passed>> /\ passed \in [Pulses -> Nat]
  BY DEF StoreInv, Observe, Turns, QueueSound
<1>1. /\ Queued \in Seq(Evidence) /\ Distinct(Queued)
      /\ Len(Queued) >= Len(pending) /\ \A i \in 1 .. Len(pending) : Queued[i].id = pending[i].id
      /\ \A i \in 1 .. Len(Queued) : i > Len(pending) => Queued[i].id \notin Ids(pending)
  BY <1>0, ObservationIs, StoreAssumption, QueuedIs
<1>2. Len(Queued) <= all /\ all \in Nat /\ Len(Queued) \in Nat /\ Len(pending) \in Nat /\ Limit \in Nat
  BY <1>0, <1>1, QueueFits, LenProperties, StoreAssumption
<1>3. ASSUME NEW i \in 1 .. Len(Queued)
      PROVE  passed[Queued[i].id] * Limit + (i - 1) <= all - 1
  <2>1. CASE i > Len(pending)
    <3>1. Queued[i].id \in Pulses
      BY <1>1, ElementOfSeq, EvidenceNumbers
    <3>2. passed[Queued[i].id] = 0
      BY <1>1, <2>1, <3>1 DEF Turns
    <3>3. QED BY <1>2, <3>2
  <2>2. CASE ~ (i > Len(pending))
    <3>1. i \in 1 .. Len(pending)
      BY <1>2, <2>2
    <3>2. QED BY <1>1, <3>1 DEF Turns
  <2>3. QED BY <2>1, <2>2
<1>4. ASSUME NEW p \in Pulses, p \notin Ids(Queued) \/ p \in Ids(taken)
      PROVE  passed[p] = 0
  <2>1. CASE p \in Ids(taken)
    BY <2>1 DEF Turns
  <2>2. CASE p \notin Ids(Queued)
    <3>1. p \notin Ids(pending)
      <4>1. ASSUME p \in Ids(pending) PROVE FALSE
        <5>1. PICK i \in 1 .. Len(pending) : pending[i].id = p
          BY <1>0, <4>1, IdsAre
        <5>2. i \in 1 .. Len(Queued) /\ Queued[i].id = p
          BY <1>1, <1>2, <5>1
        <5>3. QED BY <1>1, <2>2, <5>2, IdsAre
      <4>2. QED BY <4>1
    <3>2. QED BY <3>1 DEF Turns
  <2>3. QED BY <1>4, <2>1, <2>2
<1>5. QED BY <1>0, <1>3, <1>4 DEF Turns

\* What leaves the queue brings the others forward.
LEMMA AcknowledgeTurns ==
  ASSUME StoreInv, Turns, Acknowledge
  PROVE  Turns'
<1> DEFINE r == Others(pending, Acked(taken))
           all == Cardinality(Pulses)
<1>0. /\ QueueSound(pending) /\ pending \in Seq(Evidence) /\ BatchSound(taken)
      /\ taken' = <<>> /\ pending' = r /\ UNCHANGED passed /\ passed \in [Pulses -> Nat]
  BY DEF StoreInv, WriterSound, Acknowledge, Turns, QueueSound
<1>1. r \in Seq(Evidence) /\ \E g : Keeps(pending, Acked(taken), r, g)
  BY <1>0, OthersIs
<1>2. PICK g : Keeps(pending, Acked(taken), r, g)
  BY <1>1
<1>3. \A p : (\E i \in 1 .. Len(r) : r[i].id = p) <=> p \notin Acked(taken) /\ \E i \in 1 .. Len(pending) : pending[i].id = p
  BY <1>0, OthersSound
<1> HIDE DEF r
<1>4. ASSUME NEW k \in 1 .. Len(r)
      PROVE  passed[r[k].id] * Limit + (k - 1) <= all - 1
  <2>1. g[k] \in 1 .. Len(pending) /\ r[k] = pending[g[k]] /\ k <= g[k]
    BY <1>2 DEF Keeps
  <2>2. passed[r[k].id] * Limit + (g[k] - 1) <= all - 1
    BY <2>1 DEF Turns
  <2> DEFINE x == passed[r[k].id] * Limit
  <2>3. x \in Nat /\ all \in Nat /\ g[k] \in Nat /\ k \in Nat
    <3>1. r[k].id \in Pulses /\ Limit \in Nat
      BY <1>1, ElementOfSeq, EvidenceNumbers, StoreAssumption
    <3>2. passed[r[k].id] \in Nat
      BY <1>0, <3>1
    <3>3. all \in Nat
      BY StoreAssumption, FS_CardinalityType
    <3>4. Len(pending) \in Nat /\ Len(r) \in Nat
      BY <1>0, <1>1, LenProperties
    <3>5. QED BY <2>1, <3>1, <3>2, <3>3, <3>4
  <2> HIDE DEF x, all
  <2>4. x + (g[k] - 1) <= all - 1
    BY <2>2 DEF x
  <2>5. x + (k - 1) <= all - 1
    BY <2>1, <2>3, <2>4
  <2>6. QED BY <2>5 DEF x
<1>5. ASSUME NEW p \in Pulses, p \notin Ids(r) \/ p \in Ids(<<>>)
      PROVE  passed[p] = 0
  <2>1. p \notin Ids(<<>>)
    <3>1. Ids(<<>>) = {}
      BY DEF Ids, ToSet
    <3>2. QED BY <3>1
  <2>2. ~ \E i \in 1 .. Len(r) : r[i].id = p
    BY <1>1, <1>5, <2>1, IdsAre
  <2>3. CASE p \in Acked(taken)
    BY <2>3 DEF Acked, Turns
  <2>4. CASE p \notin Acked(taken)
    <3>1. p \notin Ids(pending)
      BY <1>0, <1>3, <2>2, <2>4, IdsAre
    <3>2. QED BY <3>1 DEF Turns
  <2>5. QED BY <2>3, <2>4
<1>6. QED BY <1>0, <1>4, <1>5 DEF Turns

\* A dead process has no queue.
LEMMA CrashTurns ==
  ASSUME StoreInv, Turns, Crash
  PROVE  Turns'
<1>1. pending' = <<>> /\ passed' = [p \in Pulses |-> 0] /\ Len(<<>>) = 0 /\ 1 .. 0 = {}
  BY DEF Crash
<1>2. QED BY <1>1 DEF Turns

\* Fail gives up its batch; the other steps are about something else.
LEMMA OtherTurns ==
  ASSUME StoreInv, Turns, Commit \/ Fail \/ Time \/ UNCHANGED vars
  PROVE  Turns'
<1>1. UNCHANGED <<pending, passed>> /\ (taken' = taken \/ taken' = <<>>)
  BY DEF Commit, Fail, Time, vars, storeVars
<1>2. Ids(<<>>) = {}
  BY DEF Ids, ToSet
<1>3. QED BY <1>1, <1>2 DEF Turns, Ids

\* Every step keeps the turns.
LEMMA TurnsKept ==
  ASSUME StoreInv, Turns, [Next]_vars
  PROVE  Turns'
BY ObserveTurns, TakeTurns, AcknowledgeTurns, CrashTurns, OtherTurns DEF Next

-----------------------------------------------------------------------------

\* What the invariants say of the properties.
LEMMA NothingLostNow ==
  ASSUME StoreInv
  PROVE  NothingIsLost
<1>0. /\ LifeShape /\ QueueSound(pending) /\ pending \in Seq(Evidence) /\ TablesSound(Tables) /\ BoundsMatch(Tables) /\ MarksSound /\ Unsaved
      /\ Tables.stored = stored /\ Tables.scopes = scopes
  BY DEF StoreInv, QueueSound, Tables
<1>1. ASSUME NEW i \in 1 .. Len(pending)
      PROVE  Of(pending, pending[i].id) = pending[i] /\ pending[i] = life[pending[i].id] /\ pending[i].id \in Ids(pending)
             /\ pending[i].id \in DOMAIN life \ lost /\ pending[i] \in Evidence
  BY <1>0, OfIs, IdsAre, ElementOfSeq DEF QueueSound
<1>2. UnsavedIsQueued
  <2>1. ASSUME NEW p \in DOMAIN life \ lost
        PROVE  StoredVersion(p) = life[p].version \/ (p \in Ids(pending) /\ Of(pending, p) = life[p])
    <3>1. CASE p \in DOMAIN stored /\ stored[p].evidence.version = life[p].version
      BY <3>1 DEF StoredVersion
    <3>2. CASE \E i \in 1 .. Len(pending) : pending[i].id = p
      BY <1>1, <3>2
    <3>3. QED BY <1>0, <3>1, <3>2 DEF Unsaved
  <2>2. QED BY <2>1 DEF UnsavedIsQueued
<1>3. NotDueIsCovered
  <2>1. ASSUME NEW e \in ToSet(pending), ~ WriteDue(e)
        PROVE  /\ e.id \in DOMAIN stored
               /\ <<stored[e.id].evidence.state, stored[e.id].evidence.notice, stored[e.id].evidence.ended>>
                     = <<e.state, e.notice, e.ended>>
               /\ Abs(e.peak - stored[e.id].evidence.peak) < 2
    <3> DEFINE mark == Of(checkpoints, e.id)
               old == stored[e.id].evidence
    <3>1. PICK i \in 1 .. Len(pending) : e = pending[i]
      BY <1>0, IdsAre
    <3>2. e \in Evidence /\ e = life[e.id]
      BY <1>1, <3>1
    <3>3. /\ e.id \in Ids(checkpoints) /\ ~ (Abs(e.peak - mark.peak) >= 2)
          /\ <<mark.state, mark.notice, mark.ended>> = <<e.state, e.notice, e.ended>>
      BY <2>1 DEF WriteDue
    <3>4. \E k \in DOMAIN checkpoints : checkpoints[k].id = e.id
      BY <3>3, <1>0, LenProperties, IdsAre DEF MarksSound
    <3>5. PICK k \in DOMAIN checkpoints : mark = checkpoints[k] /\ checkpoints[k].id = e.id
      BY <3>4 DEF Of
    <3> HIDE DEF mark
    <3>6. PICK f \in Evidence : Says(mark, f) /\ IsStored(f)
      BY <1>0, <3>5, LenProperties DEF MarksSound
    <3>7. f.id = e.id /\ f.state = e.state /\ f.notice = e.notice /\ f.ended = e.ended /\ f.peak = mark.peak
      BY <3>3, <3>5, <3>6 DEF Says
    <3>8. e.id \in DOMAIN stored /\ Later(f, old) /\ Later(old, e) /\ old \in Evidence
      BY <1>0, <3>2, <3>6, <3>7 DEF IsStored, TablesSound, RowSound
    <3> HIDE DEF old
    <3>9. /\ f.notice \in Nat /\ old.notice \in Nat /\ e.peak \in Int /\ old.peak \in Int /\ f.peak \in Int
          /\ e.dir \in {-1, 1} /\ old.ended \in BOOLEAN /\ e.ended \in BOOLEAN
      BY <3>2, <3>6, <3>8, EvidenceNumbers
    <3>10. old.notice = e.notice
      BY <3>7, <3>8, <3>9 DEF Later
    <3>11. old.ended = e.ended
      <4>1. f.ended => f = old
        BY <3>8 DEF Later
      <4>2. old.ended => old = e
        BY <3>8 DEF Later
      <4>3. QED BY <3>7, <3>9, <4>1, <4>2
    <3>12. old.state = e.state
      <4>1. CASE f.ended
        BY <3>7, <3>8, <4>1 DEF Later
      <4>2. CASE ~ f.ended
        <5>1. ~ old.ended
          BY <3>7, <3>11, <4>2
        <5>2. QED BY <3>7, <3>8, <3>10, <5>1 DEF Later
      <4>3. QED BY <4>1, <4>2
    <3>13. Abs(e.peak - old.peak) < 2
      <4>1. ~ (Abs(e.peak - f.peak) >= 2)
        BY <3>3, <3>7
      <4>2. f.dir = e.dir /\ old.dir = e.dir
        BY <3>8 DEF Later
      <4>3. (e.dir = 1 => f.peak <= old.peak /\ old.peak <= e.peak) /\ (e.dir = -1 => old.peak <= f.peak /\ e.peak <= old.peak)
        BY <3>8, <4>2 DEF Later
      <4>4. QED BY <3>9, <4>1, <4>3 DEF Abs
    <3>14. QED BY <3>8, <3>10, <3>11, <3>12, <3>13 DEF old
  <2>2. QED BY <2>1 DEF NotDueIsCovered
<1>4. BoundsMatchNotices
  <2>1. ASSUME NEW p \in DOMAIN stored
        PROVE  stored[p].notices \in Seq(NoticeType) /\ DOMAIN stored[p].notices = 1 .. Len(stored[p].notices)
    BY <1>0, LenProperties DEF TablesSound, RowSound
  <2>2. ASSUME NEW s \in Scopes
        PROVE  /\ scopes[s].points \in Seq(Points) /\ DOMAIN scopes[s].points = 1 .. Len(scopes[s].points)
               /\ ToSet(scopes[s].points) = {scopes[s].points[k] : k \in 1 .. Len(scopes[s].points)}
    <3>1. scopes[s] \in ScopeType
      BY <1>0 DEF TablesSound
    <3>2. QED BY <3>1, LenProperties, IdsAre DEF ScopeType
  <2>3. ASSUME NEW s \in Scopes, NEW g \in Granted(s)
        PROVE  \E p \in DOMAIN stored : /\ ScopeOf[p] = s
                  /\ \E i \in 1 .. Len(stored[p].notices) : g = <<p, i>> /\ NoticeAt(g) = stored[p].notices[i]
    BY <2>1 DEF Granted, NoticeAt
  <2>4. ASSUME NEW p \in DOMAIN stored, NEW i \in 1 .. Len(stored[p].notices)
        PROVE  <<p, i>> \in Granted(ScopeOf[p]) /\ NoticeAt(<<p, i>>) = stored[p].notices[i]
    BY <2>1 DEF Granted, NoticeAt
  <2>5. ASSUME NEW s \in Scopes
        PROVE  LET levels == {<<p.at, p.value>> : p \in ToSet(scopes[s].points)}
                   told   == {<<NoticeAt(g).at, NoticeAt(g).value>> : g \in Granted(s)}
               IN /\ \A t \in told : scopes[s].last - Window <= t[1] => t \in levels
                  /\ \A l \in levels : l \in told \/ \E t \in told : t[1] = l[1]
    <3> DEFINE levels == {<<p.at, p.value>> : p \in ToSet(scopes[s].points)}
               told   == {<<NoticeAt(g).at, NoticeAt(g).value>> : g \in Granted(s)}
    <3>1. ASSUME NEW t \in told, scopes[s].last - Window <= t[1]
          PROVE  t \in levels
      <4>1. PICK g \in Granted(s) : t = <<NoticeAt(g).at, NoticeAt(g).value>>
        OBVIOUS
      <4>20. PICK p \in DOMAIN stored : /\ ScopeOf[p] = s
                /\ \E i \in 1 .. Len(stored[p].notices) : g = <<p, i>> /\ NoticeAt(g) = stored[p].notices[i]
        BY <2>3
      <4>2. PICK i \in 1 .. Len(stored[p].notices) : ScopeOf[p] = s /\ NoticeAt(g) = stored[p].notices[i]
        BY <4>20
      <4>3. t[1] = stored[p].notices[i].at
        BY <4>1, <4>2
      <4>4. Counted(scopes[s], stored[p].notices[i])
        BY <3>1, <4>3 DEF Counted
      <4>5. PICK k \in 1 .. Len(scopes[s].points) :
              /\ scopes[s].points[k].at = stored[p].notices[i].at
              /\ scopes[s].points[k].value = stored[p].notices[i].value
        BY <1>0, <4>2, <4>4 DEF BoundsMatch, TellsItsLevels
      <4>6. scopes[s].points[k] \in ToSet(scopes[s].points)
        BY <2>2
      <4>7. QED BY <4>1, <4>2, <4>5, <4>6
    <3>2. ASSUME NEW l \in levels
          PROVE  \E t \in told : t[1] = l[1]
      <4>1. PICK k \in 1 .. Len(scopes[s].points) : l = <<scopes[s].points[k].at, scopes[s].points[k].value>>
        BY <2>2
      <4>2. LevelIsTold(Tables, s, k)
        BY <1>0 DEF BoundsMatch
      <4>30. PICK p \in DOMAIN stored : /\ ScopeOf[p] = s
                /\ \E i \in 1 .. Len(stored[p].notices) : stored[p].notices[i].at = scopes[s].points[k].at
        BY <1>0, <4>2 DEF LevelIsTold
      <4>3. PICK i \in 1 .. Len(stored[p].notices) :
              ScopeOf[p] = s /\ stored[p].notices[i].at = scopes[s].points[k].at
        BY <4>30
      <4>4. <<p, i>> \in Granted(s) /\ NoticeAt(<<p, i>>).at = scopes[s].points[k].at
        BY <2>4, <4>3
      <4> DEFINE t == <<NoticeAt(<<p, i>>).at, NoticeAt(<<p, i>>).value>>
      <4>5. t \in told /\ t[1] = l[1]
        BY <4>1, <4>4
      <4>6. QED BY <4>5
    <3>3. QED BY <3>1, <3>2
  <2>6. QED BY <2>5 DEF BoundsMatchNotices
<1>5. QED BY <1>2, <1>3, <1>4 DEF NothingIsLost

-----------------------------------------------------------------------------
(* The theorems. *)

\* A step leaves the tables or makes them grow.
LEMMA TablesGrowNow ==
  ASSUME StoreInv, [Next]_vars
  PROVE  TablesSound(Tables) /\ TablesSound(Tables') /\ TablesGrow(Tables, Tables')
<1>1. TablesSound(Tables)
  BY DEF StoreInv
<1>2. CASE Commit
  <2>1. Tables' = Committed /\ TablesGrow(Tables, Committed)
    BY <1>2, CommitDoes
  <2>2. TablesSound(Committed)
    BY <1>2, CommitDoes
  <2> HIDE DEF Committed
  <2>3. QED BY <1>1, <2>1, <2>2
<1>3. CASE Tables' = Tables
  BY <1>1, <1>3, GrowsItself
<1>4. Commit \/ Tables' = Tables
  BY DEF Next, Observe, Take, Fail, Acknowledge, Crash, Time, vars, storeVars, Tables
<1>5. QED BY <1>2, <1>3, <1>4

\* A sequence that starts with all of another has it as a prefix.
LEMMA PrefixIs ==
  ASSUME NEW T, NEW s \in Seq(T), NEW t \in Seq(T), Len(s) <= Len(t), \A i \in 1 .. Len(s) : t[i] = s[i]
  PROVE  IsPrefix(s, t)
<1> DEFINE n == Len(s)
           u == SubSeq(s, 1, n)
           v == SubSeq(t, 1, n)
<1>1. n \in Nat /\ Len(t) \in Nat
  BY LenProperties
<1>2. \A i \in 1 .. n : i \in 1 .. Len(t) /\ s[i] \in T /\ t[i] \in T
  <2>1. \A i \in 1 .. n : i \in 1 .. Len(t)
    BY <1>1
  <2>2. QED BY <2>1, ElementOfSeq
<1>3. u \in Seq(T) /\ Len(u) = n /\ \A i \in 1 .. n : u[i] = s[i]
  <2>0. \A i \in 1 .. n : s[i] \in T
    BY <1>2
  <2> HIDE DEF n
  <2>1. /\ u \in Seq(T) /\ Len(u) = (IF 1 <= n THEN n - 1 + 1 ELSE 0)
        /\ \A i \in 1 .. n - 1 + 1 : u[i] = s[1 + i - 1]
    <3>1. 1 \in Int /\ n \in Int
      BY <1>1
    <3>2. QED BY <2>0, <3>1, SubSeqProperties
  <2> HIDE DEF u
  <2>2. \A i \in 1 .. n : i \in 1 .. n - 1 + 1 /\ 1 + i - 1 = i
    BY <1>1
  <2>3. Len(u) = n
    BY <1>1, <2>1
  <2>4. \A i \in 1 .. n : u[i] = s[i]
    <3>1. TAKE i \in 1 .. n
    <3>2. i \in 1 .. n - 1 + 1 /\ 1 + i - 1 = i
      BY <2>2
    <3>3. u[i] = s[1 + i - 1]
      BY <2>1, <3>2
    <3>4. QED BY <3>2, <3>3
  <2>5. QED BY <2>1, <2>3, <2>4
<1>4. v \in Seq(T) /\ Len(v) = n /\ \A i \in 1 .. n : v[i] = t[i]
  <2>0. \A i \in 1 .. n : t[i] \in T
    BY <1>2
  <2> HIDE DEF n
  <2>1. /\ v \in Seq(T) /\ Len(v) = (IF 1 <= n THEN n - 1 + 1 ELSE 0)
        /\ \A i \in 1 .. n - 1 + 1 : v[i] = t[1 + i - 1]
    <3>1. 1 \in Int /\ n \in Int
      BY <1>1
    <3>2. QED BY <2>0, <3>1, SubSeqProperties
  <2> HIDE DEF v
  <2>2. \A i \in 1 .. n : i \in 1 .. n - 1 + 1 /\ 1 + i - 1 = i
    BY <1>1
  <2>3. Len(v) = n
    BY <1>1, <2>1
  <2>4. \A i \in 1 .. n : v[i] = t[i]
    <3>1. TAKE i \in 1 .. n
    <3>2. i \in 1 .. n - 1 + 1 /\ 1 + i - 1 = i
      BY <2>2
    <3>3. v[i] = t[1 + i - 1]
      BY <2>1, <3>2
    <3>4. QED BY <3>2, <3>3
  <2>5. QED BY <2>1, <2>3, <2>4
<1>5. u = v
  <2> HIDE DEF u, v, n
  <2>1. \A i \in 1 .. n : u[i] = v[i]
    BY <1>3, <1>4 DEF n
  <2>2. QED BY <1>3, <1>4, <2>1, SeqEqual
<1>6. QED BY <1>5 DEF IsPrefix

\* Stored evidence grows.
LEMMA GrowsNow ==
  ASSUME StoreInv, [Next]_vars, NEW p \in DOMAIN stored
  PROVE  /\ p \in DOMAIN stored'
         /\ stored[p].evidence.version <= stored'[p].evidence.version
         /\ stored[p].evidence.ended => stored'[p].evidence = stored[p].evidence
         /\ IsPrefix(stored[p].notices, stored'[p].notices)
<1>1. /\ TablesSound(Tables) /\ TablesSound(Tables') /\ TablesGrow(Tables, Tables')
      /\ Tables.stored = stored /\ Tables'.stored = stored'
  BY TablesGrowNow DEF Tables
<1>2. p \in DOMAIN stored' /\ RowGrows(stored[p], stored'[p])
  BY <1>1 DEF TablesGrow
<1>3. stored[p].notices \in Seq(NoticeType) /\ stored'[p].notices \in Seq(NoticeType)
  <2>1. \A q \in DOMAIN Tables.stored : Tables.stored[q].notices \in Seq(NoticeType)
    BY <1>1 DEF TablesSound, RowSound
  <2>2. \A q \in DOMAIN Tables'.stored : Tables'.stored[q].notices \in Seq(NoticeType)
    BY <1>1 DEF TablesSound, RowSound
  <2>3. QED BY <1>1, <1>2, <2>1, <2>2
<1>4. IsPrefix(stored[p].notices, stored'[p].notices)
  BY <1>2, <1>3, PrefixIs DEF RowGrows
<1>5. QED BY <1>2, <1>4 DEF RowGrows, Later

\* A new notice is a step beyond the old ones.
LEMMA NewNow ==
  ASSUME StoreInv, [Next]_vars, NEW s \in Scopes, NEW new \in Granted(s)' \ Granted(s), NEW old \in Granted(s),
         NoticeAt(old).dir = NoticeAt(new)'.dir, scopes'[s].last - Window <= NoticeAt(old).at
  PROVE  NoticeAt(old).dir * (NoticeAt(new)'.value - NoticeAt(old).value) >= 2
<1>1. /\ TablesSound(Tables) /\ TablesSound(Tables') /\ NewsIsNew(Tables, Tables')
      /\ Tables.stored = stored /\ Tables'.stored = stored' /\ Tables'.scopes = scopes'
  BY TablesGrowNow DEF Tables, TablesGrow
<1>2. \A p \in DOMAIN stored : DOMAIN stored[p].notices = 1 .. Len(stored[p].notices) /\ Len(stored[p].notices) \in Nat
  <2>1. \A p \in DOMAIN Tables.stored : Tables.stored[p].notices \in Seq(NoticeType)
    BY <1>1 DEF TablesSound, RowSound
  <2>2. QED BY <1>1, <2>1, LenProperties
<1>3. \A p \in DOMAIN stored' : DOMAIN stored'[p].notices = 1 .. Len(stored'[p].notices) /\ Len(stored'[p].notices) \in Nat
  <2>1. \A p \in DOMAIN Tables'.stored : Tables'.stored[p].notices \in Seq(NoticeType)
    BY <1>1 DEF TablesSound, RowSound
  <2>2. QED BY <1>1, <2>1, LenProperties
<1>4. PICK q \in DOMAIN stored : ScopeOf[q] = s /\ \E j \in DOMAIN stored[q].notices : old = <<q, j>>
  BY DEF Granted
<1>5. PICK j \in DOMAIN stored[q].notices : old = <<q, j>>
  BY <1>4
<1>6. PICK p \in DOMAIN stored' : ScopeOf[p] = s /\ \E i \in DOMAIN stored'[p].notices : new = <<p, i>>
  BY DEF Granted
<1>7. PICK i \in DOMAIN stored'[p].notices : new = <<p, i>>
  BY <1>6
<1>8. NoticeAt(old) = stored[q].notices[j] /\ NoticeAt(new)' = stored'[p].notices[i]
  BY <1>5, <1>7 DEF NoticeAt
<1>9. i > Had(Tables, p)
  <2>1. CASE p \in DOMAIN stored
    <3>1. i \notin DOMAIN stored[p].notices
      BY <1>6, <1>7, <2>1 DEF Granted
    <3>2. QED BY <1>1, <1>2, <1>3, <2>1, <3>1 DEF Had
  <2>2. CASE p \notin DOMAIN stored
    BY <1>1, <1>3, <2>2 DEF Had
  <2>3. QED BY <2>1, <2>2
<1>10. Counted(scopes'[s], stored[q].notices[j])
  BY <1>8 DEF Counted
<1>11. Beyond(stored[q].notices[j], stored'[p].notices[i])
  BY <1>1, <1>2, <1>3, <1>4, <1>6, <1>9, <1>10 DEF NewsIsNew
<1>12. QED BY <1>8, <1>11 DEF Beyond

-----------------------------------------------------------------------------
\* What the database lacks is queued in its newest version, what waits undue differs from what is

\* stored by no stage, notice or end, and notices and reminder bounds agree: whatever fails, is
\* overtaken or dies in between (AlertPulseHub and persist_alert_pulses).
THEOREM NothingLost == Spec => []NothingIsLost
<1>1. Spec => []StoreInv
  BY StoreStarts, StoreKept, PTL DEF Spec
<1>2. QED BY <1>1, NothingLostNow, PTL

\* A due pulse waits for no more batches than the pulses that were ahead of it fill: what is

\* taken goes to the end of the queue (AlertPulseHub.take).
THEOREM NobodyStarved == Spec => []NobodyStarves
<1>1. Spec => [](StoreInv /\ Turns)
  BY StoreStarts, StoreKept, TurnsStart, TurnsKept, PTL DEF Spec
<1>2. ASSUME StoreInv, Turns
      PROVE  NobodyStarves
  <2>1. ASSUME NEW p \in Pulses
        PROVE  passed[p] * Limit <= Cardinality(Pulses) - 1
    <3> DEFINE all == Cardinality(Pulses)
    <3>1. all \in Nat \ {0} /\ Limit \in Nat
      BY StoreAssumption, FS_CardinalityType, FS_EmptySet
    <3>2. CASE p \in Ids(pending)
      <4>1. PICK i \in 1 .. Len(pending) : pending[i].id = p
        BY <1>2, <3>2, IdsAre DEF StoreInv, QueueSound
      <4>2. passed[p] * Limit + (i - 1) <= all - 1
        BY <1>2, <4>1 DEF Turns
      <4> DEFINE x == passed[p] * Limit
      <4>3. x \in Nat /\ i \in Nat \ {0}
        <5>1. passed[p] \in Nat /\ Len(pending) \in Nat
          BY <1>2, LenProperties DEF Turns, StoreInv, QueueSound
        <5>2. QED BY <3>1, <5>1
      <4> HIDE DEF x, all
      <4>4. x + (i - 1) <= all - 1
        BY <4>2 DEF x
      <4>5. x <= all - 1
        BY <3>1, <4>3, <4>4
      <4>6. QED BY <4>5 DEF x, all
    <3>3. CASE p \notin Ids(pending)
      <4>1. passed[p] = 0
        BY <1>2, <3>3 DEF Turns
      <4>2. QED BY <3>1, <4>1
    <3>4. QED BY <3>2, <3>3
  <2>2. QED BY <2>1 DEF NobodyStarves
<1>3. QED BY <1>1, <1>2, PTL

\* No step makes stored evidence older, withdraws a notice or revives an ended pulse, and none

\* grants a notice that is not a step beyond all its scope still counts (admit_pulse).
THEOREM NothingTakenBack == Spec => NothingIsTakenBack
<1>1. Spec => []StoreInv
  BY StoreStarts, StoreKept, PTL DEF Spec
<1>2. ASSUME StoreInv, [Next]_vars
      PROVE  /\ [\A p \in DOMAIN stored :
                   /\ p \in DOMAIN stored'
                   /\ stored[p].evidence.version <= stored'[p].evidence.version
                   /\ stored[p].evidence.ended => stored'[p].evidence = stored[p].evidence
                   /\ IsPrefix(stored[p].notices, stored'[p].notices)]_vars
             /\ [\A s \in Scopes : \A new \in Granted(s)' \ Granted(s), old \in Granted(s) :
                   LET a == NoticeAt(old)
                       b == NoticeAt(new)'
                   IN a.dir = b.dir /\ scopes'[s].last - Window <= a.at => a.dir * (b.value - a.value) >= 2]_vars
  BY <1>2, GrowsNow, NewNow
<1>3. QED BY <1>1, <1>2, PTL DEF Spec, NothingIsTakenBack, EvidenceOnlyGrows, NoRepeatedReminder

-----------------------------------------------------------------------------
(* The samples of the books. *)

\* Samples that wait are samples that were taken, those of which a part is in the files
\* have their bucket there, and no more are missing than were counted as dropped.
BookInv ==
  /\ IsFiniteSet(accepted) /\ waitingBooks \in Seq(accepted) /\ droppedBooks \in Nat
  /\ \A b \in written : SlotOf(b) \in DOMAIN bookFile
  /\ Cardinality(Unaccounted) <= droppedBooks

\* Fewer are missing than before, or at most one more.
LEMMA FewerMissing ==
  ASSUME NEW U, IsFiniteSet(U), NEW n \in Nat, Cardinality(U) <= n, NEW V
  PROVE  /\ V \subseteq U => Cardinality(V) <= n
         /\ \A x : V \subseteq U \cup {x} => Cardinality(V) <= n + 1
<1>1. Cardinality(U) \in Nat
  BY FS_CardinalityType
<1>2. ASSUME V \subseteq U PROVE Cardinality(V) <= n
  <2>1. Cardinality(V) <= Cardinality(U) /\ Cardinality(V) \in Nat
    BY <1>2, FS_Subset, FS_CardinalityType
  <2>2. QED BY <1>1, <2>1
<1>3. ASSUME NEW x, V \subseteq U \cup {x} PROVE Cardinality(V) <= n + 1
  <2>1. IsFiniteSet(U \cup {x}) /\ Cardinality(U \cup {x}) \in Nat /\ Cardinality(U \cup {x}) <= Cardinality(U) + 1
    BY <1>1, FS_AddElement, FS_CardinalityType
  <2>2. Cardinality(V) <= Cardinality(U \cup {x}) /\ Cardinality(V) \in Nat
    BY <1>3, <2>1, FS_Subset, FS_CardinalityType
  <2>3. QED BY <1>1, <2>1, <2>2
<1>4. QED BY <1>2, <1>3

\* The samples that are popped are those of buckets that are in the files.
LEMMA PoppedKeeps ==
  ASSUME waitingBooks \in Seq(accepted)
  PROVE  Popped \in Seq(accepted) /\ Staying \subseteq Samples(Popped)
<1>1. Popped = Only(waitingBooks, Staying)
  BY DEF Popped, Only
<1> DEFINE s == waitingBooks
           t == Popped
<1>2. t \in Seq(accepted)
  BY <1>1, OnlyIs
<1>3. PICK g : Selects(s, Staying, Len(s), t, g)
  BY <1>1, OnlyIs
<1>4. ASSUME NEW b \in Staying PROVE b \in Samples(t)
  <2>1. PICK i \in DOMAIN s : b = s[i]
    BY DEF Staying, Samples
  <2>2. i \in 1 .. Len(s)
    BY <2>1, LenProperties
  <2>3. PICK k \in 1 .. Len(t) : g[k] = i
    BY <1>3, <1>4, <2>1, <2>2 DEF Selects
  <2>4. t[k] = b /\ k \in DOMAIN t
    BY <1>2, <1>3, <2>1, <2>3, LenProperties DEF Selects
  <2>5. QED BY <2>4 DEF Samples
<1>5. QED BY <1>2, <1>4

\* What a commit does to the files: the new buckets come, the old ones stay.
LEMMA FileGrows ==
  ASSUME NEW part
  PROVE  /\ DOMAIN FirstOfBucket(part) = DOMAIN bookFile \cup {SlotOf(b) : b \in part}
         /\ \A slot \in DOMAIN bookFile : FirstOfBucket(part)[slot] = bookFile[slot]
BY DEF FirstOfBucket

\* A sample is taken: the longest waiting one may have to go.
LEMMA TakeKeepsBooks ==
  ASSUME BookInv, NEW p \in BookPaths, TakeBook(p)
  PROVE  BookInv' /\ FirstStands
<1>1. PICK at \in bookTime - Behind .. bookTime + Ahead :
        LET sample == [path |-> p, at |-> at]
            next == Append(waitingBooks, sample)
        IN /\ accepted' = accepted \cup {sample}
           /\ IF Overfull(next)
              THEN waitingBooks' = Tail(next) /\ droppedBooks' = droppedBooks + 1
              ELSE waitingBooks' = next /\ UNCHANGED droppedBooks
           /\ UNCHANGED <<bookTime, copy, written, bookFile, bookLosses>>
  BY DEF TakeBook
<1> DEFINE sample == [path |-> p, at |-> at]
           next == Append(waitingBooks, sample)
<1>2. /\ accepted' = accepted \cup {sample} /\ written' = written /\ bookFile' = bookFile
      /\ \/ waitingBooks' = Tail(next) /\ droppedBooks' = droppedBooks + 1
         \/ waitingBooks' = next /\ droppedBooks' = droppedBooks
  BY <1>1
<1> HIDE DEF sample
<1>3. IsFiniteSet(accepted') /\ accepted \subseteq accepted' /\ waitingBooks \in Seq(accepted')
  <2>1. IsFiniteSet(accepted')
    BY <1>2, FS_AddElement DEF BookInv
  <2>2. accepted \subseteq accepted'
    BY <1>2
  <2>3. QED BY <2>1, <2>2 DEF BookInv
<1>4. /\ next \in Seq(accepted') /\ next # <<>> /\ Len(next) = Len(waitingBooks) + 1 /\ next[Len(next)] = sample
      /\ \A i \in 1 .. Len(waitingBooks) : next[i] = waitingBooks[i]
      /\ Len(waitingBooks) \in Nat
  BY <1>2, <1>3, AppendProperties, LenProperties
<1> HIDE DEF next
<1>5. \A b \in Samples(waitingBooks) \cup {sample} : \E i \in 1 .. Len(next) : b = next[i]
  <2>1. \A b \in Samples(waitingBooks) : \E i \in 1 .. Len(waitingBooks) : b = waitingBooks[i]
    BY <1>3, LenProperties DEF Samples
  <2>2. Len(next) \in 1 .. Len(next) /\ \A i \in 1 .. Len(waitingBooks) : i \in 1 .. Len(next)
    BY <1>4
  <2>3. QED BY <1>4, <2>1, <2>2
<1>6. /\ Tail(next) \in Seq(accepted') /\ Len(Tail(next)) = Len(next) - 1
      /\ \A i \in 1 .. Len(Tail(next)) : Tail(next)[i] = next[i + 1]
  BY <1>4, HeadTailProperties
<1>7. /\ waitingBooks' \in Seq(accepted') /\ droppedBooks' \in Nat
  BY <1>2, <1>4, <1>6 DEF BookInv
<1>8. IsFiniteSet(Unaccounted)
  BY FS_Subset DEF BookInv, Unaccounted
<1>9. \A b \in Unaccounted' \ Unaccounted : b \in Samples(waitingBooks) \cup {sample}
  BY <1>2 DEF Unaccounted
<1>10. Cardinality(Unaccounted') <= droppedBooks'
  <2>1. CASE waitingBooks' = next /\ droppedBooks' = droppedBooks
    <3>1. \A b \in Samples(waitingBooks) \cup {sample} : b \in Samples(next)
      BY <1>4, <1>5, LenProperties DEF Samples
    <3>2. Unaccounted' \subseteq Unaccounted
      BY <1>9, <2>1, <3>1 DEF Unaccounted
    <3>3. QED BY <1>8, <2>1, <3>2, FewerMissing DEF BookInv
  <2>2. CASE waitingBooks' = Tail(next) /\ droppedBooks' = droppedBooks + 1
    <3>1. ASSUME NEW b \in Samples(waitingBooks) \cup {sample}, b # next[1] PROVE b \in Samples(Tail(next))
      <4>1. PICK i \in 1 .. Len(next) : b = next[i]
        BY <1>5
      <4>2. i - 1 \in 1 .. Len(Tail(next)) /\ i - 1 + 1 = i
        BY <1>4, <1>6, <3>1, <4>1
      <4>3. Tail(next)[i - 1] = b /\ i - 1 \in DOMAIN Tail(next)
        BY <1>6, <4>1, <4>2, LenProperties
      <4>4. QED BY <4>3 DEF Samples
    <3>2. Unaccounted' \subseteq Unaccounted \cup {next[1]}
      BY <1>9, <2>2, <3>1 DEF Unaccounted
    <3>3. QED BY <1>8, <2>2, <3>2, FewerMissing DEF BookInv
  <2>3. QED BY <1>2, <2>1, <2>2
<1>11. BookInv'
  BY <1>2, <1>3, <1>7, <1>10 DEF BookInv
<1>12. FirstStands
  BY <1>2 DEF FirstStands
<1>13. QED BY <1>11, <1>12

\* A part is committed.
LEMMA CommitKeepsBooks ==
  ASSUME BookInv, CommitBooks
  PROVE  BookInv' /\ FirstStands
<1>1. PICK part : bookFile' = FirstOfBucket(part) /\ written' = part
  BY DEF CommitBooks
<1>2. accepted' = accepted /\ waitingBooks' = waitingBooks /\ droppedBooks' = droppedBooks
  BY DEF CommitBooks
<1>3. DOMAIN bookFile' = DOMAIN bookFile \cup {SlotOf(b) : b \in part}
      /\ \A slot \in DOMAIN bookFile : bookFile'[slot] = bookFile[slot]
  BY <1>1, FileGrows
<1>4. IsFiniteSet(Unaccounted) /\ Unaccounted' \subseteq Unaccounted
  <2>1. IsFiniteSet(Unaccounted)
    BY FS_Subset DEF BookInv, Unaccounted
  <2>2. QED BY <1>2, <1>3, <2>1 DEF Unaccounted
<1>5. Cardinality(Unaccounted') <= droppedBooks
  BY <1>4, FewerMissing DEF BookInv
<1>6. \A b \in written' : SlotOf(b) \in DOMAIN bookFile'
  BY <1>1, <1>3
<1>7. FirstStands
  BY <1>3 DEF FirstStands
<1>8. QED BY <1>2, <1>5, <1>6, <1>7 DEF BookInv

\* The part leaves what waits.
LEMMA PopKeepsBooks ==
  ASSUME BookInv, PopBooks
  PROVE  BookInv' /\ FirstStands
<1>1. /\ waitingBooks' = Popped /\ written' = {} /\ accepted' = accepted /\ bookFile' = bookFile
      /\ droppedBooks' = droppedBooks
  BY DEF PopBooks
<1>2. Popped \in Seq(accepted) /\ Staying \subseteq Samples(Popped)
  BY PoppedKeeps DEF BookInv
<1>3. Unaccounted' \subseteq Unaccounted
  <2> SUFFICES ASSUME NEW b \in accepted, SlotOf(b) \notin DOMAIN bookFile, b \notin Samples(Popped), b \in Samples(waitingBooks)
               PROVE  FALSE
    BY <1>1 DEF Unaccounted
  <2>1. SlotOf(b) \in {SlotOf(c) : c \in written}
    BY <1>2 DEF Staying
  <2>2. QED BY <2>1 DEF BookInv
<1>4. IsFiniteSet(Unaccounted)
  BY FS_Subset DEF BookInv, Unaccounted
<1>5. Cardinality(Unaccounted') <= droppedBooks
  BY <1>3, <1>4, FewerMissing DEF BookInv
<1>6. BookInv'
  BY <1>1, <1>2, <1>5 DEF BookInv
<1>7. QED BY <1>1, <1>6 DEF FirstStands

\* The process dies with what it took.
LEMMA DeathKeepsBooks ==
  ASSUME BookInv, BooksDie
  PROVE  BookInv' /\ FirstStands
<1>1. waitingBooks' = <<>> /\ written' = {} /\ accepted' = {} /\ bookFile' = bookFile /\ droppedBooks' = 0
  BY DEF BooksDie
<1>2. Unaccounted' = {}
  BY <1>1 DEF Unaccounted
<1>3. waitingBooks' \in Seq(accepted')
  BY <1>1, EmptySeq
<1>4. Cardinality(Unaccounted') <= droppedBooks' /\ IsFiniteSet(accepted')
  BY <1>1, <1>2, FS_EmptySet
<1>5. QED BY <1>1, <1>3, <1>4 DEF BookInv, FirstStands

\* Every step of the two threads keeps the invariant and the first samples.
LEMMA BookStep ==
  ASSUME BookInv, [BooksNext]_bookVars
  PROVE  BookInv' /\ FirstStands
<1>1. CASE CopyBooks \/ FailBooks \/ BookTicks \/ UNCHANGED bookVars
  <2>1. /\ accepted' = accepted /\ waitingBooks' = waitingBooks /\ droppedBooks' = droppedBooks
        /\ written' = written /\ bookFile' = bookFile
    BY <1>1 DEF CopyBooks, FailBooks, BookTicks, bookVars
  <2>2. QED BY <2>1 DEF BookInv, FirstStands, Unaccounted
<1>2. ASSUME NEW p \in BookPaths, TakeBook(p) PROVE BookInv' /\ FirstStands
  BY <1>2, TakeKeepsBooks
<1>3. QED BY <1>1, <1>2, CommitKeepsBooks, PopKeepsBooks, DeathKeepsBooks DEF BooksNext

\* What a process took of the books is in the files, waits, or was counted as dropped, and
\* the first sample written for a bucket is never replaced (BookBuffer.offer and persist).
THEOREM BooksKept == (BooksInit /\ [][BooksNext]_bookVars) => BooksAreKept
<1>1. BooksInit => BookInv
  <2> SUFFICES ASSUME BooksInit PROVE BookInv
    OBVIOUS
  <2>1. waitingBooks = <<>> /\ droppedBooks = 0 /\ written = {} /\ accepted = {}
    BY DEF BooksInit
  <2>2. Unaccounted = {} /\ waitingBooks \in Seq(accepted)
    BY <2>1, EmptySeq DEF Unaccounted
  <2>3. QED BY <2>1, <2>2, FS_EmptySet DEF BookInv
<1>2. BookInv /\ [BooksNext]_bookVars => BookInv'
  BY BookStep
<1>3. BookInv /\ [BooksNext]_bookVars => [FirstStands /\ Cardinality(Unaccounted') <= droppedBooks']_bookVars
  BY BookStep DEF BookInv
<1>4. QED BY <1>1, <1>2, <1>3, PTL DEF BooksAreKept

-----------------------------------------------------------------------------
(* The cohorts of scores. *)

Verdict == [status : {"observed", "insufficient"}, moved : BOOLEAN, final : BOOLEAN]
Verdicts == UNION {[D -> Verdict] : D \in SUBSET Spans}

\* The moments of a path's cohort that were looked at, and the seconds between two of them
\* that lie next to each other.
LookedTill(looks, from, till) == {from} \cup {t \in looks : from <= t /\ t <= till}
SeenIn(L, t) == \E a, b \in L : a <= t /\ t < b /\ b - a <= Adjacent
SeenBefore(end, looks, from, till) == {t \in from .. (end - 1) : SeenIn(LookedTill(looks, from, till), t)}
SeenTill(looks, from, till) == SeenBefore(till, looks, from, till)

\* What a verdict needs to count as observed.
WatchedEnough(looks, from, h) ==
  LET L == LookedTill(looks, from, from + h + Grace)
  IN /\ \E t \in L : t >= from + h
     /\ Cardinality(SeenBefore(from + h, looks, from, from + h + Grace)) >= Share[h]
     /\ \A t \in from .. ((from + h) - MaxHole - 1) : \E u \in L : t < u /\ u <= t + MaxHole + 1

\* Progress that rests on what was looked at: a verdict is of a span that is over, or of a
\* path that moved, and what is counted for the other spans was seen.
ProgressType(x) == /\ x.last \in Nat /\ x.covered \in [Spans -> Nat] /\ x.hole \in [Spans -> Nat]
                   /\ x.results \in Verdicts
VerdictsSound(looks, from, x, at) ==
  \A h \in DOMAIN x.results :
    /\ x.results[h].moved \/ from + h <= at
    /\ x.results[h].status = "observed" => WatchedEnough(looks, from, h)
SecondsCounted(looks, from, x) ==
  \A h \in Spans \ DOMAIN x.results :
    /\ x.last < from + h
    /\ x.covered[h] <= Cardinality(SeenTill(looks, from, x.last))
    /\ x.hole[h] <= MaxHole =>
         \A t \in from .. (x.last - 1) :
           \E u \in LookedTill(looks, from, x.last) : t < u /\ u <= t + MaxHole
ProgressSound(looks, from, x, at) ==
  /\ ProgressType(x) /\ from <= x.last /\ x.last <= at /\ x.last \in LookedTill(looks, from, x.last)
  /\ VerdictsSound(looks, from, x, at) /\ SecondsCounted(looks, from, x)

\* Verdicts that only became final, or were added.
Extends(a, b) ==
  \A h \in DOMAIN a : h \in DOMAIN b /\ b[h] \in {[a[h] EXCEPT !.final = f] : f \in {a[h].final, TRUE}}

RecordShape(r) ==
  /\ r = [entered |-> r.entered, last |-> r.last, covered |-> r.covered, hole |-> r.hole,
          results |-> r.results, revision |-> r.revision, saved |-> r.saved, urgent |-> r.urgent,
          new |-> r.new]
  /\ r.entered \in Nat /\ r.revision \in Nat
SoundRecord(looks, at, r) ==
  /\ RecordShape(r) /\ r.saved \in Nat /\ r.saved <= r.revision /\ r.new \in BOOLEAN
  /\ ProgressSound(looks, r.entered, r, at)

\* A row of the table is a row of its own progress, and the outcomes are those of their rows.
SoundRow(looks, at, id, row) ==
  /\ id \in Routes \X Nat /\ id[2] <= at /\ row = Row(row) /\ ProgressSound(looks, id[2], row, at)
OutcomesOf(row, out) ==
  /\ row.results = [h \in DOMAIN out |-> out[h].payload]
  /\ \A h \in DOMAIN out : out[h].status = out[h].payload.status
\* A cohort that precedes another of its path is finished, all its spans over before.
Over(row, from, e) == row.finished /\ \A h \in Spans : row.results[h].moved \/ e >= from + h
\* What a row holds of its record, and a record of the copy being written of it.
Holds(row, r) == Extends(row.results, r.results) /\ (~ r.new /\ r.saved = r.revision => row = Row(r))
LeftBehind(c, r) ==
  /\ c.entered = r.entered /\ r.saved < c.revision /\ c.revision <= r.revision
  /\ c.revision = r.revision => Progress(c) = Progress(r)
  /\ Extends(c.results, r.results)

CohortTables ==
  /\ DOMAIN outcomes = DOMAIN cohorts
  /\ \A id \in DOMAIN cohorts : /\ SoundRow(watched[id[1]], moment, id, cohorts[id])
                                /\ OutcomesOf(cohorts[id], outcomes[id])

\* Unfinished cohorts are the active ones, of which there is room for all.
RoomFor(S) == IsFiniteSet(S) /\ Cardinality(S) <= ActiveLimit
UnfinishedHeld ==
  /\ RoomFor(Unfinished) /\ RoomFor(DOMAIN active)
  /\ open => \A id \in Unfinished : id[1] \in DOMAIN active /\ IdOf(id[1]) = id

CohortsInOrder ==
  /\ \A a, b \in DOMAIN cohorts : a[1] = b[1] /\ a[2] < b[2] => Over(cohorts[a], a[2], b[2])
  /\ \A p \in DOMAIN active : \A a \in DOMAIN cohorts :
       a[1] = p => a[2] <= active[p].entered /\ (a[2] < active[p].entered => Over(cohorts[a], a[2], active[p].entered))

\* Active records, the copies being written, and what is in the table of them.
ActiveSound(p) ==
  /\ p \in Routes /\ SoundRecord(watched[p], moment, active[p])
  /\ IdOf(p) \in DOMAIN cohorts => Holds(cohorts[IdOf(p)], active[p])
  /\ ~ active[p].new => IdOf(p) \in DOMAIN cohorts
CopySound(p) ==
  /\ p \in DOMAIN active /\ SoundRecord(watched[p], moment, saving[p]) /\ LeftBehind(saving[p], active[p])
  /\ IdOf(p) \in DOMAIN cohorts => Extends(cohorts[IdOf(p)].results, saving[p].results)
  /\ recorded => IdOf(p) \in DOMAIN cohorts /\ cohorts[IdOf(p)] = Row(saving[p])

CohortType ==
  /\ moment \in Nat /\ open \in BOOLEAN /\ recorded \in BOOLEAN /\ watched \in [Routes -> SUBSET Nat]
  /\ \A p \in Routes : \A t \in watched[p] : t <= moment
  /\ ~ open => active = <<>> /\ saving = Nothing
  /\ recorded => saving # Nothing
CohortInv ==
  /\ CohortType /\ CohortTables /\ UnfinishedHeld /\ CohortsInOrder
  /\ \A p \in DOMAIN active : ActiveSound(p)
  /\ \A p \in DOMAIN saving : CopySound(p)

-----------------------------------------------------------------------------
(* Numbers, looks and seconds. *)

\* The numbers.
LEMMA SpanNumbers ==
  /\ Grace \in Nat /\ Adjacent \in Nat /\ MaxHole \in Nat /\ Adjacent <= MaxHole /\ ActiveLimit \in Nat
  /\ \A h \in Spans : h \in Nat \ {0} /\ Share[h] \in Nat
BY CohortAssumption DEF CohortAssumption

\* The least of two numbers.
LEMMA MinOfTwo ==
  ASSUME NEW a \in Int, NEW b \in Int
  PROVE  Min({a, b}) = IF a <= b THEN a ELSE b
BY DEF Min

\* The greatest of some of three numbers.
LEMMA MaxOfSome ==
  ASSUME NEW S, NEW x \in S, S \subseteq Int, \A y \in S : y <= x
  PROVE  Max(S) = x
<1>1. \A z \in S : (\A y \in S : z >= y) => z = x
  OBVIOUS
<1>2. \A y \in S : x >= y
  OBVIOUS
<1>3. QED BY <1>1, <1>2, Zenon DEF Max

\* Verdicts: the ones before extend to themselves, and further.
LEMMA ExtendsOrders ==
  ASSUME NEW a \in Verdicts, NEW b \in Verdicts
  PROVE  /\ Extends(a, a)
         /\ \A c \in Verdicts : Extends(a, b) /\ Extends(b, c) => Extends(a, c)
<1>1. \A h \in DOMAIN a : a[h] = [a[h] EXCEPT !.final = a[h].final]
  BY DEF Verdicts, Verdict
<1>2. Extends(a, a)
  BY <1>1 DEF Extends
<1>3. ASSUME NEW c \in Verdicts, Extends(a, b), Extends(b, c) PROVE Extends(a, c)
  <2>1. ASSUME NEW h \in DOMAIN a
        PROVE  h \in DOMAIN c /\ c[h] \in {[a[h] EXCEPT !.final = f] : f \in {a[h].final, TRUE}}
    <3>1. h \in DOMAIN b /\ h \in DOMAIN c
      BY <1>3, <2>1 DEF Extends
    <3>2. PICK f \in {a[h].final, TRUE} : b[h] = [a[h] EXCEPT !.final = f]
      BY <1>3, <2>1 DEF Extends
    <3>3. PICK g \in {b[h].final, TRUE} : c[h] = [b[h] EXCEPT !.final = g]
      BY <1>3, <3>1 DEF Extends
    <3>4. a[h] = [status |-> a[h].status, moved |-> a[h].moved, final |-> a[h].final]
      BY <2>1 DEF Verdicts, Verdict
    <3>5. b[h].final = f /\ b[h] = [status |-> a[h].status, moved |-> a[h].moved, final |-> f]
      BY <3>2, <3>4
    <3>6. c[h] = [a[h] EXCEPT !.final = g]
      BY <3>3, <3>4, <3>5
    <3>7. g \in {a[h].final, TRUE}
      BY <3>3, <3>5
    <3>8. QED BY <3>1, <3>6, <3>7
  <2>2. QED BY <2>1 DEF Extends
<1>4. QED BY <1>2, <1>3

\* More that was looked at, until later, shows as much and more.
LEMMA LooksGrow ==
  ASSUME NEW a \in SUBSET Nat, NEW b \in SUBSET Nat, a \subseteq b, NEW e \in Nat, NEW m \in Nat, NEW n \in Nat, m <= n
  PROVE  /\ LookedTill(a, e, m) \subseteq LookedTill(b, e, n)
         /\ LookedTill(a, e, m) \subseteq Nat
         /\ \A L, M : L \subseteq M => \A t : SeenIn(L, t) => SeenIn(M, t)
<1>1. \A t \in a : t \in Nat /\ t \in b /\ (t <= m => t <= n)
  OBVIOUS
<1>2. LookedTill(a, e, m) \subseteq LookedTill(b, e, n) /\ LookedTill(a, e, m) \subseteq Nat
  BY <1>1 DEF LookedTill
<1>3. ASSUME NEW L, NEW M, L \subseteq M, NEW t, SeenIn(L, t) PROVE SeenIn(M, t)
  BY <1>3 DEF SeenIn
<1>4. QED BY <1>2, <1>3

\* Seconds that were seen are finitely many, and more of them count more.
LEMMA SecondsCount ==
  ASSUME NEW e \in Nat, NEW m \in Nat, NEW S, S \subseteq e .. m, NEW T, T \subseteq S
  PROVE  /\ IsFiniteSet(S) /\ IsFiniteSet(T) /\ Cardinality(S) \in Nat /\ Cardinality(T) \in Nat
         /\ Cardinality(T) <= Cardinality(S)
<1>1. IsFiniteSet(e .. m)
  BY FS_Interval
<1>2. IsFiniteSet(S)
  BY <1>1, FS_Subset
<1>3. QED BY <1>2, FS_Subset, FS_CardinalityType

\* A verdict stands on what is looked at later, too.
LEMMA WatchedStays ==
  ASSUME NEW a \in SUBSET Nat, NEW b \in SUBSET Nat, a \subseteq b, NEW e \in Nat, NEW h \in Spans,
         WatchedEnough(a, e, h)
  PROVE  WatchedEnough(b, e, h)
<1> DEFINE L == LookedTill(a, e, e + h + Grace)
           M == LookedTill(b, e, e + h + Grace)
           S == SeenBefore(e + h, a, e, e + h + Grace)
           T == SeenBefore(e + h, b, e, e + h + Grace)
<1>1. h \in Nat \ {0} /\ Grace \in Nat /\ MaxHole \in Nat /\ Share[h] \in Nat
  BY SpanNumbers
<1>2. L \subseteq M /\ \A t : SeenIn(L, t) => SeenIn(M, t)
  <2>1. e + h + Grace \in Nat
    BY <1>1
  <2>2. QED BY <2>1, LooksGrow
<1>3. S \subseteq T /\ T \subseteq e .. ((e + h) - 1)
  <2>1. S = {t \in e .. ((e + h) - 1) : SeenIn(L, t)} /\ T = {t \in e .. ((e + h) - 1) : SeenIn(M, t)}
    BY DEF SeenBefore
  <2> HIDE DEF L, M, S, T
  <2>2. QED BY <1>2, <2>1
<1>4. Cardinality(S) \in Nat /\ Cardinality(T) \in Nat /\ Cardinality(S) <= Cardinality(T)
  <2>1. (e + h) - 1 \in Nat
    BY <1>1
  <2> HIDE DEF S, T
  <2>2. QED BY <1>3, <2>1, SecondsCount
<1>5. /\ \E t \in L : t >= e + h
      /\ Cardinality(S) >= Share[h]
      /\ \A t \in e .. ((e + h) - MaxHole - 1) : \E u \in L : t < u /\ u <= t + MaxHole + 1
  BY DEF WatchedEnough
<1>6. Cardinality(T) >= Share[h]
  <2> HIDE DEF S, T
  <2>1. QED BY <1>1, <1>4, <1>5
<1>7. /\ \E t \in M : t >= e + h
      /\ \A t \in e .. ((e + h) - MaxHole - 1) : \E u \in M : t < u /\ u <= t + MaxHole + 1
  <2> HIDE DEF L, M
  <2>1. QED BY <1>2, <1>5
<1>8. QED BY <1>6, <1>7 DEF WatchedEnough

\* Sound progress stays sound as time passes and more is looked at.
LEMMA ProgressStays ==
  ASSUME NEW a \in SUBSET Nat, NEW b \in SUBSET Nat, a \subseteq b, NEW e \in Nat, NEW x,
         NEW m \in Nat, NEW n \in Nat, m <= n, ProgressSound(a, e, x, m)
  PROVE  ProgressSound(b, e, x, n)
<1>1. ProgressType(x) /\ e <= x.last /\ x.last <= m /\ x.last \in LookedTill(a, e, x.last)
      /\ VerdictsSound(a, e, x, m) /\ SecondsCounted(a, e, x)
  BY DEF ProgressSound
<1>2. x.last \in Nat /\ DOMAIN x.results \subseteq Spans
  BY <1>1 DEF ProgressType, Verdicts
<1>3. x.last <= n /\ x.last \in LookedTill(b, e, x.last)
  BY <1>1, <1>2, LooksGrow
<1>4. VerdictsSound(b, e, x, n)
  <2> SUFFICES ASSUME NEW h \in DOMAIN x.results
               PROVE  /\ x.results[h].moved \/ e + h <= n
                      /\ x.results[h].status = "observed" => WatchedEnough(b, e, h)
    BY DEF VerdictsSound
  <2>1. h \in Spans /\ h \in Nat
    BY <1>2, SpanNumbers
  <2>2. x.results[h].moved \/ e + h <= n
    BY <1>1, <2>1 DEF VerdictsSound
  <2>3. QED BY <1>1, <2>1, <2>2, WatchedStays DEF VerdictsSound
<1>5. SecondsCounted(b, e, x)
  <2> SUFFICES ASSUME NEW h \in Spans \ DOMAIN x.results
               PROVE  /\ x.last < e + h
                      /\ x.covered[h] <= Cardinality(SeenTill(b, e, x.last))
                      /\ x.hole[h] <= MaxHole =>
                           \A t \in e .. (x.last - 1) :
                             \E u \in LookedTill(b, e, x.last) : t < u /\ u <= t + MaxHole
    BY DEF SecondsCounted
  <2>1. /\ x.last < e + h
        /\ x.covered[h] <= Cardinality(SeenTill(a, e, x.last))
        /\ x.hole[h] <= MaxHole =>
             \A t \in e .. (x.last - 1) :
               \E u \in LookedTill(a, e, x.last) : t < u /\ u <= t + MaxHole
    BY <1>1 DEF SecondsCounted
  <2>2. LookedTill(a, e, x.last) \subseteq LookedTill(b, e, x.last)
    BY <1>2, LooksGrow
  <2>3. \A t : SeenIn(LookedTill(a, e, x.last), t) => SeenIn(LookedTill(b, e, x.last), t)
    BY <2>2 DEF SeenIn
  <2>4. SeenTill(a, e, x.last) \subseteq SeenTill(b, e, x.last) /\ SeenTill(b, e, x.last) \subseteq e .. x.last
    BY <1>2, <2>3 DEF SeenTill, SeenBefore
  <2>5. /\ Cardinality(SeenTill(a, e, x.last)) <= Cardinality(SeenTill(b, e, x.last))
        /\ Cardinality(SeenTill(a, e, x.last)) \in Nat /\ Cardinality(SeenTill(b, e, x.last)) \in Nat
    BY <1>2, <2>4, SecondsCount
  <2>6. x.covered[h] \in Nat
    BY <1>1 DEF ProgressType
  <2>7. x.covered[h] <= Cardinality(SeenTill(b, e, x.last))
    BY <2>1, <2>5, <2>6
  <2>8. QED BY <2>1, <2>2, <2>7
<1>6. QED BY <1>1, <1>3, <1>4, <1>5 DEF ProgressSound

\* The same progress is as sound.
LEMMA ProgressCopied ==
  ASSUME NEW a, NEW e, NEW m, NEW x, NEW y, x.last = y.last, x.covered = y.covered, x.hole = y.hole,
         x.results = y.results, ProgressSound(a, e, x, m)
  PROVE  ProgressSound(a, e, y, m)
BY DEF ProgressSound, ProgressType, VerdictsSound, SecondsCounted

-----------------------------------------------------------------------------
(* What an observation does to a record. *)

\* What an observation of record r finds: a quote, a new one, and the spans that close.
Fresh(r, value) == value /\ moment > r.last
EndsNow(r, h, value) == value /\ r.entered + h <= moment /\ moment <= r.entered + h + Grace
Closing(r, value, moved) ==
  {h \in UnjudgedSpans(r) : EndsNow(r, h, value) \/ moment > r.entered + h + Grace \/ moved}
\* The seconds it adds to span h, all seen or all missed.
Elapsed(r, h) == Max({0, Clip(moment, r.entered + h) - Clip(r.last, r.entered + h)})
Near(r, value) == Fresh(r, value) /\ moment - r.last <= Adjacent
CoveredThen(r, h, value) ==
  r.covered[h] + (IF Near(r, value) /\ h \in UnjudgedSpans(r) THEN Elapsed(r, h) ELSE 0)
HoleThen(r, h, value, moved) ==
  Max({r.hole[h]} \cup (IF Fresh(r, value) /\ ~ Near(r, value) /\ h \in UnjudgedSpans(r) THEN {Elapsed(r, h)} ELSE {})
      \cup (IF h \in Closing(r, value, moved) /\ ~ EndsNow(r, h, value) THEN {Clip(moment, r.entered + h) - r.last} ELSE {}))
IsValid(r, h, value, moved) ==
  EndsNow(r, h, value) /\ CoveredThen(r, h, value) >= Share[h] /\ HoleThen(r, h, value, moved) <= MaxHole

CoveredAfter(r, value) == [h \in Spans |-> CoveredThen(r, h, value)]
HoleAfter(r, value, moved) == [h \in Spans |-> HoleThen(r, h, value, moved)]
NewVerdicts(r, value, moved) ==
  [h \in Closing(r, value, moved) |->
     [status |-> IF IsValid(r, h, value, moved) THEN "observed" ELSE "insufficient", moved |-> moved, final |-> moved]]
Judged(r, value, moved) == r.revision + Cardinality(Closing(r, value, moved))

\* The record after it, field by field.
LEMMA ObservedIs ==
  ASSUME NEW r, NEW seen \in BOOLEAN, NEW moved \in BOOLEAN,
         r = [entered |-> r.entered, last |-> r.last, covered |-> r.covered, hole |-> r.hole,
              results |-> r.results, revision |-> r.revision, saved |-> r.saved, urgent |-> r.urgent,
              new |-> r.new]
  PROVE  LET value == seen /\ ~ moved
         IN Observed(r, seen, moved) =
              [entered |-> r.entered, last |-> IF Fresh(r, value) THEN moment ELSE r.last,
               covered |-> CoveredAfter(r, value), hole |-> HoleAfter(r, value, moved),
               results |-> Atop(NewVerdicts(r, value, moved), r.results),
               revision |-> IF Fresh(r, value) THEN Judged(r, value, moved) + 1 ELSE Judged(r, value, moved),
               saved |-> r.saved,
               urgent |-> IF Closing(r, value, moved) = {} THEN r.urgent ELSE Judged(r, value, moved), new |-> r.new]
<1> DEFINE value == seen /\ ~ moved
           C == Closing(r, value, moved)
           judged == r.revision + Cardinality(C)
           covered == [h \in Spans |-> CoveredThen(r, h, value)]
           hole == [h \in Spans |-> HoleThen(r, h, value, moved)]
           results == Atop([h \in C |-> [status |-> IF IsValid(r, h, value, moved) THEN "observed" ELSE "insufficient",
                                              moved |-> moved, final |-> moved]], r.results)
<1>1. Observed(r, seen, moved) =
        [r EXCEPT !.covered = covered, !.hole = hole, !.results = results,
                  !.urgent = IF C = {} THEN @ ELSE judged, !.last = IF Fresh(r, value) THEN moment ELSE @,
                  !.revision = IF Fresh(r, value) THEN judged + 1 ELSE judged]
  <2>1. \A h \in Spans : covered[h] = CoveredThen(r, h, value) /\ hole[h] = HoleThen(r, h, value, moved)
    OBVIOUS
  <2>2. C \subseteq Spans
    BY DEF Closing, UnjudgedSpans
  <2>3. QED BY <2>1, <2>2 DEF Observed, Closing, CoveredThen, HoleThen, Near, Elapsed, Fresh, EndsNow, IsValid
<1>2. /\ covered = CoveredAfter(r, value) /\ hole = HoleAfter(r, value, moved)
      /\ results = Atop(NewVerdicts(r, value, moved), r.results) /\ C = Closing(r, value, moved)
      /\ judged = Judged(r, value, moved)
  BY DEF CoveredAfter, HoleAfter, NewVerdicts, Judged
<1> HIDE DEF covered, hole, results, C, judged, value
<1>3. Observed(r, seen, moved) =
              [entered |-> r.entered, last |-> IF Fresh(r, value) THEN moment ELSE r.last,
               covered |-> covered, hole |-> hole, results |-> results,
               revision |-> IF Fresh(r, value) THEN judged + 1 ELSE judged, saved |-> r.saved,
               urgent |-> IF C = {} THEN r.urgent ELSE judged, new |-> r.new]
  BY <1>1
<1>4. QED BY <1>2, <1>3 DEF value

\* The seconds counted for a span that is not judged, after an observation.
LEMMA SecondsAre ==
  ASSUME NEW r, NEW value \in BOOLEAN, NEW moved \in BOOLEAN, NEW L \in SUBSET Nat, moment \in Nat, r.entered \in Nat,
         ProgressSound(L, r.entered, r, moment), NEW h \in UnjudgedSpans(r)
  PROVE  LET due == r.entered + h
             till == IF moment <= due THEN moment ELSE due
             gap == till - r.last
         IN /\ due \in Nat /\ h \in Nat /\ r.last \in Nat /\ r.last <= moment /\ r.last < due /\ r.entered <= r.last
            /\ r.covered[h] \in Nat /\ r.hole[h] \in Nat
            /\ Elapsed(r, h) = gap /\ gap \in Nat
            /\ CoveredThen(r, h, value) = r.covered[h] + (IF Near(r, value) THEN gap ELSE 0)
            /\ CoveredThen(r, h, value) \in Nat
            /\ HoleThen(r, h, value, moved) \in Nat /\ HoleThen(r, h, value, moved) >= r.hole[h]
            /\ (Fresh(r, value) /\ ~ Near(r, value)) => HoleThen(r, h, value, moved) >= gap
            /\ (~ Fresh(r, value) /\ h \notin Closing(r, value, moved)) => HoleThen(r, h, value, moved) = r.hole[h]
<1> DEFINE due == r.entered + h
           till == IF moment <= due THEN moment ELSE due
           gap == till - r.last
           A == {r.hole[h]}
           B == IF Fresh(r, value) /\ ~ Near(r, value) /\ h \in UnjudgedSpans(r) THEN {Elapsed(r, h)} ELSE {}
           E == IF h \in Closing(r, value, moved) /\ ~ EndsNow(r, h, value) THEN {Clip(moment, r.entered + h) - r.last} ELSE {}
<1>1. h \in Spans \ DOMAIN r.results /\ h \in Spans /\ h \in Nat
  BY SpanNumbers DEF UnjudgedSpans
<1>2. /\ r.last \in Nat /\ r.covered \in [Spans -> Nat] /\ r.hole \in [Spans -> Nat]
      /\ r.entered <= r.last /\ r.last <= moment /\ r.last < due
  BY <1>1 DEF ProgressSound, ProgressType, SecondsCounted
<1>3. due \in Nat /\ till \in Nat /\ gap \in Nat /\ r.covered[h] \in Nat /\ r.hole[h] \in Nat
  BY <1>1, <1>2
<1>4. Clip(moment, due) = till /\ Clip(r.last, due) = r.last
  BY <1>2, <1>3, MinOfTwo DEF Clip
<1>5. Elapsed(r, h) = gap
  <2>1. Elapsed(r, h) = Max({0, gap})
    BY <1>4 DEF Elapsed
  <2> HIDE DEF gap
  <2>2. Max({0, gap}) = gap
    <3>1. gap \in {0, gap} /\ {0, gap} \subseteq Int /\ \A y \in {0, gap} : y <= gap
      BY <1>3
    <3> DEFINE S == {0, gap}
    <3> HIDE DEF S
    <3>2. Max(S) = gap
      BY <3>1, MaxOfSome DEF S
    <3>3. QED BY <3>2 DEF S
  <2>3. QED BY <2>1, <2>2
<1>6. CoveredThen(r, h, value) = r.covered[h] + (IF Near(r, value) THEN gap ELSE 0)
  BY <1>5 DEF CoveredThen
<1>7. CoveredThen(r, h, value) \in Nat
  <2> HIDE DEF gap
  <2>1. QED BY <1>3, <1>6
<1>8. HoleThen(r, h, value, moved) = Max(A \cup B \cup E)
  BY DEF HoleThen
<1>9. B \subseteq {gap} /\ E \subseteq {gap} /\ (Fresh(r, value) /\ ~ Near(r, value) => B = {gap})
      /\ (~ Fresh(r, value) /\ h \notin Closing(r, value, moved) => B = {} /\ E = {})
  BY <1>4, <1>5
<1> DEFINE top == IF A \cup B \cup E = A THEN r.hole[h] ELSE IF r.hole[h] <= gap THEN gap ELSE r.hole[h]
<1>10. top \in A \cup B \cup E /\ A \cup B \cup E \subseteq Int /\ \A y \in A \cup B \cup E : y <= top
  <2> HIDE DEF gap, B, E
  <2>1. A \cup B \cup E \subseteq {r.hole[h], gap}
    BY <1>9
  <2>2. CASE A \cup B \cup E = A
    BY <2>2, <1>3
  <2>3. CASE A \cup B \cup E # A
    <3>1. gap \in A \cup B \cup E
      BY <2>3, <1>9
    <3>2. QED BY <2>1, <2>3, <3>1, <1>3
  <2>4. QED BY <2>2, <2>3
<1>11. HoleThen(r, h, value, moved) = top
  <2> HIDE DEF top, A, B, E
  <2>1. QED BY <1>8, <1>10, MaxOfSome
<1>12. /\ HoleThen(r, h, value, moved) \in Nat /\ HoleThen(r, h, value, moved) >= r.hole[h]
       /\ (Fresh(r, value) /\ ~ Near(r, value)) => HoleThen(r, h, value, moved) >= gap
       /\ (~ Fresh(r, value) /\ h \notin Closing(r, value, moved)) => HoleThen(r, h, value, moved) = r.hole[h]
  <2> HIDE DEF gap, B, E
  <2>1. top \in Nat /\ top >= r.hole[h]
    BY <1>3
  <2>2. (Fresh(r, value) /\ ~ Near(r, value)) => top >= gap
    <3>1. ASSUME B = {gap} PROVE top >= gap
      BY <3>1, <1>3
    <3>2. QED BY <3>1, <1>9
  <2>3. (~ Fresh(r, value) /\ h \notin Closing(r, value, moved)) => top = r.hole[h]
    BY <1>9
  <2>4. QED BY <2>1, <2>2, <2>3, <1>11
<1>13. QED BY <1>1, <1>2, <1>3, <1>5, <1>6, <1>7, <1>12

\* The looks after an observation.
LooksThen(L, value) == IF value THEN L \cup {moment} ELSE L

\* Seconds between two adjacent looks are seen, and were not before.
LEMMA SeenGrows ==
  ASSUME NEW L \in SUBSET Nat, NEW M \in SUBSET Nat, L \subseteq M, NEW e \in Nat, NEW a \in Nat, NEW b \in Nat, NEW n \in Nat,
         NEW m \in Nat, e <= a, a <= b, b <= m, m \in M, b <= n, m <= n, m - a <= Adjacent, a \in LookedTill(L, e, a)
  PROVE  /\ IsFiniteSet(SeenBefore(b, M, e, n))
         /\ Cardinality(SeenBefore(b, M, e, n)) \in Nat
         /\ Cardinality(SeenTill(L, e, a)) + (b - a)
              <= Cardinality(SeenBefore(b, M, e, n))
<1> DEFINE S == SeenTill(L, e, a)
           T == a .. (b - 1)
           U == SeenBefore(b, M, e, n)
<1>1. a <= n /\ LookedTill(L, e, a) \subseteq LookedTill(M, e, n)
  BY LooksGrow
<1>2. S \subseteq U
  <2>1. \A t : SeenIn(LookedTill(L, e, a), t) => SeenIn(LookedTill(M, e, n), t)
    BY <1>1 DEF SeenIn
  <2>2. \A t \in e .. (a - 1) : t \in e .. (b - 1)
    OBVIOUS
  <2>3. QED BY <2>1, <2>2 DEF SeenTill, SeenBefore
<1>3. T \subseteq U
  <2> SUFFICES ASSUME NEW t \in T PROVE t \in U
    OBVIOUS
  <2>1. a \in LookedTill(M, e, n)
    BY <1>1
  <2>2. m \in LookedTill(M, e, n)
    BY DEF LookedTill
  <2>3. t \in e .. (b - 1) /\ a <= t /\ t < m
    OBVIOUS
  <2>4. SeenIn(LookedTill(M, e, n), t)
    BY <2>1, <2>2, <2>3 DEF SeenIn
  <2>5. QED BY <2>3, <2>4 DEF SeenBefore
<1>4. S \cap T = {} /\ S \subseteq e .. b /\ U \subseteq e .. b
  BY DEF SeenTill, SeenBefore
<1>5. IsFiniteSet(U) /\ IsFiniteSet(S) /\ Cardinality(U) \in Nat /\ Cardinality(S) \in Nat
  <2> HIDE DEF S, U
  <2>1. QED BY <1>4, <1>2, SecondsCount
<1>6. IsFiniteSet(T) /\ Cardinality(T) = b - a
  <2>1. IsFiniteSet(T) /\ Cardinality(T) = IF a > b - 1 THEN 0 ELSE (b - 1) - a + 1
    <3>1. a \in Int /\ b - 1 \in Int
      OBVIOUS
    <3>2. \A x, y \in Int : IsFiniteSet(x .. y) /\ Cardinality(x .. y) = IF x > y THEN 0 ELSE y - x + 1
      BY FS_Interval
    <3>3. QED BY <3>1, <3>2
  <2>2. QED BY <2>1
<1>7. Cardinality(S \cup T) = Cardinality(S) + Cardinality(T) - Cardinality(S \cap T) /\ IsFiniteSet(S \cup T)
  <2> HIDE DEF S, T
  <2>1. QED BY <1>5, <1>6, FS_Union
<1>8. Cardinality(S \cap T) = 0
  BY <1>4, FS_EmptySet
<1>9. Cardinality(S \cup T) <= Cardinality(U)
  <2> HIDE DEF S, T, U
  <2>1. S \cup T \in SUBSET U
    BY <1>2, <1>3
  <2>2. QED BY <2>1, <1>5, FS_Subset
<1>10. Cardinality(S) + (b - a) <= Cardinality(U)
  <2> HIDE DEF S, T, U
  <2>1. QED BY <1>5, <1>6, <1>7, <1>8, <1>9
<1>11. QED BY <1>5, <1>10

\* An update has the new entries, and the old ones of other names.
LEMMA AtopIs ==
  ASSUME NEW f, NEW g
  PROVE  /\ DOMAIN Atop(f, g) = DOMAIN f \cup DOMAIN g
         /\ \A x \in DOMAIN f : Atop(f, g)[x] = f[x]
         /\ \A x \in DOMAIN g \ DOMAIN f : Atop(f, g)[x] = g[x]
BY DEF Atop

\* An update is a function.
LEMMA AtopIsFunction ==
  ASSUME NEW f, NEW g
  PROVE  Atop(f, g) = [x \in DOMAIN Atop(f, g) |-> Atop(f, g)[x]]
BY DEF Atop

\* What was counted for a span that is judged stays.
LEMMA JudgedSpanStays ==
  ASSUME NEW r, NEW value \in BOOLEAN, NEW moved \in BOOLEAN, NEW h \in Spans \ UnjudgedSpans(r),
         r.hole[h] \in Nat, r.covered[h] \in Nat
  PROVE  CoveredThen(r, h, value) = r.covered[h] /\ HoleThen(r, h, value, moved) = r.hole[h]
<1>1. h \notin Closing(r, value, moved)
  BY DEF Closing
<1>2. CoveredThen(r, h, value) = r.covered[h]
  BY DEF CoveredThen
<1>3. HoleThen(r, h, value, moved) = Max({r.hole[h]})
  <2>1. {r.hole[h]} \cup {} \cup {} = {r.hole[h]}
    OBVIOUS
  <2>2. QED BY <1>1, <2>1 DEF HoleThen
<1>4. Max({r.hole[h]}) = r.hole[h]
  <2> DEFINE x == r.hole[h]
             S == {x}
  <2>1. x \in S /\ S \subseteq Int /\ \A y \in S : y <= x
    OBVIOUS
  <2> HIDE DEF S, x
  <2>2. Max(S) = x
    BY <2>1, MaxOfSome
  <2>3. QED BY <2>2 DEF S, x
<1>5. QED BY <1>2, <1>3, <1>4

\* A quote at the end of a span, enough seen before it and no hole too long: a verdict of
\* "observed" is earned.
LEMMA VerdictEarned ==
  ASSUME NEW r, NEW value \in BOOLEAN, NEW moved \in BOOLEAN, NEW L \in SUBSET Nat, moment \in Nat, r.entered \in Nat,
         ProgressSound(L, r.entered, r, moment), NEW h \in Closing(r, value, moved), IsValid(r, h, value, moved)
  PROVE  WatchedEnough(LooksThen(L, value), r.entered, h)
<1> DEFINE e == r.entered
           due == e + h
           n == due + Grace
           M == LooksThen(L, value)
           W == LookedTill(M, e, n)
           gap == due - r.last
           U == SeenBefore(due, M, e, n)
<1>1. h \in UnjudgedSpans(r) /\ h \in Spans \ DOMAIN r.results
  BY DEF Closing, UnjudgedSpans
<1>2. value /\ due <= moment /\ moment <= n /\ CoveredThen(r, h, value) >= Share[h] /\ HoleThen(r, h, value, moved) <= MaxHole
  BY DEF IsValid, EndsNow
<1>3. due \in Nat /\ h \in Nat /\ r.last \in Nat /\ r.last < due /\ e <= r.last /\ r.last <= moment
  BY <1>1, SecondsAre
<1>4. Grace \in Nat /\ MaxHole \in Nat /\ Adjacent \in Nat /\ Adjacent <= MaxHole /\ Share[h] \in Nat /\ n \in Nat
  BY <1>1, <1>3, SpanNumbers
<1>5. /\ r.covered[h] \in Nat /\ r.hole[h] \in Nat /\ gap \in Nat
      /\ CoveredThen(r, h, value) = r.covered[h] + (IF Near(r, value) THEN gap ELSE 0)
      /\ HoleThen(r, h, value, moved) \in Nat /\ HoleThen(r, h, value, moved) >= r.hole[h]
      /\ (Fresh(r, value) /\ ~ Near(r, value)) => HoleThen(r, h, value, moved) >= gap
  <2>1. (IF moment <= due THEN moment ELSE due) = due
    BY <1>2, <1>3
  <2> DEFINE till == IF moment <= due THEN moment ELSE due
  <2>2. /\ r.covered[h] \in Nat /\ r.hole[h] \in Nat /\ till - r.last \in Nat
        /\ CoveredThen(r, h, value) = r.covered[h] + (IF Near(r, value) THEN till - r.last ELSE 0)
        /\ HoleThen(r, h, value, moved) \in Nat /\ HoleThen(r, h, value, moved) >= r.hole[h]
        /\ (Fresh(r, value) /\ ~ Near(r, value)) => HoleThen(r, h, value, moved) >= till - r.last
    BY <1>1, SecondsAre
  <2> HIDE DEF till, due
  <2>3. till = due
    BY <2>1 DEF till
  <2>4. QED BY <2>2, <2>3
<1>6. Fresh(r, value)
  BY <1>2, <1>3 DEF Fresh
<1>7. /\ r.covered[h] <= Cardinality(SeenTill(L, e, r.last))
      /\ r.hole[h] <= MaxHole =>
           \A t \in e .. (r.last - 1) : \E u \in LookedTill(L, e, r.last) : t < u /\ u <= t + MaxHole
      /\ r.last \in LookedTill(L, e, r.last)
  BY <1>1 DEF ProgressSound, SecondsCounted
<1>8. M \in SUBSET Nat /\ L \subseteq M /\ moment \in M
  BY <1>2 DEF LooksThen
<1>9. moment \in W /\ LookedTill(L, e, r.last) \subseteq W
  <2>1. r.last <= n
    BY <1>2, <1>3, <1>4
  <2>2. LookedTill(L, e, r.last) \subseteq W
    <3> HIDE DEF M, n
    <3>1. e \in Nat
      OBVIOUS
    <3> HIDE DEF e
    <3>2. QED BY <3>1, <1>8, <1>3, <1>4, <2>1, LooksGrow
  <2>3. e <= moment
    BY <1>3
  <2>4. QED BY <1>2, <1>8, <2>2, <2>3 DEF LookedTill
<1>10. Cardinality(U) >= Share[h]
  <2>1. SeenTill(L, e, r.last) \subseteq e .. r.last
    BY <1>3 DEF SeenTill, SeenBefore
  <2>2. Cardinality(SeenTill(L, e, r.last)) \in Nat
    BY <2>1, <1>3, SecondsCount
  <2>3. CASE Near(r, value)
    <3>1. moment - r.last <= Adjacent
      BY <2>3 DEF Near
    <3>2. Cardinality(SeenTill(L, e, r.last)) + (due - r.last) <= Cardinality(U) /\ Cardinality(U) \in Nat
      <4>1. e \in Nat /\ e <= r.last /\ r.last <= due /\ due <= n /\ r.last \in LookedTill(L, e, r.last)
        BY <1>3, <1>4, <1>7
      <4> HIDE DEF M, n, e, due
      <4>2. QED BY <3>1, <4>1, <1>2, <1>3, <1>4, <1>8, SeenGrows
    <3>3. CoveredThen(r, h, value) = r.covered[h] + gap
      BY <2>3, <1>5
    <3> HIDE DEF U
    <3>4. QED BY <3>2, <3>3, <2>2, <1>2, <1>4, <1>5, <1>7
  <2>4. CASE ~ Near(r, value)
    <3>1. SeenTill(L, e, r.last) \subseteq U
      <4>1. \A t : SeenIn(LookedTill(L, e, r.last), t) => SeenIn(W, t)
        BY <1>9 DEF SeenIn
      <4>2. QED BY <4>1, <1>3 DEF SeenTill, SeenBefore
    <3>2. U \subseteq e .. due
      BY <1>3 DEF SeenBefore
    <3>3. Cardinality(U) \in Nat /\ Cardinality(SeenTill(L, e, r.last)) <= Cardinality(U)
      <4> HIDE DEF U
      <4>1. QED BY <3>1, <3>2, <1>3, SecondsCount
    <3>4. CoveredThen(r, h, value) = r.covered[h]
      BY <2>4, <1>5
    <3> HIDE DEF U
    <3>5. QED BY <3>3, <3>4, <2>2, <1>2, <1>4, <1>5, <1>7
  <2>5. QED BY <2>3, <2>4
<1>11. ASSUME NEW t \in e .. (due - MaxHole - 1)
       PROVE  \E u \in W : t < u /\ u <= t + MaxHole + 1
  <2>1. CASE t < r.last
    <3>1. PICK u \in LookedTill(L, e, r.last) : t < u /\ u <= t + MaxHole
      <4>1. r.hole[h] <= MaxHole
        <5> DEFINE x == HoleThen(r, h, value, moved)
        <5>1. x \in Nat /\ x >= r.hole[h] /\ x <= MaxHole /\ r.hole[h] \in Nat
          BY <1>2, <1>5
        <5> HIDE DEF x
        <5>2. QED BY <5>1, <1>4
      <4>2. t \in e .. (r.last - 1)
        BY <2>1, <1>3, <1>4
      <4>3. QED BY <4>1, <4>2, <1>7
    <3>2. u \in W /\ u \in Nat
      BY <1>9, <1>3, LooksGrow
    <3>3. QED BY <3>1, <3>2, <1>4
  <2>2. CASE t >= r.last
    <3>1. Near(r, value)
      <4>1. SUFFICES ASSUME ~ Near(r, value) PROVE FALSE
        OBVIOUS
      <4>2. gap <= MaxHole
        <5>1. HoleThen(r, h, value, moved) >= gap
          BY <4>1, <1>5, <1>6
        <5> DEFINE x == HoleThen(r, h, value, moved)
        <5>2. x \in Nat /\ x >= gap /\ x <= MaxHole
          BY <5>1, <1>2, <1>5
        <5> HIDE DEF gap, x
        <5>3. QED BY <5>2, <1>4, <1>5
      <4>3. QED BY <4>2, <2>2, <1>3, <1>4
    <3>2. moment - r.last <= Adjacent
      BY <3>1 DEF Near
    <3>3. t < moment /\ moment <= t + MaxHole + 1
      BY <3>2, <2>2, <1>2, <1>3, <1>4
    <3>4. QED BY <3>3, <1>9
  <2>3. QED BY <2>1, <2>2, <1>3, <1>4
<1>12. \E t \in W : t >= due
  BY <1>2, <1>9
<1>13. WatchedEnough(M, e, h) <=> /\ \E t \in W : t >= due
                                  /\ Cardinality(U) >= Share[h]
                                  /\ \A t \in e .. (due - MaxHole - 1) : \E u \in W : t < u /\ u <= t + MaxHole + 1
  BY DEF WatchedEnough
<1>14. QED
  <2> HIDE DEF W, U, n, due
  <2>1. WatchedEnough(M, e, h)
    BY <1>10, <1>11, <1>12, <1>13
  <2>2. QED BY <2>1

\* The verdicts after an observation: those there were, and one for each span that closes.
LEMMA ResultsAfter ==
  ASSUME NEW r, RecordShape(r), NEW seen \in BOOLEAN, NEW moved \in BOOLEAN, r.results \in Verdicts
  PROVE  LET value == seen /\ ~ moved
             C == Closing(r, value, moved)
             y == Observed(r, seen, moved)
         IN /\ C \subseteq Spans /\ C \cap DOMAIN r.results = {}
            /\ y.results \in Verdicts /\ DOMAIN y.results = C \cup DOMAIN r.results
            /\ \A h \in DOMAIN r.results : y.results[h] = r.results[h]
            /\ \A h \in C : y.results[h] = [status |-> IF IsValid(r, h, value, moved) THEN "observed" ELSE "insufficient",
                                            moved |-> moved, final |-> moved]
            /\ C = {} => y.results = r.results
            /\ Extends(r.results, y.results)
<1> DEFINE value == seen /\ ~ moved
           C == Closing(r, value, moved)
           y == Observed(r, seen, moved)
           f == NewVerdicts(r, value, moved)
<1>1. y.results = Atop(f, r.results)
  BY ObservedIs DEF RecordShape
<1>2. C \subseteq Spans /\ C \cap DOMAIN r.results = {}
  BY DEF Closing, UnjudgedSpans
<1>3. DOMAIN f = C /\ \A h \in C : f[h] = [status |-> IF IsValid(r, h, value, moved) THEN "observed" ELSE "insufficient",
                              moved |-> moved, final |-> moved]
  BY DEF NewVerdicts
<1>4. \A h \in C : f[h] \in Verdict
  <2> SUFFICES ASSUME NEW h \in C PROVE f[h] \in Verdict
    OBVIOUS
  <2>1. f[h] = [status |-> IF IsValid(r, h, value, moved) THEN "observed" ELSE "insufficient",
                moved |-> moved, final |-> moved]
    BY <1>3
  <2> DEFINE s == IF IsValid(r, h, value, moved) THEN "observed" ELSE "insufficient"
  <2>2. s \in {"observed", "insufficient"}
    OBVIOUS
  <2> HIDE DEF s, f
  <2>3. [status |-> s, moved |-> moved, final |-> moved] \in Verdict
    BY <2>2 DEF Verdict
  <2>4. QED BY <2>1, <2>3 DEF s
<1>5. DOMAIN r.results \subseteq Spans /\ (\A h \in DOMAIN r.results : r.results[h] \in Verdict)
      /\ r.results = [h \in DOMAIN r.results |-> r.results[h]]
  BY DEF Verdicts
<1> HIDE DEF C, y, f, value
<1>6. /\ DOMAIN y.results = C \cup DOMAIN r.results
      /\ \A h \in C : y.results[h] = f[h]
      /\ \A h \in DOMAIN r.results \ C : y.results[h] = r.results[h]
      /\ y.results = [h \in DOMAIN y.results |-> y.results[h]]
  <2> DEFINE a == Atop(f, r.results)
  <2>1. /\ DOMAIN a = DOMAIN f \cup DOMAIN r.results
        /\ \A x \in DOMAIN f : a[x] = f[x]
        /\ \A x \in DOMAIN r.results \ DOMAIN f : a[x] = r.results[x]
    BY AtopIs
  <2>2. a = [x \in DOMAIN a |-> a[x]]
    BY AtopIsFunction
  <2>3. y.results = a
    BY <1>1
  <2> HIDE DEF a
  <2>4. QED BY <1>3, <2>1, <2>2, <2>3
<1>7. \A h \in DOMAIN r.results : y.results[h] = r.results[h]
  BY <1>2, <1>6
<1>8. y.results \in Verdicts
  <2>1. \A h \in DOMAIN y.results : y.results[h] \in Verdict
    BY <1>4, <1>5, <1>6, <1>7
  <2>2. y.results \in [DOMAIN y.results -> Verdict] /\ DOMAIN y.results \in SUBSET Spans
    BY <2>1, <1>2, <1>5, <1>6
  <2>3. QED BY <2>2 DEF Verdicts
<1>9. C = {} => y.results = r.results
  BY <1>5, <1>6, <1>7
<1>10. Extends(r.results, y.results)
  <2>1. Extends(r.results, r.results)
    BY ExtendsOrders
  <2>2. QED BY <2>1, <1>6, <1>7 DEF Extends
<1>11. QED BY <1>2, <1>3, <1>6, <1>7, <1>8, <1>9, <1>10 DEF C, y, f, value

\* An observation keeps the progress of a record sound, and counts every change of it.
LEMMA ObservationSound ==
  ASSUME NEW L \in SUBSET Nat, moment \in Nat, \A t \in L : t <= moment,
         NEW r, RecordShape(r), NEW seen \in BOOLEAN, NEW moved \in BOOLEAN,
         ProgressSound(L, r.entered, r, moment)
  PROVE  LET y == Observed(r, seen, moved)
         IN /\ ProgressSound(LooksThen(L, seen /\ ~ moved), r.entered, y, moment)
            /\ Extends(r.results, y.results)
            /\ RecordShape(y) /\ y.entered = r.entered /\ y.saved = r.saved /\ y.new = r.new
            /\ r.revision <= y.revision /\ (r.revision = y.revision => Progress(y) = Progress(r))
<1> DEFINE value == seen /\ ~ moved
           C == Closing(r, value, moved)
           y == Observed(r, seen, moved)
           e == r.entered
           M == LooksThen(L, value)
<1>1. /\ ProgressType(r) /\ e <= r.last /\ r.last <= moment /\ r.last \in LookedTill(L, e, r.last)
      /\ VerdictsSound(L, e, r, moment) /\ SecondsCounted(L, e, r)
  BY DEF ProgressSound
<1>2. /\ r.last \in Nat /\ r.covered \in [Spans -> Nat] /\ r.hole \in [Spans -> Nat] /\ r.results \in Verdicts
      /\ e \in Nat /\ r.revision \in Nat
  BY <1>1 DEF ProgressType, RecordShape
<1>3. /\ C \subseteq Spans /\ C \cap DOMAIN r.results = {}
      /\ y.results \in Verdicts /\ DOMAIN y.results = C \cup DOMAIN r.results
      /\ \A h \in DOMAIN r.results : y.results[h] = r.results[h]
      /\ \A h \in C : y.results[h] = [status |-> IF IsValid(r, h, value, moved) THEN "observed" ELSE "insufficient",
                                      moved |-> moved, final |-> moved]
      /\ C = {} => y.results = r.results
      /\ Extends(r.results, y.results)
  BY <1>2, ResultsAfter
<1>4. /\ y.entered = e /\ y.last = (IF Fresh(r, value) THEN moment ELSE r.last) /\ y.saved = r.saved /\ y.new = r.new
      /\ y.covered = [h \in Spans |-> CoveredThen(r, h, value)]
      /\ y.hole = [h \in Spans |-> HoleThen(r, h, value, moved)]
      /\ y.revision = (IF Fresh(r, value) THEN (r.revision + Cardinality(C)) + 1 ELSE r.revision + Cardinality(C))
      /\ y = [entered |-> y.entered, last |-> y.last, covered |-> y.covered, hole |-> y.hole,
              results |-> y.results, revision |-> y.revision, saved |-> y.saved, urgent |-> y.urgent,
              new |-> y.new]
  <2>1. r = [entered |-> r.entered, last |-> r.last, covered |-> r.covered, hole |-> r.hole,
              results |-> r.results, revision |-> r.revision, saved |-> r.saved, urgent |-> r.urgent,
              new |-> r.new]
    BY DEF RecordShape
  <2>2. y = [entered |-> r.entered, last |-> IF Fresh(r, value) THEN moment ELSE r.last,
               covered |-> CoveredAfter(r, value), hole |-> HoleAfter(r, value, moved),
               results |-> Atop(NewVerdicts(r, value, moved), r.results),
               revision |-> IF Fresh(r, value) THEN Judged(r, value, moved) + 1 ELSE Judged(r, value, moved),
               saved |-> r.saved,
               urgent |-> IF C = {} THEN r.urgent ELSE Judged(r, value, moved), new |-> r.new]
    BY <2>1, ObservedIs
  <2>3. Judged(r, value, moved) = r.revision + Cardinality(C)
    BY DEF Judged
  <2> HIDE DEF C, y, value
  <2>4. QED BY <2>2, <2>3 DEF CoveredAfter, HoleAfter
<1>5. M \in SUBSET Nat /\ L \subseteq M /\ (value => moment \in M)
  BY DEF LooksThen
<1>6. value \in BOOLEAN /\ (Fresh(r, value) => value)
  BY DEF Fresh
<1> HIDE DEF C, y, M, value, e
<1>7. IsFiniteSet(C) /\ Cardinality(C) \in Nat /\ (Cardinality(C) = 0 => C = {})
  <2>1. IsFiniteSet(Spans)
    BY CohortAssumption DEF CohortAssumption
  <2>2. IsFiniteSet(C)
    BY <2>1, <1>3, FS_Subset
  <2>3. QED BY <2>2, FS_CardinalityType, FS_EmptySet
<1>8. /\ y.revision \in Nat /\ r.revision <= y.revision
      /\ r.revision = y.revision => C = {} /\ ~ Fresh(r, value)
  BY <1>2, <1>4, <1>7
<1>9. y.last \in Nat /\ e <= y.last /\ y.last <= moment /\ r.last <= y.last
  BY <1>1, <1>2, <1>4
<1>10. y.last \in LookedTill(M, e, y.last)
  <2>1. CASE Fresh(r, value)
    BY <2>1, <1>4, <1>5, <1>6, <1>9 DEF LookedTill
  <2>2. CASE ~ Fresh(r, value)
    <3>1. r.last \in LookedTill(M, e, r.last)
      <4>1. LookedTill(L, e, r.last) \subseteq LookedTill(M, e, r.last)
        <5>1. r.last <= r.last
          BY <1>2
        <5>2. QED BY <5>1, <1>2, <1>5, LooksGrow
      <4>2. QED BY <4>1, <1>1
    <3>2. QED BY <2>2, <3>1, <1>4
  <2>3. QED BY <2>1, <2>2
<1>11. \A h \in Spans : /\ CoveredThen(r, h, value) \in Nat /\ HoleThen(r, h, value, moved) \in Nat
                        /\ (h \notin UnjudgedSpans(r) => CoveredThen(r, h, value) = r.covered[h] /\ HoleThen(r, h, value, moved) = r.hole[h])
  <2> SUFFICES ASSUME NEW h \in Spans
               PROVE  /\ CoveredThen(r, h, value) \in Nat /\ HoleThen(r, h, value, moved) \in Nat
                        /\ (h \notin UnjudgedSpans(r) => CoveredThen(r, h, value) = r.covered[h] /\ HoleThen(r, h, value, moved) = r.hole[h])
    OBVIOUS
  <2>1. CASE h \in UnjudgedSpans(r)
    BY <2>1, <1>2, <1>6, SecondsAre DEF e
  <2>2. CASE h \notin UnjudgedSpans(r)
    <3>1. r.covered[h] \in Nat /\ r.hole[h] \in Nat
      BY <1>2
    <3>2. CoveredThen(r, h, value) = r.covered[h] /\ HoleThen(r, h, value, moved) = r.hole[h]
      BY <3>1, <2>2, <1>6, JudgedSpanStays
    <3>3. QED BY <3>1, <3>2, <2>2
  <2>3. QED BY <2>1, <2>2
<1>12. ProgressType(y)
  <2>1. y.covered \in [Spans -> Nat] /\ y.hole \in [Spans -> Nat]
    BY <1>4, <1>11
  <2>2. QED BY <2>1, <1>3, <1>9 DEF ProgressType
<1>13. VerdictsSound(M, e, y, moment)
  <2> SUFFICES ASSUME NEW h \in DOMAIN y.results
               PROVE  /\ y.results[h].moved \/ e + h <= moment
                      /\ y.results[h].status = "observed" => WatchedEnough(M, e, h)
    BY DEF VerdictsSound
  <2>1. CASE h \in C
    <3>1. y.results[h].moved = moved
          /\ y.results[h].status = (IF IsValid(r, h, value, moved) THEN "observed" ELSE "insufficient")
      <4>1. y.results[h] = [status |-> IF IsValid(r, h, value, moved) THEN "observed" ELSE "insufficient",
                            moved |-> moved, final |-> moved]
        BY <2>1, <1>3
      <4>2. QED BY <4>1
    <3>2. h \in Closing(r, value, moved) /\ h \in Spans /\ h \in Nat /\ Grace \in Nat
      BY <2>1, <1>3, SpanNumbers DEF C
    <3>3. moved \/ e + h <= moment
      BY <3>2, <1>2 DEF Closing, EndsNow, e
    <3>4. ASSUME IsValid(r, h, value, moved) PROVE WatchedEnough(M, e, h)
      BY <3>2, <3>4, <1>2, <1>6, VerdictEarned DEF e, M
    <3>5. QED BY <3>1, <3>3, <3>4
  <2>2. CASE h \notin C
    <3>1. h \in DOMAIN r.results /\ y.results[h] = r.results[h] /\ h \in Spans
      BY <2>2, <1>2, <1>3 DEF Verdicts
    <3>2. /\ r.results[h].moved \/ e + h <= moment
          /\ r.results[h].status = "observed" => WatchedEnough(L, e, h)
      BY <3>1, <1>1 DEF VerdictsSound
    <3>3. WatchedEnough(L, e, h) => WatchedEnough(M, e, h)
      BY <3>1, <1>2, <1>5, WatchedStays
    <3>4. QED BY <3>1, <3>2, <3>3
  <2>3. QED BY <2>1, <2>2
<1>14. SecondsCounted(M, e, y)
  <2> SUFFICES ASSUME NEW h \in Spans \ DOMAIN y.results
               PROVE  /\ y.last < e + h
                      /\ y.covered[h] <= Cardinality(SeenTill(M, e, y.last))
                      /\ y.hole[h] <= MaxHole =>
                           \A t \in e .. (y.last - 1) :
                             \E u \in LookedTill(M, e, y.last) : t < u /\ u <= t + MaxHole
    BY DEF SecondsCounted
  <2>1. h \in Spans \ DOMAIN r.results /\ h \in UnjudgedSpans(r) /\ h \notin C
    BY <1>3 DEF UnjudgedSpans
  <2>2. h \in Nat /\ Adjacent \in Nat /\ MaxHole \in Nat /\ Adjacent <= MaxHole /\ Grace \in Nat
    BY SpanNumbers
  <2>3. /\ r.last < e + h
        /\ r.covered[h] <= Cardinality(SeenTill(L, e, r.last))
        /\ r.hole[h] <= MaxHole =>
             \A t \in e .. (r.last - 1) :
               \E u \in LookedTill(L, e, r.last) : t < u /\ u <= t + MaxHole
    BY <2>1, <1>1 DEF SecondsCounted
  <2>4. y.covered[h] = CoveredThen(r, h, value) /\ y.hole[h] = HoleThen(r, h, value, moved)
    BY <1>4
  <2>5. CASE Fresh(r, value)
    <3>1. y.last = moment /\ value /\ moment > r.last
      BY <2>5, <1>4 DEF Fresh
    <3>2. moment < e + h
      <4>1. ~ (e + h <= moment /\ moment <= e + h + Grace) /\ ~ (moment > e + h + Grace)
        BY <2>1, <3>1 DEF C, Closing, EndsNow, e
      <4>2. QED BY <4>1, <2>2, <1>2
    <3> DEFINE gap == moment - r.last
    <3>3. /\ r.covered[h] \in Nat /\ r.hole[h] \in Nat
          /\ CoveredThen(r, h, value) = r.covered[h] + (IF Near(r, value) THEN gap ELSE 0)
          /\ HoleThen(r, h, value, moved) \in Nat /\ HoleThen(r, h, value, moved) >= r.hole[h]
          /\ ~ Near(r, value) => HoleThen(r, h, value, moved) >= gap
      <4> DEFINE due == r.entered + h
                 till == IF moment <= due THEN moment ELSE due
      <4>1. /\ r.covered[h] \in Nat /\ r.hole[h] \in Nat
            /\ CoveredThen(r, h, value) = r.covered[h] + (IF Near(r, value) THEN till - r.last ELSE 0)
            /\ HoleThen(r, h, value, moved) \in Nat /\ HoleThen(r, h, value, moved) >= r.hole[h]
            /\ (Fresh(r, value) /\ ~ Near(r, value)) => HoleThen(r, h, value, moved) >= till - r.last
        BY <2>1, <1>2, <1>6, SecondsAre DEF e
      <4>2. till = moment
        <5> DEFINE n == e + h
        <5>1. n \in Nat /\ moment < n
          BY <3>2, <2>2, <1>2
        <5>2. till = IF moment <= n THEN moment ELSE n
          BY DEF e
        <5> HIDE DEF n, till
        <5>3. QED BY <5>1, <5>2
      <4> HIDE DEF till
      <4>3. QED BY <4>1, <4>2, <2>5
    <3>4. Cardinality(SeenTill(L, e, r.last)) \in Nat
      <4>1. SeenTill(L, e, r.last) \subseteq e .. r.last
        BY <1>2 DEF SeenTill, SeenBefore
      <4>2. QED BY <4>1, <1>2, SecondsCount
    <3>5. CoveredThen(r, h, value) <= Cardinality(SeenTill(M, e, moment))
      <4>1. CASE Near(r, value)
        <5>1. moment - r.last <= Adjacent
          BY <4>1 DEF Near
        <5>2. Cardinality(SeenTill(L, e, r.last)) + (moment - r.last) <= Cardinality(SeenBefore(moment, M, e, moment))
              /\ Cardinality(SeenBefore(moment, M, e, moment)) \in Nat
          <6>1. /\ e \in Nat /\ r.last \in Nat /\ e <= r.last /\ r.last <= moment /\ moment \in M
                /\ r.last \in LookedTill(L, e, r.last) /\ moment <= moment
            BY <3>1, <1>1, <1>2, <1>5
          <6> DEFINE a == r.last
          <6> HIDE DEF a
          <6>2. QED BY <5>1, <6>1, <1>5, SeenGrows DEF a
        <5>3. QED BY <5>2, <4>1, <3>3, <3>4, <2>3, <1>2 DEF SeenTill
      <4>2. CASE ~ Near(r, value)
        <5>1. LookedTill(L, e, r.last) \subseteq LookedTill(M, e, moment)
          BY <1>1, <1>2, <1>5, LooksGrow
        <5>2. SeenTill(L, e, r.last) \subseteq SeenTill(M, e, moment) /\ SeenTill(M, e, moment) \subseteq e .. moment
          <6>1. \A t : SeenIn(LookedTill(L, e, r.last), t) => SeenIn(LookedTill(M, e, moment), t)
            BY <5>1 DEF SeenIn
          <6>2. \A t \in e .. (r.last - 1) : t \in e .. (moment - 1)
            BY <1>1, <1>2
          <6>3. QED BY <6>1, <6>2, <1>2 DEF SeenTill, SeenBefore
        <5>3. Cardinality(SeenTill(L, e, r.last)) <= Cardinality(SeenTill(M, e, moment)) /\ Cardinality(SeenTill(M, e, moment)) \in Nat
          BY <5>2, <1>2, SecondsCount
        <5>4. QED BY <5>3, <4>2, <3>3, <3>4, <2>3
      <4>3. QED BY <4>1, <4>2
    <3>6. ASSUME HoleThen(r, h, value, moved) <= MaxHole, NEW t \in e .. (moment - 1)
          PROVE  \E u \in LookedTill(M, e, moment) : t < u /\ u <= t + MaxHole
      <4>1. r.hole[h] <= MaxHole /\ moment - r.last <= MaxHole
        <5> DEFINE x == HoleThen(r, h, value, moved)
        <5>1. x \in Nat /\ x >= r.hole[h] /\ x <= MaxHole /\ (~ Near(r, value) => x >= gap)
          BY <3>3, <3>6
        <5> HIDE DEF x
        <5>2. CASE Near(r, value)
          BY <5>1, <5>2, <3>3, <2>2, <1>2 DEF Near
        <5>3. CASE ~ Near(r, value)
          BY <5>1, <5>3, <3>3, <2>2, <1>2
        <5>4. QED BY <5>2, <5>3
      <4>2. CASE t < r.last
        <5>1. t \in e .. (r.last - 1)
          BY <4>2, <1>2
        <5>2. PICK u \in LookedTill(L, e, r.last) : t < u /\ u <= t + MaxHole
          BY <4>1, <5>1, <2>3
        <5>3. u \in LookedTill(M, e, moment)
          BY <1>1, <1>2, <1>5, LooksGrow
        <5>4. QED BY <5>2, <5>3
      <4>3. CASE ~ (t < r.last)
        <5>1. moment \in LookedTill(M, e, moment)
          BY <3>1, <1>1, <1>2, <1>5 DEF LookedTill
        <5>2. t < moment /\ moment <= t + MaxHole
          BY <4>1, <4>3, <2>2, <1>2
        <5>3. QED BY <5>1, <5>2
      <4>4. QED BY <4>2, <4>3
    <3>7. QED BY <3>1, <3>2, <3>5, <3>6, <2>4
  <2>6. CASE ~ Fresh(r, value)
    <3>1. y.last = r.last
      BY <2>6, <1>4
    <3>2. CoveredThen(r, h, value) = r.covered[h] /\ HoleThen(r, h, value, moved) = r.hole[h]
      <4> DEFINE due == r.entered + h
                 till == IF moment <= due THEN moment ELSE due
      <4>1. /\ r.covered[h] \in Nat
            /\ CoveredThen(r, h, value) = r.covered[h] + (IF Near(r, value) THEN till - r.last ELSE 0)
            /\ (~ Fresh(r, value) /\ h \notin Closing(r, value, moved)) => HoleThen(r, h, value, moved) = r.hole[h]
        BY <2>1, <1>2, <1>6, SecondsAre DEF e
      <4>2. ~ Near(r, value)
        BY <2>6 DEF Near
      <4> HIDE DEF till
      <4>3. QED BY <4>1, <4>2, <2>1, <2>6 DEF C
    <3>3. LookedTill(L, e, r.last) \subseteq LookedTill(M, e, r.last)
      BY <1>2, <1>5, LooksGrow
    <3>4. SeenTill(L, e, r.last) \subseteq SeenTill(M, e, r.last) /\ SeenTill(M, e, r.last) \subseteq e .. r.last
      <4>1. \A t : SeenIn(LookedTill(L, e, r.last), t) => SeenIn(LookedTill(M, e, r.last), t)
        BY <3>3 DEF SeenIn
      <4>2. QED BY <4>1, <1>2 DEF SeenTill, SeenBefore
    <3>5. /\ Cardinality(SeenTill(L, e, r.last)) <= Cardinality(SeenTill(M, e, r.last))
          /\ Cardinality(SeenTill(M, e, r.last)) \in Nat /\ Cardinality(SeenTill(L, e, r.last)) \in Nat
      BY <3>4, <1>2, SecondsCount
    <3>6. r.covered[h] \in Nat
      BY <1>2
    <3>7. r.covered[h] <= Cardinality(SeenTill(M, e, r.last))
      BY <3>5, <3>6, <2>3
    <3>8. QED BY <3>1, <3>2, <3>3, <3>7, <2>3, <2>4
  <2>7. QED BY <2>5, <2>6
<1>15. r.revision = y.revision => Progress(y) = Progress(r)
  <2> SUFFICES ASSUME r.revision = y.revision PROVE Progress(y) = Progress(r)
    OBVIOUS
  <2>1. C = {} /\ ~ Fresh(r, value)
    BY <1>8
  <2>2. y.results = r.results /\ y.last = r.last
    BY <2>1, <1>3, <1>4
  <2>3. ASSUME NEW h \in Spans
        PROVE  CoveredThen(r, h, value) = r.covered[h] /\ HoleThen(r, h, value, moved) = r.hole[h]
    <3>1. CASE h \in UnjudgedSpans(r)
      <4>1. h \notin Closing(r, value, moved) /\ ~ Near(r, value)
        BY <2>1 DEF C, Near
      <4>2. HoleThen(r, h, value, moved) = r.hole[h]
        <5>1. r.entered \in Nat /\ value \in BOOLEAN
          BY <1>2, <1>6 DEF e
        <5>2. (~ Fresh(r, value) /\ h \notin Closing(r, value, moved)) => HoleThen(r, h, value, moved) = r.hole[h]
          BY <5>1, <3>1, SecondsAre
        <5>3. QED BY <5>2, <4>1, <2>1
      <4>3. r.covered[h] \in Nat /\ CoveredThen(r, h, value) = r.covered[h] + 0
        BY <4>1, <1>2 DEF CoveredThen
      <4>4. QED BY <4>2, <4>3
    <3>2. CASE h \notin UnjudgedSpans(r)
      BY <3>2, <1>11
    <3>3. QED BY <3>1, <3>2
  <2>4. y.covered = r.covered /\ y.hole = r.hole
    BY <2>3, <1>2, <1>4
  <2>5. QED BY <2>2, <2>4 DEF Progress
<1>16. ProgressSound(M, e, y, moment)
  BY <1>9, <1>10, <1>12, <1>13, <1>14 DEF ProgressSound
<1>17. RecordShape(y)
  BY <1>2, <1>4, <1>8 DEF RecordShape
<1>18. QED BY <1>3, <1>4, <1>8, <1>15, <1>16, <1>17 DEF y, M, e, value

-----------------------------------------------------------------------------
(* The invariant of the cohorts, action by action. *)

\* Records and rows stay sound as time passes and more is looked at.
LEMMA SoundStays ==
  ASSUME NEW a \in SUBSET Nat, NEW b \in SUBSET Nat, a \subseteq b, NEW m \in Nat, NEW n \in Nat, m <= n, NEW r, NEW id
  PROVE  /\ SoundRecord(a, m, r) => SoundRecord(b, n, r)
         /\ SoundRow(a, m, id, r) => SoundRow(b, n, id, r)
<1>1. ASSUME SoundRecord(a, m, r) PROVE SoundRecord(b, n, r)
  BY <1>1, ProgressStays DEF SoundRecord, RecordShape
<1>2. ASSUME SoundRow(a, m, id, r) PROVE SoundRow(b, n, id, r)
  <2>1. id[2] \in Nat
    BY <1>2 DEF SoundRow
  <2>2. QED BY <1>2, <2>1, ProgressStays DEF SoundRow
<1>3. QED BY <1>1, <1>2

\* The row of a record that is sound.
LEMMA RowIsSound ==
  ASSUME NEW looks, NEW at \in Nat, NEW r, SoundRecord(looks, at, r), NEW p \in Routes
  PROVE  /\ SoundRow(looks, at, <<p, r.entered>>, Row(r))
         /\ Row(r).results = r.results /\ r.results \in Verdicts /\ r.last \in Nat /\ r.last <= at
<1>1. /\ Row(r).results = r.results /\ Row(r).last = r.last /\ Row(r).covered = r.covered /\ Row(r).hole = r.hole
      /\ Row(Row(r)) = Row(r)
  BY DEF Row, Finished
<1>2. r.entered \in Nat /\ ProgressSound(looks, r.entered, r, at)
  BY DEF SoundRecord, RecordShape
<1>3. ProgressSound(looks, r.entered, Row(r), at)
  <2> DEFINE x == Row(r)
  <2>1. x.results = r.results /\ x.last = r.last /\ x.covered = r.covered /\ x.hole = r.hole
    BY <1>1
  <2> HIDE DEF x
  <2>2. QED BY <1>2, <2>1, ProgressCopied DEF x
<1>4. r.entered <= r.last /\ r.last <= at /\ r.last \in Nat /\ r.results \in Verdicts
  BY <1>2 DEF ProgressSound, ProgressType
<1>5. <<p, r.entered>>[2] = r.entered /\ r.entered <= at
  BY <1>2, <1>4
<1>6. QED BY <1>1, <1>2, <1>3, <1>4, <1>5 DEF SoundRow

\* Rows of the same progress are the same.
LEMMA RowsOfProgress ==
  ASSUME NEW x, NEW y, Progress(x) = Progress(y)
  PROVE  Row(x) = Row(y)
<1>1. x.last = y.last /\ x.covered = y.covered /\ x.hole = y.hole /\ x.results = y.results
  BY DEF Progress
<1>2. QED BY <1>1 DEF Row, Finished

\* The names of a sound row.
LEMMA RowNames ==
  ASSUME NEW looks, NEW at, NEW id, NEW row, SoundRow(looks, at, id, row)
  PROVE  /\ id = <<id[1], id[2]>> /\ id[1] \in Routes /\ id[2] \in Nat /\ id[2] <= at
         /\ row.results \in Verdicts /\ row.finished = Finished(row)
<1>1. row.results \in Verdicts
  BY DEF SoundRow, ProgressSound, ProgressType
<1>2. row.finished = Finished(row)
  BY DEF SoundRow, Row
<1>3. QED BY <1>1, <1>2 DEF SoundRow

\* As many as there are paths for their names.
LEMMA NamesFit ==
  ASSUME NEW S, NEW T, RoomFor(T), \A id \in S : id[1] \in T, \A a, b \in S : a[1] = b[1] => a = b, ActiveLimit \in Nat
  PROVE  RoomFor(S)
<1> DEFINE f == [id \in S |-> id[1]]
<1>1. f \in Injection(S, T)
  BY DEF Injection, IsInjective
<1>2. IsFiniteSet(S) /\ Cardinality(S) <= Cardinality(T)
  BY <1>1, FS_Injection DEF RoomFor
<1>3. Cardinality(S) \in Nat /\ Cardinality(T) \in Nat
  BY <1>2, FS_CardinalityType DEF RoomFor
<1>4. QED BY <1>2, <1>3 DEF RoomFor

\* Two unfinished cohorts are of two paths, and the later of two of a path is unfinished alone.
LEMMA UnfinishedAlone ==
  ASSUME CohortInv, NEW a \in Unfinished, NEW b \in DOMAIN cohorts, a[1] = b[1]
  PROVE  b[2] <= a[2] /\ (b \in Unfinished => a = b)
<1>1. a \in DOMAIN cohorts /\ ~ cohorts[a].finished
  BY DEF Unfinished
<1>2. /\ a = <<a[1], a[2]>> /\ b = <<b[1], b[2]>> /\ a[2] \in Nat /\ b[2] \in Nat
  BY <1>1, RowNames DEF CohortInv, CohortTables
<1>3. ~ (a[2] < b[2])
  BY <1>1 DEF CohortInv, CohortsInOrder, Over
<1>4. ASSUME b \in Unfinished PROVE ~ (b[2] < a[2])
  <2>1. ~ cohorts[b].finished
    BY <1>4 DEF Unfinished
  <2>2. QED BY <1>1, <2>1 DEF CohortInv, CohortsInOrder, Over
<1>5. QED BY <1>2, <1>3, <1>4

\* What the looks at a path are, and when.
LEMMA LooksAre ==
  ASSUME CohortInv, NEW p \in Routes
  PROVE  watched[p] \in SUBSET Nat /\ moment \in Nat /\ \A t \in watched[p] : t <= moment
BY DEF CohortInv, CohortType

\* Time passes.
LEMMA LaterKeepsCohorts ==
  ASSUME CohortInv, LaterMoment
  PROVE  CohortInv'
<1>1. /\ moment' = moment + 1 /\ open' = open /\ active' = active /\ saving' = saving /\ recorded' = recorded
      /\ cohorts' = cohorts /\ outcomes' = outcomes /\ watched' = watched
  BY DEF LaterMoment, memory, tables
<1>2. \A p \in Routes : \A r, id :
        /\ SoundRecord(watched[p], moment, r) => SoundRecord(watched[p], moment + 1, r)
        /\ SoundRow(watched[p], moment, id, r) => SoundRow(watched[p], moment + 1, id, r)
  <2>1. moment + 1 \in Nat /\ moment <= moment + 1 /\ moment \in Nat
    BY DEF CohortInv, CohortType
  <2> SUFFICES ASSUME NEW p \in Routes, NEW r, NEW id
               PROVE  /\ SoundRecord(watched[p], moment, r) => SoundRecord(watched[p], moment + 1, r)
                      /\ SoundRow(watched[p], moment, id, r) => SoundRow(watched[p], moment + 1, id, r)
    OBVIOUS
  <2> DEFINE n == moment + 1
  <2> HIDE DEF n
  <2>2. n \in Nat /\ moment <= n /\ moment \in Nat /\ watched[p] \in SUBSET Nat /\ watched[p] \subseteq watched[p]
    BY <2>1, LooksAre DEF n
  <2>3. QED BY <2>2, SoundStays DEF n
<1>3. CohortType'
  <2>1. \A p \in Routes : \A t \in watched[p] : t \in Nat /\ t <= moment + 1
    BY LooksAre
  <2>2. QED BY <1>1, <2>1 DEF CohortInv, CohortType
<1>4. CohortTables'
  <2> SUFFICES ASSUME NEW id \in DOMAIN cohorts
               PROVE  SoundRow(watched[id[1]], moment + 1, id, cohorts[id]) /\ OutcomesOf(cohorts[id], outcomes[id])
    BY <1>1 DEF CohortTables, CohortInv
  <2>1. SoundRow(watched[id[1]], moment, id, cohorts[id]) /\ OutcomesOf(cohorts[id], outcomes[id])
    BY DEF CohortInv, CohortTables
  <2>2. id[1] \in Routes
    BY <2>1, RowNames
  <2>3. QED BY <1>2, <2>1, <2>2
<1>5. UnfinishedHeld' /\ CohortsInOrder'
  BY <1>1 DEF CohortInv, UnfinishedHeld, Unfinished, IdOf, RoomFor, CohortsInOrder
<1>6. (\A p \in DOMAIN active : ActiveSound(p))'
  <2> SUFFICES ASSUME NEW p \in DOMAIN active PROVE ActiveSound(p)'
    BY <1>1
  <2>1. ActiveSound(p)
    BY DEF CohortInv
  <2>2. p \in Routes /\ SoundRecord(watched[p], moment + 1, active[p])
    BY <1>2, <2>1 DEF ActiveSound
  <2>3. QED BY <1>1, <2>1, <2>2 DEF ActiveSound, IdOf
<1>7. (\A p \in DOMAIN saving : CopySound(p))'
  <2> SUFFICES ASSUME NEW p \in DOMAIN saving PROVE CopySound(p)'
    BY <1>1
  <2>1. CopySound(p) /\ p \in Routes
    BY DEF CohortInv, CopySound, ActiveSound
  <2>2. SoundRecord(watched[p], moment + 1, saving[p])
    BY <1>2, <2>1 DEF CopySound
  <2>3. QED BY <1>1, <2>1, <2>2 DEF CopySound, IdOf
<1>8. QED BY <1>3, <1>4, <1>5, <1>6, <1>7 DEF CohortInv

\* A failed write, and a death: the table stays, and nothing is being written.
LEMMA BreaksKeepCohorts ==
  ASSUME CohortInv, FailCohorts \/ CohortsDie
  PROVE  CohortInv'
<1>1. /\ moment' = moment /\ cohorts' = cohorts /\ outcomes' = outcomes /\ watched' = watched
      /\ saving' = Nothing /\ recorded' = FALSE
      /\ \/ open' = open /\ active' = active
         \/ open' = FALSE /\ active' = <<>>
  BY DEF FailCohorts, CohortsDie, memory, tables
<1>2. DOMAIN saving' = {} /\ (active' = <<>> => DOMAIN active' = {}) /\ DOMAIN active' \subseteq DOMAIN active
      /\ \A p \in DOMAIN active' : active'[p] = active[p]
  BY <1>1 DEF Nothing
<1>3. CohortType'
  BY <1>1 DEF CohortInv, CohortType
<1>4. CohortTables'
  BY <1>1 DEF CohortInv, CohortTables
<1>5. UnfinishedHeld'
  <2>1. RoomFor({})
    BY FS_EmptySet, SpanNumbers DEF RoomFor
  <2>2. Unfinished' = Unfinished
    BY <1>1 DEF Unfinished
  <2>3. RoomFor(DOMAIN active)
    BY DEF CohortInv, UnfinishedHeld
  <2>4. RoomFor(DOMAIN active')
    BY <1>1, <1>2, <2>1, <2>3
  <2>5. open' => \A id \in Unfinished : id[1] \in DOMAIN active' /\ IdOf(id[1])' = id
    BY <1>1 DEF CohortInv, UnfinishedHeld, IdOf
  <2>6. QED BY <2>2, <2>4, <2>5 DEF CohortInv, UnfinishedHeld, RoomFor
<1>6. CohortsInOrder'
  BY <1>1, <1>2 DEF CohortInv, CohortsInOrder
<1>7. (\A p \in DOMAIN active : ActiveSound(p))'
  BY <1>1, <1>2 DEF CohortInv, ActiveSound, IdOf
<1>8. QED BY <1>2, <1>3, <1>4, <1>5, <1>6, <1>7 DEF CohortInv

\* The copies: of records with changes that are not saved.
LEMMA CopyKeepsCohorts ==
  ASSUME CohortInv, CopyCohorts
  PROVE  CohortInv'
<1>1. /\ moment' = moment /\ cohorts' = cohorts /\ outcomes' = outcomes /\ watched' = watched
      /\ open' = open /\ active' = active /\ recorded' = recorded /\ open /\ ~ recorded
      /\ saving' = [p \in {q \in DOMAIN active : ChangedRows(q)} |-> active[p]]
  BY DEF CopyCohorts, memory, tables, CohortInv, CohortType
<1>2. CohortType'
  BY <1>1 DEF CohortInv, CohortType
<1>3. CohortTables' /\ UnfinishedHeld' /\ CohortsInOrder'
  BY <1>1 DEF CohortInv, CohortTables, UnfinishedHeld, Unfinished, IdOf, RoomFor, CohortsInOrder
<1>4. (\A p \in DOMAIN active : ActiveSound(p))'
  BY <1>1 DEF CohortInv, ActiveSound, IdOf
<1>5. (\A p \in DOMAIN saving : CopySound(p))'
  <2> SUFFICES ASSUME NEW p \in DOMAIN active, ChangedRows(p), saving'[p] = active[p] PROVE CopySound(p)'
    BY <1>1
  <2>1. ActiveSound(p)
    BY DEF CohortInv
  <2>2. SoundRecord(watched[p], moment, active[p])
    BY <2>1 DEF ActiveSound
  <2>3. active[p].results \in Verdicts /\ active[p].saved \in Nat /\ active[p].revision \in Nat
        /\ active[p].saved <= active[p].revision /\ active[p].revision # active[p].saved
    BY <2>2 DEF SoundRecord, RecordShape, ProgressSound, ProgressType, ChangedRows
  <2>4. LeftBehind(active[p], active[p])
    BY <2>3, ExtendsOrders DEF LeftBehind
  <2>5. IdOf(p) \in DOMAIN cohorts => Extends(cohorts[IdOf(p)].results, active[p].results)
    BY <2>1 DEF ActiveSound, Holds
  <2>6. QED BY <1>1, <2>2, <2>4, <2>5 DEF CopySound, IdOf
<1>6. QED BY <1>2, <1>3, <1>4, <1>5 DEF CohortInv

\* A restart: every unfinished cohort is active again, with the progress of its row.
LEMMA RestoreKeepsCohorts ==
  ASSUME CohortInv, RestoreCohorts
  PROVE  CohortInv'
<1> DEFINE cohortOf(p) == CHOOSE id \in Unfinished : id[1] = p
<1>1. PICK S \in SUBSET Unfinished :
        /\ Cardinality(S) = Min({ActiveLimit, Cardinality(Unfinished)})
        /\ active' = [p \in {id[1] : id \in S} |-> Revive(CHOOSE id \in S : id[1] = p)]
  BY DEF RestoreCohorts
<1>2. /\ moment' = moment /\ cohorts' = cohorts /\ outcomes' = outcomes /\ watched' = watched
      /\ open' = TRUE /\ recorded' = recorded /\ saving' = Nothing /\ ~ open /\ ~ recorded
  BY DEF RestoreCohorts, tables, CohortInv, CohortType
<1>3. S = Unfinished
  <2>1. IsFiniteSet(Unfinished) /\ Cardinality(Unfinished) <= ActiveLimit /\ ActiveLimit \in Nat
    BY SpanNumbers DEF CohortInv, UnfinishedHeld, RoomFor
  <2>2. Cardinality(Unfinished) \in Nat
    BY <2>1, FS_CardinalityType
  <2>3. Cardinality(S) = Cardinality(Unfinished)
    BY <1>1, <2>1, <2>2, MinOfTwo
  <2> HIDE DEF cohortOf
  <2>4. QED BY <2>1, <2>3, FS_Subset
<1>4. active' = [p \in {id[1] : id \in Unfinished} |-> Revive(cohortOf(p))]
  BY <1>1, <1>3
<1>5. \A id \in Unfinished : id \in DOMAIN cohorts /\ cohortOf(id[1]) = id /\ id = <<id[1], id[2]>>
  <2> SUFFICES ASSUME NEW id \in Unfinished
               PROVE  id \in DOMAIN cohorts /\ cohortOf(id[1]) = id /\ id = <<id[1], id[2]>>
    OBVIOUS
  <2>1. id \in DOMAIN cohorts
    BY DEF Unfinished
  <2>2. cohortOf(id[1]) \in Unfinished /\ cohortOf(id[1])[1] = id[1]
    OBVIOUS
  <2>3. cohortOf(id[1]) \in DOMAIN cohorts
    BY <2>2 DEF Unfinished
  <2> HIDE DEF cohortOf
  <2>4. cohortOf(id[1]) = id
    BY <2>2, <2>3, UnfinishedAlone
  <2>5. QED BY <2>1, <2>4, RowNames DEF CohortInv, CohortTables
<1> HIDE DEF cohortOf
<1>6. \A p \in DOMAIN active' : \E id \in Unfinished : p = id[1] /\ active'[p] = Revive(id)
  BY <1>4, <1>5
<1>7. \A id \in Unfinished : id[1] \in DOMAIN active' /\ active'[id[1]] = Revive(id)
  BY <1>4, <1>5
<1>8. \A id \in Unfinished :
        LET r == Revive(id)
        IN /\ r = [entered |-> id[2], last |-> cohorts[id].last, covered |-> cohorts[id].covered, hole |-> cohorts[id].hole,
                   results |-> cohorts[id].results, revision |-> 0, saved |-> 0, urgent |-> 0, new |-> FALSE]
           /\ <<id[1], r.entered>> = id /\ r.entered = id[2]
  BY <1>5 DEF Revive, Resumed
<1>9. CohortType'
  BY <1>2 DEF CohortInv, CohortType
<1>10. CohortTables'
  BY <1>2 DEF CohortInv, CohortTables
<1>11. UnfinishedHeld'
  <2>1. Unfinished' = Unfinished
    BY <1>2 DEF Unfinished
  <2>2. RoomFor(Unfinished)
    BY DEF CohortInv, UnfinishedHeld
  <2>3. RoomFor(DOMAIN active')
    <3> DEFINE f == [p \in DOMAIN active' |-> cohortOf(p)]
    <3>1. \A p \in DOMAIN active' : cohortOf(p) \in Unfinished /\ cohortOf(p)[1] = p
      BY <1>5, <1>6
    <3>2. f \in Injection(DOMAIN active', Unfinished)
      BY <3>1 DEF Injection, IsInjective
    <3> HIDE DEF f
    <3>3. IsFiniteSet(DOMAIN active') /\ Cardinality(DOMAIN active') <= Cardinality(Unfinished)
      BY <2>2, <3>2, FS_Injection DEF RoomFor
    <3>4. Cardinality(DOMAIN active') \in Nat /\ Cardinality(Unfinished) \in Nat
      BY <2>2, <3>3, FS_CardinalityType DEF RoomFor
    <3>5. QED BY <2>2, <3>3, <3>4, SpanNumbers DEF RoomFor
  <2>4. \A id \in Unfinished : id[1] \in DOMAIN active' /\ IdOf(id[1])' = id
    BY <1>7, <1>8 DEF IdOf
  <2>5. QED BY <2>1, <2>2, <2>3, <2>4 DEF UnfinishedHeld, RoomFor
<1>12. CohortsInOrder'
  <2> SUFFICES ASSUME NEW p \in DOMAIN active', NEW a \in DOMAIN cohorts, a[1] = p
               PROVE  a[2] <= active'[p].entered /\ (a[2] < active'[p].entered => Over(cohorts[a], a[2], active'[p].entered))
    BY <1>2 DEF CohortInv, CohortsInOrder
  <2>1. PICK id \in Unfinished : p = id[1] /\ active'[p] = Revive(id)
    BY <1>6
  <2>2. active'[p].entered = id[2] /\ id \in DOMAIN cohorts
    BY <2>1, <1>5, <1>8
  <2>3. a[2] <= id[2]
    BY <2>1, UnfinishedAlone
  <2>4. QED BY <2>1, <2>2, <2>3 DEF CohortInv, CohortsInOrder
<1>13. (\A p \in DOMAIN active : ActiveSound(p))'
  <2> SUFFICES ASSUME NEW p \in DOMAIN active' PROVE ActiveSound(p)'
    OBVIOUS
  <2>1. PICK id \in Unfinished : p = id[1] /\ active'[p] = Revive(id)
    BY <1>6
  <2>2. id \in DOMAIN cohorts /\ SoundRow(watched[p], moment, id, cohorts[id])
    BY <2>1, <1>5 DEF CohortInv, CohortTables
  <2>3. p \in Routes /\ id[2] \in Nat /\ cohorts[id].results \in Verdicts /\ cohorts[id] = Row(cohorts[id])
        /\ ProgressSound(watched[p], id[2], cohorts[id], moment)
    BY <2>1, <2>2, RowNames DEF SoundRow
  <2> DEFINE r == Revive(id)
  <2>4. /\ r = [entered |-> id[2], last |-> cohorts[id].last, covered |-> cohorts[id].covered, hole |-> cohorts[id].hole,
                   results |-> cohorts[id].results, revision |-> 0, saved |-> 0, urgent |-> 0, new |-> FALSE]
        /\ <<p, r.entered>> = id
    BY <1>8, <2>1
  <2> HIDE DEF r
  <2>5. /\ r.entered = id[2] /\ r.last = cohorts[id].last /\ r.covered = cohorts[id].covered /\ r.hole = cohorts[id].hole
        /\ r.results = cohorts[id].results /\ r.revision = 0 /\ r.saved = 0 /\ r.new = FALSE /\ RecordShape(r)
    BY <2>3, <2>4 DEF RecordShape
  <2>6. ProgressSound(watched[p], id[2], r, moment)
    BY <2>3, <2>5, ProgressCopied
  <2>7. SoundRecord(watched[p], moment, r)
    <3>1. r.new \in BOOLEAN
      BY <2>5, Zenon
    <3>2. ProgressSound(watched[p], r.entered, r, moment)
      BY <2>5, <2>6
    <3>3. r.saved \in Nat /\ r.saved <= r.revision
      BY <2>5
    <3>4. QED BY <2>5, <3>1, <3>2, <3>3 DEF SoundRecord
  <2>8. Row(r) = cohorts[id]
    <3>1. Row(r) = Row(cohorts[id])
      BY <2>5, RowsOfProgress DEF Progress
    <3>2. QED BY <3>1, <2>3
  <2>9. Holds(cohorts[id], r)
    BY <2>3, <2>5, <2>8, ExtendsOrders DEF Holds
  <2>10. active'[p] = r /\ IdOf(p)' = id
    BY <2>1, <2>4 DEF r, IdOf
  <2>11. QED BY <1>2, <2>2, <2>3, <2>7, <2>9, <2>10 DEF ActiveSound
<1>14. (\A p \in DOMAIN saving : CopySound(p))'
  BY <1>2 DEF Nothing
<1>15. QED BY <1>9, <1>10, <1>11, <1>12, <1>13, <1>14 DEF CohortInv

\* A new cohort: its record is sound, and every cohort before it is over.
LEMMA EnrollKeepsCohorts ==
  ASSUME CohortInv, NEW p \in Routes, Enroll(p)
  PROVE  CohortInv'
<1> DEFINE r == [entered |-> moment, last |-> moment, covered |-> [h \in Spans |-> 0], hole |-> [h \in Spans |-> 0],
                 results |-> <<>>, revision |-> 1, saved |-> 0, urgent |-> 1, new |-> TRUE]
<1>1. /\ moment' = moment /\ cohorts' = cohorts /\ outcomes' = outcomes /\ watched' = watched
      /\ open' = open /\ recorded' = recorded /\ saving' = saving /\ saving = Nothing /\ open
      /\ p \notin DOMAIN active /\ <<p, moment>> \notin DOMAIN cohorts /\ Cardinality(DOMAIN active) < ActiveLimit
      /\ active' = Atop([q \in {p} |-> r], active)
  BY DEF Enroll, tables
<1>2. moment \in Nat
  BY LooksAre
<1>3. /\ r.entered = moment /\ r.last = moment /\ r.covered = [h \in Spans |-> 0] /\ r.hole = [h \in Spans |-> 0]
      /\ r.results = <<>> /\ r.revision = 1 /\ r.saved = 0 /\ r.new = TRUE /\ RecordShape(r)
  BY <1>2 DEF RecordShape
<1> HIDE DEF r
<1>4. /\ DOMAIN active' = {p} \cup DOMAIN active /\ active'[p] = r
      /\ \A q \in DOMAIN active : active'[q] = active[q]
  <2> DEFINE f == [q \in {p} |-> r]
  <2>1. DOMAIN f = {p} /\ f[p] = r
    OBVIOUS
  <2> HIDE DEF f
  <2> DEFINE a == Atop(f, active)
  <2>2. /\ DOMAIN a = DOMAIN f \cup DOMAIN active
        /\ \A x \in DOMAIN f : a[x] = f[x]
        /\ \A x \in DOMAIN active \ DOMAIN f : a[x] = active[x]
    BY AtopIs
  <2>3. active' = a
    BY <1>1 DEF f
  <2> HIDE DEF a
  <2>4. QED BY <1>1, <2>1, <2>2, <2>3
<1>5. SoundRecord(watched[p], moment, r)
  <2>1. r.results \in Verdicts /\ DOMAIN r.results = {}
    <3>1. DOMAIN <<>> = {} /\ <<>> \in [{} -> Verdict]
      OBVIOUS
    <3>2. QED BY <1>3, <3>1 DEF Verdicts
  <2>2. ProgressType(r)
    BY <1>2, <1>3, <2>1 DEF ProgressType
  <2>3. moment \in LookedTill(watched[p], moment, moment)
    BY DEF LookedTill
  <2>4. VerdictsSound(watched[p], moment, r, moment)
    BY <2>1 DEF VerdictsSound
  <2>5. SecondsCounted(watched[p], moment, r)
    <3> SUFFICES ASSUME NEW h \in Spans
                 PROVE  /\ r.last < moment + h
                        /\ r.covered[h] <= Cardinality(SeenTill(watched[p], moment, r.last))
                        /\ r.hole[h] <= MaxHole =>
                             \A t \in moment .. (r.last - 1) :
                               \E u \in LookedTill(watched[p], moment, r.last) : t < u /\ u <= t + MaxHole
      BY DEF SecondsCounted
    <3>1. h \in Nat \ {0} /\ r.covered[h] = 0
      BY <1>3, SpanNumbers
    <3>2. SeenTill(watched[p], moment, moment) \subseteq moment .. moment
      BY <1>2 DEF SeenTill, SeenBefore
    <3>3. Cardinality(SeenTill(watched[p], moment, moment)) \in Nat
      BY <1>2, <3>2, SecondsCount
    <3>4. moment .. (moment - 1) = {}
      BY <1>2
    <3>5. QED BY <1>2, <1>3, <3>1, <3>3, <3>4
  <2>6. ProgressSound(watched[p], r.entered, r, moment)
    BY <1>2, <1>3, <2>2, <2>3, <2>4, <2>5 DEF ProgressSound
  <2>7. r.new \in BOOLEAN
    BY <1>3, Zenon
  <2>8. r.saved \in Nat /\ r.saved <= r.revision
    BY <1>3
  <2>9. QED BY <1>3, <2>6, <2>7, <2>8 DEF SoundRecord
<1>6. CohortType' /\ CohortTables'
  BY <1>1 DEF CohortInv, CohortType, CohortTables
<1>7. UnfinishedHeld'
  <2>1. RoomFor(DOMAIN active')
    <3>1. IsFiniteSet(DOMAIN active)
      BY DEF CohortInv, UnfinishedHeld, RoomFor
    <3>2. IsFiniteSet(DOMAIN active \cup {p}) /\ Cardinality(DOMAIN active \cup {p}) = Cardinality(DOMAIN active) + 1
          /\ Cardinality(DOMAIN active) \in Nat
      BY <1>1, <3>1, FS_AddElement, FS_CardinalityType
    <3>3. DOMAIN active' = DOMAIN active \cup {p}
      BY <1>4
    <3>4. QED BY <1>1, <3>2, <3>3, SpanNumbers DEF RoomFor
  <2>2. Unfinished' = Unfinished
    BY <1>1 DEF Unfinished
  <2>3. \A id \in Unfinished : id[1] \in DOMAIN active' /\ IdOf(id[1])' = id
    BY <1>1, <1>4 DEF CohortInv, UnfinishedHeld, IdOf
  <2>4. QED BY <2>1, <2>2, <2>3 DEF CohortInv, UnfinishedHeld, RoomFor
<1>8. CohortsInOrder'
  <2> SUFFICES ASSUME NEW q \in DOMAIN active', NEW a \in DOMAIN cohorts, a[1] = q
               PROVE  a[2] <= active'[q].entered /\ (a[2] < active'[q].entered => Over(cohorts[a], a[2], active'[q].entered))
    BY <1>1 DEF CohortInv, CohortsInOrder
  <2>1. CASE q # p
    BY <2>1, <1>4 DEF CohortInv, CohortsInOrder
  <2>2. CASE q = p
    <3>1. active'[q].entered = moment
      BY <2>2, <1>3, <1>4
    <3>2. SoundRow(watched[p], moment, a, cohorts[a])
      BY <2>2 DEF CohortInv, CohortTables
    <3>3. cohorts[a].finished
      BY <2>2, <1>1 DEF CohortInv, UnfinishedHeld, Unfinished
    <3>4. a[2] <= moment /\ DOMAIN cohorts[a].results = Spans
      BY <3>2, <3>3, RowNames DEF Finished
    <3>5. \A h \in Spans : cohorts[a].results[h].moved \/ moment >= a[2] + h
      <4>1. \A h \in Spans : cohorts[a].results[h].moved \/ a[2] + h <= moment
        BY <3>2, <3>4 DEF SoundRow, ProgressSound, VerdictsSound
      <4>2. QED BY <4>1
    <3>6. QED BY <3>1, <3>3, <3>4, <3>5 DEF Over
  <2>3. QED BY <2>1, <2>2
<1>9. (\A q \in DOMAIN active : ActiveSound(q))'
  <2> SUFFICES ASSUME NEW q \in DOMAIN active' PROVE ActiveSound(q)'
    OBVIOUS
  <2>1. CASE q # p
    <3>1. q \in DOMAIN active /\ active'[q] = active[q]
      BY <2>1, <1>4
    <3>2. ActiveSound(q)
      BY <3>1 DEF CohortInv
    <3>3. QED BY <1>1, <3>1, <3>2 DEF ActiveSound, IdOf
  <2>2. CASE q = p
    <3>1. IdOf(p)' = <<p, moment>>
      BY <1>3, <1>4 DEF IdOf
    <3>2. QED BY <1>1, <1>3, <1>4, <1>5, <2>2, <3>1 DEF ActiveSound
  <2>3. QED BY <2>1, <2>2
<1>10. (\A q \in DOMAIN saving : CopySound(q))'
  BY <1>1 DEF Nothing
<1>11. QED BY <1>6, <1>7, <1>8, <1>9, <1>10 DEF CohortInv

\* Records of one path before and after a step that may add verdicts, make them final and
\* count its changes, leaving rows and copies behind.
Advances(r, y) ==
  /\ y.entered = r.entered /\ y.saved = r.saved /\ y.new = r.new /\ r.revision <= y.revision
  /\ r.revision = y.revision => Progress(y) = Progress(r)
  /\ Extends(r.results, y.results)

\* What was true of the row and the copy of a record stays so.
LEMMA AdvanceKeeps ==
  ASSUME NEW looks, NEW at, NEW r, SoundRecord(looks, at, r), NEW seen, NEW then, NEW y, SoundRecord(seen, then, y), Advances(r, y)
  PROVE  /\ \A row : row.results \in Verdicts /\ Holds(row, r) => Holds(row, y)
         /\ \A c : c.results \in Verdicts /\ c.revision \in Nat /\ LeftBehind(c, r) => LeftBehind(c, y)
<1>1. /\ r.results \in Verdicts /\ y.results \in Verdicts /\ r.revision \in Nat /\ y.revision \in Nat
      /\ r.saved \in Nat /\ r.saved <= r.revision
  BY DEF SoundRecord, RecordShape, ProgressSound, ProgressType
<1>2. \A a \in Verdicts : Extends(a, r.results) => Extends(a, y.results)
  BY <1>1, ExtendsOrders DEF Advances
<1>3. ASSUME NEW row, row.results \in Verdicts, Holds(row, r) PROVE Holds(row, y)
  <2>1. Extends(row.results, y.results)
    BY <1>2, <1>3 DEF Holds
  <2>2. ASSUME ~ y.new, y.saved = y.revision PROVE row = Row(y)
    <3>1. r.revision = y.revision /\ ~ r.new /\ r.saved = r.revision
      BY <1>1, <2>2 DEF Advances
    <3>2. Row(y) = Row(r)
      BY <3>1, RowsOfProgress DEF Advances
    <3>3. QED BY <1>3, <3>1, <3>2 DEF Holds
  <2>3. QED BY <2>1, <2>2 DEF Holds
<1>4. ASSUME NEW c, c.results \in Verdicts, c.revision \in Nat, LeftBehind(c, r) PROVE LeftBehind(c, y)
  <2>1. Extends(c.results, y.results)
    BY <1>2, <1>4 DEF LeftBehind
  <2>2. c.entered = y.entered /\ y.saved < c.revision /\ c.revision <= y.revision
    BY <1>1, <1>4 DEF LeftBehind, Advances
  <2>3. ASSUME c.revision = y.revision PROVE Progress(c) = Progress(y)
    <3>1. c.revision = r.revision /\ r.revision = y.revision
      BY <1>1, <1>4, <2>3 DEF LeftBehind, Advances
    <3>2. QED BY <1>4, <3>1 DEF LeftBehind, Advances
  <2>4. QED BY <2>1, <2>2, <2>3 DEF LeftBehind
<1>5. QED BY <1>3, <1>4

\* A step that only advances records and adds looks of this moment.
AdvanceStep ==
  /\ moment' = moment /\ cohorts' = cohorts /\ outcomes' = outcomes /\ open' = open /\ recorded' = recorded
  /\ saving' = saving /\ open /\ DOMAIN active' = DOMAIN active
  /\ watched' \in [Routes -> SUBSET Nat]
  /\ \A p \in Routes : watched[p] \subseteq watched'[p] /\ \A t \in watched'[p] : t <= moment
  /\ \A p \in DOMAIN active : Advances(active[p], active'[p]) /\ SoundRecord(watched'[p], moment, active'[p])

\* It keeps the invariant.
LEMMA AdvanceKeepsCohorts ==
  ASSUME CohortInv, AdvanceStep
  PROVE  CohortInv'
<1>1. \A p \in Routes : \A r, id :
        /\ SoundRecord(watched[p], moment, r) => SoundRecord(watched'[p], moment, r)
        /\ SoundRow(watched[p], moment, id, r) => SoundRow(watched'[p], moment, id, r)
  <2> SUFFICES ASSUME NEW p \in Routes, NEW r, NEW id
               PROVE  /\ SoundRecord(watched[p], moment, r) => SoundRecord(watched'[p], moment, r)
                      /\ SoundRow(watched[p], moment, id, r) => SoundRow(watched'[p], moment, id, r)
    OBVIOUS
  <2>1. moment \in Nat /\ moment <= moment /\ watched[p] \in SUBSET Nat /\ watched'[p] \in SUBSET Nat /\ watched[p] \subseteq watched'[p]
    BY LooksAre DEF AdvanceStep
  <2>2. QED BY <2>1, SoundStays
<1>2. CohortType'
  BY DEF CohortInv, CohortType, AdvanceStep
<1>3. CohortTables'
  <2> SUFFICES ASSUME NEW id \in DOMAIN cohorts
               PROVE  SoundRow(watched'[id[1]], moment, id, cohorts[id]) /\ OutcomesOf(cohorts[id], outcomes[id])
    BY DEF CohortTables, CohortInv, AdvanceStep
  <2>1. SoundRow(watched[id[1]], moment, id, cohorts[id]) /\ OutcomesOf(cohorts[id], outcomes[id])
    BY DEF CohortInv, CohortTables
  <2>2. id[1] \in Routes
    BY <2>1, RowNames
  <2>3. QED BY <1>1, <2>1, <2>2
<1>4. \A p \in DOMAIN active : active'[p].entered = active[p].entered /\ IdOf(p)' = IdOf(p)
  BY DEF AdvanceStep, Advances, IdOf
<1>5. UnfinishedHeld'
  <2>1. Unfinished' = Unfinished
    BY DEF Unfinished, AdvanceStep
  <2>2. QED BY <2>1, <1>4 DEF UnfinishedHeld, CohortInv, AdvanceStep, RoomFor
<1>6. CohortsInOrder'
  BY <1>4 DEF CohortsInOrder, CohortInv, AdvanceStep
<1>7. \A id \in DOMAIN cohorts : cohorts[id].results \in Verdicts
  BY RowNames DEF CohortInv, CohortTables
<1>8. (\A p \in DOMAIN active : ActiveSound(p))'
  <2> SUFFICES ASSUME NEW p \in DOMAIN active PROVE ActiveSound(p)'
    BY DEF AdvanceStep
  <2>1. ActiveSound(p)
    BY DEF CohortInv
  <2>2. /\ SoundRecord(watched[p], moment, active[p]) /\ SoundRecord(watched'[p], moment, active'[p])
        /\ Advances(active[p], active'[p])
    BY <2>1 DEF ActiveSound, AdvanceStep
  <2>3. IdOf(p) \in DOMAIN cohorts => Holds(cohorts[IdOf(p)], active'[p])
    BY <1>7, <2>1, <2>2, AdvanceKeeps DEF ActiveSound
  <2>4. ~ active'[p].new => IdOf(p) \in DOMAIN cohorts
    BY <2>1, <2>2 DEF ActiveSound, Advances
  <2>5. QED BY <1>4, <2>1, <2>2, <2>3, <2>4 DEF ActiveSound, AdvanceStep
<1>9. (\A p \in DOMAIN saving : CopySound(p))'
  <2> SUFFICES ASSUME NEW p \in DOMAIN saving PROVE CopySound(p)'
    BY DEF AdvanceStep
  <2>1. CopySound(p) /\ p \in Routes /\ p \in DOMAIN active
    BY DEF CohortInv, CopySound, ActiveSound
  <2>2. /\ SoundRecord(watched[p], moment, active[p]) /\ SoundRecord(watched'[p], moment, active'[p])
        /\ Advances(active[p], active'[p])
    BY <2>1 DEF CohortInv, ActiveSound, AdvanceStep
  <2>3. SoundRecord(watched'[p], moment, saving[p])
    BY <1>1, <2>1 DEF CopySound
  <2>4. saving[p].results \in Verdicts /\ saving[p].revision \in Nat
    BY <2>3 DEF SoundRecord, RecordShape, ProgressSound, ProgressType
  <2>5. LeftBehind(saving[p], active'[p])
    BY <2>1, <2>2, <2>4, AdvanceKeeps DEF CopySound
  <2>6. QED BY <1>4, <2>1, <2>3, <2>5 DEF CopySound, AdvanceStep
<1>10. QED BY <1>2, <1>3, <1>5, <1>6, <1>8, <1>9 DEF CohortInv

\* An observation is such a step.
LEMMA ObserveKeepsCohorts ==
  ASSUME CohortInv, NEW p \in Routes, NEW seen \in BOOLEAN, NEW moved \in BOOLEAN, ObserveRoutes(p, seen, moved)
  PROVE  CohortInv'
<1> DEFINE value == seen /\ ~ moved
           y == Observed(active[p], seen, moved)
<1>1. /\ moment' = moment /\ cohorts' = cohorts /\ outcomes' = outcomes /\ open' = open /\ recorded' = recorded
      /\ saving' = saving /\ open /\ p \in DOMAIN active
      /\ active' = [active EXCEPT ![p] = y]
      /\ watched' = [watched EXCEPT ![p] = IF value THEN watched[p] \cup {moment} ELSE watched[p]]
  BY DEF ObserveRoutes, tables
<1>2. watched \in [Routes -> SUBSET Nat] /\ moment \in Nat /\ \A q \in Routes : \A t \in watched[q] : t <= moment
  BY DEF CohortInv, CohortType
<1>3. /\ watched' \in [Routes -> SUBSET Nat] /\ watched'[p] = LooksThen(watched[p], value)
      /\ \A q \in Routes \ {p} : watched'[q] = watched[q]
  BY <1>1, <1>2 DEF LooksThen
<1>4. \A q \in Routes : watched[q] \subseteq watched'[q] /\ \A t \in watched'[q] : t <= moment
  BY <1>2, <1>3 DEF LooksThen
<1>5. ActiveSound(p)
  BY <1>1 DEF CohortInv
<1> DEFINE r == active[p]
<1>6. /\ RecordShape(r) /\ ProgressSound(watched[p], r.entered, r, moment) /\ r.saved \in Nat /\ r.saved <= r.revision
      /\ r.new \in BOOLEAN /\ r.revision \in Nat
  BY <1>5 DEF ActiveSound, SoundRecord, RecordShape
<1>7. /\ ProgressSound(LooksThen(watched[p], value), r.entered, y, moment)
      /\ Extends(r.results, y.results)
      /\ RecordShape(y) /\ y.entered = r.entered /\ y.saved = r.saved /\ y.new = r.new
      /\ r.revision <= y.revision /\ (r.revision = y.revision => Progress(y) = Progress(r))
  <2> HIDE DEF r
  <2>1. watched[p] \in SUBSET Nat /\ \A t \in watched[p] : t <= moment
    BY <1>2
  <2>2. y = Observed(r, seen, moved)
    BY DEF r
  <2>3. QED BY <1>2, <1>6, <2>1, <2>2, ObservationSound
<1> HIDE DEF y, value
<1>8. Advances(r, y)
  BY <1>7 DEF Advances
<1>9. SoundRecord(watched'[p], moment, y)
  <2>1. y.revision \in Nat /\ y.saved <= y.revision
    BY <1>6, <1>7 DEF RecordShape
  <2>2. QED BY <1>3, <1>6, <1>7, <2>1 DEF SoundRecord
<1>10. ASSUME NEW q \in DOMAIN active
       PROVE  Advances(active[q], active'[q]) /\ SoundRecord(watched'[q], moment, active'[q])
  <2>1. CASE q = p
    <3>1. active'[p] = y
      BY <1>1
    <3>2. QED BY <2>1, <3>1, <1>8, <1>9
  <2>2. CASE q # p
    <3>1. active'[q] = active[q] /\ q \in Routes /\ SoundRecord(watched[q], moment, active[q])
      BY <1>1, <2>2 DEF CohortInv, ActiveSound
    <3>2. watched'[q] = watched[q]
      BY <1>3, <2>2, <3>1
    <3>3. active[q].results \in Verdicts /\ active[q].revision \in Nat
      BY <3>1 DEF SoundRecord, RecordShape, ProgressSound, ProgressType
    <3>4. Advances(active[q], active[q])
      BY <3>3, ExtendsOrders DEF Advances
    <3>5. QED BY <3>1, <3>2, <3>4
  <2>3. QED BY <2>1, <2>2
<1>11. AdvanceStep
  BY <1>1, <1>3, <1>4, <1>10 DEF AdvanceStep
<1>12. QED BY <1>11, AdvanceKeepsCohorts

\* A record when the funding of some of its verdicts, D, is known.
FundedOf(r, D, final) ==
  [r EXCEPT !.results = [h \in DOMAIN r.results |-> IF h \in D THEN [r.results[h] EXCEPT !.final = final[h]]
                                                    ELSE r.results[h]],
            !.revision = r.revision + Cardinality(D), !.urgent = r.revision + Cardinality(D)]

\* The funding of some of a record's verdicts: those it is asked for, which are not final.
LEMMA FundingAdvances ==
  ASSUME NEW looks, NEW at \in Nat, NEW r, SoundRecord(looks, at, r), NEW D \in SUBSET DOMAIN r.results, D # {},
         \A h \in D : ~ r.results[h].final, NEW final \in [D -> BOOLEAN], NEW y, y = FundedOf(r, D, final)
  PROVE  Advances(r, y) /\ SoundRecord(looks, at, y)
<1> DEFINE res == [h \in DOMAIN r.results |-> IF h \in D THEN [r.results[h] EXCEPT !.final = final[h]] ELSE r.results[h]]
           n == r.revision + Cardinality(D)
<1>1. /\ RecordShape(r) /\ r.saved \in Nat /\ r.saved <= r.revision /\ r.new \in BOOLEAN /\ r.revision \in Nat /\ r.entered \in Nat
      /\ ProgressSound(looks, r.entered, r, at) /\ ProgressType(r) /\ r.results \in Verdicts
  BY DEF SoundRecord, RecordShape, ProgressSound, ProgressType
<1>2. DOMAIN r.results \subseteq Spans /\ \A h \in DOMAIN r.results : r.results[h] \in Verdict
  BY <1>1 DEF Verdicts
<1>3. n \in Nat /\ r.revision < n
  <2>1. IsFiniteSet(Spans)
    BY CohortAssumption DEF CohortAssumption
  <2>2. IsFiniteSet(D) /\ Cardinality(D) \in Nat /\ Cardinality(D) # 0
    BY <1>2, <2>1, FS_Subset, FS_CardinalityType, FS_EmptySet
  <2>3. QED BY <1>1, <2>2
<1>4. /\ DOMAIN res = DOMAIN r.results
      /\ \A h \in D : res[h] = [r.results[h] EXCEPT !.final = final[h]]
      /\ \A h \in DOMAIN r.results \ D : res[h] = r.results[h]
      /\ res = [h \in DOMAIN r.results |-> res[h]]
  OBVIOUS
<1>5. y = [entered |-> r.entered, last |-> r.last, covered |-> r.covered, hole |-> r.hole, results |-> res,
           revision |-> n, saved |-> r.saved, urgent |-> n, new |-> r.new]
  <2>1. y = [r EXCEPT !.results = res, !.revision = n, !.urgent = n]
    BY DEF FundedOf
  <2> HIDE DEF res, n
  <2>2. QED BY <1>1, <2>1 DEF RecordShape
<1> HIDE DEF res, n
<1>6. /\ y.entered = r.entered /\ y.last = r.last /\ y.covered = r.covered /\ y.hole = r.hole /\ y.results = res
      /\ y.revision = n /\ y.saved = r.saved /\ y.new = r.new
      /\ y = [entered |-> y.entered, last |-> y.last, covered |-> y.covered, hole |-> y.hole,
              results |-> y.results, revision |-> y.revision, saved |-> y.saved, urgent |-> y.urgent,
              new |-> y.new]
  <2>1. /\ y.entered = r.entered /\ y.last = r.last /\ y.covered = r.covered /\ y.hole = r.hole /\ y.results = res
        /\ y.revision = n /\ y.saved = r.saved /\ y.new = r.new /\ y.urgent = n
    BY <1>5
  <2>2. QED BY <1>5, <2>1
<1>7. ASSUME NEW h \in DOMAIN r.results
      PROVE  /\ res[h] \in Verdict /\ res[h].status = r.results[h].status /\ res[h].moved = r.results[h].moved
             /\ res[h] \in {[r.results[h] EXCEPT !.final = f] : f \in {r.results[h].final, TRUE}}
  <2> DEFINE v == r.results[h]
  <2>1. v \in Verdict
    BY <1>2
  <2>2. v.status \in {"observed", "insufficient"} /\ v.moved \in BOOLEAN /\ v.final \in BOOLEAN
        /\ v = [status |-> v.status, moved |-> v.moved, final |-> v.final]
    BY <2>1 DEF Verdict
  <2>3. CASE h \in D
    <3> DEFINE f == final[h]
    <3>1. f \in BOOLEAN /\ v.final = FALSE
      BY <2>2, <2>3
    <3>2. res[h] = [v EXCEPT !.final = f]
      BY <1>4, <2>3
    <3> HIDE DEF v, f
    <3>3. res[h] = [status |-> v.status, moved |-> v.moved, final |-> f]
      BY <2>2, <3>2
    <3>4. res[h] \in Verdict /\ res[h].status = v.status /\ res[h].moved = v.moved
      BY <2>2, <3>1, <3>3 DEF Verdict
    <3>5. f \in {v.final, TRUE}
      BY <3>1, Zenon
    <3>6. QED BY <3>2, <3>4, <3>5 DEF v
  <2>4. CASE h \notin D
    <3>1. res[h] = v
      BY <1>4, <2>4
    <3> HIDE DEF v
    <3>2. v = [v EXCEPT !.final = v.final]
      BY <2>2
    <3>3. QED BY <2>1, <3>1, <3>2 DEF v
  <2>5. QED BY <2>3, <2>4
<1>8. Extends(r.results, y.results)
  BY <1>4, <1>6, <1>7 DEF Extends
<1>9. ProgressSound(looks, r.entered, y, at)
  <2>1. y.results \in Verdicts
    <3>1. res \in [DOMAIN r.results -> Verdict]
      BY <1>4, <1>7
    <3>2. QED BY <1>2, <1>6, <3>1 DEF Verdicts
  <2>2. ProgressType(y)
    BY <1>1, <1>6, <2>1 DEF ProgressType
  <2>3. VerdictsSound(looks, r.entered, y, at)
    BY <1>1, <1>4, <1>6, <1>7 DEF ProgressSound, VerdictsSound
  <2>4. SecondsCounted(looks, r.entered, y)
    BY <1>1, <1>4, <1>6 DEF ProgressSound, SecondsCounted
  <2>5. QED BY <1>1, <1>6, <2>2, <2>3, <2>4 DEF ProgressSound
<1>10. Advances(r, y)
  BY <1>1, <1>3, <1>6, <1>8 DEF Advances
<1>11. RecordShape(y) /\ y.saved \in Nat /\ y.saved <= y.revision /\ y.new \in BOOLEAN
  BY <1>1, <1>3, <1>6 DEF RecordShape
<1>12. QED BY <1>6, <1>9, <1>10, <1>11 DEF SoundRecord

\* The settled funding of the horizons that are due.
LEMMA FundKeepsCohorts ==
  ASSUME CohortInv, Fund
  PROVE  CohortInv'
<1> DEFINE of(p) == {h \in Spans : <<p, h>> \in Requests}
<1>1. PICK complete \in SUBSET Requests :
       LET final(p, h) == <<p, h>> \in complete \/ moment - (active[p].entered + h) >= FundingWait
           rev(p) == active[p].revision + Cardinality(of(p))
       IN active' = [p \in DOMAIN active |->
                       IF of(p) = {} THEN active[p]
                       ELSE [active[p] EXCEPT
                               !.results = [h \in DOMAIN @ |-> IF h \in of(p) THEN [@[h] EXCEPT !.final = final(p, h)]
                                                                              ELSE @[h]],
                               !.revision = rev(p), !.urgent = rev(p)]]
  BY DEF Fund
<1>2. /\ moment' = moment /\ cohorts' = cohorts /\ outcomes' = outcomes /\ open' = open /\ recorded' = recorded
      /\ saving' = saving /\ open /\ watched' = watched
  BY DEF Fund, tables
<1>3. watched \in [Routes -> SUBSET Nat] /\ moment \in Nat /\ \A q \in Routes : \A t \in watched[q] : t <= moment
  BY DEF CohortInv, CohortType
<1>4. ASSUME NEW p \in DOMAIN active
      PROVE  Advances(active[p], active'[p]) /\ SoundRecord(watched'[p], moment, active'[p])
  <2> DEFINE r == active[p]
             D == of(p)
             final == [h \in D |-> <<p, h>> \in complete \/ moment - (r.entered + h) >= FundingWait]
             res == [h \in DOMAIN r.results |-> IF h \in D THEN [r.results[h] EXCEPT !.final = final[h]] ELSE r.results[h]]
             n == r.revision + Cardinality(D)
  <2>1. SoundRecord(watched[p], moment, r)
    BY DEF CohortInv, ActiveSound
  <2>2. D \subseteq DOMAIN r.results /\ \A h \in D : ~ r.results[h].final
    BY DEF Requests
  <2>3. final \in [D -> BOOLEAN]
    OBVIOUS
  <2>4. CASE D = {}
    <3>1. active'[p] = r
      BY <1>1, <2>4
    <3>2. r.results \in Verdicts /\ r.revision \in Nat
      BY <2>1 DEF SoundRecord, RecordShape, ProgressSound, ProgressType
    <3> HIDE DEF r
    <3>3. Advances(r, r)
      BY <3>2, ExtendsOrders DEF Advances
    <3>4. QED BY <1>2, <2>1, <3>1, <3>3 DEF r
  <2>5. CASE D # {}
    <3>1. active'[p] = [r EXCEPT !.results = res, !.revision = n, !.urgent = n]
      <4>1. res = [h \in DOMAIN r.results |->
                     IF h \in D THEN [r.results[h] EXCEPT !.final = <<p, h>> \in complete \/ moment - (r.entered + h) >= FundingWait]
                     ELSE r.results[h]]
        OBVIOUS
      <4> HIDE DEF res
      <4>2. QED BY <1>1, <2>5, <4>1
    <3>2. active'[p] = FundedOf(r, D, final)
      BY <3>1 DEF FundedOf
    <3> HIDE DEF r, D, final
    <3>3. Advances(r, active'[p]) /\ SoundRecord(watched[p], moment, active'[p])
      BY <1>3, <2>1, <2>2, <2>3, <2>5, <3>2, FundingAdvances
    <3>4. QED BY <1>2, <3>3 DEF r
  <2>6. QED BY <2>4, <2>5
<1>5. AdvanceStep
  BY <1>1, <1>2, <1>3, <1>4 DEF AdvanceStep
<1>6. QED BY <1>5, AdvanceKeepsCohorts

\* The acknowledgement of what was copied and is in the table.
LEMMA AcknowledgeKeepsCohorts ==
  ASSUME CohortInv, AcknowledgeCohorts
  PROVE  CohortInv'
<1> DEFINE left == {p \in DOMAIN saving : Leaves(active[p], saving[p])}
<1>1. /\ moment' = moment /\ cohorts' = cohorts /\ outcomes' = outcomes /\ open' = open /\ watched' = watched
      /\ recorded' = FALSE /\ saving' = Nothing /\ recorded /\ saving # Nothing
      /\ active' = [p \in DOMAIN active \ left |->
                     IF p \in DOMAIN saving
                     THEN [active[p] EXCEPT !.saved = SavedUpTo(active[p], saving[p]), !.new = FALSE]
                     ELSE active[p]]
  BY DEF AcknowledgeCohorts, tables
<1>2. /\ DOMAIN active' = DOMAIN active \ left
      /\ \A p \in DOMAIN active' : active'[p] = IF p \in DOMAIN saving THEN [active[p] EXCEPT !.saved = saving[p].revision, !.new = FALSE]
                                                ELSE active[p]
  BY <1>1 DEF SavedUpTo
<1> HIDE DEF left
<1>3. ASSUME NEW p \in DOMAIN active'
      PROVE  /\ p \in DOMAIN active /\ ActiveSound(p) /\ active'[p].entered = active[p].entered /\ IdOf(p)' = IdOf(p)
             /\ p \notin DOMAIN saving => active'[p] = active[p]
             /\ p \in DOMAIN saving =>
                  /\ CopySound(p)
                  /\ active'[p] = [entered |-> active[p].entered, last |-> active[p].last, covered |-> active[p].covered,
                                   hole |-> active[p].hole, results |-> active[p].results, revision |-> active[p].revision,
                                   saved |-> saving[p].revision, urgent |-> active[p].urgent, new |-> FALSE]
  <2>1. p \in DOMAIN active /\ ActiveSound(p) /\ (p \in DOMAIN saving => CopySound(p))
    BY <1>2 DEF CohortInv
  <2>2. active[p] = [entered |-> active[p].entered, last |-> active[p].last, covered |-> active[p].covered,
                     hole |-> active[p].hole, results |-> active[p].results, revision |-> active[p].revision,
                     saved |-> active[p].saved, urgent |-> active[p].urgent, new |-> active[p].new]
    BY <2>1 DEF ActiveSound, SoundRecord, RecordShape
  <2>3. p \in DOMAIN saving => active'[p] = [active[p] EXCEPT !.saved = saving[p].revision, !.new = FALSE]
    BY <1>2
  <2>4. p \in DOMAIN saving =>
           active'[p] = [entered |-> active[p].entered, last |-> active[p].last, covered |-> active[p].covered,
                         hole |-> active[p].hole, results |-> active[p].results, revision |-> active[p].revision,
                         saved |-> saving[p].revision, urgent |-> active[p].urgent, new |-> FALSE]
    BY <2>2, <2>3
  <2>5. p \notin DOMAIN saving => active'[p] = active[p]
    BY <1>2
  <2>6. active'[p].entered = active[p].entered
    BY <2>4, <2>5
  <2>7. QED BY <2>1, <2>4, <2>5, <2>6 DEF IdOf
<1>4. CohortType' /\ CohortTables'
  BY <1>1 DEF CohortInv, CohortType, CohortTables
<1>5. UnfinishedHeld'
  <2>1. Unfinished' = Unfinished
    BY <1>1 DEF Unfinished
  <2>2. RoomFor(DOMAIN active')
    <3>1. IsFiniteSet(DOMAIN active) /\ Cardinality(DOMAIN active) <= ActiveLimit /\ DOMAIN active' \subseteq DOMAIN active
      BY <1>2 DEF CohortInv, UnfinishedHeld, RoomFor
    <3>2. IsFiniteSet(DOMAIN active') /\ Cardinality(DOMAIN active') <= Cardinality(DOMAIN active)
          /\ Cardinality(DOMAIN active') \in Nat /\ Cardinality(DOMAIN active) \in Nat
      BY <3>1, FS_Subset, FS_CardinalityType
    <3>3. QED BY <3>1, <3>2, SpanNumbers DEF RoomFor
  <2>3. ASSUME NEW id \in Unfinished, open PROVE id[1] \in DOMAIN active' /\ IdOf(id[1])' = id
    <3>1. id[1] \in DOMAIN active /\ IdOf(id[1]) = id /\ id \in DOMAIN cohorts /\ ~ cohorts[id].finished
      BY <2>3 DEF CohortInv, UnfinishedHeld, Unfinished
    <3>2. id[1] \notin left
      <4> SUFFICES ASSUME id[1] \in left PROVE FALSE
        OBVIOUS
      <4>1. id[1] \in DOMAIN saving /\ Finished(saving[id[1]])
        BY DEF left, Leaves
      <4>2. cohorts[id] = Row(saving[id[1]])
        BY <1>1, <3>1, <4>1 DEF CohortInv, CopySound
      <4>3. QED BY <3>1, <4>1, <4>2 DEF Row
    <3>3. id[1] \in DOMAIN active'
      BY <1>2, <3>1, <3>2
    <3>4. QED BY <1>3, <3>1, <3>3
  <2>4. QED BY <1>1, <2>1, <2>2, <2>3 DEF CohortInv, UnfinishedHeld, RoomFor
<1>6. CohortsInOrder'
  BY <1>1, <1>3 DEF CohortInv, CohortsInOrder
<1>7. (\A p \in DOMAIN active : ActiveSound(p))'
  <2> SUFFICES ASSUME NEW p \in DOMAIN active' PROVE ActiveSound(p)'
    OBVIOUS
  <2>1. CASE p \notin DOMAIN saving
    BY <1>1, <1>3, <2>1 DEF ActiveSound
  <2>2. CASE p \in DOMAIN saving
    <3> DEFINE r == active[p]
               y == active'[p]
               c == saving[p]
    <3>1. /\ p \in Routes /\ SoundRecord(watched[p], moment, r) /\ SoundRecord(watched[p], moment, c) /\ LeftBehind(c, r)
          /\ IdOf(p) \in DOMAIN cohorts /\ cohorts[IdOf(p)] = Row(c)
      BY <1>1, <1>3, <2>2 DEF ActiveSound, CopySound
    <3>2. y = [entered |-> r.entered, last |-> r.last, covered |-> r.covered, hole |-> r.hole, results |-> r.results,
               revision |-> r.revision, saved |-> c.revision, urgent |-> r.urgent, new |-> FALSE]
      BY <1>3, <2>2
    <3>3. IdOf(p)' = IdOf(p)
      BY <1>3
    <3> HIDE DEF r, y, c
    <3>4. /\ y.entered = r.entered /\ y.last = r.last /\ y.covered = r.covered /\ y.hole = r.hole /\ y.results = r.results
          /\ y.revision = r.revision /\ y.saved = c.revision /\ y.new = FALSE
          /\ y = [entered |-> y.entered, last |-> y.last, covered |-> y.covered, hole |-> y.hole,
                  results |-> y.results, revision |-> y.revision, saved |-> y.saved, urgent |-> y.urgent,
                  new |-> y.new]
      BY <3>2
    <3>5. c.revision \in Nat /\ r.revision \in Nat /\ c.revision <= r.revision /\ r.entered \in Nat
          /\ ProgressSound(watched[p], r.entered, r, moment)
      BY <3>1 DEF SoundRecord, RecordShape, LeftBehind
    <3>6. ProgressSound(watched[p], r.entered, y, moment)
      BY <3>4, <3>5, ProgressCopied
    <3>7. SoundRecord(watched[p], moment, y)
      <4>1. y.new \in BOOLEAN
        BY <3>4, Zenon
      <4>2. RecordShape(y) /\ y.saved \in Nat /\ y.saved <= y.revision /\ ProgressSound(watched[p], y.entered, y, moment)
        BY <3>4, <3>5, <3>6 DEF RecordShape
      <4>3. QED BY <4>1, <4>2 DEF SoundRecord
    <3>8. Extends(Row(c).results, y.results)
      BY <3>1, <3>4 DEF Row, LeftBehind
    <3>9. ASSUME y.saved = y.revision PROVE Row(c) = Row(y)
      <4>1. Progress(c) = Progress(r)
        BY <3>1, <3>4, <3>9 DEF LeftBehind
      <4>2. Progress(y) = Progress(r)
        BY <3>4 DEF Progress
      <4>3. QED BY <4>1, <4>2, RowsOfProgress
    <3>10. Holds(Row(c), y)
      BY <3>8, <3>9 DEF Holds
    <3>11. QED BY <1>1, <3>1, <3>3, <3>7, <3>10 DEF ActiveSound, y
  <2>3. QED BY <2>1, <2>2
<1>8. (\A p \in DOMAIN saving : CopySound(p))'
  <2>1. saving' = <<>>
    BY <1>1 DEF Nothing
  <2>2. DOMAIN saving' = {}
    BY <2>1
  <2>3. QED BY <2>2
<1>9. QED BY <1>4, <1>5, <1>6, <1>7, <1>8 DEF CohortInv

\* The outcomes of a record's row, over those that are known: the status stays.
OutcomesOver(r, known) ==
  Atop([h \in DOMAIN r.results |-> [status |-> IF h \in DOMAIN known THEN known[h].status ELSE r.results[h].status,
                                    payload |-> r.results[h]]], known)

\* They are those of the row, and keep what was known.
LEMMA OutcomesWritten ==
  ASSUME NEW r, r.results \in Verdicts, NEW known, NEW row, row.results \in Verdicts, OutcomesOf(row, known),
         Extends(row.results, r.results)
  PROVE  /\ OutcomesOf(Row(r), OutcomesOver(r, known))
         /\ \A h \in DOMAIN known :
              /\ OutcomesOver(r, known)[h].status = known[h].status
              /\ OutcomesOver(r, known)[h].payload \in {[known[h].payload EXCEPT !.final = f] : f \in {known[h].payload.final, TRUE}}
<1> DEFINE f == [h \in DOMAIN r.results |-> [status |-> IF h \in DOMAIN known THEN known[h].status ELSE r.results[h].status,
                                             payload |-> r.results[h]]]
           o == Atop(f, known)
<1>1. /\ DOMAIN f = DOMAIN r.results
      /\ \A h \in DOMAIN f : /\ f[h].payload = r.results[h]
                             /\ f[h].status = IF h \in DOMAIN known THEN known[h].status ELSE r.results[h].status
  OBVIOUS
<1>2. /\ DOMAIN row.results = DOMAIN known
      /\ \A h \in DOMAIN known : row.results[h] = known[h].payload /\ known[h].status = known[h].payload.status
  BY DEF OutcomesOf
<1>3. DOMAIN known \subseteq DOMAIN r.results
      /\ \A h \in DOMAIN known : r.results[h] \in {[row.results[h] EXCEPT !.final = x] : x \in {row.results[h].final, TRUE}}
  BY <1>2 DEF Extends
<1> HIDE DEF f
<1>4. DOMAIN o = DOMAIN r.results /\ \A h \in DOMAIN r.results : o[h] = f[h]
  <2>1. /\ DOMAIN o = DOMAIN f \cup DOMAIN known
        /\ \A x \in DOMAIN f : o[x] = f[x]
    BY AtopIs
  <2> HIDE DEF o
  <2>2. QED BY <1>1, <1>3, <2>1
<1>5. OutcomesOver(r, known) = o
  BY DEF OutcomesOver, f
<1> HIDE DEF o
<1>6. ASSUME NEW h \in DOMAIN known PROVE r.results[h].status = known[h].status
  <2> DEFINE v == row.results[h]
  <2>1. PICK x \in {v.final, TRUE} : r.results[h] = [v EXCEPT !.final = x]
    BY <1>3
  <2>2. v \in Verdict
    BY <1>2 DEF Verdicts
  <2>3. v = [status |-> v.status, moved |-> v.moved, final |-> v.final]
    BY <2>2 DEF Verdict
  <2>4. v.status = known[h].status
    BY <1>2
  <2> HIDE DEF v
  <2>5. r.results[h].status = v.status
    BY <2>1, <2>3
  <2>6. QED BY <2>4, <2>5
<1>7. Row(r).results = r.results /\ r.results = [h \in DOMAIN r.results |-> r.results[h]]
  BY DEF Row, Verdicts
<1>8. \A h \in DOMAIN r.results : o[h].payload = r.results[h] /\ o[h].status = r.results[h].status
  BY <1>1, <1>4, <1>6
<1>9. OutcomesOf(Row(r), o)
  BY <1>4, <1>7, <1>8 DEF OutcomesOf
<1>10. \A h \in DOMAIN known :
         o[h].status = known[h].status /\ o[h].payload \in {[known[h].payload EXCEPT !.final = x] : x \in {known[h].payload.final, TRUE}}
  BY <1>2, <1>3, <1>6, <1>8
<1>11. QED BY <1>5, <1>9, <1>10

\* The outcomes that are known of a cohort.
KnownOf(id) == IF id \in DOMAIN outcomes THEN outcomes[id] ELSE <<>>

\* What a commit writes: a row for every copy, none ignored, over the outcomes that are known.
LEMMA CommitWrites ==
  ASSUME CohortInv, CommitCohorts
  PROVE  /\ saving # Nothing /\ open /\ recorded' = TRUE
         /\ moment' = moment /\ open' = open /\ active' = active /\ saving' = saving /\ watched' = watched
         /\ DOMAIN cohorts' = DOMAIN cohorts \cup {IdOf(p) : p \in DOMAIN saving} /\ DOMAIN outcomes' = DOMAIN cohorts'
         /\ \A p \in DOMAIN saving : /\ cohorts'[IdOf(p)] = Row(saving[p])
                                     /\ outcomes'[IdOf(p)] = OutcomesOver(saving[p], KnownOf(IdOf(p)))
         /\ \A id \in DOMAIN cohorts : (\A p \in DOMAIN saving : id # IdOf(p)) => cohorts'[id] = cohorts[id] /\ outcomes'[id] = outcomes[id]
<1> DEFINE idOf(p) == <<p, saving[p].entered>>
           through == {p \in DOMAIN saving : idOf(p) \in DOMAIN cohorts \/ ~ Ignored(idOf(p), saving[p])}
           ids == {idOf(p) : p \in DOMAIN saving}
           known(p) == IF idOf(p) \in DOMAIN outcomes THEN outcomes[idOf(p)] ELSE <<>>
           outcome(p, h) == [status |-> IF h \in DOMAIN known(p) THEN known(p)[h].status ELSE saving[p].results[h].status,
                             payload |-> saving[p].results[h]]
           rows == [id \in {idOf(p) : p \in through} |-> Row(saving[id[1]])]
           outs == [id \in ids |-> Atop([h \in DOMAIN saving[id[1]].results |-> outcome(id[1], h)], known(id[1]))]
<1>1. /\ saving # Nothing /\ recorded' = TRUE
      /\ moment' = moment /\ open' = open /\ active' = active /\ saving' = saving /\ watched' = watched
      /\ cohorts' = Atop(rows, cohorts) /\ outcomes' = Atop(outs, outcomes)
  BY DEF CommitCohorts, memory
<1>2. open
  BY <1>1 DEF CohortInv, CohortType
<1>3. \A p \in DOMAIN saving : p \in DOMAIN active /\ idOf(p) = IdOf(p)
  BY DEF CohortInv, CopySound, LeftBehind, IdOf
<1>4. through = DOMAIN saving
  <2> SUFFICES ASSUME NEW p \in DOMAIN saving PROVE ~ Ignored(idOf(p), saving[p])
    OBVIOUS
  <2>1. ASSUME NEW other \in Unfinished, other[1] = p PROVE other = idOf(p)
    BY <1>2, <1>3, <2>1 DEF CohortInv, UnfinishedHeld
  <2>2. idOf(p)[1] = p
    OBVIOUS
  <2> HIDE DEF idOf
  <2>3. QED BY <2>1, <2>2 DEF Ignored
<1>5. /\ DOMAIN rows = ids /\ DOMAIN outs = ids
      /\ \A p \in DOMAIN saving : /\ rows[IdOf(p)] = Row(saving[p])
                                  /\ outs[IdOf(p)] = OutcomesOver(saving[p], KnownOf(IdOf(p)))
  <2>1. DOMAIN rows = ids
    BY <1>4
  <2>2. DOMAIN outs = ids
    OBVIOUS
  <2>3. ASSUME NEW p \in DOMAIN saving
        PROVE  /\ rows[IdOf(p)] = Row(saving[p])
               /\ outs[IdOf(p)] = OutcomesOver(saving[p], KnownOf(IdOf(p)))
    <3>1. IdOf(p) = idOf(p) /\ idOf(p)[1] = p /\ idOf(p) \in ids
      BY <1>3
    <3>2. rows[idOf(p)] = Row(saving[p])
      BY <1>4, <3>1
    <3>3. outs[idOf(p)] = Atop([h \in DOMAIN saving[p].results |-> outcome(p, h)], known(p))
      BY <3>1
    <3>4. known(p) = KnownOf(idOf(p))
      BY DEF KnownOf
    <3>5. Atop([h \in DOMAIN saving[p].results |-> outcome(p, h)], known(p)) = OutcomesOver(saving[p], known(p))
      <4> HIDE DEF known
      <4>1. QED BY DEF OutcomesOver
    <3>6. QED BY <3>1, <3>2, <3>3, <3>4, <3>5
  <2>4. QED BY <2>1, <2>2, <2>3
<1>6. ids = {IdOf(p) : p \in DOMAIN saving}
  BY <1>3
<1> HIDE DEF rows, outs, ids, through
<1>7. /\ DOMAIN cohorts' = ids \cup DOMAIN cohorts
      /\ \A x \in ids : cohorts'[x] = rows[x]
      /\ \A x \in DOMAIN cohorts \ ids : cohorts'[x] = cohorts[x]
  <2> DEFINE a == Atop(rows, cohorts)
  <2>1. /\ DOMAIN a = DOMAIN rows \cup DOMAIN cohorts
        /\ \A x \in DOMAIN rows : a[x] = rows[x]
        /\ \A x \in DOMAIN cohorts \ DOMAIN rows : a[x] = cohorts[x]
    BY AtopIs
  <2>2. cohorts' = a
    BY <1>1
  <2> HIDE DEF a
  <2>3. QED BY <1>5, <2>1, <2>2
<1>8. /\ DOMAIN outcomes' = ids \cup DOMAIN outcomes
      /\ \A x \in ids : outcomes'[x] = outs[x]
      /\ \A x \in DOMAIN outcomes \ ids : outcomes'[x] = outcomes[x]
  <2> DEFINE a == Atop(outs, outcomes)
  <2>1. /\ DOMAIN a = DOMAIN outs \cup DOMAIN outcomes
        /\ \A x \in DOMAIN outs : a[x] = outs[x]
        /\ \A x \in DOMAIN outcomes \ DOMAIN outs : a[x] = outcomes[x]
    BY AtopIs
  <2>2. outcomes' = a
    BY <1>1
  <2> HIDE DEF a
  <2>3. QED BY <1>5, <2>1, <2>2
<1>9. DOMAIN outcomes = DOMAIN cohorts
  BY DEF CohortInv, CohortTables
<1>10. \A p \in DOMAIN saving : IdOf(p) \in ids
  BY <1>6
<1>11. \A id \in DOMAIN cohorts : (\A p \in DOMAIN saving : id # IdOf(p)) => id \notin ids
  BY <1>6
<1>12. QED BY <1>1, <1>2, <1>5, <1>6, <1>7, <1>8, <1>9, <1>10, <1>11

\* The outcomes of a copy that is being written, before and after the commit.
LEMMA CopyOutcomes ==
  ASSUME CohortInv, NEW p \in DOMAIN saving
  PROVE  LET out == OutcomesOver(saving[p], KnownOf(IdOf(p)))
         IN /\ OutcomesOf(Row(saving[p]), out)
            /\ IdOf(p) \in DOMAIN cohorts =>
                 \A h \in DOMAIN outcomes[IdOf(p)] :
                   /\ out[h].status = outcomes[IdOf(p)][h].status
                   /\ out[h].payload \in {[outcomes[IdOf(p)][h].payload EXCEPT !.final = f] :
                                            f \in {outcomes[IdOf(p)][h].payload.final, TRUE}}
<1> DEFINE id == IdOf(p)
           c == saving[p]
<1>1. CopySound(p) /\ SoundRecord(watched[p], moment, c)
  BY DEF CohortInv, CopySound
<1>2. c.results \in Verdicts
  BY <1>1 DEF SoundRecord, ProgressSound, ProgressType
<1>3. CASE id \in DOMAIN cohorts
  <2>1. KnownOf(id) = outcomes[id] /\ OutcomesOf(cohorts[id], outcomes[id]) /\ cohorts[id].results \in Verdicts
    BY <1>3, RowNames DEF CohortInv, CohortTables, KnownOf
  <2>2. Extends(cohorts[id].results, c.results)
    BY <1>1, <1>3 DEF CopySound
  <2> HIDE DEF c, id
  <2>3. /\ OutcomesOf(Row(c), OutcomesOver(c, outcomes[id]))
        /\ \A h \in DOMAIN outcomes[id] :
              /\ OutcomesOver(c, outcomes[id])[h].status = outcomes[id][h].status
              /\ OutcomesOver(c, outcomes[id])[h].payload \in
                   {[outcomes[id][h].payload EXCEPT !.final = f] : f \in {outcomes[id][h].payload.final, TRUE}}
    <3> DEFINE known == outcomes[id]
               row == cohorts[id]
    <3>1. c.results \in Verdicts /\ row.results \in Verdicts /\ OutcomesOf(row, known) /\ Extends(row.results, c.results)
      BY <1>2, <2>1, <2>2 DEF c
    <3> HIDE DEF known, row
    <3>2. /\ OutcomesOf(Row(c), OutcomesOver(c, known))
          /\ \A h \in DOMAIN known :
                /\ OutcomesOver(c, known)[h].status = known[h].status
                /\ OutcomesOver(c, known)[h].payload \in {[known[h].payload EXCEPT !.final = f] : f \in {known[h].payload.final, TRUE}}
      BY <3>1, OutcomesWritten
    <3>3. QED BY <3>2 DEF known
  <2>4. QED BY <2>1, <2>3 DEF c, id
<1>4. CASE id \notin DOMAIN cohorts
  <2> DEFINE row == [results |-> <<>>]
             none == <<>>
  <2>1. KnownOf(id) = none
    BY <1>4 DEF KnownOf, CohortInv, CohortTables
  <2>2. row.results = <<>> /\ DOMAIN <<>> = {} /\ <<>> \in [{} -> Verdict] /\ [h \in {} |-> <<>>[h].payload] = <<>>
    OBVIOUS
  <2>3. row.results \in Verdicts
    BY <2>2 DEF Verdicts
  <2>4. DOMAIN none = {} /\ row.results = none /\ [h \in {} |-> none[h].payload] = none
    BY <2>2
  <2> HIDE DEF row, none, c, id
  <2>5. OutcomesOf(row, none) /\ Extends(row.results, c.results)
    BY <2>4 DEF OutcomesOf, Extends
  <2>6. OutcomesOf(Row(c), OutcomesOver(c, none))
    BY <1>2, <2>3, <2>5, OutcomesWritten
  <2>7. QED BY <1>4, <2>1, <2>6 DEF c, id
<1>5. QED BY <1>3, <1>4

\* The commit: every cohort that is being written, none ignored.
LEMMA CommitKeepsCohorts ==
  ASSUME CohortInv, CommitCohorts
  PROVE  CohortInv'
<1>1. /\ saving # Nothing /\ open /\ recorded' = TRUE
      /\ moment' = moment /\ open' = open /\ active' = active /\ saving' = saving /\ watched' = watched
      /\ DOMAIN cohorts' = DOMAIN cohorts \cup {IdOf(p) : p \in DOMAIN saving} /\ DOMAIN outcomes' = DOMAIN cohorts'
      /\ \A p \in DOMAIN saving : /\ cohorts'[IdOf(p)] = Row(saving[p])
                                  /\ outcomes'[IdOf(p)] = OutcomesOver(saving[p], KnownOf(IdOf(p)))
      /\ \A id \in DOMAIN cohorts : (\A p \in DOMAIN saving : id # IdOf(p)) => cohorts'[id] = cohorts[id] /\ outcomes'[id] = outcomes[id]
  BY CommitWrites
<1>2. \A p \in DOMAIN saving : CopySound(p) /\ p \in DOMAIN active /\ p \in Routes /\ SoundRecord(watched[p], moment, saving[p])
  BY DEF CohortInv, CopySound, ActiveSound
<1>3. ASSUME NEW id \in DOMAIN cohorts'
      PROVE  \/ \E p \in DOMAIN saving : id = IdOf(p)
             \/ id \in DOMAIN cohorts /\ cohorts'[id] = cohorts[id] /\ outcomes'[id] = outcomes[id]
                /\ \A p \in DOMAIN saving : id # IdOf(p)
  BY <1>1
<1>4. ASSUME NEW p \in DOMAIN saving
      PROVE  /\ IdOf(p)[1] = p /\ IdOf(p)[2] = active[p].entered /\ saving[p].entered = active[p].entered
             /\ SoundRow(watched[p], moment, IdOf(p), Row(saving[p])) /\ saving[p].results \in Verdicts
  <2>1. saving[p].entered = active[p].entered
    BY <1>2 DEF CopySound, LeftBehind
  <2>2. SoundRow(watched[p], moment, <<p, saving[p].entered>>, Row(saving[p])) /\ saving[p].results \in Verdicts
    BY <1>2, LooksAre, RowIsSound
  <2>3. QED BY <2>1, <2>2 DEF IdOf
<1>5. CohortType'
  BY <1>1 DEF CohortInv, CohortType
<1>6. CohortTables'
  <2> SUFFICES ASSUME NEW id \in DOMAIN cohorts'
               PROVE  SoundRow(watched[id[1]], moment, id, cohorts'[id]) /\ OutcomesOf(cohorts'[id], outcomes'[id])
    BY <1>1 DEF CohortTables
  <2>1. CASE \E p \in DOMAIN saving : id = IdOf(p)
    <3>1. PICK p \in DOMAIN saving : id = IdOf(p)
      BY <2>1
    <3>2. cohorts'[id] = Row(saving[p]) /\ outcomes'[id] = OutcomesOver(saving[p], KnownOf(IdOf(p))) /\ id[1] = p
      BY <1>1, <1>4, <3>1
    <3>3. OutcomesOf(Row(saving[p]), OutcomesOver(saving[p], KnownOf(IdOf(p))))
      BY CopyOutcomes
    <3>4. QED BY <1>4, <3>1, <3>2, <3>3
  <2>2. CASE id \in DOMAIN cohorts /\ cohorts'[id] = cohorts[id] /\ outcomes'[id] = outcomes[id]
    BY <2>2 DEF CohortInv, CohortTables
  <2>3. QED BY <1>3, <2>1, <2>2
<1>7. \A id \in Unfinished' : id[1] \in DOMAIN active /\ IdOf(id[1]) = id
  <2> SUFFICES ASSUME NEW id \in DOMAIN cohorts', ~ cohorts'[id].finished
               PROVE  id[1] \in DOMAIN active /\ IdOf(id[1]) = id
    BY DEF Unfinished
  <2>1. CASE \E p \in DOMAIN saving : id = IdOf(p)
    <3>1. PICK p \in DOMAIN saving : id = IdOf(p)
      BY <2>1
    <3>2. id[1] = p
      BY <1>4, <3>1
    <3>3. QED BY <1>2, <3>1, <3>2
  <2>2. CASE id \in DOMAIN cohorts /\ cohorts'[id] = cohorts[id]
    BY <1>1, <2>2 DEF CohortInv, UnfinishedHeld, Unfinished
  <2>3. QED BY <1>3, <2>1, <2>2
<1>8. UnfinishedHeld'
  <2>1. RoomFor(DOMAIN active)
    BY DEF CohortInv, UnfinishedHeld
  <2>2. \A a, b \in Unfinished' : a[1] = b[1] => a = b
    <3> SUFFICES ASSUME NEW a \in Unfinished', NEW b \in Unfinished', a[1] = b[1] PROVE a = b
      OBVIOUS
    <3>1. IdOf(a[1]) = a /\ IdOf(b[1]) = b
      BY <1>7
    <3>2. IdOf(a[1]) = IdOf(b[1])
      OBVIOUS
    <3>3. QED BY <3>1, <3>2
  <2> DEFINE S == Unfinished'
             T == DOMAIN active
  <2>3. (\A id \in S : id[1] \in T) /\ (\A a, b \in S : a[1] = b[1] => a = b) /\ RoomFor(T) /\ ActiveLimit \in Nat
    BY <1>7, <2>1, <2>2, SpanNumbers
  <2> HIDE DEF S, T
  <2>4. RoomFor(S)
    BY <2>3, NamesFit
  <2>5. IsFiniteSet(Unfinished') /\ Cardinality(Unfinished') <= ActiveLimit
    BY <2>4 DEF RoomFor, S
  <2>6. \A p : IdOf(p)' = IdOf(p)
    BY <1>1 DEF IdOf
  <2>7. QED BY <1>1, <1>7, <2>1, <2>5, <2>6 DEF UnfinishedHeld, RoomFor
<1>9. \A p \in DOMAIN saving : \A b \in DOMAIN cohorts : b[1] = p => b[2] <= IdOf(p)[2]
  BY <1>2, <1>4 DEF CohortInv, CohortsInOrder
<1>10. CohortsInOrder'
  <2>1. ASSUME NEW p \in DOMAIN active, NEW a \in DOMAIN cohorts', a[1] = p
        PROVE  a[2] <= active[p].entered /\ (a[2] < active[p].entered => Over(cohorts'[a], a[2], active[p].entered))
    <3>1. CASE \E q \in DOMAIN saving : a = IdOf(q)
      <4>1. PICK q \in DOMAIN saving : a = IdOf(q)
        BY <3>1
      <4>2. q = p /\ a[2] = active[p].entered
        BY <1>4, <2>1, <4>1
      <4>3. active[p].entered \in Nat
        BY <1>2, <1>4, <4>1, <4>2 DEF SoundRecord, RecordShape
      <4>4. QED BY <4>2, <4>3
    <3>2. CASE a \in DOMAIN cohorts /\ cohorts'[a] = cohorts[a]
      BY <2>1, <3>2 DEF CohortInv, CohortsInOrder
    <3>3. QED BY <1>3, <3>1, <3>2
  <2>2. ASSUME NEW a \in DOMAIN cohorts', NEW b \in DOMAIN cohorts', a[1] = b[1], a[2] < b[2]
        PROVE  Over(cohorts'[a], a[2], b[2])
    <3>1. CASE \E p \in DOMAIN saving : b = IdOf(p)
      <4>1. PICK p \in DOMAIN saving : b = IdOf(p)
        BY <3>1
      <4>2. b[1] = p /\ b[2] = active[p].entered /\ p \in DOMAIN active
        BY <1>2, <1>4, <4>1
      <4>3. QED BY <2>1, <2>2, <4>2
    <3>2. CASE b \in DOMAIN cohorts /\ ~ \E p \in DOMAIN saving : b = IdOf(p)
      <4>1. a \in DOMAIN cohorts /\ cohorts'[a] = cohorts[a]
        <5>1. SUFFICES ASSUME NEW p \in DOMAIN saving, a = IdOf(p) PROVE FALSE
          BY <1>3
        <5>2. a[1] = p /\ b[2] <= a[2]
          BY <1>4, <1>9, <2>2, <3>2, <5>1
        <5>3. a[2] \in Nat /\ b[2] \in Nat
          BY <1>4, <3>2, <5>1, RowNames DEF CohortInv, CohortTables
        <5>4. QED BY <2>2, <5>2, <5>3
      <4>2. QED BY <2>2, <3>2, <4>1 DEF CohortInv, CohortsInOrder
    <3>3. QED BY <1>3, <3>1, <3>2
  <2>3. QED BY <1>1, <2>1, <2>2 DEF CohortsInOrder
<1>11. (\A p \in DOMAIN active : ActiveSound(p))'
  <2> SUFFICES ASSUME NEW p \in DOMAIN active PROVE ActiveSound(p)'
    BY <1>1
  <2>1. ActiveSound(p) /\ IdOf(p)' = IdOf(p)
    BY <1>1 DEF CohortInv, IdOf
  <2>2. CASE p \in DOMAIN saving
    <3> DEFINE c == saving[p]
               r == active[p]
    <3>1. LeftBehind(c, r) /\ c.revision \in Nat /\ r.revision \in Nat /\ r.saved \in Nat
      BY <1>2, <2>1, <2>2 DEF CopySound, ActiveSound, SoundRecord, RecordShape
    <3>2. Row(c).results = c.results
      BY DEF Row
    <3> HIDE DEF c, r
    <3>3. r.saved # r.revision
      BY <3>1 DEF LeftBehind
    <3>4. Holds(Row(c), r)
      BY <3>1, <3>2, <3>3 DEF Holds, LeftBehind
    <3>5. QED BY <1>1, <2>1, <2>2, <3>4 DEF ActiveSound, c, r
  <2>3. CASE p \notin DOMAIN saving
    <3>1. \A q \in DOMAIN saving : IdOf(p) # IdOf(q)
      BY <2>3 DEF IdOf
    <3>2. IdOf(p) \in DOMAIN cohorts => cohorts'[IdOf(p)] = cohorts[IdOf(p)]
      BY <1>1, <3>1
    <3>3. IdOf(p) \in DOMAIN cohorts' => IdOf(p) \in DOMAIN cohorts
      BY <1>3, <3>1
    <3>4. QED BY <1>1, <2>1, <3>2, <3>3 DEF ActiveSound
  <2>4. QED BY <2>2, <2>3
<1>12. (\A p \in DOMAIN saving : CopySound(p))'
  <2> SUFFICES ASSUME NEW p \in DOMAIN saving PROVE CopySound(p)'
    BY <1>1
  <2>1. CopySound(p) /\ IdOf(p)' = IdOf(p) /\ cohorts'[IdOf(p)] = Row(saving[p]) /\ IdOf(p) \in DOMAIN cohorts'
    BY <1>1, <1>2 DEF IdOf
  <2>2. Row(saving[p]).results = saving[p].results
    BY DEF Row
  <2>3. Extends(saving[p].results, saving[p].results)
    BY <1>4, ExtendsOrders
  <2>4. QED BY <1>1, <2>1, <2>2, <2>3 DEF CopySound
<1>13. QED BY <1>5, <1>6, <1>8, <1>10, <1>11, <1>12 DEF CohortInv

\* Every step keeps the invariant, and so does one that changes nothing.
LEMMA CohortStep ==
  ASSUME CohortInv, [CohortNext]_cohortVars
  PROVE  CohortInv'
<1>1. CASE UNCHANGED cohortVars
  BY <1>1 DEF CohortInv, CohortType, CohortTables, UnfinishedHeld, Unfinished, IdOf, RoomFor, CohortsInOrder,
              ActiveSound, CopySound, cohortVars, memory, tables
<1>2. CASE CohortNext
  <2>1. ASSUME NEW p \in Routes, Enroll(p) PROVE CohortInv'
    BY <2>1, EnrollKeepsCohorts
  <2>2. ASSUME NEW p \in Routes, NEW seen \in BOOLEAN, NEW moved \in BOOLEAN, ObserveRoutes(p, seen, moved) PROVE CohortInv'
    BY <2>2, ObserveKeepsCohorts
  <2>3. QED BY <1>2, <2>1, <2>2, FundKeepsCohorts, RestoreKeepsCohorts, CopyKeepsCohorts, CommitKeepsCohorts,
               BreaksKeepCohorts, AcknowledgeKeepsCohorts, LaterKeepsCohorts DEF CohortNext
<1>3. QED BY <1>1, <1>2

\* It holds at first.
LEMMA CohortStarts ==
  ASSUME CohortInit
  PROVE  CohortInv
<1>1. /\ moment = 0 /\ open = FALSE /\ active = <<>> /\ cohorts = <<>> /\ outcomes = <<>> /\ saving = Nothing
      /\ recorded = FALSE /\ watched = [p \in Routes |-> {}]
  BY DEF CohortInit
<1>2. DOMAIN cohorts = {} /\ DOMAIN outcomes = {} /\ DOMAIN active = {} /\ DOMAIN saving = {}
  BY <1>1 DEF Nothing
<1>3. Unfinished = {} /\ RoomFor({})
  BY <1>2, FS_EmptySet, SpanNumbers DEF Unfinished, RoomFor
<1>4. CohortType
  BY <1>1 DEF CohortType
<1>5. CohortTables /\ UnfinishedHeld /\ CohortsInOrder
  BY <1>2, <1>3 DEF CohortTables, UnfinishedHeld, CohortsInOrder
<1>6. QED BY <1>2, <1>4, <1>5 DEF CohortInv

-----------------------------------------------------------------------------
(* What follows of it. *)

\* The results in the tables were watched, saved as they stand and final before the next cohort.
LEMMA CohortInvGives ==
  ASSUME CohortInv
  PROVE  CohortsAreSound
<1>1. ASSUME NEW id \in DOMAIN outcomes
      PROVE  /\ id \in DOMAIN cohorts /\ SoundRow(watched[id[1]], moment, id, cohorts[id])
             /\ OutcomesOf(cohorts[id], outcomes[id])
             /\ DOMAIN cohorts[id].results = DOMAIN outcomes[id] /\ cohorts[id].results \in Verdicts
             /\ id[1] \in Routes /\ id[2] \in Nat
             /\ \A h \in DOMAIN outcomes[id] : /\ cohorts[id].results[h] = outcomes[id][h].payload
                                               /\ outcomes[id][h].status = cohorts[id].results[h].status
  <2>1. id \in DOMAIN cohorts /\ SoundRow(watched[id[1]], moment, id, cohorts[id]) /\ OutcomesOf(cohorts[id], outcomes[id])
    BY DEF CohortInv, CohortTables
  <2>2. /\ DOMAIN cohorts[id].results = DOMAIN outcomes[id]
        /\ \A h \in DOMAIN outcomes[id] : /\ cohorts[id].results[h] = outcomes[id][h].payload
                                          /\ outcomes[id][h].status = cohorts[id].results[h].status
    BY <2>1 DEF OutcomesOf
  <2>3. QED BY <2>1, <2>2, RowNames
<1>2. ObservedIsWatched
  <2> SUFFICES ASSUME NEW id \in DOMAIN outcomes, NEW h \in DOMAIN outcomes[id], outcomes[id][h].status = "observed"
               PROVE  /\ \E t \in Looked(id, h) : t >= id[2] + h
                      /\ Cardinality({t \in id[2] .. (id[2] + h - 1) : Seen(id, h, t)}) >= Share[h]
                      /\ \A t \in id[2] .. (id[2] + h - MaxHole - 1) :
                           \E u \in Looked(id, h) : t < u /\ u <= t + MaxHole + 1
    BY DEF ObservedIsWatched
  <2> DEFINE e == id[2]
             looks == watched[id[1]]
             L == LookedTill(looks, e, e + h + Grace)
  <2>1. h \in DOMAIN cohorts[id].results /\ cohorts[id].results[h].status = "observed" /\ h \in Spans /\ h \in Nat /\ e \in Nat
    BY <1>1, SpanNumbers DEF Verdicts
  <2>2. WatchedEnough(looks, e, h)
    BY <1>1, <2>1 DEF SoundRow, ProgressSound, VerdictsSound
  <2>3. Looked(id, h) = L /\ \A t : Seen(id, h, t) <=> SeenIn(L, t)
    BY DEF Looked, LookedTill, Seen, SeenIn
  <2>4. e + h - 1 = (e + h) - 1 /\ e + h - MaxHole - 1 = (e + h) - MaxHole - 1
    BY <2>1, SpanNumbers
  <2>5. SeenBefore(e + h, looks, e, e + h + Grace) = {t \in e .. (e + h - 1) : Seen(id, h, t)}
    <3>1. SeenBefore(e + h, looks, e, e + h + Grace) = {t \in e .. ((e + h) - 1) : SeenIn(L, t)}
      BY DEF SeenBefore
    <3> HIDE DEF L, e
    <3>2. QED BY <2>3, <2>4, <3>1
  <2>6. /\ \E t \in L : t >= e + h
        /\ Cardinality(SeenBefore(e + h, looks, e, e + h + Grace)) >= Share[h]
        /\ \A t \in e .. ((e + h) - MaxHole - 1) : \E u \in L : t < u /\ u <= t + MaxHole + 1
    BY <2>2 DEF WatchedEnough
  <2>7. Cardinality({t \in e .. (e + h - 1) : Seen(id, h, t)}) >= Share[h]
    BY <2>5, <2>6
  <2>8. \A t \in e .. (e + h - MaxHole - 1) : \E u \in L : t < u /\ u <= t + MaxHole + 1
    <3> HIDE DEF L
    <3>1. QED BY <2>4, <2>6
  <2>9. QED BY <2>3, <2>6, <2>7, <2>8
<1>3. CohortsFollow
  <2> SUFFICES ASSUME NEW a \in DOMAIN cohorts, NEW b \in DOMAIN cohorts, a[1] = b[1], a[2] < b[2]
               PROVE  /\ cohorts[a].finished /\ a \in DOMAIN outcomes /\ DOMAIN outcomes[a] = Spans
                      /\ \A h \in Spans : b[2] >= a[2] + h \/ outcomes[a][h].payload.moved
    BY DEF CohortsFollow
  <2>1. a \in DOMAIN outcomes /\ Over(cohorts[a], a[2], b[2])
    BY DEF CohortInv, CohortTables, CohortsInOrder
  <2>2. cohorts[a].finished /\ \A h \in Spans : cohorts[a].results[h].moved \/ b[2] >= a[2] + h
    BY <2>1 DEF Over
  <2>3. DOMAIN cohorts[a].results = Spans
    BY <1>1, <2>1, <2>2, RowNames DEF Finished
  <2>4. QED BY <1>1, <2>1, <2>2, <2>3
<1>4. SavedIsStored
  <2>1. ASSUME NEW p \in DOMAIN active, ~ active[p].new, active[p].saved = active[p].revision
        PROVE  IdOf(p) \in DOMAIN cohorts /\ cohorts[IdOf(p)] = Row(active[p])
    BY <2>1 DEF CohortInv, ActiveSound, Holds
  <2>2. ASSUME NEW id \in DOMAIN outcomes
        PROVE  /\ id \in DOMAIN cohorts
               /\ cohorts[id].results = [h \in DOMAIN outcomes[id] |-> outcomes[id][h].payload]
               /\ \A h \in DOMAIN outcomes[id] : outcomes[id][h].status = outcomes[id][h].payload.status
    BY <1>1 DEF OutcomesOf
  <2>3. QED BY <2>1, <2>2 DEF SavedIsStored
<1>5. QED BY <1>2, <1>3, <1>4 DEF CohortsAreSound

\* A verdict that was written stands: only its funding may become final.
LEMMA VerdictStands ==
  ASSUME CohortInv, [CohortNext]_cohortVars, NEW id \in DOMAIN outcomes, NEW h \in DOMAIN outcomes[id]
  PROVE  /\ outcomes'[id][h].status = outcomes[id][h].status
         /\ outcomes'[id][h].payload \in
              {[outcomes[id][h].payload EXCEPT !.final = f] : f \in {outcomes[id][h].payload.final, TRUE}}
<1>1. id \in DOMAIN cohorts /\ cohorts[id].results[h] = outcomes[id][h].payload /\ cohorts[id].results[h] \in Verdict
  <2>1. id \in DOMAIN cohorts /\ OutcomesOf(cohorts[id], outcomes[id]) /\ cohorts[id].results \in Verdicts
    BY RowNames DEF CohortInv, CohortTables
  <2>2. h \in DOMAIN cohorts[id].results /\ cohorts[id].results[h] = outcomes[id][h].payload
    BY <2>1 DEF OutcomesOf
  <2>3. QED BY <2>1, <2>2 DEF Verdicts
<1>2. CASE outcomes'[id] = outcomes[id]
  <2> DEFINE v == outcomes[id][h].payload
  <2>1. v \in Verdict
    BY <1>1
  <2> HIDE DEF v
  <2>2. v = [v EXCEPT !.final = v.final]
    BY <2>1 DEF Verdict
  <2>3. QED BY <1>2, <2>2 DEF v
<1>3. CASE CommitCohorts
  <2>1. CASE \A p \in DOMAIN saving : id # IdOf(p)
    <3>1. outcomes'[id] = outcomes[id]
      BY <1>1, <1>3, <2>1, CommitWrites
    <3>2. QED BY <1>2, <3>1
  <2>2. CASE \E p \in DOMAIN saving : id = IdOf(p)
    <3>1. PICK p \in DOMAIN saving : id = IdOf(p)
      BY <2>2
    <3>2. outcomes'[id] = OutcomesOver(saving[p], KnownOf(IdOf(p)))
      BY <1>3, <3>1, CommitWrites
    <3> DEFINE out == OutcomesOver(saving[p], KnownOf(IdOf(p)))
    <3>3. \A x \in DOMAIN outcomes[IdOf(p)] :
            /\ out[x].status = outcomes[IdOf(p)][x].status
            /\ out[x].payload \in {[outcomes[IdOf(p)][x].payload EXCEPT !.final = f] :
                                     f \in {outcomes[IdOf(p)][x].payload.final, TRUE}}
      BY <1>1, <3>1, CopyOutcomes
    <3>4. outcomes'[id] = out
      BY <3>2
    <3> HIDE DEF out
    <3>5. QED BY <3>1, <3>3, <3>4
  <2>3. QED BY <2>1, <2>2
<1>4. CASE ~ CommitCohorts
  <2>1. outcomes' = outcomes
    BY <1>4 DEF CohortNext, Enroll, ObserveRoutes, Fund, RestoreCohorts, CopyCohorts, FailCohorts, AcknowledgeCohorts,
                CohortsDie, LaterMoment, cohortVars, tables
  <2>2. QED BY <1>2, <2>1
<1>5. QED BY <1>3, <1>4

\* A result counts as observed only if the path was really looked at over its span, the
\* cohorts of a path follow each other and what a record takes for saved is in the table
\* (ValidationLedger.observe, enroll, persist and restore).
THEOREM CohortsSound == (CohortInit /\ [][CohortNext]_cohortVars) => []CohortsAreSound
<1>1. CohortInit => CohortInv
  BY CohortStarts
<1>2. CohortInv /\ [CohortNext]_cohortVars => CohortInv'
  BY CohortStep
<1>3. CohortInv => CohortsAreSound
  BY CohortInvGives
<1>4. QED BY <1>1, <1>2, <1>3, PTL

\* A verdict in the table is never taken back or changed: later evidence of the funding can
\* only make it final (ValidationLedger.persist's ON CONFLICT).
THEOREM OutcomesStand == (CohortInit /\ [][CohortNext]_cohortVars) => OutcomeStands
<1>1. CohortInit => CohortInv
  BY CohortStarts
<1>2. CohortInv /\ [CohortNext]_cohortVars => CohortInv'
  BY CohortStep
<1>3. CohortInv /\ [CohortNext]_cohortVars =>
        [\A id \in DOMAIN outcomes : \A h \in DOMAIN outcomes[id] :
           /\ outcomes'[id][h].status = outcomes[id][h].status
           /\ outcomes'[id][h].payload \in
                {[outcomes[id][h].payload EXCEPT !.final = f] : f \in {outcomes[id][h].payload.final, TRUE}}]_cohortVars
  BY VerdictStands
<1>4. QED BY <1>1, <1>2, <1>3, PTL DEF OutcomeStands

-----------------------------------------------------------------------------
(* Episodes: what readings say. *)

\* Readings, each later than the ones before it.
Reading == [at : Nat \ {0}, value : Int]
Timely(r) == r \in Seq(Reading) /\ \A i, j \in 1 .. Len(r) : i < j => r[i].at < r[j].at
\* The readings q go on with those of r.
Begins(r, q) == Len(r) <= Len(q) /\ \A i \in 1 .. Len(r) : q[i] = r[i]
Sides == {-1, 1}
\* An episode of direction d that the reading i opened and none has ended.
Runs(r, i, d) == Opens(r, i, d) /\ Ends(r, i, d) = {}
\* The active event of a state is the episode that goes on.
ActiveIs(r, a) ==
  IF a = Unknown THEN \A i \in 1 .. Len(r), d \in Sides : ~ Runs(r, i, d)
  ELSE \E i \in 1 .. Len(r), d \in Sides : Runs(r, i, d) /\ a = EpisodeAt(r, i, d)
\* The first of the highest among the readings from a to b.
Peaks(r, a, b, d, k) ==
  k \in a .. b /\ \A j \in a .. b : d * r[j].value < d * r[k].value \/ (r[j].value = r[k].value /\ k <= j)

\* A spread lifted to a side is a number, and is high on one side only.
LEMMA LiftedIs ==
  ASSUME NEW d \in Sides, NEW v \in Int
  PROVE  /\ d * v \in Int
         /\ d * v >= 4 => d = Side(v) /\ (v >= 4 \/ v <= -4) /\ \A e \in Sides : e # d => e * v <= 2
         /\ (v >= 4 \/ v <= -4) => Side(v) \in Sides /\ Side(v) * v >= 4
<1>1. CASE d = 1
  BY <1>1 DEF Sides, Side
<1>2. CASE d = -1
  BY <1>2 DEF Sides, Side
<1>3. QED BY <1>1, <1>2 DEF Sides

\* What a reading is.
LEMMA ReadingIs ==
  ASSUME NEW r, Timely(r), NEW i \in 1 .. Len(r)
  PROVE  /\ Len(r) \in Nat /\ i \in Nat /\ r[i] \in Reading /\ r[i].at \in Nat \ {0} /\ r[i].value \in Int
         /\ \A d \in Sides : d * r[i].value \in Int
<1>1. Len(r) \in Nat /\ r[i] \in Reading
  BY ElementOfSeq, LenProperties DEF Timely
<1>2. r[i].value \in Int /\ r[i].at \in Nat \ {0}
  BY <1>1 DEF Reading
<1>3. ASSUME NEW d \in Sides
      PROVE  d * r[i].value \in Int
  BY <1>2, LiftedIs
<1>4. i \in Nat
  BY <1>1
<1>5. QED BY <1>1, <1>2, <1>3, <1>4

\* One more reading is a new peak, or the peak stays.
LEMMA PeaksMore ==
  ASSUME NEW r, Timely(r), NEW d \in Sides, NEW a \in 1 .. Len(r), NEW b \in a .. Len(r), b + 1 <= Len(r), NEW k, Peaks(r, a, b, d, k)
  PROVE  Peaks(r, a, b + 1, d, IF d * r[b + 1].value > d * r[k].value THEN b + 1 ELSE k)
<1>0. Len(r) \in Nat /\ a \in Nat /\ b \in Nat /\ b + 1 \in 1 .. Len(r) /\ k \in 1 .. Len(r) /\ k \in a .. b
  BY LenProperties DEF Timely, Peaks
<1>1. \A j \in a .. (b + 1) : j \in 1 .. Len(r) /\ (j = b + 1 \/ j \in a .. b)
  BY <1>0
<1>2. \A j \in a .. (b + 1) : d * r[j].value \in Int /\ r[j].value \in Int
  BY <1>1, ReadingIs
<1>3. d * r[k].value \in Int /\ d * r[b + 1].value \in Int /\ r[k].value \in Int /\ r[b + 1].value \in Int
  BY <1>0, ReadingIs
<1>4. CASE d * r[b + 1].value > d * r[k].value
  <2>1. \A j \in a .. b : d * r[j].value < d * r[b + 1].value
    <3>1. ASSUME NEW j \in a .. b
          PROVE  d * r[j].value < d * r[b + 1].value
      <4>1. d * r[j].value < d * r[k].value \/ r[j].value = r[k].value
        BY DEF Peaks
      <4>2. d * r[j].value <= d * r[k].value
        BY <4>1, <1>2, <1>3, <1>0
      <4>3. d * r[j].value \in Int
        BY <1>2, <1>0
      <4>4. QED BY <4>2, <4>3, <1>3, <1>4
    <3>2. QED BY <3>1
  <2>2. b + 1 \in a .. (b + 1) /\ b + 1 <= b + 1
    BY <1>0
  <2>3. QED BY <2>1, <2>2, <1>1, <1>4 DEF Peaks
<1>5. CASE ~ (d * r[b + 1].value > d * r[k].value)
  <2>1. d * r[b + 1].value < d * r[k].value \/ (r[b + 1].value = r[k].value /\ k <= b + 1)
    <3>1. d * r[b + 1].value < d * r[k].value \/ d * r[b + 1].value = d * r[k].value
      BY <1>3, <1>5
    <3>2. d * r[b + 1].value = d * r[k].value => r[b + 1].value = r[k].value
      <4>1. CASE d = 1
        BY <4>1, <1>3
      <4>2. CASE d = -1
        BY <4>2, <1>3
      <4>3. QED BY <4>1, <4>2 DEF Sides
    <3>3. QED BY <3>1, <3>2, <1>0
  <2>2. k \in a .. (b + 1)
    BY <1>0
  <2>3. QED BY <2>1, <2>2, <1>1, <1>5 DEF Peaks
<1>6. QED BY <1>4, <1>5

\* There is one, and no other.
LEMMA PeakExists ==
  ASSUME NEW r, Timely(r), NEW d \in Sides, NEW a \in 1 .. Len(r), NEW b \in a .. Len(r)
  PROVE  \E k : Peaks(r, a, b, d, k)
<1> DEFINE Bad == {n \in Nat : n \in a .. Len(r) /\ ~ \E k : Peaks(r, a, n, d, k)}
<1>0. Len(r) \in Nat /\ a \in Nat /\ b \in Nat
  BY LenProperties DEF Timely
<1>1. SUFFICES ASSUME Bad # {} PROVE FALSE
  BY <1>0
<1>2. PICK n \in Bad : \A u \in Bad : n <= u
  BY <1>1, LeastExists
<1>3. n # a
  <2>1. Peaks(r, a, a, d, a)
    <3>1. \A j \in a .. a : j = a
      BY <1>0
    <3>2. QED BY <3>1, <1>0 DEF Peaks
  <2>2. QED BY <2>1
<1>4. n - 1 \in Nat /\ n - 1 \in a .. Len(r) /\ n - 1 \notin Bad /\ n <= Len(r) /\ n = (n - 1) + 1
  BY <1>0, <1>2, <1>3
<1>5. PICK k : Peaks(r, a, n - 1, d, k)
  BY <1>4
<1>6. \E x : Peaks(r, a, (n - 1) + 1, d, x)
  <2>1. (n - 1) + 1 <= Len(r)
    BY <1>4
  <2>2. QED BY <2>1, <1>4, <1>5, PeaksMore
<1>7. QED BY <1>4, <1>6

\* The first of the highest is one reading.
LEMMA PeakIsOne ==
  ASSUME NEW r, Timely(r), NEW d \in Sides, NEW a \in 1 .. Len(r), NEW b \in a .. Len(r),
         NEW k, NEW l, Peaks(r, a, b, d, k), Peaks(r, a, b, d, l)
  PROVE  k = l
<1>1. k \in 1 .. Len(r) /\ l \in 1 .. Len(r) /\ k \in a .. b /\ l \in a .. b
  BY LenProperties DEF Timely, Peaks
<1>2. d * r[k].value \in Int /\ d * r[l].value \in Int
  BY <1>1, ReadingIs
<1>3. d * r[k].value < d * r[l].value \/ (r[k].value = r[l].value /\ l <= k)
  BY <1>1 DEF Peaks
<1>4. d * r[l].value < d * r[k].value \/ (r[k].value = r[l].value /\ k <= l)
  BY <1>1 DEF Peaks
<1>5. QED BY <1>1, <1>2, <1>3, <1>4, LenProperties DEF Timely

\* A reading that went up and was never ended belongs to an episode that goes on.
LEMMA UnendedRuns ==
  ASSUME NEW r, Timely(r), NEW d \in Sides, NEW j \in 1 .. Len(r), Above(r, j, d),
         \A k \in (j + 1) .. Len(r) : ~ Below(r, k, d)
  PROVE  \E i \in 1 .. Len(r) : Runs(r, i, d)
<1> DEFINE Open == {i \in 1 .. Len(r) : Above(r, i, d) /\ \A k \in (i + 1) .. Len(r) : ~ Below(r, k, d)}
<1>0. Len(r) \in Nat
  BY LenProperties DEF Timely
<1>1. j \in Open /\ Open \subseteq Nat
  BY <1>0
<1>2. PICK i \in Open : \A u \in Open : i <= u
  BY <1>1, LeastExists
<1>3. i \in 1 .. Len(r) /\ Above(r, i, d) /\ \A k \in (i + 1) .. Len(r) : ~ Below(r, k, d)
  BY <1>2
<1>4. ASSUME NEW u \in 1 .. (i - 1), Above(r, u, d)
      PROVE  \E k \in (u + 1) .. (i - 1) : Below(r, k, d)
  <2>1. u \in 1 .. Len(r) /\ u < i /\ u \notin Open
    BY <1>0, <1>2, <1>3
  <2>2. PICK k \in (u + 1) .. Len(r) : Below(r, k, d)
    BY <2>1, <1>4
  <2>3. k # i
    <3>1. d * r[i].value \in Int
      BY <1>3, ReadingIs
    <3>2. QED BY <3>1, <1>3, <2>2 DEF Above, Below
  <2>4. ~ (k > i)
    BY <1>0, <1>3, <2>2, <2>1
  <2>5. k \in (u + 1) .. (i - 1)
    BY <2>1, <2>2, <2>3, <2>4, <1>0
  <2>6. QED BY <2>5, <2>2
<1>5. Ends(r, i, d) = {}
  BY <1>3 DEF Ends
<1>6. QED BY <1>3, <1>4, <1>5 DEF Runs, Opens

\* At most one episode goes on.
LEMMA RunsOnce ==
  ASSUME NEW r, Timely(r), NEW i \in 1 .. Len(r), NEW j \in 1 .. Len(r), NEW d \in Sides, NEW e \in Sides,
         Runs(r, i, d), Runs(r, j, e)
  PROVE  i = j /\ d = e
<1>0. Len(r) \in Nat /\ i \in Nat /\ j \in Nat
  BY LenProperties DEF Timely
<1>1. ASSUME NEW a \in 1 .. Len(r), NEW b \in 1 .. Len(r), NEW f \in Sides, NEW g \in Sides,
             Runs(r, a, f), Runs(r, b, g), a < b
      PROVE  FALSE
  <2>1. b \in (a + 1) .. Len(r)
    BY <1>0, <1>1
  <2>2. ~ Below(r, b, f)
    BY <1>1, <2>1 DEF Runs, Ends
  <2>3. r[b].value \in Int /\ g * r[b].value >= 4
    BY <1>1, ReadingIs DEF Runs, Opens, Above
  <2>4. f = g
    BY <2>2, <2>3, LiftedIs DEF Below
  <2>5. a \in 1 .. (b - 1) /\ Above(r, a, g)
    BY <1>0, <1>1, <2>4 DEF Runs, Opens
  <2>6. PICK k \in (a + 1) .. (b - 1) : Below(r, k, g)
    BY <1>1, <2>5 DEF Runs, Opens
  <2>7. k \in (a + 1) .. Len(r)
    BY <2>6, <1>0
  <2>8. QED BY <2>4, <2>6, <2>7, <1>1 DEF Runs, Ends
<1>2. i = j
  BY <1>0, <1>1
<1>3. d = e
  <2>1. r[i].value \in Int /\ d * r[i].value >= 4 /\ e * r[i].value >= 4
    BY <1>2, ReadingIs DEF Runs, Opens, Above
  <2>2. QED BY <2>1, LiftedIs
<1>4. QED BY <1>2, <1>3

\* Readings that come later open nothing earlier, and end only what went on.
LEMMA OpensStays ==
  ASSUME NEW r, NEW q, Timely(r), Timely(q), Begins(r, q), NEW i \in 1 .. Len(r), NEW d \in Sides
  PROVE  /\ Opens(q, i, d) <=> Opens(r, i, d)
         /\ Ends(r, i, d) = {k \in Ends(q, i, d) : k <= Len(r)}
         /\ i \in 1 .. Len(q)
<1>0. Len(r) \in Nat /\ Len(q) \in Nat /\ Len(r) <= Len(q) /\ \A k \in 1 .. Len(r) : q[k] = r[k]
  BY LenProperties DEF Timely, Begins
<1>1. \A k \in 1 .. Len(r) : (Above(q, k, d) <=> Above(r, k, d)) /\ (Below(q, k, d) <=> Below(r, k, d))
  BY <1>0 DEF Above, Below
<1>2. \A k \in 1 .. (i - 1) : k \in 1 .. Len(r)
  BY <1>0
<1>3. \A j \in 1 .. (i - 1) : \A k \in (j + 1) .. (i - 1) : k \in 1 .. Len(r)
  BY <1>0
<1>4. Opens(q, i, d) <=> Opens(r, i, d)
  BY <1>1, <1>2, <1>3 DEF Opens
<1>5. \A k : k \in (i + 1) .. Len(r) <=> k \in (i + 1) .. Len(q) /\ k <= Len(r)
  BY <1>0
<1>6. \A k \in (i + 1) .. Len(r) : k \in 1 .. Len(r)
  BY <1>0
<1>7. Ends(r, i, d) = {k \in Ends(q, i, d) : k <= Len(r)}
  BY <1>1, <1>5, <1>6 DEF Ends
<1>8. QED BY <1>0, <1>4, <1>7

\* The least of numbers that are not none.
LEMMA MinIs ==
  ASSUME NEW S, S \subseteq Nat, S # {}
  PROVE  Min(S) \in S /\ \A y \in S : Min(S) <= y
<1>1. \E m \in S : \A u \in S : m <= u
  BY LeastExists
<1>2. QED BY <1>1 DEF Min

\* The buckets of an episode, and its peak.
LEMMA EpisodeSpan ==
  ASSUME NEW r, Timely(r), NEW i \in 1 .. Len(r), NEW d \in Sides
  PROVE  LET b == IF Ends(r, i, d) = {} THEN Len(r) ELSE Min(Ends(r, i, d))
         IN /\ UntilEnd(r, i, d) = i .. b /\ b \in i .. Len(r)
            /\ Ends(r, i, d) # {} => b \in Ends(r, i, d) /\ (\A k \in Ends(r, i, d) : b <= k)
            /\ Peaks(r, i, b, d, Highest(r, i, d))
            /\ \A k : Peaks(r, i, b, d, k) => k = Highest(r, i, d)
<1> DEFINE b == IF Ends(r, i, d) = {} THEN Len(r) ELSE Min(Ends(r, i, d))
<1>0. Len(r) \in Nat /\ i \in Nat
  BY LenProperties DEF Timely
<1>1. UntilEnd(r, i, d) = i .. b
  BY DEF UntilEnd
<1>2. Ends(r, i, d) \subseteq Nat /\ Ends(r, i, d) \subseteq (i + 1) .. Len(r)
  BY <1>0 DEF Ends
<1>3. Ends(r, i, d) # {} => b \in Ends(r, i, d) /\ \A k \in Ends(r, i, d) : b <= k
  BY <1>2, MinIs
<1>4. b \in i .. Len(r)
  BY <1>0, <1>2, <1>3
<1> HIDE DEF b
<1>5. \E k : Peaks(r, i, b, d, k)
  BY <1>4, PeakExists
<1>6. Highest(r, i, d) = CHOOSE k \in i .. b : \A j \in i .. b :
                           d * r[j].value < d * r[k].value \/ (r[j].value = r[k].value /\ k <= j)
  BY <1>1 DEF Highest
<1>7. Peaks(r, i, b, d, Highest(r, i, d))
  BY <1>5, <1>6 DEF Peaks
<1>8. \A k : Peaks(r, i, b, d, k) => k = Highest(r, i, d)
  BY <1>4, <1>7, PeakIsOne
<1>9. QED BY <1>1, <1>3, <1>4, <1>7, <1>8 DEF b

\* What episodes are made of.
Event == [start : Nat \ {0}, side : Sides, peak : Int, peakAt : Nat \ {0}, end : Nat, whole : BOOLEAN]
\* What an episode says of its readings.
LEMMA EpisodeIs ==
  ASSUME NEW r, Timely(r), NEW i \in 1 .. Len(r), NEW d \in Sides
  PROVE  LET e == EpisodeAt(r, i, d)
             h == Highest(r, i, d)
         IN /\ e \in Event /\ h \in 1 .. Len(r) /\ h \in UntilEnd(r, i, d)
            /\ e.start = r[i].at /\ e.side = d /\ e.peak = r[h].value /\ e.peakAt = r[h].at
            /\ Ends(r, i, d) = {} => e.end = NoEnd
            /\ Ends(r, i, d) # {} => e.end = r[Min(Ends(r, i, d))].at /\ e.end # NoEnd
            /\ e.whole <=> i > 1 /\ \A k \in UntilEnd(r, i, d) : r[k].at - r[k - 1].at <= Contiguous
<1> DEFINE e == EpisodeAt(r, i, d)
           h == Highest(r, i, d)
           b == IF Ends(r, i, d) = {} THEN Len(r) ELSE Min(Ends(r, i, d))
<1>0. Len(r) \in Nat /\ i \in Nat
  BY LenProperties DEF Timely
<1>1. UntilEnd(r, i, d) = i .. b /\ b \in i .. Len(r) /\ Peaks(r, i, b, d, h)
  BY EpisodeSpan
<1> HIDE DEF b
<1>2. h \in i .. b /\ h \in 1 .. Len(r) /\ b \in 1 .. Len(r)
  BY <1>0, <1>1 DEF Peaks
<1>3. r[i].at \in Nat \ {0} /\ r[h].at \in Nat \ {0} /\ r[h].value \in Int /\ r[b].at \in Nat \ {0}
  BY <1>2, ReadingIs
<1>4. e.start = r[i].at /\ e.side = d /\ e.peak = r[h].value /\ e.peakAt = r[h].at
  BY DEF EpisodeAt
<1>5. e.end = (IF Ends(r, i, d) = {} THEN NoEnd ELSE r[b].at) /\ NoEnd = 0
  BY DEF EpisodeAt, b, NoEnd
<1>6. e.whole = (i > 1 /\ \A k \in UntilEnd(r, i, d) : r[k].at - r[k - 1].at <= Contiguous)
  BY DEF EpisodeAt
<1>7. e.whole \in BOOLEAN
  BY <1>6
<1>8. e = [start |-> e.start, side |-> e.side, peak |-> e.peak, peakAt |-> e.peakAt, end |-> e.end, whole |-> e.whole]
  BY DEF EpisodeAt
<1> HIDE DEF e, h
<1>9. e \in Event
  BY <1>3, <1>4, <1>5, <1>7, <1>8 DEF Event
<1>10. QED BY <1>1, <1>2, <1>3, <1>4, <1>5, <1>6, <1>9 DEF e, h, b

\* The episodes of readings, one by one.
LEMMA EpisodesAre ==
  ASSUME NEW r, Timely(r)
  PROVE  /\ \A e \in EpisodesOf(r) : \E i \in 1 .. Len(r), d \in Sides : Opens(r, i, d) /\ e = EpisodeAt(r, i, d)
         /\ \A i \in 1 .. Len(r), d \in Sides : Opens(r, i, d) => EpisodeAt(r, i, d) \in EpisodesOf(r)
<1>0. DOMAIN r = 1 .. Len(r)
  BY LenProperties DEF Timely
<1>1. ASSUME NEW e \in EpisodesOf(r)
      PROVE  \E i \in DOMAIN r, d \in Sides : Opens(r, i, d) /\ e = EpisodeAt(r, i, d)
  BY DEF EpisodesOf, Sides
<1>2. ASSUME NEW i \in DOMAIN r, NEW d \in Sides, Opens(r, i, d)
      PROVE  EpisodeAt(r, i, d) \in EpisodesOf(r)
  <2>1. <<i, d>> \in {x \in (DOMAIN r) \X {-1, 1} : Opens(r, x[1], x[2])}
    BY <1>2 DEF Sides
  <2>2. EpisodeAt(r, <<i, d>>[1], <<i, d>>[2]) \in EpisodesOf(r)
    BY <2>1 DEF EpisodesOf
  <2>3. QED BY <2>2
<1>3. QED BY <1>0, <1>1, <1>2

\* No two readings have one date.
LEMMA DatesDiffer ==
  ASSUME NEW r, Timely(r), NEW i \in 1 .. Len(r), NEW j \in 1 .. Len(r), r[i].at = r[j].at
  PROVE  i = j
<1>1. r[i].at \in Int /\ r[j].at \in Int /\ i \in Int /\ j \in Int
  BY ReadingIs
<1>2. (i < j => r[i].at < r[j].at) /\ (j < i => r[j].at < r[i].at)
  BY DEF Timely
<1>3. QED BY <1>1, <1>2

\* An episode that has ended stays what it is.
LEMMA EndedStays ==
  ASSUME NEW r, NEW q, Timely(r), Timely(q), Begins(r, q), NEW i \in 1 .. Len(r), NEW d \in Sides,
         Ends(r, i, d) # {}
  PROVE  EpisodeAt(q, i, d) = EpisodeAt(r, i, d) /\ Ends(q, i, d) # {}
<1>0. /\ Len(r) \in Nat /\ Len(q) \in Nat /\ Len(r) <= Len(q) /\ \A k \in 1 .. Len(r) : q[k] = r[k]
      /\ i \in 1 .. Len(q)
  BY LenProperties DEF Timely, Begins
<1> DEFINE b == Min(Ends(r, i, d))
           c == Min(Ends(q, i, d))
<1>1. Ends(r, i, d) = {k \in Ends(q, i, d) : k <= Len(r)} /\ Ends(q, i, d) # {}
  BY OpensStays
<1>2. /\ UntilEnd(r, i, d) = i .. b /\ b \in i .. Len(r) /\ Peaks(r, i, b, d, Highest(r, i, d))
      /\ b \in Ends(r, i, d) /\ \A k \in Ends(r, i, d) : b <= k
  BY EpisodeSpan
<1>3. /\ UntilEnd(q, i, d) = i .. c /\ c \in i .. Len(q)
      /\ c \in Ends(q, i, d) /\ \A k \in Ends(q, i, d) : c <= k
      /\ \A k : Peaks(q, i, c, d, k) => k = Highest(q, i, d)
  BY <1>0, <1>1, EpisodeSpan
<1> HIDE DEF b, c
<1>4. b = c
  BY <1>0, <1>1, <1>2, <1>3
<1>5. \A k \in i .. b : k \in 1 .. Len(r) /\ q[k] = r[k]
  BY <1>0, <1>2
<1>6. Peaks(q, i, b, d, Highest(r, i, d))
  BY <1>2, <1>5 DEF Peaks
<1>7. Highest(q, i, d) = Highest(r, i, d) /\ Highest(r, i, d) \in i .. b
  BY <1>3, <1>4, <1>6 DEF Peaks
<1>8. q[Highest(q, i, d)] = r[Highest(r, i, d)] /\ q[i] = r[i] /\ q[b] = r[b]
  BY <1>0, <1>2, <1>5, <1>7
<1>9. (i > 1 /\ \A k \in UntilEnd(q, i, d) : q[k].at - q[k - 1].at <= Contiguous) =
      (i > 1 /\ \A k \in UntilEnd(r, i, d) : r[k].at - r[k - 1].at <= Contiguous)
  <2>1. UntilEnd(q, i, d) = i .. b
    BY <1>3, <1>4
  <2>2. i > 1 => \A k \in i .. b : k - 1 \in 1 .. Len(r) /\ q[k - 1] = r[k - 1]
    BY <1>0, <1>2
  <2>3. QED BY <1>2, <1>5, <2>1, <2>2
<1>10. QED BY <1>1, <1>4, <1>8, <1>9 DEF EpisodeAt, b, c

\* A reading opens one episode, and so the start and the side tell which it is.
LEMMA KeysAreUnique ==
  ASSUME NEW r, Timely(r), NEW e \in EpisodesOf(r), NEW f \in EpisodesOf(r), SameEvent(e, f)
  PROVE  e = f
<1>1. PICK i \in 1 .. Len(r), d \in Sides : Opens(r, i, d) /\ e = EpisodeAt(r, i, d)
  BY EpisodesAre
<1>2. PICK j \in 1 .. Len(r), g \in Sides : Opens(r, j, g) /\ f = EpisodeAt(r, j, g)
  BY EpisodesAre
<1>3. e.start = r[i].at /\ f.start = r[j].at /\ e.side = d /\ f.side = g
  BY <1>1, <1>2, EpisodeIs
<1>5. i = j
  BY <1>3, DatesDiffer DEF SameEvent
<1>6. QED BY <1>1, <1>2, <1>3, <1>5 DEF SameEvent

\* An episode of some readings is one of those that go on with them, maybe in a later version.
LEMMA EpisodeGoesOn ==
  ASSUME NEW r, NEW q, Timely(r), Timely(q), Begins(r, q), NEW e \in EpisodesOf(r)
  PROVE  \E f \in EpisodesOf(q) : SameEvent(e, f)
<1>1. PICK i \in 1 .. Len(r), d \in Sides : Opens(r, i, d) /\ e = EpisodeAt(r, i, d)
  BY EpisodesAre
<1>2. i \in 1 .. Len(q) /\ Opens(q, i, d) /\ q[i] = r[i]
  BY <1>1, OpensStays DEF Begins
<1>3. EpisodeAt(q, i, d) \in EpisodesOf(q)
  BY <1>2, EpisodesAre
<1>4. SameEvent(e, EpisodeAt(q, i, d))
  BY <1>1, <1>2, EpisodeIs DEF SameEvent
<1>5. QED BY <1>3, <1>4

\* A version of an episode that was there before, and is there again, was there in between.
LEMMA VersionsDoNotReturn ==
  ASSUME NEW r, NEW q, NEW s, Timely(r), Timely(q), Timely(s), Begins(r, q), Begins(q, s),
         NEW e \in EpisodesOf(r), e \in EpisodesOf(s)
  PROVE  e \in EpisodesOf(q)
<1>0. /\ Len(r) \in Nat /\ Len(q) \in Nat /\ Len(s) \in Nat /\ Len(r) <= Len(q) /\ Len(q) <= Len(s)
      /\ \A k \in 1 .. Len(r) : q[k] = r[k]
      /\ \A k \in 1 .. Len(q) : s[k] = q[k]
  BY LenProperties DEF Timely, Begins
<1>1. PICK i \in 1 .. Len(r), d \in Sides : Opens(r, i, d) /\ e = EpisodeAt(r, i, d)
  BY EpisodesAre
<1>2. PICK j \in 1 .. Len(s), g \in Sides : Opens(s, j, g) /\ e = EpisodeAt(s, j, g)
  BY EpisodesAre
<1>3. i = j /\ d = g
  <2>1. e.start = r[i].at /\ e.side = d
    BY <1>1, EpisodeIs
  <2>2. e.start = s[j].at /\ e.side = g
    BY <1>2, EpisodeIs
  <2>3. i \in 1 .. Len(s) /\ r[i] = s[i]
    BY <1>0
  <2>4. QED BY <2>1, <2>2, <2>3, DatesDiffer
<1>4. i \in 1 .. Len(q) /\ Opens(q, i, d)
  BY <1>1, OpensStays
<1>5. CASE Ends(r, i, d) # {}
  <2>1. EpisodeAt(q, i, d) = e
    BY <1>1, <1>5, EndedStays
  <2>2. QED BY <1>4, <2>1, EpisodesAre
<1>6. CASE Ends(r, i, d) = {}
  <2>1. e.end = NoEnd
    BY <1>1, <1>6, EpisodeIs
  <2>2. Ends(s, i, d) = {}
    BY <1>2, <1>3, <2>1, EpisodeIs
  <2>3. Ends(q, i, d) = {}
    BY <1>4, <2>2, OpensStays
  <2> DEFINE h == Highest(r, i, d)
             m == Highest(s, i, d)
  <2>4. /\ UntilEnd(r, i, d) = i .. Len(r) /\ Peaks(r, i, Len(r), d, h)
        /\ UntilEnd(q, i, d) = i .. Len(q) /\ (\A k : Peaks(q, i, Len(q), d, k) => k = Highest(q, i, d))
        /\ UntilEnd(s, i, d) = i .. Len(s) /\ Peaks(s, i, Len(s), d, m)
    <3>1. UntilEnd(r, i, d) = i .. Len(r) /\ Peaks(r, i, Len(r), d, h)
      BY <1>6, EpisodeSpan
    <3>2. UntilEnd(q, i, d) = i .. Len(q) /\ (\A k : Peaks(q, i, Len(q), d, k) => k = Highest(q, i, d))
      BY <1>4, <2>3, EpisodeSpan
    <3>3. UntilEnd(s, i, d) = i .. Len(s) /\ Peaks(s, i, Len(s), d, m)
      BY <1>3, <2>2, EpisodeSpan
    <3>4. QED BY <3>1, <3>2, <3>3
  <2>5. /\ e.peak = r[h].value /\ e.peakAt = r[h].at /\ h \in 1 .. Len(r)
        /\ e.peakAt = s[m].at /\ m \in 1 .. Len(s)
    <3>1. e.peak = r[h].value /\ e.peakAt = r[h].at /\ h \in 1 .. Len(r)
      BY <1>1, EpisodeIs
    <3>2. i \in 1 .. Len(s)
      BY <1>3
    <3>3. EpisodeAt(s, i, d).peakAt = s[Highest(s, i, d)].at /\ Highest(s, i, d) \in 1 .. Len(s)
      BY <3>2, EpisodeIs
    <3>4. e.peakAt = s[m].at /\ m \in 1 .. Len(s)
      BY <1>2, <1>3, <3>3
    <3>5. QED BY <3>1, <3>4
  <2> HIDE DEF h, m
  <2>6. h = m
    <3>1. h \in 1 .. Len(s) /\ r[h] = s[h]
      BY <1>0, <2>5
    <3>2. QED BY <2>5, <3>1, DatesDiffer
  <2>7. Peaks(q, i, Len(q), d, h)
    <3>1. \A k \in i .. Len(q) : k \in i .. Len(s) /\ q[k] = s[k]
      BY <1>0
    <3>2. h \in i .. Len(q)
      BY <1>0, <2>4 DEF Peaks
    <3>3. QED BY <2>4, <2>6, <3>1, <3>2 DEF Peaks
  <2>8. Highest(q, i, d) = h /\ q[h] = r[h]
    BY <2>4, <2>5, <2>7, <1>0
  <2>9. /\ EpisodeAt(q, i, d).whole <=> i > 1 /\ \A k \in i .. Len(q) : q[k].at - q[k - 1].at <= Contiguous
        /\ e.whole <=> i > 1 /\ \A k \in i .. Len(r) : r[k].at - r[k - 1].at <= Contiguous
        /\ e.whole <=> i > 1 /\ \A k \in i .. Len(s) : s[k].at - s[k - 1].at <= Contiguous
    <3>1. EpisodeAt(q, i, d).whole <=> i > 1 /\ \A k \in i .. Len(q) : q[k].at - q[k - 1].at <= Contiguous
      BY <1>4, <2>4, EpisodeIs
    <3>2. e.whole <=> i > 1 /\ \A k \in i .. Len(r) : r[k].at - r[k - 1].at <= Contiguous
      BY <1>1, <2>4, EpisodeIs
    <3>3. e = EpisodeAt(s, i, d) /\ i \in 1 .. Len(s)
      BY <1>2, <1>3
    <3>4. e.whole <=> i > 1 /\ \A k \in i .. Len(s) : s[k].at - s[k - 1].at <= Contiguous
      BY <3>3, <2>4, EpisodeIs
    <3>5. QED BY <3>1, <3>2, <3>4
  <2>10. EpisodeAt(q, i, d).whole <=> e.whole
    <3>1. i > 1 => \A k \in i .. Len(q) : k \in i .. Len(s) /\ q[k] = s[k] /\ q[k - 1] = s[k - 1]
      BY <1>0
    <3>2. i > 1 => \A k \in i .. Len(r) : k \in i .. Len(q) /\ r[k] = q[k] /\ r[k - 1] = q[k - 1]
      BY <1>0
    <3>3. QED BY <2>9, <3>1, <3>2
  <2>11. EpisodeAt(q, i, d) \in Event /\ e \in Event
    BY <1>1, <1>4, EpisodeIs
  <2>12. /\ EpisodeAt(q, i, d).start = e.start /\ EpisodeAt(q, i, d).side = e.side
         /\ EpisodeAt(q, i, d).peak = e.peak /\ EpisodeAt(q, i, d).peakAt = e.peakAt
         /\ EpisodeAt(q, i, d).end = e.end
    <3>1. q[i] = r[i]
      BY <1>0
    <3>2. e.start = r[i].at /\ e.side = d
      BY <1>1, EpisodeIs
    <3>3. /\ EpisodeAt(q, i, d).start = q[i].at /\ EpisodeAt(q, i, d).side = d
          /\ EpisodeAt(q, i, d).peak = q[Highest(q, i, d)].value /\ EpisodeAt(q, i, d).peakAt = q[Highest(q, i, d)].at
          /\ EpisodeAt(q, i, d).end = NoEnd
      <4>1. Timely(q) /\ i \in 1 .. Len(q) /\ Ends(q, i, d) = {}
        BY <1>4, <2>3
      <4>2. /\ EpisodeAt(q, i, d).start = q[i].at /\ EpisodeAt(q, i, d).side = d
            /\ EpisodeAt(q, i, d).peak = q[Highest(q, i, d)].value /\ EpisodeAt(q, i, d).peakAt = q[Highest(q, i, d)].at
        BY DEF EpisodeAt
      <4>3. EpisodeAt(q, i, d).end = NoEnd
        BY <4>1, EpisodeIs
      <4>4. QED BY <4>2, <4>3
    <3>4. QED BY <2>1, <2>5, <2>8, <3>1, <3>2, <3>3
  <2>13. EpisodeAt(q, i, d) = e
    <3> DEFINE f == EpisodeAt(q, i, d)
    <3>1. f \in Event /\ e \in Event /\ f.whole = e.whole
      BY <2>10, <2>11 DEF Event
    <3>2. f.start = e.start /\ f.side = e.side /\ f.peak = e.peak /\ f.peakAt = e.peakAt /\ f.end = e.end
      BY <2>12
    <3> HIDE DEF f
    <3>3. f = e
      BY <3>1, <3>2 DEF Event
    <3>4. QED BY <3>3 DEF f
  <2>14. QED BY <1>4, <2>13, EpisodesAre
<1>7. QED BY <1>5, <1>6

\* An event is not the absence of one.
LEMMA EventIsSome ==
  ASSUME NEW e \in Event
  PROVE  e # Unknown
<1>1. "start" \in DOMAIN e
  BY DEF Event
<1>2. DOMAIN <<>> = {}
  OBVIOUS
<1>3. QED BY <1>1, <1>2 DEF Unknown

\* One more reading x: what ObserveSpread makes of the active event a of the readings r.
NearTo(r, x) == LET last == IF r = <<>> THEN 0 ELSE r[Len(r)].at
                IN 0 < x.at - last /\ x.at - last <= Contiguous
OldOf(r, a, x) == IF a = Unknown THEN Unknown ELSE FollowedThrough(a, x.at, x.value, NearTo(r, x))
OverAt(r, a, x) == IF OldOf(r, a, x) = Unknown THEN TRUE ELSE OldOf(r, a, x).end # NoEnd
OpensAt(r, a, x) == OverAt(r, a, x) /\ (x.value >= 4 \/ x.value <= -4)
NewOf(r, x) == Opening([readings |-> r, active |-> Unknown], x.at, x.value, NearTo(r, x))
NextActive(r, a, x) == IF OpensAt(r, a, x) THEN NewOf(r, x)
                       ELSE IF OverAt(r, a, x) THEN Unknown ELSE OldOf(r, a, x)

\* The readings with one more.
LEMMA AppendedIs ==
  ASSUME NEW r, Timely(r), NEW x \in Reading, \A i \in 1 .. Len(r) : r[i].at < x.at
  PROVE  LET q == Append(r, x)
         IN /\ Timely(q) /\ Begins(r, q) /\ Len(q) = Len(r) + 1 /\ q[Len(r) + 1] = x
            /\ Len(r) \in Nat /\ \A k \in 1 .. Len(r) : q[k] = r[k]
<1> DEFINE q == Append(r, x)
<1>1. /\ Len(r) \in Nat /\ q \in Seq(Reading) /\ Len(q) = Len(r) + 1 /\ q[Len(r) + 1] = x
      /\ \A k \in 1 .. Len(r) : q[k] = r[k]
  BY AppendProperties, LenProperties DEF Timely
<1> HIDE DEF q
<1>2. \A k \in 1 .. Len(q) : k \in 1 .. Len(r) \/ k = Len(r) + 1
  BY <1>1
<1>3. ASSUME NEW i \in 1 .. Len(q), NEW j \in 1 .. Len(q), i < j
      PROVE  q[i].at < q[j].at
  <2>1. i \in 1 .. Len(r)
    BY <1>1, <1>2, <1>3
  <2>2. CASE j \in 1 .. Len(r)
    BY <2>1, <2>2, <1>1, <1>3 DEF Timely
  <2>3. CASE j = Len(r) + 1
    BY <2>1, <2>3, <1>1
  <2>4. QED BY <2>2, <2>3, <1>2
<1>4. Begins(r, q)
  BY <1>1 DEF Begins
<1>5. QED BY <1>1, <1>3, <1>4 DEF Timely, q

\* The episode that goes on is followed through.
LEMMA FollowedIs ==
  ASSUME NEW r, Timely(r), NEW x \in Reading, \A i \in 1 .. Len(r) : r[i].at < x.at,
         NEW i \in 1 .. Len(r), NEW d \in Sides, Runs(r, i, d)
  PROVE  LET q == Append(r, x)
         IN /\ EpisodeAt(q, i, d) = FollowedThrough(EpisodeAt(r, i, d), x.at, x.value, NearTo(r, x))
            /\ Ends(q, i, d) = IF d * x.value <= 2 THEN {Len(r) + 1} ELSE {}
            /\ Opens(q, i, d)
<1> DEFINE q == Append(r, x)
           n == Len(r)
           e == EpisodeAt(r, i, d)
           f == EpisodeAt(q, i, d)
           h == Highest(r, i, d)
           v == x.value
<1>1. /\ Timely(q) /\ Begins(r, q) /\ Len(q) = n + 1 /\ q[n + 1] = x
      /\ n \in Nat /\ \A k \in 1 .. n : q[k] = r[k]
  BY AppendedIs
<1>2. n + 1 \in 1 .. Len(q) /\ n \in 1 .. n /\ i \in 1 .. Len(q) /\ i \in Nat /\ i <= n /\ r # <<>>
  BY <1>1
<1>3. v \in Int /\ x.at \in Nat \ {0} /\ r[n].at \in Nat \ {0} /\ r[n].at < x.at /\ d * v \in Int
  BY <1>2, ReadingIs, LiftedIs DEF Reading
<1> HIDE DEF q
<1>4. Opens(q, i, d) /\ Ends(r, i, d) = {k \in Ends(q, i, d) : k <= n} /\ Ends(r, i, d) = {}
  BY <1>1, OpensStays DEF Runs
<1>5. Ends(q, i, d) = IF d * v <= 2 THEN {n + 1} ELSE {}
  <2>1. \A k \in Ends(q, i, d) : k = n + 1 /\ Below(q, k, d)
    BY <1>1, <1>2, <1>4 DEF Ends
  <2>2. Below(q, n + 1, d) <=> d * v <= 2
    BY <1>1 DEF Below
  <2>3. n + 1 \in (i + 1) .. Len(q)
    BY <1>1, <1>2
  <2>4. d * v <= 2 => n + 1 \in Ends(q, i, d)
    BY <2>2, <2>3 DEF Ends
  <2>5. QED BY <2>1, <2>2, <2>4
<1>6. UntilEnd(r, i, d) = i .. n /\ Peaks(r, i, n, d, h)
  BY <1>4, EpisodeSpan
<1>7. UntilEnd(q, i, d) = i .. (n + 1) /\ \A k : Peaks(q, i, n + 1, d, k) => k = Highest(q, i, d)
  <2> DEFINE b == IF Ends(q, i, d) = {} THEN Len(q) ELSE Min(Ends(q, i, d))
  <2>1. UntilEnd(q, i, d) = i .. b /\ \A k : Peaks(q, i, b, d, k) => k = Highest(q, i, d)
    BY <1>1, <1>2, EpisodeSpan
  <2>2. Ends(q, i, d) # {} => Min(Ends(q, i, d)) \in Ends(q, i, d)
    BY <1>1, <1>2, EpisodeSpan
  <2>3. b = n + 1
    BY <1>1, <1>5, <2>2
  <2> HIDE DEF b
  <2>4. QED BY <2>1, <2>3
<1>8. h \in i .. n /\ h \in 1 .. n /\ h \in 1 .. Len(q) /\ q[h] = r[h]
  BY <1>1, <1>2, <1>6 DEF Peaks
<1>9. Peaks(q, i, n, d, h)
  <2>1. \A k \in i .. n : q[k] = r[k]
    BY <1>1, <1>2
  <2>2. QED BY <1>6, <1>8, <2>1 DEF Peaks
<1>10. Highest(q, i, d) = IF d * v > d * r[h].value THEN n + 1 ELSE h
  <2>1. n \in i .. Len(q) /\ n + 1 <= Len(q)
    BY <1>1, <1>2
  <2>2. Peaks(q, i, n + 1, d, IF d * q[n + 1].value > d * q[h].value THEN n + 1 ELSE h)
    BY <1>1, <1>2, <1>9, <2>1, PeaksMore
  <2>3. q[n + 1].value = v /\ q[h].value = r[h].value
    BY <1>1, <1>8
  <2>4. QED BY <1>7, <2>2, <2>3
<1>11. /\ e \in Event /\ e.start = r[i].at /\ e.side = d /\ e.peak = r[h].value /\ e.peakAt = r[h].at
       /\ e.end = NoEnd
       /\ e.whole <=> i > 1 /\ \A k \in i .. n : r[k].at - r[k - 1].at <= Contiguous
  <2>1. /\ EpisodeAt(r, i, d) \in Event /\ EpisodeAt(r, i, d).start = r[i].at /\ EpisodeAt(r, i, d).side = d
        /\ EpisodeAt(r, i, d).peak = r[Highest(r, i, d)].value /\ EpisodeAt(r, i, d).peakAt = r[Highest(r, i, d)].at
        /\ Ends(r, i, d) = {} => EpisodeAt(r, i, d).end = NoEnd
        /\ EpisodeAt(r, i, d).whole
             <=> i > 1 /\ \A k \in UntilEnd(r, i, d) : r[k].at - r[k - 1].at <= Contiguous
    BY EpisodeIs
  <2>2. QED BY <1>4, <1>6, <2>1
<1>12. /\ f \in Event /\ f.start = r[i].at /\ f.side = d
       /\ f.peak = q[Highest(q, i, d)].value /\ f.peakAt = q[Highest(q, i, d)].at
       /\ Ends(q, i, d) = {} => f.end = NoEnd
       /\ Ends(q, i, d) # {} => f.end = q[Min(Ends(q, i, d))].at
       /\ f.whole <=> i > 1 /\ \A k \in i .. (n + 1) : q[k].at - q[k - 1].at <= Contiguous
  <2>1. q[i] = r[i]
    BY <1>1
  <2>2. Timely(q) /\ i \in 1 .. Len(q)
    BY <1>1, <1>2
  <2>3. /\ EpisodeAt(q, i, d) \in Event /\ EpisodeAt(q, i, d).start = q[i].at /\ EpisodeAt(q, i, d).side = d
        /\ EpisodeAt(q, i, d).peak = q[Highest(q, i, d)].value /\ EpisodeAt(q, i, d).peakAt = q[Highest(q, i, d)].at
        /\ Ends(q, i, d) = {} => EpisodeAt(q, i, d).end = NoEnd
        /\ Ends(q, i, d) # {} => EpisodeAt(q, i, d).end = q[Min(Ends(q, i, d))].at
        /\ EpisodeAt(q, i, d).whole
             <=> i > 1 /\ \A k \in UntilEnd(q, i, d) : q[k].at - q[k - 1].at <= Contiguous
    BY <2>2, EpisodeIs
  <2>4. QED BY <1>7, <2>1, <2>3
<1>13. NearTo(r, x) <=> q[n + 1].at - q[n].at <= Contiguous
  <2>1. NearTo(r, x) <=> 0 < x.at - r[n].at /\ x.at - r[n].at <= Contiguous
    BY <1>2 DEF NearTo
  <2>2. QED BY <1>1, <1>2, <1>3, <2>1
<1>14. f.whole <=> e.whole /\ NearTo(r, x)
  <2>1. \A k \in i .. (n + 1) : k = n + 1 \/ k \in i .. n
    BY <1>1, <1>2
  <2>2. n + 1 \in i .. (n + 1) /\ (n + 1) - 1 = n /\ \A k \in i .. n : k \in i .. (n + 1)
    BY <1>1, <1>2
  <2>3. i > 1 => \A k \in i .. n : q[k] = r[k] /\ q[k - 1] = r[k - 1]
    BY <1>1, <1>2
  <2>4. QED BY <1>11, <1>12, <1>13, <2>1, <2>2, <2>3
<1>15. f.end = IF d * v <= 2 THEN x.at ELSE NoEnd
  <2>1. d * v <= 2 => Min(Ends(q, i, d)) = n + 1
    <3>1. Ends(q, i, d) # {} => Min(Ends(q, i, d)) \in Ends(q, i, d)
      BY <1>1, <1>2, EpisodeSpan
    <3>2. QED BY <1>5, <3>1
  <2>2. QED BY <1>1, <1>5, <1>12, <2>1
<1>16. /\ f.peak = (IF d * v > d * r[h].value THEN v ELSE r[h].value)
       /\ f.peakAt = (IF d * v > d * r[h].value THEN x.at ELSE r[h].at)
  BY <1>1, <1>8, <1>10, <1>12
<1> HIDE DEF e, f, h
<1>17. f = FollowedThrough(e, x.at, v, NearTo(r, x))
  <2> DEFINE g == FollowedThrough(e, x.at, v, NearTo(r, x))
  <2>1. /\ g.start = e.start /\ g.side = e.side /\ g.whole = (e.whole /\ NearTo(r, x))
        /\ g.peak = (IF e.side * v > e.side * e.peak THEN v ELSE e.peak)
        /\ g.peakAt = (IF e.side * v > e.side * e.peak THEN x.at ELSE e.peakAt)
        /\ g.end = (IF e.side * v <= 2 THEN x.at ELSE e.end)
        /\ g = [start |-> g.start, side |-> g.side, peak |-> g.peak, peakAt |-> g.peakAt, end |-> g.end, whole |-> g.whole]
    <3>1. /\ g.start = e.start /\ g.side = e.side
      BY <1>11 DEF FollowedThrough, Event
    <3>2. /\ g.whole = (e.whole /\ NearTo(r, x))
      BY <1>11 DEF FollowedThrough, Event
    <3>3. /\ g.peak = (IF e.side * v > e.side * e.peak THEN v ELSE e.peak)
      BY <1>11 DEF FollowedThrough, Event
    <3>4. /\ g.peakAt = (IF e.side * v > e.side * e.peak THEN x.at ELSE e.peakAt)
      BY <1>11 DEF FollowedThrough, Event
    <3>5. g.end = (IF e.side * v <= 2 THEN x.at ELSE e.end)
      BY <1>11 DEF FollowedThrough, Event
    <3>6. g = [start |-> g.start, side |-> g.side, peak |-> g.peak, peakAt |-> g.peakAt, end |-> g.end, whole |-> g.whole]
      <4>1. \E w, p, a, z : g = [e EXCEPT !.whole = w, !.peak = p, !.peakAt = a, !.end = z]
        BY DEF FollowedThrough
      <4>2. PICK w, p, a, z : g = [e EXCEPT !.whole = w, !.peak = p, !.peakAt = a, !.end = z]
        BY <4>1
      <4>3. e = [start |-> e.start, side |-> e.side, peak |-> e.peak, peakAt |-> e.peakAt, end |-> e.end, whole |-> e.whole]
        BY <1>11 DEF Event
      <4> HIDE DEF g
      <4>4. g = [start |-> e.start, side |-> e.side, peak |-> p, peakAt |-> a, end |-> z, whole |-> w]
        BY <4>2, <4>3
      <4>5. QED BY <4>4
    <3>7. QED BY <3>1, <3>2, <3>3, <3>4, <3>5, <3>6
  <2> HIDE DEF g
  <2>2. f.start = g.start /\ f.side = g.side /\ f.peak = g.peak /\ f.peakAt = g.peakAt /\ f.end = g.end
    BY <1>11, <1>12, <1>15, <1>16, <2>1
  <2>3. f.whole = g.whole
    <3>1. f.whole \in BOOLEAN /\ e.whole \in BOOLEAN
      BY <1>11, <1>12 DEF Event
    <3>2. QED BY <3>1, <1>14, <2>1
  <2>4. f = [start |-> f.start, side |-> f.side, peak |-> f.peak, peakAt |-> f.peakAt, end |-> f.end, whole |-> f.whole]
    BY <1>12 DEF Event
  <2>5. f = g
    BY <2>1, <2>2, <2>3, <2>4
  <2>6. QED BY <2>5 DEF g
<1>18. QED BY <1>4, <1>5, <1>17 DEF e, f, q

\* The event that goes on, seen with the next reading: still an episode, ended or not.
LEMMA OldIs ==
  ASSUME NEW r, Timely(r), NEW x \in Reading, \A i \in 1 .. Len(r) : r[i].at < x.at,
         NEW i \in 1 .. Len(r), NEW d \in Sides, Runs(r, i, d), NEW a, a # Unknown, a = EpisodeAt(r, i, d)
  PROVE  LET q == Append(r, x)
         IN /\ OldOf(r, a, x) = EpisodeAt(q, i, d) /\ OldOf(r, a, x) # Unknown
            /\ Opens(q, i, d) /\ (Ends(q, i, d) = {} <=> ~ (d * x.value <= 2))
            /\ OverAt(r, a, x) <=> d * x.value <= 2
            /\ SameEvent(a, OldOf(r, a, x))
            /\ a \in EpisodesOf(r) /\ OldOf(r, a, x) \in EpisodesOf(q)
<1> DEFINE q == Append(r, x)
           n == Len(r)
<1>1. /\ Timely(q) /\ Len(q) = n + 1 /\ q[n + 1] = x
      /\ n \in Nat /\ \A k \in 1 .. n : q[k] = r[k]
  BY AppendedIs
<1>2. i \in 1 .. Len(q) /\ q[i] = r[i]
  BY <1>1
<1>3. /\ EpisodeAt(q, i, d) = FollowedThrough(EpisodeAt(r, i, d), x.at, x.value, NearTo(r, x))
      /\ Ends(q, i, d) = IF d * x.value <= 2 THEN {n + 1} ELSE {}
      /\ Opens(q, i, d)
  BY FollowedIs
<1> HIDE DEF q
<1>4. OldOf(r, a, x) = EpisodeAt(q, i, d)
  BY <1>3 DEF OldOf
<1>5. /\ EpisodeAt(q, i, d) \in Event /\ EpisodeAt(q, i, d).start = q[i].at /\ EpisodeAt(q, i, d).side = d
      /\ Ends(q, i, d) = {} => EpisodeAt(q, i, d).end = NoEnd
      /\ Ends(q, i, d) # {} => EpisodeAt(q, i, d).end # NoEnd
  BY <1>1, <1>2, EpisodeIs
<1>6. EpisodeAt(r, i, d).start = r[i].at /\ EpisodeAt(r, i, d).side = d
  BY EpisodeIs
<1>7. OldOf(r, a, x) # Unknown
  BY <1>4, <1>5, EventIsSome
<1>8. OverAt(r, a, x) <=> d * x.value <= 2
  BY <1>3, <1>4, <1>5, <1>7 DEF OverAt
<1>9. SameEvent(a, OldOf(r, a, x))
  BY <1>2, <1>4, <1>5, <1>6 DEF SameEvent
<1>10. a \in EpisodesOf(r)
  BY EpisodesAre DEF Runs
<1>11. OldOf(r, a, x) \in EpisodesOf(q)
  BY <1>1, <1>2, <1>3, <1>4, EpisodesAre
<1>12. QED BY <1>3, <1>4, <1>7, <1>8, <1>9, <1>10, <1>11 DEF q

\* A reading opens an episode of its side unless the one that goes on holds.
LEMMA OpensWhen ==
  ASSUME NEW r, Timely(r), NEW x \in Reading, \A i \in 1 .. Len(r) : r[i].at < x.at,
         NEW a, ActiveIs(r, a), NEW d \in Sides
  PROVE  Opens(Append(r, x), Len(r) + 1, d) <=> d * x.value >= 4 /\ OverAt(r, a, x)
<1> DEFINE q == Append(r, x)
           n == Len(r)
           v == x.value
<1>1. /\ Timely(q) /\ Len(q) = n + 1 /\ q[n + 1] = x
      /\ n \in Nat /\ \A k \in 1 .. n : q[k] = r[k]
  BY AppendedIs
<1>2. v \in Int
  BY DEF Reading
<1> HIDE DEF q
<1>3. Above(q, n + 1, d) <=> d * v >= 4
  BY <1>1 DEF Above
<1>4. \A j \in 1 .. n : (Above(q, j, d) <=> Above(r, j, d)) /\ (Below(q, j, d) <=> Below(r, j, d))
  BY <1>1 DEF Above, Below
<1>5. Opens(q, n + 1, d)
        <=> d * v >= 4 /\ \A j \in 1 .. n : Above(r, j, d) => \E k \in (j + 1) .. n : Below(r, k, d)
  <2>1. (n + 1) - 1 = n /\ \A j \in 1 .. n : \A k \in (j + 1) .. n : k \in 1 .. n
    BY <1>1
  <2>2. QED BY <1>3, <1>4, <2>1 DEF Opens
<1>6. CASE a = Unknown
  <2>1. OverAt(r, a, x)
    BY <1>6 DEF OverAt, OldOf
  <2>2. \A j \in 1 .. n : Above(r, j, d) => \E k \in (j + 1) .. n : Below(r, k, d)
    BY <1>6, UnendedRuns DEF ActiveIs
  <2>3. QED BY <1>5, <2>1, <2>2 DEF q
<1>7. CASE a # Unknown
  <2>1. PICK i \in 1 .. n, g \in Sides : Runs(r, i, g) /\ a = EpisodeAt(r, i, g)
    BY <1>7 DEF ActiveIs
  <2>2. OverAt(r, a, x) <=> g * v <= 2
    BY <1>1, <1>2, <1>7, <2>1, OldIs
  <2>3. Above(r, i, g) /\ \A k \in (i + 1) .. n : ~ Below(r, k, g)
    BY <2>1 DEF Runs, Opens, Ends
  <2>4. ASSUME d * v >= 4, g * v <= 2
        PROVE  \A j \in 1 .. n : Above(r, j, d) => \E k \in (j + 1) .. n : Below(r, k, d)
    <3>1. d # g
      <4> SUFFICES ASSUME d = g PROVE FALSE
        OBVIOUS
      <4>1. d * v >= 4 /\ d * v <= 2
        BY <2>4
      <4>2. d * v \in Int
        BY <1>2, LiftedIs
      <4> HIDE DEF v
      <4>3. QED BY <4>1, <4>2
    <3>2. \A j \in 1 .. n : ~ Runs(r, j, d)
      BY <2>1, <3>1, RunsOnce
    <3>3. QED BY <3>2, UnendedRuns
  <2>5. ASSUME d * v >= 4, \A j \in 1 .. n : Above(r, j, d) => \E k \in (j + 1) .. n : Below(r, k, d)
        PROVE  g * v <= 2
    <3>1. d # g
      BY <2>3, <2>5
    <3>2. QED BY <1>2, <2>5, <3>1, LiftedIs
  <2>6. QED BY <1>5, <2>2, <2>4, <2>5 DEF q
<1>8. QED BY <1>6, <1>7

\* What an opening is: an episode of one reading.
LEMMA OpeningIs ==
  ASSUME NEW r, Timely(r), NEW x \in Reading, \A i \in 1 .. Len(r) : r[i].at < x.at,
         NEW d \in Sides, Opens(Append(r, x), Len(r) + 1, d)
  PROVE  LET q == Append(r, x)
         IN /\ EpisodeAt(q, Len(r) + 1, d) = NewOf(r, x)
            /\ Ends(q, Len(r) + 1, d) = {} /\ d = Side(x.value) /\ (x.value >= 4 \/ x.value <= -4)
<1> DEFINE q == Append(r, x)
           n == Len(r)
           v == x.value
           m == n + 1
           f == EpisodeAt(q, m, d)
           g == NewOf(r, x)
<1>1. /\ Timely(q) /\ Len(q) = n + 1 /\ q[n + 1] = x
      /\ n \in Nat /\ \A k \in 1 .. n : q[k] = r[k]
  BY AppendedIs
<1>2. v \in Int /\ x.at \in Nat \ {0}
  BY DEF Reading
<1>3. Opens(q, m, d)
  OBVIOUS
<1> HIDE DEF q
<1>4. d * v >= 4
  BY <1>1, <1>3 DEF Opens, Above
<1>5. d = Side(v) /\ (v >= 4 \/ v <= -4)
  BY <1>2, <1>4, LiftedIs
<1>6. Ends(q, m, d) = {}
  BY <1>1 DEF Ends
<1>7. m \in 1 .. Len(q)
  BY <1>1
<1>8. UntilEnd(q, m, d) = m .. m
  BY <1>1, <1>6 DEF UntilEnd
<1>9. /\ f \in Event /\ Highest(q, m, d) \in UntilEnd(q, m, d)
      /\ f.start = q[m].at /\ f.side = d /\ f.peak = q[Highest(q, m, d)].value /\ f.peakAt = q[Highest(q, m, d)].at
      /\ Ends(q, m, d) = {} => f.end = NoEnd
      /\ f.whole <=> m > 1 /\ \A k \in UntilEnd(q, m, d) : q[k].at - q[k - 1].at <= Contiguous
  <2>1. Timely(q) /\ m \in 1 .. Len(q)
    BY <1>1, <1>7
  <2> HIDE DEF m
  <2>2. QED BY <2>1, EpisodeIs
<1>10. m \in Nat /\ \A k \in m .. m : k = m
  BY <1>1
<1>11. Highest(q, m, d) = m
  BY <1>8, <1>9, <1>10
<1>12. f.whole <=> m > 1 /\ q[m].at - q[m - 1].at <= Contiguous
  BY <1>8, <1>9, <1>10
<1>13. r # <<>> <=> m > 1
  BY <1>1, EmptySeq DEF Timely
<1>14. r # <<>> => /\ n \in 1 .. n /\ q[m - 1] = r[n] /\ r[n].at \in Nat /\ r[n].at < x.at
                   /\ d * r[n].value < 4
  <2> HAVE r # <<>>
  <2>1. n \in 1 .. n /\ m - 1 = n /\ n \in 1 .. (m - 1)
    BY <1>1, <1>13
  <2>2. r[n].at \in Nat /\ r[n].at < x.at /\ d * r[n].value \in Int
    BY <2>1, ReadingIs
  <2>3. ~ Above(q, n, d)
    <3>1. \A k \in (n + 1) .. (m - 1) : FALSE
      BY <1>1
    <3>2. QED BY <1>3, <2>1, <3>1 DEF Opens
  <2>4. ~ (d * r[n].value >= 4)
    BY <1>1, <2>1, <2>3 DEF Above
  <2>5. QED BY <1>1, <2>1, <2>2, <2>4
<1>15. g = [start |-> x.at, side |-> Side(v), peak |-> v, peakAt |-> x.at, end |-> NoEnd,
            whole |-> NearTo(r, x) /\ r # <<>> /\ Side(v) * r[Len(r)].value < 4]
  BY DEF NewOf, Opening, Newest
<1>16. f.whole <=> NearTo(r, x) /\ r # <<>> /\ Side(v) * r[Len(r)].value < 4
  <2>1. CASE r = <<>>
    BY <2>1, <1>12, <1>13
  <2>2. CASE r # <<>>
    <3>1. NearTo(r, x) <=> 0 < x.at - r[n].at /\ x.at - r[n].at <= Contiguous
      BY <2>2 DEF NearTo
    <3>2. 0 < x.at - r[n].at
      BY <2>2, <1>2, <1>14
    <3>3. QED BY <1>1, <1>5, <1>12, <1>13, <1>14, <2>2, <3>1, <3>2
  <2>3. QED BY <2>1, <2>2
<1>17. f = g
  <2>1. f.start = x.at /\ f.side = Side(v) /\ f.peak = v /\ f.peakAt = x.at /\ f.end = NoEnd
    BY <1>1, <1>5, <1>6, <1>9, <1>11
  <2>2. f.whole = (NearTo(r, x) /\ r # <<>> /\ Side(v) * r[Len(r)].value < 4)
    <3>1. f.whole \in BOOLEAN
      BY <1>9 DEF Event
    <3>2. QED BY <1>16, <3>1
  <2>3. f = [start |-> f.start, side |-> f.side, peak |-> f.peak, peakAt |-> f.peakAt, end |-> f.end, whole |-> f.whole]
    BY <1>9 DEF Event
  <2> HIDE DEF f, g
  <2>4. QED BY <1>15, <2>1, <2>2, <2>3
<1>18. QED BY <1>5, <1>6, <1>17 DEF q

\* What one more reading does to the episodes, and that the active event follows them.
LEMMA SeenIs ==
  ASSUME NEW r, Timely(r), NEW x \in Reading, \A i \in 1 .. Len(r) : r[i].at < x.at,
         NEW a, ActiveIs(r, a)
  PROVE  LET q == Append(r, x)
             old == OldOf(r, a, x)
         IN /\ Timely(q) /\ Begins(r, q) /\ ActiveIs(q, NextActive(r, a, x))
            /\ a # Unknown => /\ a \in EpisodesOf(r) /\ old \in EpisodesOf(q)
                              /\ SameEvent(a, old) /\ old # Unknown
            /\ OpensAt(r, a, x) => NewOf(r, x) \in EpisodesOf(q)
            /\ \A e \in EpisodesOf(r) : e # a => e \in EpisodesOf(q)
            /\ \A e \in EpisodesOf(q) : \/ e \in EpisodesOf(r) \/ (a # Unknown /\ e = old)
                                        \/ OpensAt(r, a, x) /\ e = NewOf(r, x)
<1> DEFINE q == Append(r, x)
           n == Len(r)
           v == x.value
           old == OldOf(r, a, x)
<1>1. /\ Timely(q) /\ Begins(r, q) /\ Len(q) = n + 1 /\ q[n + 1] = x
      /\ n \in Nat /\ \A k \in 1 .. n : q[k] = r[k]
  BY AppendedIs
<1>2. v \in Int /\ n + 1 \in 1 .. Len(q) /\ \A k \in 1 .. Len(q) : k \in 1 .. n \/ k = n + 1
  BY <1>1 DEF Reading
<1>3. \A d \in Sides : Opens(q, n + 1, d) => /\ EpisodeAt(q, n + 1, d) = NewOf(r, x)
                                             /\ Ends(q, n + 1, d) = {} /\ d = Side(v) /\ (v >= 4 \/ v <= -4)
  BY OpeningIs
<1>4. \A d \in Sides : Opens(q, n + 1, d) <=> d * v >= 4 /\ OverAt(r, a, x)
  BY OpensWhen
<1>5. \A i \in 1 .. n, d \in Sides : Runs(r, i, d) /\ a = EpisodeAt(r, i, d) /\ a # Unknown =>
        /\ old = EpisodeAt(q, i, d) /\ old # Unknown
        /\ Opens(q, i, d) /\ (Ends(q, i, d) = {} <=> ~ (d * v <= 2))
        /\ OverAt(r, a, x) <=> d * v <= 2
        /\ SameEvent(a, old)
        /\ a \in EpisodesOf(r) /\ old \in EpisodesOf(q)
  BY OldIs
<1> HIDE DEF q, old
<1>6. \A i \in 1 .. n, d \in Sides : (Opens(q, i, d) <=> Opens(r, i, d)) /\ (Ends(q, i, d) = {} => Ends(r, i, d) = {})
  BY <1>1, OpensStays
<1>7. \A i \in 1 .. n, d \in Sides : Ends(r, i, d) # {} => EpisodeAt(q, i, d) = EpisodeAt(r, i, d)
  BY <1>1, EndedStays
<1>8. a # Unknown => \E i \in 1 .. n, d \in Sides : Runs(r, i, d) /\ a = EpisodeAt(r, i, d)
  BY DEF ActiveIs
<1>9. a # Unknown => a \in EpisodesOf(r) /\ old \in EpisodesOf(q) /\ SameEvent(a, old) /\ old # Unknown
  BY <1>5, <1>8
<1>10. OpensAt(r, a, x) => \E d \in Sides : Opens(q, n + 1, d) /\ EpisodeAt(q, n + 1, d) = NewOf(r, x) /\ Ends(q, n + 1, d) = {}
  <2> HAVE OpensAt(r, a, x)
  <2>1. OverAt(r, a, x) /\ (v >= 4 \/ v <= -4)
    BY DEF OpensAt
  <2>2. Side(v) \in Sides /\ Side(v) * v >= 4
    BY <1>2, <2>1, LiftedIs DEF Sides
  <2>3. QED BY <1>3, <1>4, <2>1, <2>2
<1>11. ASSUME NEW d \in Sides, Opens(q, n + 1, d)
       PROVE  OpensAt(r, a, x) /\ EpisodeAt(q, n + 1, d) = NewOf(r, x)
  BY <1>3, <1>4, <1>11 DEF OpensAt
<1>12. OpensAt(r, a, x) => NewOf(r, x) \in EpisodesOf(q)
  BY <1>1, <1>2, <1>10, EpisodesAre
<1>13. \A i \in 1 .. n, d \in Sides : Runs(r, i, d) => a # Unknown /\ a = EpisodeAt(r, i, d)
  <2> SUFFICES ASSUME NEW i \in 1 .. n, NEW d \in Sides, Runs(r, i, d) PROVE a # Unknown /\ a = EpisodeAt(r, i, d)
    OBVIOUS
  <2>1. a # Unknown
    BY DEF ActiveIs
  <2>2. PICK j \in 1 .. n, g \in Sides : Runs(r, j, g) /\ a = EpisodeAt(r, j, g)
    BY <1>8, <2>1
  <2>3. i = j /\ d = g
    BY <2>2, RunsOnce
  <2>4. QED BY <2>1, <2>2, <2>3
<1>14. ASSUME NEW e \in EpisodesOf(r), e # a
       PROVE  e \in EpisodesOf(q)
  <2>1. PICK i \in 1 .. n, d \in Sides : Opens(r, i, d) /\ e = EpisodeAt(r, i, d)
    BY EpisodesAre
  <2>2. Ends(r, i, d) # {}
    BY <1>13, <1>14, <2>1 DEF Runs
  <2>3. e = EpisodeAt(q, i, d) /\ Opens(q, i, d) /\ i \in 1 .. Len(q)
    BY <1>1, <1>6, <1>7, <2>1, <2>2
  <2>4. QED BY <1>1, <2>3, EpisodesAre
<1>15. ASSUME NEW e \in EpisodesOf(q)
       PROVE  \/ e \in EpisodesOf(r) \/ (a # Unknown /\ e = old)
              \/ OpensAt(r, a, x) /\ e = NewOf(r, x)
  <2>1. PICK i \in 1 .. Len(q), d \in Sides : Opens(q, i, d) /\ e = EpisodeAt(q, i, d)
    BY <1>1, EpisodesAre
  <2>2. CASE i = n + 1
    BY <1>11, <2>1, <2>2
  <2>3. CASE i \in 1 .. n
    <3>1. Opens(r, i, d)
      BY <1>6, <2>1, <2>3
    <3>2. CASE Ends(r, i, d) = {}
      BY <1>5, <1>13, <2>1, <2>3, <3>1, <3>2 DEF Runs
    <3>3. CASE Ends(r, i, d) # {}
      BY <1>7, <2>1, <2>3, <3>1, <3>3, EpisodesAre
    <3>4. QED BY <3>2, <3>3
  <2>4. QED BY <1>2, <2>2, <2>3
<1>16. ActiveIs(q, NextActive(r, a, x))
  <2>1. CASE OpensAt(r, a, x)
    <3>1. PICK d \in Sides : Opens(q, n + 1, d) /\ EpisodeAt(q, n + 1, d) = NewOf(r, x) /\ Ends(q, n + 1, d) = {}
      BY <1>10, <2>1
    <3>2. EpisodeAt(q, n + 1, d) # Unknown
      BY <1>1, <1>2, EpisodeIs, EventIsSome
    <3>3. NextActive(r, a, x) = NewOf(r, x)
      BY <2>1 DEF NextActive
    <3>4. QED BY <1>2, <3>1, <3>2, <3>3 DEF ActiveIs, Runs
  <2>2. CASE ~ OpensAt(r, a, x) /\ OverAt(r, a, x)
    <3>1. NextActive(r, a, x) = Unknown
      BY <2>2 DEF NextActive
    <3>2. ASSUME NEW j \in 1 .. Len(q), NEW d \in Sides, Runs(q, j, d)
          PROVE  FALSE
      <4>1. j # n + 1
        BY <1>11, <2>2, <3>2 DEF Runs
      <4>2. j \in 1 .. n
        BY <1>2, <4>1
      <4>3. Runs(r, j, d)
        BY <1>6, <3>2, <4>2 DEF Runs
      <4>4. a # Unknown /\ a = EpisodeAt(r, j, d)
        BY <1>13, <4>2, <4>3
      <4>5. (Ends(q, j, d) = {} <=> ~ (d * v <= 2)) /\ (OverAt(r, a, x) <=> d * v <= 2)
        BY <1>5, <4>2, <4>3, <4>4
      <4>6. QED BY <2>2, <3>2, <4>5 DEF Runs
    <3>3. QED BY <3>1, <3>2 DEF ActiveIs
  <2>3. CASE ~ OverAt(r, a, x)
    <3>1. a # Unknown
      BY <2>3 DEF OverAt, OldOf
    <3>2. PICK i \in 1 .. n, d \in Sides : Runs(r, i, d) /\ a = EpisodeAt(r, i, d)
      BY <1>8, <3>1
    <3>3. old = EpisodeAt(q, i, d) /\ old # Unknown /\ Opens(q, i, d) /\ Ends(q, i, d) = {}
      BY <1>5, <2>3, <3>1, <3>2
    <3>4. i \in 1 .. Len(q)
      BY <1>1
    <3>5. NextActive(r, a, x) = old
      BY <2>3 DEF NextActive, OpensAt, old
    <3>6. QED BY <3>3, <3>4, <3>5 DEF ActiveIs, Runs
  <2>4. QED BY <2>1, <2>2, <2>3 DEF OpensAt
<1>17. QED BY <1>1, <1>9, <1>12, <1>14, <1>15, <1>16 DEF q, old

-----------------------------------------------------------------------------
(* Episodes: what is in memory, on its way, and in the table.                *)

\* The versions of the episodes of p that wait in the queue q.
Entry == [path : Paths, event : Event]
Versions(q, p) == {q[i].event : i \in {j \in 1 .. Len(q) : q[j].path = p}}
\* The versions W with e in the place of an older one of the same episode.
Renewed(W, e) == {w \in W : ~ SameEvent(w, e)} \cup {e}

\* All readings r are before h; the readings m go on with those of s, or s is forgotten.
Past(r, h) == \A i \in 1 .. Len(r) : r[i].at < h
Goes(s, m, h) == Begins(s, m) \/ Past(s, h)
\* The waiting versions W are what the memory m has over the table, whose state is s.
Covers(m, s, W, h) ==
  /\ \A e \in W : e.start >= h => e \in EpisodesOf(m)
  /\ \A e \in EpisodesOf(m) : e.start >= h => e \in EpisodesOf(s) \cup W
  /\ Goes(s, m, h)

\* A new version takes the place of the older one, or comes last.
LEMMA UpsertIs ==
  ASSUME NEW q \in Seq(Entry), NEW p \in Paths, NEW e \in Event
  PROVE  /\ Upsert(q, p, e) \in Seq(Entry)
         /\ Versions(Upsert(q, p, e), p) = Renewed(Versions(q, p), e)
         /\ \A o \in Paths : o # p => Versions(Upsert(q, p, e), o) = Versions(q, o)
<1> DEFINE same == {i \in DOMAIN q : q[i].path = p /\ q[i].event.start = e.start /\ q[i].event.side = e.side}
           x == [path |-> p, event |-> e]
           n == Len(q)
           t == Upsert(q, p, e)
<1>1. n \in Nat /\ DOMAIN q = 1 .. n /\ \A i \in 1 .. n : q[i] \in Entry
  BY LenProperties, ElementOfSeq
<1>2. x \in Entry /\ x.path = p /\ x.event = e
  BY DEF Entry
<1>3. \A i \in 1 .. n : i \in same <=> q[i].path = p /\ SameEvent(q[i].event, e)
  BY <1>1 DEF SameEvent
<1>4. same \subseteq 1 .. n
  BY <1>1
<1>5. CASE same = {}
  <2>1. t = Append(q, x)
    BY <1>5 DEF Upsert
  <2>2. t \in Seq(Entry) /\ Len(t) = n + 1 /\ t[n + 1] = x /\ \A i \in 1 .. n : t[i] = q[i]
    BY <1>2, <2>1, AppendProperties
  <2>3. \A i \in 1 .. (n + 1) : i \in 1 .. n \/ i = n + 1
    BY <1>1
  <2>4. n + 1 \in 1 .. (n + 1) /\ \A i \in 1 .. n : i \in 1 .. (n + 1)
    BY <1>1
  <2> HIDE DEF x, same
  <2>5. \A o \in Paths : o # p => Versions(t, o) = Versions(q, o)
    BY <1>2, <2>2, <2>3, <2>4 DEF Versions
  <2>6. Versions(t, p) = Versions(q, p) \cup {e}
    BY <1>2, <2>2, <2>3, <2>4 DEF Versions
  <2>7. \A w \in Versions(q, p) : ~ SameEvent(w, e)
    BY <1>3, <1>5 DEF Versions
  <2>8. QED BY <2>2, <2>5, <2>6, <2>7 DEF Renewed
<1>6. CASE same # {}
  <2>1. t = [i \in DOMAIN q |-> IF i \in same THEN [q[i] EXCEPT !.event = e] ELSE q[i]]
    BY <1>6 DEF Upsert
  <2>2. \A i \in 1 .. n : t[i] = IF i \in same THEN [q[i] EXCEPT !.event = e] ELSE q[i]
    BY <1>1, <2>1
  <2>3. \A i \in 1 .. n : i \in same => t[i] \in Entry /\ t[i].path = p /\ t[i].event = e
    BY <1>1, <1>3, <2>2 DEF Entry
  <2>4. \A i \in 1 .. n : i \notin same => t[i] = q[i]
    BY <2>2
  <2>5. DOMAIN t = 1 .. n /\ t = [i \in 1 .. n |-> t[i]]
    BY <1>1, <2>1
  <2> HIDE DEF x, same, t
  <2>6. t \in [1 .. n -> Entry]
    BY <1>1, <2>3, <2>4, <2>5
  <2>7. t \in Seq(Entry) /\ Len(t) = n
    BY <1>1, <2>6, FunctionIsSeq
  <2>8. \A o \in Paths : o # p => Versions(t, o) = Versions(q, o)
    BY <1>3, <2>3, <2>4, <2>7 DEF Versions
  <2>9. e \in Versions(t, p)
    BY <1>4, <1>6, <2>3, <2>7 DEF Versions
  <2>10. \A w \in Versions(t, p) : w \in Renewed(Versions(q, p), e)
    BY <1>3, <2>3, <2>4, <2>7 DEF Versions, Renewed
  <2>11. \A w \in Versions(q, p) : ~ SameEvent(w, e) => w \in Versions(t, p)
    BY <1>3, <2>4, <2>7 DEF Versions
  <2>12. QED BY <2>7, <2>8, <2>9, <2>10, <2>11 DEF Renewed, t
<1>7. QED BY <1>5, <1>6

\* What overflows is the first of the queue: of a path that lost none, all are still there.
LEMMA TailIs ==
  ASSUME NEW q \in Seq(Entry), NEW k \in 0 .. Len(q)
  PROVE  LET t == SubSeq(q, k + 1, Len(q))
         IN /\ t \in Seq(Entry)
            /\ \A p \in Paths : (\A i \in 1 .. k : q[i].path # p) => Versions(t, p) = Versions(q, p)
<1> DEFINE n == Len(q)
           t == SubSeq(q, k + 1, n)
<1>1. n \in Nat /\ k \in Nat /\ k <= n
  BY LenProperties
<1>2. t \in Seq(Entry) /\ Len(t) = n - k /\ \A i \in 1 .. (n - k) : t[i] = q[k + i]
  <2>1. CASE k = n
    <3>1. k + 1 > n
      BY <1>1, <2>1
    <3>2. t = <<>>
      BY <1>1, <3>1, SubSeqProperties
    <3> HIDE DEF t
    <3>3. QED BY <1>1, <2>1, <3>2, EmptySeq
  <2>2. CASE k < n
    <3>1. k + 1 \in 1 .. n /\ n \in 1 .. n
      BY <1>1, <2>2
    <3>2. t \in Seq(Entry) /\ Len(t) = n - (k + 1) + 1 /\ \A i \in 1 .. (n - (k + 1) + 1) : t[i] = q[k + 1 + i - 1]
      BY <1>1, <3>1, SubSeqProperties
    <3> HIDE DEF t
    <3>3. n - (k + 1) + 1 = n - k
      BY <1>1
    <3>4. \A i \in 1 .. (n - k) : k + 1 + i - 1 = k + i
      BY <1>1
    <3>5. QED BY <3>2, <3>3, <3>4
  <2>3. QED BY <1>1, <2>1, <2>2
<1> HIDE DEF t
<1>3. ASSUME NEW p \in Paths, \A i \in 1 .. k : q[i].path # p
      PROVE  Versions(t, p) = Versions(q, p)
  <2>1. \A i \in 1 .. (n - k) : k + i \in 1 .. n
    BY <1>1
  <2>2. \A i \in 1 .. n : i \in 1 .. k \/ (i - k \in 1 .. (n - k) /\ k + (i - k) = i)
    BY <1>1
  <2>3. \A w \in Versions(t, p) : w \in Versions(q, p)
    BY <1>2, <2>1 DEF Versions
  <2>4. \A w \in Versions(q, p) : w \in Versions(t, p)
    <3> TAKE w \in Versions(q, p)
    <3>1. PICK i \in 1 .. n : q[i].path = p /\ w = q[i].event
      BY DEF Versions
    <3>2. i - k \in 1 .. (n - k) /\ k + (i - k) = i
      BY <1>3, <2>2, <3>1
    <3>3. t[i - k] = q[i]
      BY <1>2, <3>2
    <3>4. QED BY <1>2, <3>1, <3>2, <3>3 DEF Versions
  <2>5. QED BY <2>3, <2>4
<1>4. QED BY <1>2, <1>3 DEF t

\* What an acknowledgement leaves: what it takes away was in the copy.
LEMMA StillIs ==
  ASSUME NEW q \in Seq(Entry), NEW c \in Seq(Entry)
  PROVE  /\ StillPending(q, c) \in Seq(Entry)
         /\ \A p \in Paths : /\ Versions(StillPending(q, c), p) \subseteq Versions(q, p)
                             /\ Versions(q, p) \subseteq Versions(StillPending(q, c), p) \cup Versions(c, p)
<1> DEFINE still == ToSet(q) \ ToSet(c)
           t == StillPending(q, c)
<1>1. t = Only(q, still)
  BY DEF StillPending, Only
<1>2. t \in Seq(Entry) /\ \E g : Selects(q, still, Len(q), t, g)
  BY <1>1, OnlyIs
<1> HIDE DEF t
<1>3. PICK g : Selects(q, still, Len(q), t, g)
  BY <1>2
<1>4. Len(q) \in Nat /\ Len(t) \in Nat /\ Len(c) \in Nat /\ DOMAIN c = 1 .. Len(c) /\ DOMAIN q = 1 .. Len(q)
      /\ (\A i \in 1 .. Len(q) : q[i] \in Entry) /\ (\A i \in 1 .. Len(c) : c[i] \in Entry)
  BY <1>2, LenProperties, ElementOfSeq
<1>5. \A j \in 1 .. Len(t) : g[j] \in 1 .. Len(q) /\ t[j] = q[g[j]]
  BY <1>3, <1>4 DEF Selects
<1>6. \A i \in 1 .. Len(q) : q[i] \in still => \E j \in 1 .. Len(t) : t[j] = q[i]
  BY <1>3, <1>4, <1>5 DEF Selects
<1>7. \A i \in 1 .. Len(q) : q[i] \notin still => \E j \in 1 .. Len(c) : c[j] = q[i]
  BY <1>4 DEF ToSet
<1> HIDE DEF still
<1>8. ASSUME NEW p \in Paths
      PROVE  /\ Versions(t, p) \subseteq Versions(q, p)
             /\ Versions(q, p) \subseteq Versions(t, p) \cup Versions(c, p)
  <2>1. \A w \in Versions(t, p) : w \in Versions(q, p)
    BY <1>5 DEF Versions
  <2>2. \A w \in Versions(q, p) : w \in Versions(t, p) \cup Versions(c, p)
    BY <1>6, <1>7 DEF Versions
  <2>3. QED BY <2>1, <2>2
<1>9. QED BY <1>2, <1>8 DEF t

\* Facts of the episodes of readings: events that start with one of them.
LEMMA StartsAre ==
  ASSUME NEW r, Timely(r), NEW e \in EpisodesOf(r)
  PROVE  e \in Event /\ e.start \in Nat /\ \E i \in 1 .. Len(r) : e.start = r[i].at
<1>1. PICK i \in 1 .. Len(r), d \in Sides : Opens(r, i, d) /\ e = EpisodeAt(r, i, d)
  BY EpisodesAre
<1>2. e \in Event /\ e.start = r[i].at
  BY <1>1, EpisodeIs
<1>3. QED BY <1>2 DEF Event

\* No readings, no episodes.
LEMMA NoneIs ==
  /\ Timely(<<>>) /\ ActiveIs(<<>>, Unknown) /\ EpisodesOf(<<>>) = {} /\ Len(<<>>) = 0
  /\ \A r : Timely(r) => Begins(<<>>, r) /\ Begins(r, r)
  /\ \A h : Past(<<>>, h)
<1>1. <<>> \in Seq(Reading) /\ Len(<<>>) = 0 /\ DOMAIN <<>> = {}
  BY EmptySeq
<1>2. \A i \in 1 .. 0 : FALSE
  OBVIOUS
<1>3. Timely(<<>>)
  BY <1>1, <1>2 DEF Timely
<1>4. ActiveIs(<<>>, Unknown)
  BY <1>1, <1>2 DEF ActiveIs
<1>5. EpisodesOf(<<>>) = {}
  BY <1>1, <1>2, <1>3, EpisodesAre
<1>6. \A r : Timely(r) => Begins(<<>>, r) /\ Begins(r, r)
  <2> SUFFICES ASSUME NEW r, Timely(r) PROVE Begins(<<>>, r) /\ Begins(r, r)
    OBVIOUS
  <2>1. Len(r) \in Nat
    BY LenProperties DEF Timely
  <2>2. QED BY <1>1, <1>2, <2>1 DEF Begins
<1>7. \A h : Past(<<>>, h)
  BY <1>1, <1>2 DEF Past
<1>8. QED BY <1>1, <1>3, <1>4, <1>5, <1>6, <1>7

\* What is forgotten opened nothing since.
LEMMA PastAre ==
  ASSUME NEW s, Timely(s), NEW h \in Int, Past(s, h), NEW e \in EpisodesOf(s)
  PROVE  e.start < h
BY StartsAre DEF Past

\* Going on is transitive, and forgetting spreads to what is shorter.
LEMMA GoesOn ==
  ASSUME NEW s, NEW m, NEW q, NEW h \in Int, NEW k \in Int, h <= k, Timely(s), Timely(m), Timely(q)
  PROVE  /\ Goes(s, m, h) /\ Begins(m, q) => Goes(s, q, k)
         /\ Goes(s, m, h) => Goes(s, m, k)
         /\ Goes(s, m, h) /\ Past(m, h) => Past(s, h)
         /\ Past(s, h) => Past(s, k) /\ \A e \in EpisodesOf(s) : e.start < h
<1>1. Len(s) \in Nat /\ Len(m) \in Nat /\ Len(q) \in Nat
  BY LenProperties DEF Timely
<1>2. \A i \in 1 .. Len(s) : s[i].at \in Nat
  BY ReadingIs
<1>3. Past(s, h) => Past(s, k)
  BY <1>2 DEF Past
<1>4. Past(s, h) => \A e \in EpisodesOf(s) : e.start < h
  BY StartsAre DEF Past
<1>5. Begins(s, m) /\ Past(m, h) => Past(s, h)
  <2> SUFFICES ASSUME Begins(s, m), Past(m, h), NEW i \in 1 .. Len(s) PROVE s[i].at < h
    BY DEF Past
  <2>1. i \in 1 .. Len(m) /\ m[i] = s[i]
    BY <1>1 DEF Begins
  <2>2. QED BY <2>1 DEF Past
<1>6. Begins(s, m) /\ Begins(m, q) => Begins(s, q)
  <2> SUFFICES ASSUME Begins(s, m), Begins(m, q) PROVE Begins(s, q)
    OBVIOUS
  <2>1. \A i \in 1 .. Len(s) : i \in 1 .. Len(m)
    BY <1>1 DEF Begins
  <2>2. QED BY <1>1, <2>1 DEF Begins
<1>7. QED BY <1>3, <1>4, <1>5, <1>6 DEF Goes

\* As time passes, less has to be covered.
LEMMA CoversLater ==
  ASSUME NEW m, NEW s, NEW W \in SUBSET Event, NEW h \in Int, NEW k \in Int, h <= k,
         Timely(m), Timely(s), Covers(m, s, W, h)
  PROVE  Covers(m, s, W, k)
<1>1. \A e \in W : e.start \in Nat
  BY DEF Event
<1>2. \A e \in EpisodesOf(m) : e.start \in Nat
  BY StartsAre
<1>3. Goes(s, m, k)
  BY GoesOn DEF Covers
<1>4. QED BY <1>1, <1>2, <1>3 DEF Covers

\* A reading is observed: its versions wait, and all is covered still.
LEMMA CoversObserved ==
  ASSUME NEW r, Timely(r), NEW x \in Reading, \A i \in 1 .. Len(r) : r[i].at < x.at,
         NEW a, ActiveIs(r, a), NEW s, Timely(s), NEW W \in SUBSET Event, NEW h \in Int, Covers(r, s, W, h),
         NEW V, V = (IF OldOf(r, a, x) = Unknown THEN W ELSE Renewed(W, OldOf(r, a, x))),
         NEW U, U = (IF OpensAt(r, a, x) THEN Renewed(V, NewOf(r, x)) ELSE V)
  PROVE  Covers(Append(r, x), s, U, h)
<1> DEFINE q == Append(r, x)
           old == OldOf(r, a, x)
           new == NewOf(r, x)
<1>1. /\ Timely(q) /\ Begins(r, q)
      /\ a # Unknown => a \in EpisodesOf(r) /\ old \in EpisodesOf(q) /\ SameEvent(a, old) /\ old # Unknown
      /\ OpensAt(r, a, x) => new \in EpisodesOf(q)
      /\ \A e \in EpisodesOf(r) : e # a => e \in EpisodesOf(q)
      /\ \A e \in EpisodesOf(q) : \/ e \in EpisodesOf(r) \/ (a # Unknown /\ e = old)
                                  \/ OpensAt(r, a, x) /\ e = new
  BY SeenIs
<1>2. old = Unknown <=> a = Unknown
  BY <1>1 DEF OldOf
<1> HIDE DEF q, old, new
<1>3. V = IF a = Unknown THEN W ELSE Renewed(W, old)
  BY <1>2 DEF old
<1>4. U = IF OpensAt(r, a, x) THEN Renewed(V, new) ELSE V
  BY DEF new
<1>5. \A e, f \in EpisodesOf(q) : SameEvent(e, f) => e = f
  BY <1>1, KeysAreUnique
<1>6. \A e, f : SameEvent(e, f) <=> SameEvent(f, e)
  BY DEF SameEvent
<1>7. ASSUME NEW e \in U, e.start >= h
      PROVE  e \in EpisodesOf(q)
  <2>1. CASE e \in V
    <3>1. CASE e \in W
      <4>1. e \in EpisodesOf(r)
        BY <1>7, <3>1 DEF Covers
      <4>2. CASE a = Unknown
        <5>1. e # a
          BY <3>1, <4>2, EventIsSome
        <5>2. QED BY <1>1, <4>1, <5>1
      <4>3. CASE a # Unknown
        <5>1. e = old \/ ~ SameEvent(e, old)
          BY <1>3, <2>1, <4>3 DEF Renewed
        <5>2. ~ SameEvent(e, old) => e # a
          BY <1>1, <4>3
        <5>3. QED BY <1>1, <4>1, <4>3, <5>1, <5>2
      <4>4. QED BY <4>2, <4>3
    <3>2. CASE e \notin W
      BY <1>1, <1>3, <2>1, <3>2 DEF Renewed
    <3>3. QED BY <3>1, <3>2
  <2>2. CASE e \notin V
    BY <1>1, <1>4, <1>7, <2>2 DEF Renewed
  <2>3. QED BY <2>1, <2>2
<1>8. ASSUME NEW e \in EpisodesOf(q), e \in V
      PROVE  e \in U
  <2>1. CASE OpensAt(r, a, x)
    <3>1. e = new \/ ~ SameEvent(e, new)
      BY <1>1, <1>5, <2>1
    <3>2. QED BY <1>4, <1>8, <2>1, <3>1 DEF Renewed
  <2>2. CASE ~ OpensAt(r, a, x)
    BY <1>4, <1>8, <2>2
  <2>3. QED BY <2>1, <2>2
<1>9. ASSUME NEW e \in EpisodesOf(q), e \in W
      PROVE  e \in V
  <2>1. CASE a # Unknown
    <3>1. e = old \/ ~ SameEvent(e, old)
      BY <1>1, <1>5, <2>1
    <3>2. QED BY <1>3, <1>9, <2>1, <3>1 DEF Renewed
  <2>2. CASE a = Unknown
    BY <1>3, <1>9, <2>2
  <2>3. QED BY <2>1, <2>2
<1>10. ASSUME NEW e \in EpisodesOf(q), e.start >= h
       PROVE  e \in EpisodesOf(s) \cup U
  <2>1. CASE e \in EpisodesOf(r)
    <3>1. e \in EpisodesOf(s) \cup W
      BY <1>10, <2>1 DEF Covers
    <3>2. QED BY <1>8, <1>9, <3>1
  <2>2. CASE a # Unknown /\ e = old
    <3>1. e \in V
      BY <1>3, <2>2 DEF Renewed
    <3>2. QED BY <1>8, <3>1
  <2>3. CASE OpensAt(r, a, x) /\ e = new
    BY <1>4, <2>3 DEF Renewed
  <2>4. QED BY <1>1, <2>1, <2>2, <2>3
<1>11. Goes(s, q, h)
  BY <1>1, GoesOn DEF Covers
<1>12. QED BY <1>7, <1>10, <1>11 DEF Covers, q

\* What the transaction makes of the rows: the episodes of the copied state.
LEMMA RowsAre ==
  ASSUME NEW c, NEW s, Timely(c), Timely(s), NEW W, NEW a \in Int, NEW b \in Int, b <= a, Covers(c, s, W, a),
         NEW T, T = {e \in EpisodesOf(s) : e.start >= b}
  PROVE  {e \in W \cup {o \in T : \A n \in W : ~ SameEvent(o, n)} : e.start >= a}
           = {e \in EpisodesOf(c) : e.start >= a}
<1>1. ASSUME NEW e \in T, \A n \in W : ~ SameEvent(e, n), e.start >= a
      PROVE  e \in EpisodesOf(c)
  <2>1. e \in EpisodesOf(s) /\ e.start \in Nat
    BY <1>1, StartsAre
  <2>2. ~ Past(s, a)
    BY <1>1, <2>1, PastAre
  <2>3. Begins(s, c)
    BY <2>2 DEF Covers, Goes
  <2>4. PICK f \in EpisodesOf(c) : SameEvent(e, f)
    BY <2>1, <2>3, EpisodeGoesOn
  <2>5. f.start >= a
    BY <1>1, <2>4 DEF SameEvent
  <2>6. f \in EpisodesOf(s)
    BY <1>1, <2>4, <2>5 DEF Covers
  <2>7. e = f
    BY <2>1, <2>4, <2>6, KeysAreUnique
  <2>8. QED BY <2>7
<1>2. ASSUME NEW e \in EpisodesOf(c), e.start >= a, e \notin W
      PROVE  e \in T /\ \A n \in W : ~ SameEvent(e, n)
  <2>1. e \in EpisodesOf(s) /\ e.start \in Nat
    BY <1>2, StartsAre DEF Covers
  <2>2. e \in T
    BY <1>2, <2>1
  <2>3. ASSUME NEW n \in W, SameEvent(e, n)
        PROVE  FALSE
    <3>1. n.start >= a
      BY <1>2, <2>3 DEF SameEvent
    <3>2. n \in EpisodesOf(c)
      BY <3>1 DEF Covers
    <3>3. n = e
      BY <2>3, <3>2, KeysAreUnique
    <3>4. QED BY <1>2, <3>3
  <2>4. QED BY <2>2, <2>3
<1>3. \A e \in W : e.start >= a => e \in EpisodesOf(c)
  BY DEF Covers
<1>4. QED BY <1>1, <1>2, <1>3

\* With the copied state in the table, what waits covers the memory still.
LEMMA CoversWritten ==
  ASSUME NEW m, NEW c, NEW s, Timely(m), Timely(c), Timely(s), NEW W, NEW CW, NEW a \in Int, NEW h \in Int, a <= h,
         Covers(c, s, CW, a), Covers(m, s, W, h), Goes(c, m, a)
  PROVE  Covers(m, c, W, h)
<1>1. Goes(c, m, h)
  BY GoesOn
<1>2. ASSUME NEW e \in EpisodesOf(m), e.start >= h, e \in EpisodesOf(s)
      PROVE  e \in EpisodesOf(c)
  <2>1. e.start \in Nat /\ e.start >= a
    BY <1>2, StartsAre
  <2>2. ~ Past(s, a)
    BY <1>2, <2>1, GoesOn
  <2>3. ~ Past(c, a)
    BY <2>2, GoesOn DEF Covers
  <2>4. Begins(s, c) /\ Begins(c, m)
    BY <2>2, <2>3 DEF Covers, Goes
  <2>5. QED BY <1>2, <2>4, VersionsDoNotReturn
<1>3. QED BY <1>1, <1>2 DEF Covers

\* Readings until t; what the states st hold of p; and what the table holds of p once the
\* copy c is written over the states sv.
Until(r, t) == \A i \in 1 .. Len(r) : r[i].at <= t
StateSound(s, t) == Timely(s.readings) /\ Until(s.readings, t) /\ ActiveIs(s.readings, s.active)
AllSound(st, t) == \A p \in DOMAIN st : StateSound(st[p], t)
HeldOf(st, p) == IF p \in DOMAIN st THEN st[p].readings ELSE <<>>
CopyOf(c, sv, p) == IF p \in DOMAIN c.dirty THEN c.dirty[p].readings
                    ELSE IF p \in c.expired THEN <<>> ELSE HeldOf(sv, p)

(* The invariant. *)
ClockSound == /\ second \in Nat \ {0} /\ cutoff \in Int /\ cutoff <= second - Retention
              /\ waiting \in Seq(Entry)
              /\ AllSound(states, second) /\ AllSound(saved, second)
\* What is not dirty is in the table.
DirtySound == /\ \A p \in DOMAIN dirty : p \in DOMAIN states /\ dirty[p] = states[p]
              /\ \A p \in DOMAIN states \ DOMAIN dirty : p \in DOMAIN saved /\ saved[p] = states[p]
\* Before restore there is nothing; without a copy nothing is committed.
RestSound == /\ ~ ready => states = <<>> /\ dirty = <<>> /\ waiting = <<>> /\ copied = Unknown
             /\ copied = Unknown => ~ committed
\* The copy is of states that are dirty still; once committed it is in the table.
CopyInPlace ==
  copied # Unknown =>
    /\ ready /\ copied.at \in Nat /\ copied.at <= second /\ cutoff <= copied.at - Retention
    /\ copied.pending \in Seq(Entry) /\ AllSound(copied.dirty, second)
    /\ \A p \in DOMAIN copied.dirty : p \in DOMAIN dirty /\ p \notin copied.expired
    /\ \A p \in copied.expired : p \in DOMAIN states => p \in DOMAIN dirty
    /\ committed => /\ \A p \in DOMAIN copied.dirty : p \in DOMAIN saved /\ saved[p] = copied.dirty[p]
                    /\ \A p \in copied.expired : p \notin DOMAIN saved
\* What waits is what the memory has over the table.
MemoryCovers ==
  ready => \A p \in Paths \ cropped :
             Covers(HeldOf(states, p), HeldOf(saved, p), Versions(waiting, p), second - Retention)
\* And what was copied is what the copied states have over it.
CopyCovers ==
  copied # Unknown => \A p \in Paths \ cropped :
    /\ Goes(CopyOf(copied, saved, p), HeldOf(states, p), copied.at - Retention)
    /\ ~ committed => Covers(CopyOf(copied, saved, p), HeldOf(saved, p), Versions(copied.pending, p), copied.at - Retention)
    /\ committed => \A e \in Versions(copied.pending, p) : e.start >= copied.at - Retention => e \in EpisodesOf(HeldOf(saved, p))
LedgerSound == ClockSound /\ DirtySound /\ RestSound /\ CopyInPlace /\ MemoryCovers /\ CopyCovers /\ EpisodesAreObserved

\* Of sound states, what is held of any path is sound.
LEMMA HeldIs ==
  ASSUME NEW st, NEW t \in Nat, AllSound(st, t), NEW p
  PROVE  Timely(HeldOf(st, p)) /\ Until(HeldOf(st, p), t)
<1>1. CASE p \in DOMAIN st
  BY <1>1 DEF AllSound, StateSound, HeldOf
<1>2. CASE p \notin DOMAIN st
  <2>1. \A i \in 1 .. 0 : FALSE
    OBVIOUS
  <2>2. QED BY <1>2, <2>1, NoneIs DEF HeldOf, Until
<1>3. QED BY <1>1, <1>2

\* And what the table will hold of it.
LEMMA CopyIs ==
  ASSUME NEW c, NEW sv, NEW t \in Nat, AllSound(c.dirty, t), AllSound(sv, t), NEW p
  PROVE  Timely(CopyOf(c, sv, p))
<1>1. Timely(HeldOf(c.dirty, p)) /\ Timely(HeldOf(sv, p)) /\ Timely(<<>>)
  BY HeldIs, NoneIs
<1>2. CASE p \in DOMAIN c.dirty
  BY <1>1, <1>2 DEF CopyOf, HeldOf
<1>3. CASE p \notin DOMAIN c.dirty
  BY <1>1, <1>3 DEF CopyOf
<1>4. QED BY <1>2, <1>3

\* What is sound stays so as time passes.
LEMMA SoundLater ==
  ASSUME NEW st, NEW t \in Nat, NEW u \in Nat, t <= u, AllSound(st, t)
  PROVE  AllSound(st, u)
<1> SUFFICES ASSUME NEW p \in DOMAIN st PROVE StateSound(st[p], u)
  BY DEF AllSound
<1>1. StateSound(st[p], t)
  BY DEF AllSound
<1>2. \A i \in 1 .. Len(st[p].readings) : st[p].readings[i].at \in Nat
  BY <1>1, ReadingIs DEF StateSound
<1>3. QED BY <1>1, <1>2 DEF StateSound, Until

\* The versions in a queue are events.
LEMMA VersionsAre ==
  ASSUME NEW q \in Seq(Entry), NEW p
  PROVE  Versions(q, p) \in SUBSET Event
<1>1. \A i \in 1 .. Len(q) : q[i] \in Entry
  BY LenProperties, ElementOfSeq
<1>2. QED BY <1>1 DEF Versions, Entry

\* At the start nothing is known, and the table holds nothing.
LEMMA EpisodeStarts ==
  ASSUME EpisodeInit
  PROVE  LedgerSound
<1>1. Contiguous \in Nat /\ Retention \in Nat
  BY EpisodeAssumption
<1>2. second \in Nat \ {0} /\ cutoff \in Int /\ cutoff <= second - Retention
  BY <1>1 DEF EpisodeInit, Gone
<1>3. <<>> \in Seq(Entry) /\ DOMAIN <<>> = {}
  BY EmptySeq
<1>4. ClockSound
  BY <1>2, <1>3 DEF EpisodeInit, ClockSound, AllSound
<1>5. DirtySound
  BY <1>3 DEF EpisodeInit, DirtySound
<1>6. RestSound /\ CopyInPlace /\ MemoryCovers /\ CopyCovers
  BY DEF EpisodeInit, RestSound, CopyInPlace, MemoryCovers, CopyCovers
<1>7. EpisodesAreObserved
  <2> SUFFICES ASSUME NEW p \in Paths PROVE episodes[p] = {e \in EpisodesOf(SavedReadings(p)) : e.start >= cutoff}
    BY DEF EpisodesAreObserved
  <2>1. SavedReadings(p) = <<>>
    BY <1>3 DEF EpisodeInit, SavedReadings
  <2>2. EpisodesOf(SavedReadings(p)) = {}
    BY <2>1, NoneIs
  <2>3. QED BY <2>2 DEF EpisodeInit
<1>8. QED BY <1>4, <1>5, <1>6, <1>7 DEF LedgerSound

\* The table's part of the invariant rests on the table alone.
LEMMA BookStays ==
  ASSUME EpisodesAreObserved, UNCHANGED book, cropped \subseteq cropped'
  PROVE  EpisodesAreObserved'
<1>1. \A p : SavedReadings(p)' = SavedReadings(p)
  BY DEF SavedReadings, book
<1>2. QED BY <1>1 DEF EpisodesAreObserved, book

\* Time passes.
LEMMA SpreadLaterKeeps ==
  ASSUME LedgerSound, LaterReading
  PROVE  LedgerSound'
<1>0. Retention \in Nat /\ second \in Nat \ {0} /\ second' = second + 1 /\ waiting \in Seq(Entry)
  BY EpisodeAssumption DEF LaterReading, LedgerSound, ClockSound
<1>1. /\ ready' = ready /\ states' = states /\ dirty' = dirty /\ waiting' = waiting /\ copied' = copied
      /\ committed' = committed /\ saved' = saved /\ episodes' = episodes /\ cutoff' = cutoff /\ cropped' = cropped
  BY DEF LaterReading, ledger, book
<1>2. AllSound(states, second') /\ AllSound(saved, second') /\ AllSound(states, second) /\ AllSound(saved, second)
  BY <1>0, SoundLater DEF LedgerSound, ClockSound
<1>3. ClockSound'
  BY <1>0, <1>1, <1>2 DEF LedgerSound, ClockSound
<1>4. DirtySound' /\ RestSound'
  BY <1>1 DEF LedgerSound, DirtySound, RestSound
<1>5. CopyInPlace'
  <2>1. copied # Unknown => AllSound(copied.dirty, second')
    BY <1>0, SoundLater DEF LedgerSound, CopyInPlace
  <2>2. QED BY <1>0, <1>1, <2>1 DEF LedgerSound, CopyInPlace
<1>6. MemoryCovers'
  <2> SUFFICES ASSUME ready, NEW p \in Paths, p \notin cropped
               PROVE  Covers(HeldOf(states, p), HeldOf(saved, p), Versions(waiting, p), second' - Retention)
    BY <1>1 DEF MemoryCovers
  <2>1. Covers(HeldOf(states, p), HeldOf(saved, p), Versions(waiting, p), second - Retention)
    BY DEF LedgerSound, MemoryCovers
  <2>2. Timely(HeldOf(states, p)) /\ Timely(HeldOf(saved, p)) /\ Versions(waiting, p) \in SUBSET Event
    BY <1>0, <1>2, HeldIs, VersionsAre
  <2>3. second - Retention \in Int /\ second' - Retention \in Int /\ second - Retention <= second' - Retention
    BY <1>0
  <2>4. QED BY <2>1, <2>2, <2>3, CoversLater
<1>7. CopyCovers'
  BY <1>1 DEF LedgerSound, CopyCovers
<1>8. EpisodesAreObserved'
  BY <1>1, BookStays DEF LedgerSound, book
<1>9. QED BY <1>3, <1>4, <1>5, <1>6, <1>7, <1>8 DEF LedgerSound

\* A reading is observed: its state, the versions that wait, and what the queue drops.
LEMMA ObserveIs ==
  ASSUME LedgerSound, NEW p \in Paths, NEW v \in Int, ObserveSpread(p, second, v)
  PROVE  LET r == HeldOf(states, p)
             a == IF p \in DOMAIN states THEN states[p].active ELSE Unknown
             x == [at |-> second, value |-> v]
             old == OldOf(r, a, x)
             followed == IF old = Unknown THEN waiting ELSE Upsert(waiting, p, old)
             queue == IF OpensAt(r, a, x) THEN Upsert(followed, p, NewOf(r, x)) ELSE followed
             t == [readings |-> Append(r, x), active |-> NextActive(r, a, x)]
         IN /\ Timely(r) /\ ActiveIs(r, a) /\ x \in Reading /\ \A i \in 1 .. Len(r) : r[i].at < x.at
            /\ states' = Set1(states, p, t) /\ dirty' = Set1(dirty, p, t)
            /\ \E k \in Nat : /\ k = (IF Len(queue) > PendingLimit THEN Len(queue) - PendingLimit ELSE 0)
                              /\ waiting' = SubSeq(queue, k + 1, Len(queue))
                              /\ cropped' = cropped \cup FirstPaths(queue, k)
<1> DEFINE s == IF p \in DOMAIN states THEN states[p] ELSE NewState
           r == HeldOf(states, p)
           a == IF p \in DOMAIN states THEN states[p].active ELSE Unknown
           x == [at |-> second, value |-> v]
           near == 0 < second - LastAt(s) /\ second - LastAt(s) <= Contiguous
           old == OldOf(r, a, x)
           followed == IF old = Unknown THEN waiting ELSE Upsert(waiting, p, old)
           queue == IF OpensAt(r, a, x) THEN Upsert(followed, p, NewOf(r, x)) ELSE followed
           t == [readings |-> Append(r, x), active |-> NextActive(r, a, x)]
           k == IF Len(queue) > PendingLimit THEN Len(queue) - PendingLimit ELSE 0
<1>0. second \in Nat \ {0} /\ AllSound(states, second)
  BY DEF LedgerSound, ClockSound
<1>1. s.readings = r /\ s.active = a
  BY DEF NewState, HeldOf
<1>2. Timely(r) /\ Until(r, second)
  BY <1>0, HeldIs
<1>3. ActiveIs(r, a)
  <2>1. CASE p \in DOMAIN states
    BY <1>0, <2>1 DEF AllSound, StateSound, HeldOf
  <2>2. CASE p \notin DOMAIN states
    BY <2>2, NoneIs DEF HeldOf
  <2>3. QED BY <2>1, <2>2
<1>4. x \in Reading /\ x.at = second /\ x.value = v
  BY <1>0 DEF Reading
<1>5. second > LastAt(s) /\ LastAt(s) = IF r = <<>> THEN 0 ELSE r[Len(r)].at
  BY <1>1 DEF ObserveSpread, LastAt, Newest
<1>6. \A i \in 1 .. Len(r) : r[i].at < x.at
  <2> SUFFICES ASSUME NEW i \in 1 .. Len(r) PROVE r[i].at < second
    BY <1>4
  <2>1. Len(r) \in Nat
    BY <1>2, LenProperties DEF Timely
  <2>2. r # <<>> /\ Len(r) \in 1 .. Len(r)
    BY <2>1, NoneIs
  <2>3. r[Len(r)].at < second /\ r[Len(r)].at \in Nat /\ r[i].at \in Nat
    BY <1>0, <1>2, <1>5, <2>2, ReadingIs
  <2>4. i = Len(r) \/ r[i].at < r[Len(r)].at
    <3>1. i = Len(r) \/ i < Len(r)
      BY <2>1
    <3>2. QED BY <1>2, <2>2, <3>1 DEF Timely
  <2>5. QED BY <1>0, <2>3, <2>4
<1>7. near = NearTo(r, x)
  BY <1>4, <1>5 DEF NearTo
<1>8. (IF s.active = Unknown THEN Unknown ELSE FollowedThrough(s.active, second, v, near)) = old
  BY <1>1, <1>4, <1>7 DEF OldOf
<1>9. Opening(s, second, v, near) = NewOf(r, x)
  BY <1>1, <1>4, <1>7 DEF Opening, NewOf, Newest
<1>10. (IF old = Unknown THEN TRUE ELSE old.end # NoEnd) = OverAt(r, a, x)
  BY DEF OverAt
<1>11. (OverAt(r, a, x) /\ (v >= 4 \/ v <= -4)) = OpensAt(r, a, x)
  BY <1>4 DEF OpensAt
<1>12. (IF OpensAt(r, a, x) THEN NewOf(r, x) ELSE IF OverAt(r, a, x) THEN Unknown ELSE old) = NextActive(r, a, x)
  BY DEF NextActive
<1> HIDE DEF s, near, old
<1>13. /\ states' = Set1(states, p, t) /\ dirty' = Set1(dirty, p, t)
       /\ waiting' = SubSeq(queue, k + 1, Len(queue))
       /\ cropped' = cropped \cup FirstPaths(queue, k)
  <2> HIDE DEF r, a
  <2>1. /\ states' = Set1(states, p, [readings |-> Append(s.readings, [at |-> second, value |-> v]),
                                      active |-> IF OpensAt(r, a, x) THEN NewOf(r, x) ELSE IF OverAt(r, a, x) THEN Unknown ELSE old])
        /\ dirty' = Set1(dirty, p, [readings |-> Append(s.readings, [at |-> second, value |-> v]),
                                      active |-> IF OpensAt(r, a, x) THEN NewOf(r, x) ELSE IF OverAt(r, a, x) THEN Unknown ELSE old])
    BY <1>8, <1>9, <1>10, <1>11 DEF ObserveSpread, s, near
  <2>2. /\ waiting' = SubSeq(queue, k + 1, Len(queue))
        /\ cropped' = cropped \cup FirstPaths(queue, k)
    <3> HIDE DEF k, queue, followed, x
    <3>1. (IF old = Unknown THEN waiting ELSE Upsert(waiting, p, old)) = followed
      BY DEF followed
    <3>2. (IF OpensAt(r, a, x) THEN Upsert(followed, p, NewOf(r, x)) ELSE followed) = queue
      BY DEF queue
    <3>3. (IF Len(queue) > PendingLimit THEN Len(queue) - PendingLimit ELSE 0) = k
      BY DEF k
    <3>4. waiting' = SubSeq(queue, k + 1, Len(queue))
      BY <1>8, <1>9, <1>10, <1>11, <3>1, <3>2, <3>3, Zenon DEF ObserveSpread, s, near
    <3>5. cropped' = cropped \cup FirstPaths(queue, k)
      BY <1>8, <1>9, <1>10, <1>11, <3>1, <3>2, <3>3, Zenon DEF ObserveSpread, s, near
    <3>6. QED BY <3>4, <3>5
  <2>3. QED BY <1>1, <1>12, <2>1, <2>2
<1> HIDE DEF r, a, t, x
<1>14. old # Unknown => old \in Event
  BY <1>2, <1>3, <1>4, <1>6, SeenIs, StartsAre DEF OldOf, old
<1>15. OpensAt(r, a, x) => NewOf(r, x) \in Event
  BY <1>2, <1>3, <1>4, <1>6, SeenIs, StartsAre
<1>16. queue \in Seq(Entry)
  <2>1. waiting \in Seq(Entry)
    BY DEF LedgerSound, ClockSound
  <2>2. followed \in Seq(Entry)
    BY <1>14, <2>1, UpsertIs
  <2> HIDE DEF followed
  <2>3. QED BY <1>15, <2>2, UpsertIs
<1> HIDE DEF queue
<1>17. k \in Nat
  <2>1. Len(queue) \in Nat /\ PendingLimit \in Nat
    BY <1>16, LenProperties, EpisodeAssumption
  <2>2. QED BY <2>1
<1> HIDE DEF k
<1>18. /\ Timely(r) /\ ActiveIs(r, a) /\ x \in Reading /\ \A i \in 1 .. Len(r) : r[i].at < x.at
       /\ states' = Set1(states, p, t) /\ dirty' = Set1(dirty, p, t)
       /\ k \in Nat /\ waiting' = SubSeq(queue, k + 1, Len(queue))
       /\ cropped' = cropped \cup FirstPaths(queue, k)
  BY <1>2, <1>3, <1>4, <1>6, <1>13, <1>17
<1>19. QED BY <1>18 DEF r, a, x, t, queue, followed, old, k

\* An observed reading: its path is covered with one more reading, the others as before.
LEMMA SpreadObserveKeeps ==
  ASSUME LedgerSound, NEW p \in Paths, NEW v \in Int, ObserveSpread(p, second, v)
  PROVE  LedgerSound'
<1> DEFINE r == HeldOf(states, p)
           a == IF p \in DOMAIN states THEN states[p].active ELSE Unknown
           x == [at |-> second, value |-> v]
           old == OldOf(r, a, x)
           followed == IF old = Unknown THEN waiting ELSE Upsert(waiting, p, old)
           queue == IF OpensAt(r, a, x) THEN Upsert(followed, p, NewOf(r, x)) ELSE followed
           t == [readings |-> Append(r, x), active |-> NextActive(r, a, x)]
           n == Len(queue)
<1>1. /\ Timely(r) /\ ActiveIs(r, a) /\ x \in Reading /\ \A i \in 1 .. Len(r) : r[i].at < x.at
      /\ states' = Set1(states, p, t) /\ dirty' = Set1(dirty, p, t)
      /\ \E k \in Nat : /\ k = (IF n > PendingLimit THEN n - PendingLimit ELSE 0)
                        /\ waiting' = SubSeq(queue, k + 1, n)
                        /\ cropped' = cropped \cup FirstPaths(queue, k)
  BY ObserveIs
<1>2. /\ second' = second /\ ready' = ready /\ ready /\ copied' = copied /\ committed' = committed
      /\ saved' = saved /\ episodes' = episodes /\ cutoff' = cutoff /\ x.at = second
  BY DEF ObserveSpread, book
<1>3. t.readings = Append(r, x) /\ t.active = NextActive(r, a, x)
  OBVIOUS
<1>4. /\ second \in Nat \ {0} /\ AllSound(states, second) /\ AllSound(saved, second) /\ waiting \in Seq(Entry)
      /\ Retention \in Nat
  BY EpisodeAssumption DEF LedgerSound, ClockSound
<1> HIDE DEF r, a, x, t
<1>5. old # Unknown => old \in Event
  BY <1>1, SeenIs, StartsAre DEF OldOf
<1>6. OpensAt(r, a, x) => NewOf(r, x) \in Event
  BY <1>1, SeenIs, StartsAre
<1> HIDE DEF old
<1>7. /\ followed \in Seq(Entry)
      /\ Versions(followed, p) = (IF old = Unknown THEN Versions(waiting, p) ELSE Renewed(Versions(waiting, p), old))
      /\ \A o \in Paths : o # p => Versions(followed, o) = Versions(waiting, o)
  BY <1>4, <1>5, UpsertIs
<1> HIDE DEF followed
<1>8. /\ queue \in Seq(Entry)
      /\ Versions(queue, p) = (IF OpensAt(r, a, x) THEN Renewed(Versions(followed, p), NewOf(r, x)) ELSE Versions(followed, p))
      /\ \A o \in Paths : o # p => Versions(queue, o) = Versions(followed, o)
  BY <1>6, <1>7, UpsertIs
<1> HIDE DEF queue
<1>9. PICK k \in Nat : /\ k = (IF n > PendingLimit THEN n - PendingLimit ELSE 0)
                       /\ waiting' = SubSeq(queue, k + 1, n)
                       /\ cropped' = cropped \cup FirstPaths(queue, k)
  BY <1>1
<1>10. k \in 0 .. n
  <2>1. n \in Nat /\ PendingLimit \in Nat
    BY <1>8, LenProperties, EpisodeAssumption
  <2>2. QED BY <1>9, <2>1
<1>11. /\ waiting' \in Seq(Entry)
       /\ \A o \in Paths : (\A i \in 1 .. k : queue[i].path # o) => Versions(waiting', o) = Versions(queue, o)
  BY <1>8, <1>9, <1>10, TailIs
<1>12. \A o \in Paths \ cropped' : Versions(waiting', o) = Versions(queue, o)
  BY <1>9, <1>11 DEF FirstPaths
<1>13. cropped \subseteq cropped'
  BY <1>9
<1>14. Timely(Append(r, x)) /\ Begins(r, Append(r, x)) /\ ActiveIs(Append(r, x), NextActive(r, a, x))
  BY <1>1, SeenIs
<1>15. Until(Append(r, x), second)
  <2>1. Len(Append(r, x)) = Len(r) + 1 /\ Append(r, x)[Len(r) + 1] = x /\ Len(r) \in Nat
        /\ \A i \in 1 .. Len(r) : Append(r, x)[i] = r[i]
    BY <1>1, AppendedIs
  <2>2. \A i \in 1 .. (Len(r) + 1) : i \in 1 .. Len(r) \/ i = Len(r) + 1
    BY <2>1
  <2>3. Until(r, second)
    BY <1>4, HeldIs DEF r
  <2>4. QED BY <1>2, <1>4, <2>1, <2>2, <2>3 DEF Until
<1>16. StateSound(t, second)
  BY <1>3, <1>14, <1>15 DEF StateSound
<1>17. /\ DOMAIN states' = DOMAIN states \cup {p} /\ states'[p] = t
       /\ \A o \in DOMAIN states : o # p => states'[o] = states[o]
       /\ DOMAIN dirty' = DOMAIN dirty \cup {p} /\ dirty'[p] = t
       /\ \A o \in DOMAIN dirty : o # p => dirty'[o] = dirty[o]
  <2>1. states' = Set1(states, p, t) /\ dirty' = Set1(dirty, p, t)
    BY <1>1
  <2>2. \A f : /\ DOMAIN Set1(f, p, t) = DOMAIN f \cup {p} /\ Set1(f, p, t)[p] = t
               /\ \A o \in DOMAIN f : o # p => Set1(f, p, t)[o] = f[o]
    BY DEF Set1
  <2>3. QED BY <2>1, <2>2
<1>18. HeldOf(states', p) = Append(r, x) /\ \A o : o # p => HeldOf(states', o) = HeldOf(states, o)
  BY <1>3, <1>17 DEF HeldOf
<1>19. ClockSound'
  <2>1. AllSound(states', second)
    BY <1>4, <1>16, <1>17 DEF AllSound
  <2>2. QED BY <1>2, <1>4, <1>11, <2>1 DEF LedgerSound, ClockSound
<1>20. DirtySound'
  BY <1>2, <1>17 DEF LedgerSound, DirtySound
<1>21. RestSound'
  BY <1>2 DEF LedgerSound, RestSound
<1>22. CopyInPlace'
  BY <1>2, <1>17 DEF LedgerSound, CopyInPlace
<1>23. MemoryCovers'
  <2> SUFFICES ASSUME NEW o \in Paths, o \notin cropped'
               PROVE  Covers(HeldOf(states', o), HeldOf(saved, o), Versions(waiting', o), second - Retention)
    BY <1>2 DEF MemoryCovers
  <2>1. Covers(HeldOf(states, o), HeldOf(saved, o), Versions(waiting, o), second - Retention)
    BY <1>2, <1>13 DEF LedgerSound, MemoryCovers
  <2>2. Versions(waiting', o) = Versions(queue, o)
    BY <1>12
  <2>3. CASE o # p
    BY <1>7, <1>8, <1>18, <2>1, <2>2, <2>3
  <2>4. CASE o = p
    <3>1. Timely(HeldOf(saved, p)) /\ Versions(waiting, p) \in SUBSET Event /\ second - Retention \in Int
      BY <1>4, HeldIs, VersionsAre
    <3>2. Covers(r, HeldOf(saved, p), Versions(waiting, p), second - Retention)
      BY <2>1, <2>4 DEF r
    <3>3. Covers(Append(r, x), HeldOf(saved, p), Versions(queue, p), second - Retention)
      BY <1>1, <1>7, <1>8, <3>1, <3>2, CoversObserved DEF old
    <3>4. QED BY <1>18, <2>2, <2>4, <3>3
  <2>5. QED BY <2>3, <2>4
<1>24. CopyCovers'
  <2> SUFFICES ASSUME copied # Unknown, NEW o \in Paths, o \notin cropped'
               PROVE  Goes(CopyOf(copied, saved, o), HeldOf(states', o), copied.at - Retention)
    BY <1>2, <1>13 DEF LedgerSound, CopyCovers
  <2>1. Goes(CopyOf(copied, saved, o), HeldOf(states, o), copied.at - Retention)
    BY <1>13 DEF LedgerSound, CopyCovers
  <2>2. CASE o # p
    BY <1>18, <2>1, <2>2
  <2>3. CASE o = p
    <3>1. Timely(CopyOf(copied, saved, p)) /\ copied.at - Retention \in Int
      BY <1>4, CopyIs DEF LedgerSound, CopyInPlace
    <3>2. Goes(CopyOf(copied, saved, p), r, copied.at - Retention)
      BY <2>1, <2>3 DEF r
    <3>3. Goes(CopyOf(copied, saved, p), Append(r, x), copied.at - Retention)
      BY <1>1, <1>14, <3>1, <3>2, GoesOn
    <3>4. QED BY <1>18, <2>3, <3>3
  <2>4. QED BY <2>2, <2>3
<1>25. EpisodesAreObserved'
  BY <1>2, <1>13, BookStays DEF LedgerSound, book
<1>26. QED BY <1>19, <1>20, <1>21, <1>22, <1>23, <1>24, <1>25 DEF LedgerSound

\* A restart takes states from the table: what is taken is covered, and nothing waits.
LEMMA SpreadRestoreKeeps ==
  ASSUME LedgerSound, Restore
  PROVE  LedgerSound'
<1>1. PICK P \in SUBSET DOMAIN saved : /\ states' = [p \in P |-> saved[p]]
                                       /\ cropped' = cropped \cup (DOMAIN saved \ P)
  BY DEF Restore
<1>2. /\ ready' = TRUE /\ ~ ready /\ copied = Unknown /\ copied' = copied /\ committed' = committed /\ dirty' = dirty
      /\ waiting' = waiting /\ second' = second /\ saved' = saved /\ episodes' = episodes /\ cutoff' = cutoff
  BY DEF Restore, book
<1>3. dirty = <<>> /\ waiting = <<>> /\ DOMAIN <<>> = {}
  BY <1>2, EmptySeq DEF LedgerSound, RestSound
<1>4. /\ second \in Nat \ {0} /\ AllSound(saved, second) /\ Retention \in Nat
  BY EpisodeAssumption DEF LedgerSound, ClockSound
<1>5. ClockSound'
  <2>1. AllSound(states', second)
    BY <1>1, <1>4 DEF AllSound
  <2>2. QED BY <1>2, <2>1 DEF LedgerSound, ClockSound
<1>6. DirtySound'
  BY <1>1, <1>2, <1>3 DEF DirtySound
<1>7. RestSound' /\ CopyInPlace' /\ CopyCovers'
  BY <1>2 DEF LedgerSound, RestSound, CopyInPlace, CopyCovers
<1>8. MemoryCovers'
  <2> SUFFICES ASSUME NEW p \in Paths, p \notin cropped'
               PROVE  Covers(HeldOf(states', p), HeldOf(saved, p), Versions(waiting, p), second - Retention)
    BY <1>2 DEF MemoryCovers
  <2>1. HeldOf(states', p) = HeldOf(saved, p)
    BY <1>1 DEF HeldOf
  <2>2. Versions(waiting, p) = {}
    BY <1>3, NoneIs DEF Versions
  <2>3. Begins(HeldOf(saved, p), HeldOf(saved, p))
    BY <1>4, HeldIs, NoneIs
  <2>4. QED BY <2>1, <2>2, <2>3 DEF Covers, Goes
<1>9. EpisodesAreObserved'
  BY <1>1, <1>2, BookStays DEF LedgerSound, book
<1>10. QED BY <1>5, <1>6, <1>7, <1>8, <1>9 DEF LedgerSound

\* What is new is copied; a state that leaves the memory was not read since the retention.
LEMMA SpreadCopyKeeps ==
  ASSUME LedgerSound, CopyLedger
  PROVE  LedgerSound'
<1> DEFINE h == second - Retention
<1>1. /\ states' = [p \in DOMAIN states \ Expired |-> states[p]]
      /\ dirty' = [p \in DOMAIN dirty \ Expired |-> dirty[p]]
      /\ copied' = [expired |-> Expired, dirty |-> dirty', pending |-> waiting, at |-> second]
      /\ ready /\ ready' = ready /\ copied = Unknown /\ committed' = committed /\ cropped' = cropped
      /\ waiting' = waiting /\ second' = second /\ saved' = saved /\ episodes' = episodes /\ cutoff' = cutoff
  BY DEF CopyLedger, book
<1>2. copied'.expired = Expired /\ copied'.dirty = dirty' /\ copied'.pending = waiting /\ copied'.at = second
  BY <1>1
<1>3. /\ second \in Nat \ {0} /\ AllSound(states, second) /\ AllSound(saved, second) /\ waiting \in Seq(Entry)
      /\ Retention \in Nat /\ cutoff <= h /\ h \in Int /\ ~ committed
  BY <1>1, EpisodeAssumption DEF LedgerSound, ClockSound, RestSound
<1> HIDE DEF h
<1>4. AllSound(states', second)
  BY <1>1, <1>3 DEF AllSound
<1>5. AllSound(dirty', second)
  BY <1>1, <1>3 DEF AllSound, LedgerSound, DirtySound
<1>6. ClockSound'
  BY <1>1, <1>4 DEF LedgerSound, ClockSound
<1>7. DirtySound'
  BY <1>1 DEF LedgerSound, DirtySound
<1>8. RestSound'
  BY <1>1, <1>3 DEF RestSound
<1>9. CopyInPlace'
  <2>1. \A p \in DOMAIN dirty' : p \notin Expired
    BY <1>1
  <2>2. \A p \in Expired : p \notin DOMAIN states'
    BY <1>1
  <2>3. QED BY <1>1, <1>2, <1>3, <1>5, <2>1, <2>2 DEF CopyInPlace, h
<1>10. ASSUME NEW p \in Paths, p \notin cropped
       PROVE  /\ Covers(HeldOf(states', p), HeldOf(saved, p), Versions(waiting, p), h)
              /\ Goes(CopyOf(copied', saved, p), HeldOf(states', p), h)
              /\ Covers(CopyOf(copied', saved, p), HeldOf(saved, p), Versions(waiting, p), h)
  <2> DEFINE m == HeldOf(states, p)
             s == HeldOf(saved, p)
             W == Versions(waiting, p)
  <2>1. Covers(m, s, W, h)
    BY <1>1, <1>10 DEF LedgerSound, MemoryCovers, h
  <2>2. Timely(m) /\ Timely(s) /\ Until(m, second)
    BY <1>3, HeldIs
  <2>3. \A e \in W : e.start \in Nat
    BY <1>3, VersionsAre DEF Event
  <2> HIDE DEF m, s, W
  <2>4. ASSUME Past(m, h)
        PROVE  Covers(<<>>, s, W, h) /\ Covers(s, s, W, h)
    <3>1. \A e \in W : ~ (e.start >= h)
      <4> SUFFICES ASSUME NEW e \in W, e.start >= h PROVE FALSE
        OBVIOUS
      <4>1. e \in EpisodesOf(m)
        BY <2>1 DEF Covers
      <4>2. e.start < h
        BY <1>3, <2>2, <2>4, <4>1, PastAre
      <4>3. QED BY <1>3, <2>3, <4>2
    <3>2. Past(s, h)
      BY <1>3, <2>1, <2>2, <2>4, GoesOn DEF Covers
    <3>3. QED BY <2>2, <3>1, <3>2, NoneIs DEF Covers, Goes
  <2>5. CASE p \in DOMAIN states /\ p \notin Expired
    <3>1. HeldOf(states', p) = m
      BY <1>1, <2>5 DEF HeldOf, m
    <3>2. CopyOf(copied', saved, p) = m
      <4>1. CASE p \in DOMAIN dirty
        BY <1>1, <1>2, <2>5, <4>1 DEF CopyOf, HeldOf, m, LedgerSound, DirtySound
      <4>2. CASE p \notin DOMAIN dirty
        BY <1>1, <1>2, <2>5, <4>2 DEF CopyOf, HeldOf, m, LedgerSound, DirtySound
      <4>3. QED BY <4>1, <4>2
    <3>3. Begins(m, m)
      BY <2>2, NoneIs
    <3>4. QED BY <2>1, <3>1, <3>2, <3>3 DEF Goes, s, W
  <2>6. CASE p \in Expired
    <3>1. p \in DOMAIN states /\ LastAt(states[p]) < h
      BY <2>6 DEF Expired, h
    <3>2. Past(m, h)
      <4>1. m = states[p].readings
        BY <3>1 DEF m, HeldOf
      <4>2. SUFFICES ASSUME NEW i \in 1 .. Len(m) PROVE m[i].at < h
        BY DEF Past
      <4>3. Len(m) \in Nat
        BY <2>2, LenProperties DEF Timely
      <4>4. m # <<>> /\ Len(m) \in 1 .. Len(m)
        BY <4>3, NoneIs
      <4>5. m[Len(m)].at < h /\ m[Len(m)].at \in Nat /\ m[i].at \in Nat
        BY <2>2, <3>1, <4>1, <4>4, ReadingIs DEF LastAt, Newest
      <4>6. i = Len(m) \/ i < Len(m)
        BY <4>3
      <4>7. i = Len(m) \/ m[i].at < m[Len(m)].at
        BY <2>2, <4>4, <4>6 DEF Timely
      <4>8. QED BY <1>3, <4>5, <4>7
    <3>3. HeldOf(states', p) = <<>> /\ CopyOf(copied', saved, p) = <<>>
      BY <1>1, <1>2, <2>6 DEF HeldOf, CopyOf
    <3>4. Begins(<<>>, <<>>)
      BY NoneIs
    <3>5. QED BY <2>4, <3>2, <3>3, <3>4 DEF Goes, s, W
  <2>7. CASE p \notin DOMAIN states
    <3>1. m = <<>> /\ HeldOf(states', p) = <<>>
      BY <1>1, <2>7 DEF m, HeldOf
    <3>2. p \notin DOMAIN dirty' /\ p \notin Expired
      BY <1>1, <2>7 DEF LedgerSound, DirtySound, Expired
    <3>3. CopyOf(copied', saved, p) = s
      BY <1>2, <3>2 DEF CopyOf, s
    <3>4. Past(m, h)
      BY <3>1, NoneIs
    <3>5. Goes(s, <<>>, h)
      BY <2>1, <3>1 DEF Covers
    <3>6. QED BY <2>4, <3>1, <3>3, <3>4, <3>5 DEF s, W
  <2>8. QED BY <2>5, <2>6, <2>7
<1>11. MemoryCovers'
  BY <1>1, <1>10 DEF MemoryCovers, h
<1>12. CopyCovers'
  BY <1>1, <1>2, <1>3, <1>10 DEF CopyCovers, h
<1>13. EpisodesAreObserved'
  BY <1>1, BookStays DEF LedgerSound, book
<1>14. QED BY <1>6, <1>7, <1>8, <1>9, <1>11, <1>12, <1>13 DEF LedgerSound

\* The transaction: the rows become the episodes of the copied states.
LEMMA SpreadCommitKeeps ==
  ASSUME LedgerSound, CommitLedger
  PROVE  LedgerSound'
<1> DEFINE a == copied.at - Retention
           h == second - Retention
<1>1. /\ copied # Unknown /\ ~ committed /\ committed' = TRUE /\ cutoff' = a
      /\ saved' = [p \in DOMAIN copied.dirty \cup (DOMAIN saved \ copied.expired) |->
                    IF p \in DOMAIN copied.dirty THEN copied.dirty[p] ELSE saved[p]]
      /\ ready' = ready /\ states' = states /\ dirty' = dirty /\ waiting' = waiting /\ copied' = copied
      /\ second' = second /\ cropped' = cropped
  BY DEF CommitLedger, ledger
<1>2. \A p \in Paths : episodes'[p] =
        {e \in Versions(copied.pending, p) \cup {o \in episodes[p] : \A n \in Versions(copied.pending, p) : ~ SameEvent(o, n)} : e.start >= a}
  <2>1. copied.pending \in Seq(Entry)
    BY <1>1 DEF LedgerSound, CopyInPlace
  <2>2. DOMAIN copied.pending = 1 .. Len(copied.pending)
    BY <2>1, LenProperties
  <2>3. QED BY <1>1, <2>2 DEF CommitLedger, Versions
<1>3. /\ second \in Nat \ {0} /\ AllSound(states, second) /\ AllSound(saved, second) /\ waiting \in Seq(Entry)
      /\ Retention \in Nat /\ copied.at \in Nat /\ cutoff \in Int /\ cutoff <= a /\ AllSound(copied.dirty, second)
      /\ ready /\ copied.at <= second
      /\ \A p \in DOMAIN copied.dirty : p \in DOMAIN dirty /\ p \notin copied.expired
      /\ \A p \in copied.expired : p \in DOMAIN states => p \in DOMAIN dirty
  BY <1>1, EpisodeAssumption DEF LedgerSound, ClockSound, CopyInPlace
<1>4. a \in Int /\ h \in Int /\ a <= h
  BY <1>3
<1>5. /\ DOMAIN saved' = DOMAIN copied.dirty \cup (DOMAIN saved \ copied.expired)
      /\ \A p \in DOMAIN copied.dirty : saved'[p] = copied.dirty[p]
      /\ \A p \in DOMAIN saved \ copied.expired : p \notin DOMAIN copied.dirty => saved'[p] = saved[p]
  BY <1>1
<1>6. \A p : HeldOf(saved', p) = CopyOf(copied, saved, p)
  <2> TAKE p
  <2>1. CASE p \in DOMAIN copied.dirty
    BY <1>5, <2>1 DEF HeldOf, CopyOf
  <2>2. CASE p \notin DOMAIN copied.dirty
    BY <1>5, <2>2 DEF HeldOf, CopyOf
  <2>3. QED BY <2>1, <2>2
<1>7. ClockSound'
  <2>1. AllSound(saved', second)
    BY <1>3, <1>5 DEF AllSound
  <2>2. QED BY <1>1, <1>3, <1>4, <2>1 DEF ClockSound
<1>8. DirtySound'
  BY <1>1, <1>3, <1>5 DEF LedgerSound, DirtySound
<1>9. RestSound'
  BY <1>1 DEF LedgerSound, RestSound
<1>10. CopyInPlace'
  <2>1. \A p \in copied.expired : p \notin DOMAIN saved'
    BY <1>3, <1>5
  <2>2. copied.pending \in Seq(Entry)
    BY <1>1 DEF LedgerSound, CopyInPlace
  <2>3. QED BY <1>1, <1>3, <1>4, <1>5, <2>1, <2>2 DEF CopyInPlace
<1> HIDE DEF a, h
<1>11. \A p \in Paths : Timely(HeldOf(states, p)) /\ Timely(HeldOf(saved, p)) /\ Timely(CopyOf(copied, saved, p))
  BY <1>3, HeldIs, CopyIs
<1>12. \A p \in Paths \ cropped :
         /\ Covers(HeldOf(states, p), HeldOf(saved, p), Versions(waiting, p), h)
         /\ Covers(CopyOf(copied, saved, p), HeldOf(saved, p), Versions(copied.pending, p), a)
         /\ Goes(CopyOf(copied, saved, p), HeldOf(states, p), a)
  BY <1>1, <1>3 DEF LedgerSound, MemoryCovers, CopyCovers, a, h
<1>13. MemoryCovers'
  <2> SUFFICES ASSUME NEW p \in Paths, p \notin cropped
               PROVE  Covers(HeldOf(states, p), HeldOf(saved', p), Versions(waiting, p), h)
    BY <1>1 DEF MemoryCovers, h
  <2>1. Covers(HeldOf(states, p), CopyOf(copied, saved, p), Versions(waiting, p), h)
    BY <1>4, <1>11, <1>12, CoversWritten
  <2>2. QED BY <1>6, <2>1
<1>14. CopyCovers'
  <2> SUFFICES ASSUME NEW p \in Paths, p \notin cropped
               PROVE  /\ Goes(CopyOf(copied, saved', p), HeldOf(states, p), a)
                      /\ \A e \in Versions(copied.pending, p) : e.start >= a => e \in EpisodesOf(HeldOf(saved', p))
    BY <1>1 DEF CopyCovers, a
  <2>1. CopyOf(copied, saved', p) = CopyOf(copied, saved, p)
    <3>1. CASE p \in DOMAIN copied.dirty
      BY <3>1 DEF CopyOf
    <3>2. CASE p \notin DOMAIN copied.dirty /\ p \in copied.expired
      BY <3>2 DEF CopyOf
    <3>3. CASE p \notin DOMAIN copied.dirty /\ p \notin copied.expired
      BY <1>6, <3>3 DEF CopyOf
    <3>4. QED BY <3>1, <3>2, <3>3
  <2>2. QED BY <1>6, <1>12, <2>1 DEF Covers
<1>15. EpisodesAreObserved'
  <2> SUFFICES ASSUME NEW p \in Paths, p \notin cropped
               PROVE  episodes'[p] = {e \in EpisodesOf(HeldOf(saved', p)) : e.start >= a}
    BY <1>1 DEF EpisodesAreObserved, SavedReadings, HeldOf
  <2>1. episodes[p] = {e \in EpisodesOf(HeldOf(saved, p)) : e.start >= cutoff}
    BY DEF LedgerSound, EpisodesAreObserved, SavedReadings, HeldOf
  <2>2. {e \in Versions(copied.pending, p) \cup {o \in episodes[p] : \A n \in Versions(copied.pending, p) : ~ SameEvent(o, n)} : e.start >= a}
          = {e \in EpisodesOf(CopyOf(copied, saved, p)) : e.start >= a}
    <3> DEFINE c == CopyOf(copied, saved, p)
               s == HeldOf(saved, p)
               W == Versions(copied.pending, p)
               T == episodes[p]
    <3>1. Timely(c) /\ Timely(s) /\ Covers(c, s, W, a) /\ T = {e \in EpisodesOf(s) : e.start >= cutoff}
      BY <1>11, <1>12, <2>1
    <3>2. a \in Int /\ cutoff \in Int /\ cutoff <= a
      BY <1>3, <1>4
    <3> HIDE DEF c, s, W, T
    <3>3. {e \in W \cup {o \in T : \A n \in W : ~ SameEvent(o, n)} : e.start >= a} = {e \in EpisodesOf(c) : e.start >= a}
      BY <3>1, <3>2, RowsAre
    <3>4. QED BY <3>3 DEF c, W, T
  <2>3. QED BY <1>2, <1>6, <2>2
<1>16. QED BY <1>7, <1>8, <1>9, <1>10, <1>13, <1>14, <1>15 DEF LedgerSound

\* A transaction fails: the table is as it was, and what was copied waits still.
LEMMA SpreadFailKeeps ==
  ASSUME LedgerSound, FailLedger
  PROVE  LedgerSound'
<1>1. /\ copied' = Unknown /\ committed' = FALSE /\ copied # Unknown
      /\ ready' = ready /\ states' = states /\ dirty' = dirty /\ waiting' = waiting
      /\ saved' = saved /\ episodes' = episodes /\ cutoff' = cutoff /\ second' = second /\ cropped' = cropped
  BY DEF FailLedger, ledger, book
<1>2. ClockSound' /\ DirtySound'
  BY <1>1 DEF LedgerSound, ClockSound, DirtySound
<1>3. RestSound' /\ CopyInPlace' /\ CopyCovers'
  BY <1>1 DEF LedgerSound, RestSound, CopyInPlace, CopyCovers
<1>4. MemoryCovers'
  BY <1>1 DEF LedgerSound, MemoryCovers
<1>5. EpisodesAreObserved'
  BY <1>1, BookStays DEF LedgerSound, book
<1>6. QED BY <1>2, <1>3, <1>4, <1>5 DEF LedgerSound

\* What is cleared after a write is in the table.
LEMMA SpreadAcknowledgeKeeps ==
  ASSUME LedgerSound, AcknowledgeLedger
  PROVE  LedgerSound'
<1> DEFINE a == copied.at - Retention
           h == second - Retention
<1>1. /\ copied # Unknown /\ committed /\ copied' = Unknown /\ committed' = FALSE
      /\ dirty' = [p \in {q \in DOMAIN dirty : q \notin DOMAIN copied.dirty \/ copied.dirty[q] # dirty[q]} |-> dirty[p]]
      /\ waiting' = StillPending(waiting, copied.pending)
      /\ ready' = ready /\ states' = states /\ second' = second /\ cropped' = cropped
      /\ saved' = saved /\ episodes' = episodes /\ cutoff' = cutoff
  BY DEF AcknowledgeLedger, StillDirty, book
<1>2. /\ second \in Nat \ {0} /\ AllSound(states, second) /\ AllSound(saved, second) /\ waiting \in Seq(Entry)
      /\ Retention \in Nat /\ copied.at \in Nat /\ copied.pending \in Seq(Entry) /\ ready /\ copied.at <= second
      /\ \A p \in DOMAIN copied.dirty : p \in DOMAIN saved /\ saved[p] = copied.dirty[p]
  BY <1>1, EpisodeAssumption DEF LedgerSound, ClockSound, CopyInPlace
<1>3. a \in Int /\ h \in Int /\ a <= h
  BY <1>2
<1>4. /\ waiting' \in Seq(Entry)
      /\ \A p \in Paths : /\ Versions(waiting', p) \subseteq Versions(waiting, p)
                          /\ Versions(waiting, p) \subseteq Versions(waiting', p) \cup Versions(copied.pending, p)
  BY <1>1, <1>2, StillIs
<1>5. ClockSound'
  BY <1>1, <1>4 DEF LedgerSound, ClockSound
<1>6. DirtySound'
  BY <1>1, <1>2 DEF LedgerSound, DirtySound
<1>7. RestSound' /\ CopyInPlace' /\ CopyCovers'
  BY <1>1, <1>2 DEF LedgerSound, RestSound, CopyInPlace, CopyCovers
<1> HIDE DEF a, h
<1>8. MemoryCovers'
  <2> SUFFICES ASSUME NEW p \in Paths, p \notin cropped
               PROVE  Covers(HeldOf(states, p), HeldOf(saved, p), Versions(waiting', p), h)
    BY <1>1 DEF MemoryCovers, h
  <2>1. Covers(HeldOf(states, p), HeldOf(saved, p), Versions(waiting, p), h)
    BY <1>2 DEF LedgerSound, MemoryCovers, h
  <2>2. \A e \in Versions(copied.pending, p) : e.start >= a => e \in EpisodesOf(HeldOf(saved, p))
    BY <1>1 DEF LedgerSound, CopyCovers, a
  <2>3. \A e \in EpisodesOf(HeldOf(states, p)) : e.start \in Nat
    BY <1>2, HeldIs, StartsAre
  <2>4. ASSUME NEW e \in EpisodesOf(HeldOf(states, p)), e.start >= h
        PROVE  e \in EpisodesOf(HeldOf(saved, p)) \cup Versions(waiting', p)
    <3>1. e.start >= a
      BY <1>3, <2>3, <2>4
    <3>2. e \in EpisodesOf(HeldOf(saved, p)) \cup Versions(waiting, p)
      BY <2>1, <2>4 DEF Covers
    <3>3. QED BY <1>4, <2>2, <3>1, <3>2
  <2>5. QED BY <1>4, <2>1, <2>4 DEF Covers
<1>9. EpisodesAreObserved'
  BY <1>1, BookStays DEF LedgerSound, book
<1>10. QED BY <1>5, <1>6, <1>7, <1>8, <1>9 DEF LedgerSound

\* The process dies: only the table is left.
LEMMA SpreadDeathKeeps ==
  ASSUME LedgerSound, LedgerDies
  PROVE  LedgerSound'
<1>1. /\ copied' = Unknown /\ committed' = FALSE /\ ready' = FALSE /\ states' = <<>> /\ dirty' = <<>> /\ waiting' = <<>>
      /\ saved' = saved /\ episodes' = episodes /\ cutoff' = cutoff /\ second' = second /\ cropped' = cropped
  BY DEF LedgerDies, book
<1>2. <<>> \in Seq(Entry) /\ DOMAIN <<>> = {}
  BY EmptySeq
<1>3. ClockSound' /\ DirtySound'
  BY <1>1, <1>2 DEF LedgerSound, ClockSound, DirtySound, AllSound
<1>4. RestSound' /\ CopyInPlace' /\ CopyCovers' /\ MemoryCovers'
  BY <1>1 DEF RestSound, CopyInPlace, CopyCovers, MemoryCovers
<1>5. EpisodesAreObserved'
  BY <1>1, BookStays DEF LedgerSound, book
<1>6. QED BY <1>3, <1>4, <1>5 DEF LedgerSound

\* "Observed opening episodes": for any readings, limits, failures and restarts, the table
\* holds exactly the episodes of the readings its states rest on that the retention spares.
THEOREM EpisodesObserved == EpisodeSpec => []EpisodesAreObserved
<1>1. LedgerSound /\ [EpisodeNext]_episodeVars => LedgerSound'
  <2> SUFFICES ASSUME LedgerSound, [EpisodeNext]_episodeVars PROVE LedgerSound'
    OBVIOUS
  <2>1. ASSUME NEW p \in Paths, NEW v \in Spreads, ObserveSpread(p, second, v)
        PROVE  LedgerSound'
    <3>1. v \in Int
      BY EpisodeAssumption
    <3>2. QED BY <2>1, <3>1, SpreadObserveKeeps
  <2>2. CASE UNCHANGED episodeVars
    <3>1. /\ copied' = copied /\ committed' = committed /\ ready' = ready /\ states' = states /\ dirty' = dirty
          /\ waiting' = waiting /\ saved' = saved /\ episodes' = episodes /\ cutoff' = cutoff /\ second' = second
          /\ cropped' = cropped
      BY <2>2 DEF episodeVars, ledger, book
    <3>2. ClockSound' /\ DirtySound' /\ RestSound' /\ CopyInPlace'
      BY <3>1 DEF LedgerSound, ClockSound, DirtySound, RestSound, CopyInPlace
    <3>3. MemoryCovers' /\ CopyCovers'
      BY <3>1 DEF LedgerSound, MemoryCovers, CopyCovers
    <3>4. EpisodesAreObserved'
      BY <3>1, BookStays DEF LedgerSound, book
    <3>5. QED BY <3>2, <3>3, <3>4 DEF LedgerSound
  <2>3. QED BY <2>1, <2>2, SpreadRestoreKeeps, SpreadCopyKeeps, SpreadCommitKeeps, SpreadFailKeeps, SpreadAcknowledgeKeeps, SpreadDeathKeeps, SpreadLaterKeeps
            DEF EpisodeNext
<1>2. LedgerSound => EpisodesAreObserved
  BY DEF LedgerSound
<1>3. QED BY <1>1, <1>2, EpisodeStarts, PTL DEF EpisodeSpec

===============================================================================
