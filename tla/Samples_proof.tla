---------------------------- MODULE Samples_proof ----------------------------
(***************************************************************************)
(* What is made of samples, for any readings, series, limits, windows and     *)
(* clock. Pulses: PulseTrack implements PulseLife, never measures across a    *)
(* gap, and misses no jump by what it forgets. Charts: the file is the        *)
(* reduction of all samples that reached it, and none is lost uncounted.      *)
(***************************************************************************)
EXTENDS PulseTrack, ChartHistory, FiniteSetTheorems, SequenceTheorems, TLAPS

\* A reading since the latest gap.
Seen == [at : since .. now, value : Levels]
Bucket == [low : Seen, high : Seen]
Anchor == [from : Seen, dir : {-1, 1}]

Running == {"watch", "expanded", "retraced"}

\* What the track knows of the pulse it holds: the evidence it emitted last, no later than
\* its last reading, and where it turned if it has.
Holding(p) ==
  /\ held = {p} /\ p \in DOMAIN life
  /\ life[p].id = p /\ life[p].state \in Running
  /\ last # None /\ life[p].currentAt <= last.at
  /\ started \in [baseline : Seen, retracedAt : Nat]
  /\ life[p].state = "retraced" => turning \in Seen
  /\ life[p].state = "watch" => Excursion(life[p]) < Large

LifeTyped == /\ DOMAIN life \subseteq Pulses /\ life \in [DOMAIN life -> Evidence]
TimeTyped == now \in 0 .. MaxNow /\ since \in 0 .. now

\* The inductive invariant: whatever the track keeps was read since the latest gap.
TrackInv ==
  /\ TimeTyped /\ LifeTyped
  /\ history \in Seq(Bucket)
  /\ last = None \/ last \in Seen
  /\ anchor = None \/ anchor \in Anchor
  /\ held = {} \/ \E p \in Pulses : Holding(p)

-----------------------------------------------------------------------------
\* What the constants are.
LEMMA Settings ==
  /\ Levels \subseteq Int /\ Baselines = Levels /\ Large \in Nat /\ Large > 0 /\ MaxNow \in Nat
  /\ PeakQuiet \in Nat /\ PeakQuiet > 0 /\ RetraceQuiet \in Nat
  /\ \A i \in 1 .. 3 : Limits[i] \in Nat /\ Limits[i] > 0
  /\ \A p, q \in Pulses : ScopeOf[p] = ScopeOf[q]
  /\ \A n \in Int : Abs(n) \in Nat /\ (Abs(n) = 0 => n = 0)
<1>1. \A p \in Pulses : ScopeOf[p] = Scope
  BY LifeAssumption, TrackAssumption DEF LifeAssumption, TrackAssumption
<1>2. QED BY <1>1, LifeAssumption, TrackAssumption DEF LifeAssumption, TrackAssumption, Abs

\* A displacement is never none.
LEMMA DisplacedMoves ==
  ASSUME NEW b \in Seen, NEW v \in Levels, NEW least, Displaced(b, v, least)
  PROVE  b.value \in Levels /\ v # b.value
<1>1. b.value \in Levels /\ v \in Int /\ b.value \in Int
  BY Settings DEF Seen
<1>2. Limit(b) \in Nat /\ Limit(b) > 0
  BY Settings DEF Limit, LimitAt
<1>3. Abs(v - b.value) >= Limit(b)
  BY DEF Displaced
<1>4. QED BY <1>1, <1>2, <1>3 DEF Abs

\* Everything remembered is the reading or was remembered before (Track.remember).
LEMMA Remembered ==
  ASSUME NEW S, NEW v, At(v) \in S, NEW h \in Seq([low : S, high : S]), NEW env,
         Remember(v, h, env)
  PROVE  history' \in Seq([low : S, high : S]) /\ last' = At(v)
<1> DEFINE B == [low : S, high : S]
           all == Extended(h, v)
<1>0. /\ Len(h) \in Nat /\ (Len(h) = 0 <=> h = <<>>)
      /\ \A i \in 1 .. Len(h) : h[i] \in B
  BY LenProperties, EmptySeq, ElementOfSeq
<1>1. all \in Seq(B)
  <2> DEFINE flat == [low |-> At(v), high |-> At(v)]
             bucket == h[Len(h)]
             wider == [low  |-> IF v < bucket.low.value THEN At(v) ELSE bucket.low,
                       high |-> IF v > bucket.high.value THEN At(v) ELSE bucket.high]
  <2>1. flat \in B
    OBVIOUS
  <2>2. CASE h = <<>>
    BY <2>1, <2>2 DEF Extended
  <2>3. CASE h # <<>>
    <3>1. Len(h) \in Nat /\ Len(h) > 0 /\ bucket \in B
      BY <1>0, <2>3
    <3>2. wider \in B
      BY <3>1
    <3>3. Front(h) \in Seq(B)
      <4>1. 1 \in Int /\ Len(h) - 1 \in Int /\ \A i \in 1 .. (Len(h) - 1) : h[i] \in B
        BY <1>0, <3>1
      <4> HIDE DEF B
      <4>2. QED BY <4>1, SubSeqProperties DEF Front
    <3> HIDE DEF flat, bucket, wider, B
    <3>4. Append(Front(h), flat) \in Seq(B) /\ Append(h, flat) \in Seq(B)
          /\ Append(Front(h), wider) \in Seq(B)
      BY <2>1, <3>2, <3>3, AppendProperties DEF B
    <3>5. all \in {<<flat>>, Append(Front(h), flat), Append(h, flat), Append(Front(h), wider)}
      BY DEF Extended, flat, bucket, wider
    <3>6. QED BY <2>3, <3>4, <3>5 DEF Extended, flat, bucket, wider
  <2>4. QED BY <2>2, <2>3
<1>2. PICK n \in 0 .. Len(all) : history' = SubSeq(all, n + 1, Len(all)) /\ last' = At(v)
  BY DEF Remember
<1> HIDE DEF all, B
<1>3. history' \in Seq(B)
  BY <1>1, <1>2, SubSeqProperties, LenProperties
<1>4. QED BY <1>2, <1>3 DEF B

\* Whatever a pulse is measured from was read since the latest gap, and is displaced.
LEMMA BaselinesSeen ==
  ASSUME TrackInv, NEW v \in Levels
  PROVE  /\ Anchored(v) \subseteq Anchor
         /\ \A b \in Baseline(v) : b \in Seen /\ Displaced(b, v, 0)
<1>1. \A i \in DOMAIN Readings : Readings[i] \in Seen
  <2>1. Len(history) \in Nat /\ \A i \in 1 .. Len(history) : history[i] \in Bucket
    BY LenProperties, ElementOfSeq DEF TrackInv
  <2>2. ASSUME NEW i \in 1 .. 2 * Len(history)
        PROVE  (IF i % 2 = 1 THEN history[(i + 1) \div 2].low ELSE history[i \div 2].high) \in Seen
    <3>1. CASE i % 2 = 1
      <4>1. (i + 1) \div 2 \in 1 .. Len(history)
        BY <2>1, <3>1
      <4>2. QED BY <2>1, <3>1, <4>1 DEF Bucket
    <3>2. CASE i % 2 # 1
      <4>1. i \div 2 \in 1 .. Len(history)
        BY <2>1, <3>2
      <4>2. QED BY <2>1, <3>2, <4>1 DEF Bucket
    <3>3. QED BY <3>1, <3>2
  <2>3. QED BY <2>2 DEF Readings
<1>2. Strongest(v) \subseteq {r \in Seen : Displaced(r, v, 0)}
  BY <1>1 DEF Strongest, Candidates, Recent
<1>3. Farthest(v) \subseteq Seen
  BY <1>1 DEF Farthest, Departures, Recent
<1>4. Anchored(v) \subseteq Anchor
  BY <1>3 DEF Anchored, Anchor, TrackInv
<1>5. Slow(v) \subseteq {r \in Seen : Displaced(r, v, 0)}
  BY <1>4 DEF Slow, Anchor
<1>6. QED BY <1>2, <1>4, <1>5 DEF Baseline

-----------------------------------------------------------------------------
(* One reading of a held pulse                                              *)

\* A reading that finds a retracement is no new peak, and neither is one that settles.
LEMMA NoPeakThen ==
  ASSUME NEW e \in Evidence, NEW v \in Levels, now \in 0 .. MaxNow
  PROVE  /\ Peaked(e, v) \in Evidence
         /\ e.peak \in Int /\ e.baseline \in Int /\ now \in Int /\ PeakQuiet \in Int
         /\ Peaked(e, v).peakAt \in Int
         /\ ~ NewPeak(e, v) => Peaked(e, v) = e
         /\ NewPeak(e, v) => ~ Retraces(Peaked(e, v), v) /\ now - Peaked(e, v).peakAt < PeakQuiet
<1>0. e.peak \in Levels /\ e.baseline \in Levels /\ e.dir \in {-1, 1} /\ e.peakAt \in 0 .. MaxNow
  BY DEF Evidence
<1>1. /\ e.peak \in Int /\ v \in Int /\ e.dir \in {-1, 1} /\ e.baseline \in Int /\ e.peakAt \in Int
      /\ Limits[1] \in Nat /\ Limits[1] > 0 /\ PeakQuiet \in Nat /\ PeakQuiet > 0 /\ now \in Int
  <2>1. Levels \subseteq Int /\ MaxNow \in Nat
    BY Settings
  <2>2. 1 \in 1 .. 3 /\ Limits[1] \in Nat /\ Limits[1] > 0 /\ PeakQuiet \in Nat /\ PeakQuiet > 0
    BY Settings
  <2>3. e.peak \in Int /\ v \in Int /\ e.baseline \in Int
    BY <1>0, <2>1
  <2>4. e.peakAt \in Int /\ now \in Int
    BY <1>0, <2>1
  <2>5. QED BY <1>0, <2>2, <2>3, <2>4
<1>2. Peaked(e, v) \in Evidence
  BY DEF Peaked, Evidence
<1>3. ASSUME NewPeak(e, v)
      PROVE  ~ Retraces(Peaked(e, v), v) /\ now - Peaked(e, v).peakAt < PeakQuiet
  <2>1. Peaked(e, v).peak = v /\ Peaked(e, v).peakAt = now /\ Peaked(e, v).dir = e.dir
    BY <1>3 DEF Peaked, Evidence
  <2>2. ~ (5 * e.dir * (v - v) >= 3 * Limits[1])
    BY <1>1
  <2>3. QED BY <1>1, <2>1, <2>2 DEF Retraces
<1>4. Peaked(e, v).peakAt \in Int
  BY <1>1, <1>2, Settings DEF Evidence
<1>5. QED BY <1>1, <1>2, <1>3, <1>4 DEF Peaked

\* The next pulse is measured from what was seen, and only a retraced pulse has a next.
LEMMA NextIsSeen ==
  ASSUME NEW e \in Evidence, NEW v \in Levels, TimeTyped,
         started \in [baseline : Seen, retracedAt : Nat],
         e.state = "retraced" => turning \in Seen,
         NextBaseline(e, v) # None
  PROVE  /\ NextBaseline(e, v) \in Seen /\ Displaced(NextBaseline(e, v), v, Limits[1])
         /\ StageOf(e, v) = "retraced" /\ Turns(e, v)
<1> DEFINE turn == Turned(e, v)
           from == IF e.state = "retraced" /\ e.dir * (v - turn.value) >= Limits[1] THEN turn
                   ELSE IF Reverses(e, v) THEN started.baseline ELSE None
<1>1. At(v) \in Seen
  BY DEF At, Seen, TimeTyped
<1>2. e.state = "retraced" => turn \in Seen
  BY <1>1 DEF Turned
<1>3. /\ NextBaseline(e, v) = from /\ from # None /\ StageOf(e, v) = "retraced"
      /\ Displaced(from, v, Limits[1])
  BY DEF NextBaseline
<1>4. from \in Seen
  BY <1>2, <1>3
<1>5. Turns(e, v)
  BY <1>3 DEF Turns
<1>6. QED BY <1>3, <1>4, <1>5

\* What a reading makes of the held pulse is one of the steps PulseLife allows.
LEMMA AfterIsAStep ==
  ASSUME NEW e \in Evidence, NEW v \in Levels, TimeTyped, e.state \in Running,
         started \in [baseline : Seen, retracedAt : Nat],
         e.state = "retraced" => turning \in Seen,
         e.state = "watch" => Excursion(e) < Large
  PROVE  /\ NextBaseline(e, v) # None => After(e, v) = Updated(e, "retraced", TRUE)
         /\ NextBaseline(e, v) = None /\ Settles(e, v) => After(e, v) = Updated(e, "settled", TRUE)
         /\ NextBaseline(e, v) = None /\ ~ Settles(e, v) =>
              \/ After(e, v) = Updated(e, e.state, FALSE)
              \/ /\ e.state \in {"watch", "expanded"}
                 /\ After(e, v) = Updated(e, "retraced", FALSE)
              \/ /\ e.state \in {"watch", "expanded"} /\ e.dir * (v - e.peak) > 0
                 /\ After(e, v) = [Updated(e, Stage(Abs(v - e.baseline), e.state), FALSE)
                                     EXCEPT !.peak = v, !.peakAt = now]
<1> DEFINE w == IF e.state = "retraced" THEN e ELSE Peaked(e, v)
           s == IF Settles(e, v) THEN "settled" ELSE StageOf(e, v)
           next == NextBaseline(e, v)
<1>1. now \in 0 .. MaxNow
  BY DEF TimeTyped
<1>2. After(e, v) = [w EXCEPT !.state = s, !.version = @ + 1, !.currentAt = now,
                              !.ended = (s = "settled" \/ next # None),
                              !.notice = IF s # e.state /\ s \in {"retraced", "expanded"}
                                         THEN @ + 1 ELSE @]
  BY DEF After
<1>3. CASE next # None
  <2>1. StageOf(e, v) = "retraced" /\ Turns(e, v)
    BY <1>3, NextIsSeen
  <2>2. s = "retraced"
    BY <2>1 DEF Settles
  <2>3. w = e
    <3>1. CASE e.state = "retraced"
      BY <3>1
    <3>2. CASE e.state # "retraced"
      BY <1>1, <2>1, <3>2, NoPeakThen DEF StageOf, Running
    <3>3. QED BY <3>1, <3>2
  <2> HIDE DEF w, s, next
  <2>4. After(e, v) = Updated(e, "retraced", TRUE)
    BY <1>2, <1>3, <2>2, <2>3 DEF Updated, Evidence
  <2>5. QED BY <1>3, <2>4 DEF next
<1>4. CASE next = None /\ Settles(e, v)
  <2>1. w = e
    BY <1>1, <1>4, NoPeakThen DEF Settles, QuietFor
  <2>2. s = "settled"
    BY <1>4
  <2> HIDE DEF w, s, next
  <2>3. After(e, v) = Updated(e, "settled", TRUE)
    BY <1>2, <2>1, <2>2 DEF Updated, Evidence
  <2>4. QED BY <1>4, <2>3 DEF next
<1>5. CASE next = None /\ ~ Settles(e, v)
  <2>1. s = StageOf(e, v)
    BY <1>5
  <2>2. CASE e.state = "retraced"
    <3>1. s = "retraced" /\ w = e
      BY <2>1, <2>2 DEF StageOf
    <3> HIDE DEF w, s, next
    <3>2. After(e, v) = Updated(e, e.state, FALSE)
      BY <1>2, <1>5, <2>2, <3>1 DEF Updated, Evidence
    <3>3. QED BY <1>5, <3>2 DEF next
  <2>3. CASE e.state # "retraced" /\ Retraces(Peaked(e, v), v)
    <3>1. s = "retraced" /\ w = e
      BY <1>1, <2>1, <2>3, NoPeakThen DEF StageOf
    <3> HIDE DEF w, s, next
    <3>2. After(e, v) = Updated(e, "retraced", FALSE)
      BY <1>2, <1>5, <2>3, <3>1 DEF Updated, Evidence
    <3>3. QED BY <1>5, <2>3, <3>2 DEF next, Running
  <2>4. CASE e.state # "retraced" /\ ~ Retraces(Peaked(e, v), v)
    <3>1. s = IF Excursion(w) >= Large THEN "expanded" ELSE e.state
      BY <2>1, <2>4 DEF StageOf
    <3>2. CASE NewPeak(e, v)
      <4>1. w = [e EXCEPT !.peak = v, !.peakAt = now]
        BY <2>4, <3>2 DEF Peaked
      <4>2. Excursion(w) = Abs(v - e.baseline)
        BY <4>1 DEF Excursion, Evidence
      <4>3. s = Stage(Abs(v - e.baseline), e.state)
        BY <3>1, <4>2 DEF Stage
      <4>4. s = "settled" <=> FALSE
        BY <3>1, <2>4 DEF Running
      <4> HIDE DEF w, s, next
      <4>5. After(e, v) = [Updated(e, s, FALSE) EXCEPT !.peak = v, !.peakAt = now]
        BY <1>2, <1>5, <4>1, <4>4 DEF Updated, Evidence
      <4>6. QED BY <1>5, <2>4, <3>2, <4>3, <4>5 DEF next, NewPeak, Running
    <3>3. CASE ~ NewPeak(e, v)
      <4>1. w = e
        BY <1>1, <3>3, NoPeakThen
      <4>2. s = e.state
        <5>1. Excursion(e) \in Int /\ Large \in Int
          <6>1. e.peak \in Int /\ e.baseline \in Int
            BY <1>1, NoPeakThen
          <6>2. QED BY <6>1, Settings DEF Excursion, Abs
        <5>2. QED BY <2>4, <3>1, <4>1, <5>1 DEF Running
      <4> HIDE DEF w, s, next
      <4>3. After(e, v) = Updated(e, e.state, FALSE)
        BY <1>2, <1>5, <4>1, <4>2 DEF Updated, Evidence, Running
      <4>4. QED BY <1>5, <4>3 DEF next
    <3>4. QED BY <3>2, <3>3
  <2>5. QED BY <2>2, <2>3, <2>4
<1>6. QED BY <1>3, <1>4, <1>5

\* What Updated makes of evidence is evidence, of the same pulse.
LEMMA UpdatedTyped ==
  ASSUME NEW e \in Evidence, NEW state \in States, NEW ended \in BOOLEAN, now \in 0 .. MaxNow
  PROVE  /\ Updated(e, state, ended) \in Evidence
         /\ Updated(e, state, ended).id = e.id /\ Updated(e, state, ended).state = state
         /\ Updated(e, state, ended).currentAt = now
         /\ Excursion(Updated(e, state, ended)) = Excursion(e)
<1>1. /\ e.version + 1 \in Nat \ {0} /\ e.notice + 1 \in Nat \ {0} /\ e.notice \in Nat \ {0}
      /\ e.id \in Pulses /\ e.dir \in {-1, 1} /\ e.baseline \in Levels /\ e.peak \in Levels
      /\ e.peakAt \in 0 .. MaxNow /\ e.triggeredAt \in 0 .. MaxNow
  BY DEF Evidence
<1> DEFINE n == IF state # e.state /\ state \in {"retraced", "expanded"} THEN e.notice + 1
                ELSE e.notice
<1>2. n \in Nat \ {0}
  BY <1>1
<1> HIDE DEF n
<1>3. Updated(e, state, ended) = [e EXCEPT !.version = e.version + 1, !.state = state,
                                    !.ended = ended, !.currentAt = now, !.notice = n]
  BY DEF Updated, Evidence, n
<1>4. Updated(e, state, ended) \in Evidence
  BY <1>1, <1>2, <1>3 DEF Evidence
<1>5. QED BY <1>3, <1>4 DEF Evidence, Excursion

\* A pulse that goes on keeps what Holding says of it.
LEMMA AfterTyped ==
  ASSUME NEW e \in Evidence, NEW v \in Levels, TimeTyped, e.state \in Running,
         started \in [baseline : Seen, retracedAt : Nat],
         e.state = "retraced" => turning \in Seen,
         e.state = "watch" => Excursion(e) < Large
  PROVE  /\ After(e, v) \in Evidence /\ After(e, v).id = e.id /\ After(e, v).currentAt = now
         /\ NextBaseline(e, v) = None /\ ~ Settles(e, v) =>
              /\ After(e, v).state = StageOf(e, v) /\ After(e, v).state \in Running
              /\ After(e, v).state = "watch" => Excursion(After(e, v)) < Large
<1>1. now \in 0 .. MaxNow
  BY DEF TimeTyped
<1>2. \A st \in States : \A ended \in BOOLEAN :
         /\ Updated(e, st, ended) \in Evidence
         /\ Updated(e, st, ended).id = e.id /\ Updated(e, st, ended).state = st
         /\ Updated(e, st, ended).currentAt = now
         /\ Excursion(Updated(e, st, ended)) = Excursion(e)
  BY <1>1, UpdatedTyped
<1>3. {"retraced", "settled", e.state} \subseteq States
  BY DEF Running, States
<1>4. CASE NextBaseline(e, v) # None \/ Settles(e, v)
  <2>1. After(e, v) = Updated(e, "retraced", TRUE) \/ After(e, v) = Updated(e, "settled", TRUE)
    BY <1>4, AfterIsAStep
  <2>2. TRUE \in BOOLEAN /\ "retraced" \in States /\ "settled" \in States
    BY DEF States
  <2>3. /\ Updated(e, "retraced", TRUE) \in Evidence /\ Updated(e, "settled", TRUE) \in Evidence
        /\ Updated(e, "retraced", TRUE).id = e.id /\ Updated(e, "settled", TRUE).id = e.id
        /\ Updated(e, "retraced", TRUE).currentAt = now /\ Updated(e, "settled", TRUE).currentAt = now
    BY <1>2, <2>2
  <2>4. QED BY <1>4, <2>1, <2>3
<1>5. CASE NextBaseline(e, v) = None /\ ~ Settles(e, v)
  <2>1. After(e, v).state = StageOf(e, v)
    <3>1. (IF e.state = "retraced" THEN e ELSE Peaked(e, v)) \in Evidence
      BY <1>1, NoPeakThen
    <3>2. QED BY <1>5, <3>1 DEF After, Evidence
  <2>2. CASE After(e, v) = Updated(e, e.state, FALSE) \/ After(e, v) = Updated(e, "retraced", FALSE)
    BY <1>2, <1>3, <2>1, <2>2 DEF Running
  <2>3. CASE /\ e.state \in {"watch", "expanded"}
             /\ After(e, v) = [Updated(e, Stage(Abs(v - e.baseline), e.state), FALSE)
                                 EXCEPT !.peak = v, !.peakAt = now]
    <3> DEFINE st == Stage(Abs(v - e.baseline), e.state)
               u == Updated(e, st, FALSE)
    <3>1. st \in {"watch", "expanded"} /\ st \in States /\ (st = "watch" => ~ (Abs(v - e.baseline) >= Large))
      BY <2>3 DEF Stage, States
    <3>2. u \in Evidence /\ u.id = e.id /\ u.state = st /\ u.currentAt = now /\ u.baseline = e.baseline
      BY <1>2, <3>1 DEF Updated, Evidence
    <3> HIDE DEF st, u
    <3>3. After(e, v) = [u EXCEPT !.peak = v, !.peakAt = now]
      BY <2>3 DEF st, u
    <3>4. /\ After(e, v) \in Evidence /\ After(e, v).id = e.id /\ After(e, v).currentAt = now
          /\ After(e, v).state = st /\ Excursion(After(e, v)) = Abs(v - e.baseline)
      BY <1>1, <3>2, <3>3 DEF Evidence, Excursion
    <3>5. Abs(v - e.baseline) \in Int /\ Large \in Int
      <4>1. v \in Int /\ e.baseline \in Int
        BY <1>1, NoPeakThen, Settings
      <4>2. QED BY <4>1, Settings DEF Abs
    <3>6. QED BY <1>5, <2>1, <3>1, <3>4, <3>5 DEF Running
  <2>4. QED BY <1>5, <2>2, <2>3, AfterIsAStep
<1>6. QED BY <1>4, <1>5

-----------------------------------------------------------------------------
(* The steps                                                                *)

\* A step of the track: it keeps the invariant and is one of PulseLife, or none there.
Implements == TrackInv' /\ [LifeNext]_lifeVars

\* Emitting evidence of a pulse there is changes that pulse's and no other's.
LEMMA EmittedAt ==
  ASSUME LifeTyped, NEW p \in DOMAIN life, NEW e \in Evidence, e.id = p
  PROVE  /\ Emitted(life, e) = [life EXCEPT ![p] = e]
         /\ DOMAIN Emitted(life, e) = DOMAIN life
         /\ Emitted(life, e) \in [DOMAIN life -> Evidence] /\ Emitted(life, e)[p] = e
<1>1. life \in [DOMAIN life -> Evidence]
  BY DEF LifeTyped
<1>2. DOMAIN life \cup {p} = DOMAIN life
  OBVIOUS
<1>3. Emitted(life, e) = [q \in DOMAIN life |-> IF q = p THEN e ELSE life[q]]
  BY <1>2 DEF Emitted
<1>4. QED BY <1>1, <1>3

\* A new pulse: which one it is, and what the track holds with it.
LEMMA OpenedIsNew ==
  ASSUME TrackInv, DOMAIN life # Pulses, NEW b \in Seen, NEW v \in Levels
  PROVE  /\ NextPulse \in Pulses \ DOMAIN life
         /\ Opened(b, v) = NewPulse(NextPulse, b.value, v)
         /\ Opened(b, v) \in Evidence /\ Opened(b, v).id = NextPulse
         /\ Opened(b, v).currentAt = now /\ Opened(b, v).state \in {"watch", "expanded"}
         /\ Opened(b, v).state = "watch" => Excursion(Opened(b, v)) < Large
<1>1. NextPulse \in Pulses \ DOMAIN life
  BY DEF NextPulse, TrackInv, LifeTyped
<1> HIDE DEF NextPulse
<1>2. Opened(b, v) = NewPulse(NextPulse, b.value, v)
  BY DEF Opened
<1>3. now \in 0 .. MaxNow /\ b.value \in Levels
  BY DEF TrackInv, TimeTyped, Seen
<1>4. NewPulse(NextPulse, b.value, v) \in Evidence
  BY <1>1, <1>3 DEF NewPulse, Evidence, Stage, States
<1>5. Abs(v - b.value) \in Int /\ Large \in Int
  <2>1. v \in Int /\ b.value \in Int
    BY <1>3, Settings
  <2>2. QED BY <2>1, Settings DEF Abs
<1>6. QED BY <1>1, <1>2, <1>4, <1>5 DEF NewPulse, Stage, Excursion

\* What a reading adds was read now, whether or not a gap lies before it.
LEMMA RememberedSince ==
  ASSUME TrackInv, NEW v \in Levels, NEW h, NEW env, Remember(v, h, env),
         now' = now, since' \in 0 .. now,
         h = <<>> \/ (h = history /\ since' = since)
  PROVE  /\ TimeTyped' /\ history' \in Seq(Bucket') /\ last' \in Seen' /\ last' = At(v)
         /\ At(v) \in Seen'
<1> DEFINE S == [at : since' .. now', value : Levels]
<1>1. now \in 0 .. MaxNow /\ MaxNow \in Nat
  BY Settings DEF TrackInv, TimeTyped
<1>2. At(v) \in S
  BY <1>1 DEF At
<1>3. h \in Seq([low : S, high : S])
  <2>1. CASE h = <<>>
    BY <2>1, EmptySeq
  <2>2. CASE h = history /\ since' = since
    BY <2>2 DEF TrackInv, Bucket, Seen
  <2>3. QED BY <2>1, <2>2
<1> HIDE DEF S
<1>4. history' \in Seq([low : S, high : S]) /\ last' = At(v)
  BY <1>2, <1>3, Remembered
<1>5. Seen' = S
  BY DEF Seen, S
<1>6. QED BY <1>1, <1>2, <1>4, <1>5 DEF Bucket, TimeTyped

\* The pulse that is held, and the evidence there is of it.
LEMMA HeldIs ==
  ASSUME TrackInv, held # {}
  PROVE  \E p \in Pulses : Holding(p) /\ Held = life[p] /\ life[p] \in Evidence
<1>1. PICK p \in Pulses : Holding(p)
  BY DEF TrackInv
<1>2. Held = life[p]
  <2>1. held = {p}
    BY <1>1 DEF Holding
  <2>2. (CHOOSE q \in held : TRUE) = p
    BY <2>1
  <2>3. QED BY <2>2 DEF Held
<1>3. life[p] \in Evidence
  BY <1>1 DEF Holding, TrackInv, LifeTyped
<1>4. QED BY <1>1, <1>2, <1>3

\* reset, of a held pulse or of none.
LEMMA ResetIsCutOff ==
  ASSUME TrackInv, NEW reason \in {"data_gap", "isolated"}, ResetPulse(reason),
         held' = {}, now' = now
  PROVE  LifeTyped' /\ [LifeNext]_lifeVars
<1>1. CASE held = {}
  <2>1. life' = life
    BY <1>1 DEF ResetPulse
  <2>2. QED BY <1>1, <2>1 DEF TrackInv, LifeTyped, lifeVars
<1>2. CASE held # {}
  <2>1. PICK p \in Pulses : Holding(p) /\ Held = life[p] /\ life[p] \in Evidence
    BY <1>2, HeldIs
  <2> DEFINE e == life[p]
             u == Updated(e, reason, TRUE)
             x == [u EXCEPT !.currentAt = e.currentAt]
             y == [e EXCEPT !.state = reason, !.ended = TRUE, !.version = @ + 1]
  <2>2. now \in 0 .. MaxNow /\ LifeTyped /\ p \in DOMAIN life /\ e.id = p /\ reason \in States
    BY <2>1 DEF TrackInv, TimeTyped, Holding, States
  <2>3. u \in Evidence /\ u.id = e.id
    BY <2>1, <2>2, UpdatedTyped
  <2>4. e.currentAt \in 0 .. MaxNow
    BY <2>1 DEF Evidence
  <2>5. x \in Evidence /\ x.id = p
    <3> HIDE DEF u, e
    <3>1. QED BY <2>2, <2>3, <2>4 DEF Evidence
  <2>6. x = y
    BY <2>1 DEF Updated, Evidence
  <2>7. life' = Emitted(life, y)
    BY <1>2, <2>1 DEF ResetPulse
  <2> HIDE DEF x, y, u
  <2>8. life' = [life EXCEPT ![p] = x] /\ DOMAIN life' = DOMAIN life /\ life' \in [DOMAIN life -> Evidence]
    BY <2>2, <2>5, <2>6, <2>7, EmittedAt
  <2>9. CutOff(p, reason)
    <3>1. held' = held \ {p} /\ p \in held
      BY <2>1 DEF Holding
    <3>2. QED BY <2>8, <3>1 DEF CutOff, x, u, e
  <2>10. LifeTyped'
    BY <2>2, <2>8 DEF LifeTyped
  <2>11. QED BY <2>1, <2>9, <2>10 DEF LifeNext, Observation
<1>3. QED BY <1>1, <1>2

\* The first reading, and the first after a silence.
LEMMA FirstImplements ==
  ASSUME TrackInv, NEW v \in Levels, First(v), since' = now, now' = now
  PROVE  Implements
<1>1. now \in 0 .. MaxNow /\ now \in Nat
  BY Settings DEF TrackInv, TimeTyped
<1>2. ResetPulse("data_gap") /\ held' = {} /\ anchor' = None /\ Remember(v, <<>>, None)
  BY DEF First, RememberAfresh
<1>3. TimeTyped' /\ history' \in Seq(Bucket') /\ last' \in Seen'
  BY <1>1, <1>2, RememberedSince
<1>4. LifeTyped' /\ [LifeNext]_lifeVars
  BY <1>2, ResetIsCutOff
<1>5. QED BY <1>2, <1>3, <1>4 DEF Implements, TrackInv

\* A path that is invalidated, rerouted or isolated.
LEMMA ResetImplements ==
  ASSUME TrackInv, NEW reason \in {"data_gap", "isolated"}, reset(reason), now' = now
  PROVE  Implements
<1>1. /\ ResetPulse(reason) /\ held' = {} /\ anchor' = None /\ last' = None
      /\ history' = <<>> /\ since' = since
  BY DEF reset
<1>2. LifeTyped' /\ [LifeNext]_lifeVars
  BY <1>1, ResetIsCutOff
<1>3. TimeTyped' /\ history' \in Seq(Bucket')
  BY <1>1, EmptySeq DEF TrackInv, TimeTyped
<1>4. QED BY <1>1, <1>2, <1>3 DEF Implements, TrackInv

\* While the clock and the gap stay as they are, so does what counts as seen.
LEMMA SeenStays ==
  ASSUME now' = now, since' = since
  PROVE  Seen' = Seen /\ Bucket' = Bucket /\ Anchor' = Anchor
BY DEF Seen, Bucket, Anchor

\* A repeated value within the second.
LEMMA SkipImplements ==
  ASSUME TrackInv, NEW v \in Levels, Skip(v), since' = since, now' = now
  PROVE  Implements
<1>1. UNCHANGED <<life, held, history, bounds, last, anchor, turning, started>>
  BY DEF Skip, track
<1>2. TrackInv'
  <2>1. TimeTyped' /\ LifeTyped' /\ (\A p \in Pulses : Holding(p) => Holding(p)')
    BY <1>1, SeenStays DEF TrackInv, TimeTyped, LifeTyped, Holding, Excursion
  <2>2. QED BY <1>1, <2>1, SeenStays DEF TrackInv
<1>3. QED BY <1>1, <1>2 DEF Implements, lifeVars

\* Time passes: what was seen stays seen.
LEMMA TickImplements ==
  ASSUME TrackInv, Tick, UNCHANGED <<life, held, track, raw, since>>
  PROVE  Implements
<1>1. UNCHANGED <<life, held, history, bounds, last, anchor, turning, started, since>>
  BY DEF track
<1>2. TimeTyped' /\ Seen \subseteq Seen'
  BY <1>1, Settings DEF Tick, TrackInv, TimeTyped, Seen
<1>3. Bucket \subseteq Bucket' /\ Anchor \subseteq Anchor'
  BY <1>2 DEF Bucket, Anchor
<1>4. history' \in Seq(Bucket')
  <2>1. history \in Seq(Bucket)
    BY DEF TrackInv
  <2> DEFINE B == Bucket
             C == Bucket'
  <2>2. history \in Seq(B) /\ B \subseteq C
    BY <1>3, <2>1
  <2> HIDE DEF B, C
  <2>3. history \in Seq(C)
    BY <2>2, SeqMonotonic
  <2>4. QED BY <1>1, <2>3 DEF C
<1>5. LifeTyped' /\ (\A p \in Pulses : Holding(p) => Holding(p)')
  BY <1>1, <1>2 DEF TrackInv, LifeTyped, Holding, Excursion
<1>6. TrackInv'
  BY <1>1, <1>2, <1>3, <1>4, <1>5 DEF TrackInv
<1>7. QED BY <1>1, <1>6 DEF Implements, LifeNext, Tick

\* The track of a pulse just opened: a later reading is measured against its own baseline.
LEMMA OpenedIsHeld ==
  ASSUME TrackInv, DOMAIN life # Pulses, NEW b \in Seen, NEW v \in Levels, NEW q \in Pulses,
         q = NextPulse, now' = now, since' = since, last' = At(v), held' = {q},
         started' = Begun(b), q \in DOMAIN life', life'[q] = Opened(b, v)
  PROVE  Holding(q)'
<1>1. /\ Opened(b, v).id = q /\ Opened(b, v).currentAt = now
      /\ Opened(b, v).state \in {"watch", "expanded"}
      /\ Opened(b, v).state = "watch" => Excursion(Opened(b, v)) < Large
  BY OpenedIsNew
<1>2. last' # None /\ last'.at = now /\ now <= now
  BY Settings DEF At, None, TrackInv, TimeTyped
<1>3. started' \in [baseline : Seen', retracedAt : Nat]
  BY SeenStays DEF Begun
<1> HIDE DEF NextPulse
<1>4. QED BY <1>1, <1>2, <1>3 DEF Holding, Running, Excursion

\* A reading while no pulse is held: a trigger, or nothing PulseLife sees.
LEMMA IdleImplements ==
  ASSUME TrackInv, NEW v \in Levels, Idle(v), since' = since, now' = now
  PROVE  Implements
<1>1. held = {} /\ now \in 0 .. MaxNow /\ since \in 0 .. now /\ LifeTyped
  BY DEF Idle, TrackInv, TimeTyped
<1>2. CASE v # last.value /\ Baseline(v) # {}
  <2>1. PICK b \in Baseline(v) : life' = Emitted(life, Opened(b, v)) /\ started' = Begun(b)
    BY <1>2 DEF Idle
  <2>2. DOMAIN life # Pulses /\ held' = {NextPulse} /\ anchor' = None /\ Remember(v, <<>>, None)
    BY <1>2 DEF Idle, RememberAfresh
  <2>3. b \in Seen /\ b.value \in Levels /\ v # b.value
    BY BaselinesSeen, DisplacedMoves
  <2> DEFINE q == NextPulse
  <2>4. /\ q \in Pulses /\ q \notin DOMAIN life /\ Opened(b, v) = NewPulse(q, b.value, v)
        /\ Opened(b, v) \in Evidence /\ Opened(b, v).id = q
    BY <2>2, <2>3, OpenedIsNew
  <2>5. TimeTyped' /\ history' \in Seq(Bucket') /\ last' \in Seen' /\ last' = At(v)
    BY <1>1, <2>2, RememberedSince
  <2>6. held' = {q}
    BY <2>2
  <2>7. PICK p \in Pulses : p = q
    BY <2>4
  <2> HIDE DEF q
  <2>8. life' = [r \in DOMAIN life \cup {p} |-> IF r = p THEN Opened(b, v) ELSE life[r]]
    BY <2>1, <2>4, <2>7 DEF Emitted
  <2>9. LifeTyped'
    BY <1>1, <2>4, <2>7, <2>8 DEF LifeTyped
  <2>10. Trigger(p, b.value, v)
    BY <1>1, <2>3, <2>4, <2>6, <2>7, <2>8 DEF Trigger, HeldIn
  <2>11. Holding(p)'
    BY <2>1, <2>2, <2>3, <2>5, <2>6, <2>7, <2>8, OpenedIsHeld DEF q
  <2>12. b.value \in Baselines
    BY <2>3, Settings
  <2>13. LifeNext
    BY <2>10, <2>12 DEF LifeNext, Observation
  <2>14. QED BY <2>2, <2>5, <2>9, <2>11, <2>13 DEF Implements, TrackInv
<1>3. CASE ~ (v # last.value /\ Baseline(v) # {})
  <2>1. /\ anchor' \in IF v = last.value THEN {anchor}
                       ELSE IF Anchored(v) = {} THEN {None} ELSE Anchored(v)
        /\ RememberOn(v) /\ UNCHANGED <<life, held, turning, started>>
    BY <1>3 DEF Idle
  <2>2. anchor' = None \/ anchor' \in Anchor'
    BY <2>1, BaselinesSeen, SeenStays DEF TrackInv
  <2>3. TimeTyped' /\ history' \in Seq(Bucket') /\ last' \in Seen'
    BY <1>1, <2>1, RememberedSince DEF RememberOn
  <2>4. LifeTyped' /\ held' = {} /\ UNCHANGED lifeVars
    BY <1>1, <2>1 DEF LifeTyped, lifeVars
  <2>5. QED BY <2>2, <2>3, <2>4 DEF Implements, TrackInv
<1>4. QED BY <1>2, <1>3

\* A reading while a pulse is held: it restarts, settles, or goes on.
LEMMA ActiveImplements ==
  ASSUME TrackInv, NEW v \in Levels, Active(v), since' = since, now' = now
  PROVE  Implements
<1>1. now \in 0 .. MaxNow /\ since \in 0 .. now /\ LifeTyped /\ TimeTyped /\ held # {}
  BY DEF Active, TrackInv, TimeTyped
<1>2. PICK p \in Pulses : Holding(p) /\ Held = life[p] /\ life[p] \in Evidence
  BY <1>1, HeldIs
<1> DEFINE e == life[p]
           b == NextBaseline(e, v)
<1>3. /\ p \in DOMAIN life /\ held = {p} /\ e.id = p /\ e \in Evidence /\ e.state \in Running
      /\ started \in [baseline : Seen, retracedAt : Nat]
      /\ e.state = "retraced" => turning \in Seen
      /\ e.state = "watch" => Excursion(e) < Large
      /\ last # None /\ e.currentAt <= last.at
  BY <1>2 DEF Holding
<1>4. Ticks(p)
  <2>1. last.at < now /\ last \in Seen
    BY <1>3 DEF Active, Follows, TrackInv
  <2>2. last.at \in Int /\ now \in Int /\ e.currentAt \in Int
    BY <1>1, <1>3, <2>1, Settings DEF Seen, Evidence
  <2>3. QED BY <1>3, <2>1, <2>2 DEF Ticks
<1>5. /\ After(e, v) \in Evidence /\ After(e, v).id = p /\ After(e, v).currentAt = now
      /\ b = None /\ ~ Settles(e, v) =>
           /\ After(e, v).state = StageOf(e, v) /\ After(e, v).state \in Running
           /\ After(e, v).state = "watch" => Excursion(After(e, v)) < Large
  BY <1>1, <1>3, AfterTyped
<1>6. /\ b # None => After(e, v) = Updated(e, "retraced", TRUE)
      /\ b = None /\ Settles(e, v) => After(e, v) = Updated(e, "settled", TRUE)
      /\ b = None /\ ~ Settles(e, v) =>
           \/ After(e, v) = Updated(e, e.state, FALSE)
           \/ /\ e.state \in {"watch", "expanded"}
              /\ After(e, v) = Updated(e, "retraced", FALSE)
           \/ /\ e.state \in {"watch", "expanded"} /\ e.dir * (v - e.peak) > 0
              /\ After(e, v) = [Updated(e, Stage(Abs(v - e.baseline), e.state), FALSE)
                                  EXCEPT !.peak = v, !.peakAt = now]
  BY <1>1, <1>3, AfterIsAStep
<1>7. /\ Emitted(life, After(e, v)) = [life EXCEPT ![p] = After(e, v)]
      /\ DOMAIN Emitted(life, After(e, v)) = DOMAIN life
      /\ Emitted(life, After(e, v)) \in [DOMAIN life -> Evidence]
      /\ Emitted(life, After(e, v))[p] = After(e, v)
  BY <1>1, <1>3, <1>5, EmittedAt
<1>8. CASE /\ b # None /\ DOMAIN life # Pulses
           /\ life' = Emitted(Emitted(life, After(e, v)), Opened(b, v))
           /\ held' = {NextPulse} /\ started' = Begun(b)
           /\ anchor' = None /\ turning' = None /\ RememberAfresh(v)
  <2>1. b \in Seen /\ b.value \in Levels /\ v # b.value
    BY <1>1, <1>3, <1>8, NextIsSeen, DisplacedMoves
  <2>2. TimeTyped' /\ history' \in Seq(Bucket') /\ last' \in Seen' /\ last' = At(v)
    BY <1>1, <1>8, RememberedSince DEF RememberAfresh
  <2>3. /\ NextPulse \in Pulses \ DOMAIN life /\ Opened(b, v) = NewPulse(NextPulse, b.value, v)
        /\ Opened(b, v) \in Evidence /\ Opened(b, v).id = NextPulse
    BY <1>8, <2>1, OpenedIsNew
  <2>4. PICK q \in Pulses : q = NextPulse
    BY <2>3
  <2>5. q # p /\ q \notin DOMAIN life
    BY <1>3, <2>3, <2>4
  <2>6. life' = [r \in DOMAIN life \cup {q} |->
                   CASE r = q -> NewPulse(q, b.value, v)
                     [] r = p -> Updated(life[p], "retraced", TRUE)
                     [] OTHER -> life[r]]
    <3> DEFINE mid == Emitted(life, After(e, v))
               n == NewPulse(q, b.value, v)
               u == Updated(life[p], "retraced", TRUE)
    <3>1. mid = [life EXCEPT ![p] = u] /\ DOMAIN mid = DOMAIN life
      BY <1>6, <1>7, <1>8
    <3>2. life' = [r \in DOMAIN mid \cup {q} |-> IF r = q THEN n ELSE mid[r]]
      BY <1>8, <2>3, <2>4 DEF Emitted
    <3> HIDE DEF mid, n, u
    <3>3. life' = [r \in DOMAIN life \cup {q} |-> CASE r = q -> n [] r = p -> u [] OTHER -> life[r]]
      BY <1>3, <2>5, <3>1, <3>2
    <3>4. QED BY <3>3 DEF n, u
  <2>7. Restart(p, q, b.value, v)
    <3>1. ScopeOf[q] = ScopeOf[p] /\ held' = (held \ {p}) \cup {q}
      BY <1>3, <1>8, <2>4, Settings
    <3>2. QED BY <1>4, <2>1, <2>5, <2>6, <3>1 DEF Restart
  <2>8. LifeTyped'
    <3>1. Updated(life[p], "retraced", TRUE) \in Evidence /\ NewPulse(q, b.value, v) \in Evidence
      BY <1>5, <1>6, <1>8, <2>3, <2>4
    <3>2. QED BY <1>1, <2>6, <3>1 DEF LifeTyped
  <2>9. Holding(q)'
    <3>1. life'[q] = Opened(b, v) /\ q \in DOMAIN life'
      <4>1. Opened(b, v) = NewPulse(q, b.value, v)
        BY <2>3, <2>4
      <4> DEFINE n == NewPulse(q, b.value, v)
                 u == Updated(life[p], "retraced", TRUE)
      <4>2. life' = [r \in DOMAIN life \cup {q} |-> CASE r = q -> n [] r = p -> u [] OTHER -> life[r]]
        BY <2>6
      <4> HIDE DEF n, u
      <4>3. q \in DOMAIN life' /\ life'[q] = n
        BY <2>5, <4>2
      <4>4. QED BY <4>1, <4>3 DEF n
    <3>2. QED BY <1>8, <2>1, <2>2, <2>4, <3>1, OpenedIsHeld
  <2>10. b.value \in Baselines
    BY <2>1, Settings
  <2>11. LifeNext
    BY <2>7, <2>10 DEF LifeNext, Observation
  <2>12. QED BY <1>8, <2>2, <2>8, <2>9, <2>11 DEF Implements, TrackInv
<1>9. CASE /\ b = None /\ Settles(e, v)
           /\ life' = Emitted(life, After(e, v)) /\ held' = {} /\ started' = None
           /\ turning' = None /\ UNCHANGED anchor /\ RememberAfresh(v)
  <2>1. TimeTyped' /\ history' \in Seq(Bucket') /\ last' \in Seen'
    BY <1>1, <1>9, RememberedSince DEF RememberAfresh
  <2>2. LifeTyped'
    BY <1>1, <1>7, <1>9 DEF LifeTyped
  <2>3. Settle(p)
    BY <1>3, <1>4, <1>6, <1>7, <1>9 DEF Settle
  <2>4. anchor' = None \/ anchor' \in Anchor'
    BY <1>9, SeenStays DEF TrackInv
  <2>5. QED BY <1>9, <2>1, <2>2, <2>3, <2>4 DEF Implements, TrackInv, LifeNext, Observation
<1>10. CASE /\ b = None /\ ~ Settles(e, v)
            /\ life' = Emitted(life, After(e, v)) /\ held' = held
            /\ turning' = IF StageOf(e, v) = "retraced" THEN Turned(e, v) ELSE turning
            /\ started' = IF e.state # "retraced" /\ StageOf(e, v) = "retraced"
                          THEN [started EXCEPT !.retracedAt = now] ELSE started
            /\ UNCHANGED anchor /\ RememberOn(v)
  <2>1. /\ TimeTyped' /\ history' \in Seq(Bucket') /\ last' \in Seen' /\ last' = At(v)
        /\ At(v) \in Seen'
    BY <1>1, <1>10, RememberedSince DEF RememberOn
  <2>2. LifeTyped'
    BY <1>1, <1>7, <1>10 DEF LifeTyped
  <2>3. anchor' = None \/ anchor' \in Anchor'
    BY <1>10, SeenStays DEF TrackInv
  <2>4. Quiet(p) \/ Retrace(p) \/ Higher(p, v)
    BY <1>4, <1>6, <1>7, <1>10 DEF Quiet, Retrace, Higher
  <2>5. Holding(p)'
    <3>1. life'[p] = After(e, v) /\ p \in DOMAIN life'
      BY <1>3, <1>7, <1>10
    <3>2. last' # None /\ life'[p].currentAt <= last'.at
      <4>1. last'.at = now /\ last' # None
        BY <2>1 DEF At, None
      <4>2. life'[p].currentAt = now /\ now \in Int
        BY <1>1, <1>5, <3>1, Settings
      <4>3. QED BY <4>1, <4>2
    <3>3. started' \in [baseline : Seen', retracedAt : Nat]
      BY <1>1, <1>3, <1>10, SeenStays, Settings
    <3>4. life'[p].state = "retraced" => turning' \in Seen'
      BY <1>3, <1>5, <1>10, <2>1, <3>1, SeenStays DEF Turned
    <3>5. QED BY <1>3, <1>5, <1>10, <3>1, <3>2, <3>3, <3>4 DEF Holding, Excursion
  <2>6. QED BY <2>1, <2>2, <2>3, <2>4, <2>5 DEF Implements, TrackInv, LifeNext, Observation
<1>11. QED BY <1>2, <1>8, <1>9, <1>10 DEF Active

-----------------------------------------------------------------------------
(* The theorems                                                             *)

\* The initial states are PulseLife's.
LEMMA InitImplements == Init => TrackInv /\ LifeInit
<1> SUFFICES ASSUME Init PROVE TrackInv /\ LifeInit
  OBVIOUS
<1>1. LifeInit /\ history = <<>> /\ last = None /\ anchor = None /\ since = 0
  BY DEF Init
<1>2. now = 0 /\ held = {} /\ life = <<>>
  BY <1>1 DEF LifeInit
<1>3. DOMAIN life = {} /\ life \in [DOMAIN life -> Evidence]
  BY <1>2
<1>4. TimeTyped
  BY <1>1, <1>2, Settings DEF TimeTyped
<1>5. QED BY <1>1, <1>2, <1>3, <1>4, EmptySeq DEF TrackInv, LifeTyped

\* Every step keeps the invariant and is a step of PulseLife or none there.
LEMMA StepImplements == TrackInv /\ [Next]_vars => TrackInv' /\ [LifeNext]_lifeVars
<1> SUFFICES ASSUME TrackInv, [Next]_vars PROVE Implements
  BY DEF Implements
<1>1. CASE observe
  <2>1. PICK v \in Levels : First(v) \/ Skip(v) \/ Idle(v) \/ Active(v)
    BY <1>1 DEF observe
  <2>2. now' = now /\ since' = IF last = None \/ now - last.at > Gap THEN now ELSE since
    BY <1>1 DEF observe
  <2>3. CASE First(v)
    BY <2>2, <2>3, FirstImplements DEF First, Silence
  <2>4. CASE Skip(v) \/ Idle(v) \/ Active(v)
    <3>1. since' = since
      BY <2>2, <2>4 DEF Skip, Idle, Active, Follows, Silence
    <3>2. QED BY <2>2, <2>4, <3>1, SkipImplements, IdleImplements, ActiveImplements
  <2>5. QED BY <2>1, <2>3, <2>4
<1>2. CASE (\E reason \in {"data_gap", "isolated"} : reset(reason)) /\ now' = now
  BY <1>2, ResetImplements
<1>3. CASE Tick /\ UNCHANGED <<life, held, track, raw, since>>
  BY <1>3, TickImplements
<1>4. CASE UNCHANGED vars
  <2>1. UNCHANGED <<now, life, held, history, bounds, last, anchor, turning, started, since>>
    BY <1>4 DEF vars, lifeVars, track
  <2>2. TimeTyped' /\ LifeTyped' /\ (\A p \in Pulses : Holding(p) => Holding(p)')
    BY <2>1, SeenStays DEF TrackInv, TimeTyped, LifeTyped, Holding, Excursion
  <2>3. TrackInv'
    BY <2>1, <2>2, SeenStays DEF TrackInv
  <2>4. QED BY <2>1, <2>3 DEF Implements, lifeVars
<1>5. QED BY <1>1, <1>2, <1>3, <1>4 DEF Next

\* PulseDetector gives out the lives PulseLife allows and no others: whatever is proved or
\* checked of the store, the reminders and the page behind PulseLife holds of what the
\* detector really sends them.
THEOREM TrackImplementsLife == Spec => LifeSpec
<1>1. Init => TrackInv /\ LifeInit
  BY InitImplements
<1>2. TrackInv /\ [Next]_vars => TrackInv' /\ [LifeNext]_lifeVars
  BY StepImplements
<1>3. QED BY <1>1, <1>2, PTL DEF Spec, LifeSpec

\* "Never bridge a disconnected interval" (anomaly_engine): neither the baseline of a held
\* pulse nor the start of a slow departure was read before the latest silence.
THEOREM GapsKept == Spec => []NeverBridgesAGap
<1>1. Init => TrackInv
  BY InitImplements
<1>2. TrackInv /\ [Next]_vars => TrackInv'
  BY StepImplements
<1>3. TrackInv => NeverBridgesAGap
  <2> SUFFICES ASSUME TrackInv PROVE NeverBridgesAGap
    OBVIOUS
  <2>1. \A r \in Seen : r.at >= since
    BY Settings DEF TrackInv, TimeTyped, Seen
  <2>2. held # {} => started.baseline \in Seen
    BY DEF TrackInv, Holding
  <2>3. anchor # None => anchor.from \in Seen
    BY DEF TrackInv, Anchor
  <2>4. QED BY <2>1, <2>2, <2>3 DEF NeverBridgesAGap
<1>4. QED BY <1>1, <1>2, <1>3, PTL DEF Spec

-----------------------------------------------------------------------------
(* Numbers and their values. *)

Below(f, t, u) == f[t] < f[u] \/ (f[t] = f[u] /\ t <= u)

\* A set of numbers that is not empty has a least one: what induction on numbers needs.
LEMMA LeastExists ==
  ASSUME NEW S, S \subseteq Nat, S # {}
  PROVE  \E m \in S : \A u \in S : m <= u
<1>1. PICK m \in S : \A u \in S : ~ (<<u, m>> \in OpToRel(<, Nat))
  BY NatLessThanWellFounded, WFMin
<1>2. \A u \in S : ~ (u < m)
  BY <1>1 DEF OpToRel
<1>3. QED BY <1>2

\* One of some numbers has the lowest value, and is the earliest of those.
LEMMA LeastValueIn ==
  ASSUME NEW T, T \subseteq Nat, T # {}, NEW N \in Nat, \A u \in T : u <= N,
         NEW f, \A u \in T : f[u] \in Int
  PROVE  \E t \in T : \A u \in T : Below(f, t, u)
<1> DEFINE LowestUpTo(n) == \E t \in T : t <= n /\ \A u \in T : u <= n => Below(f, t, u)
           Bad == {n \in Nat : (\E u \in T : u <= n) /\ ~ LowestUpTo(n)}
<1>0. T \subseteq Nat /\ (\A u \in T : f[u] \in Int) /\ N \in Nat /\ \A u \in T : u <= N
  OBVIOUS
<1>1. Bad = {}
  <2>1. SUFFICES ASSUME Bad # {} PROVE FALSE
    OBVIOUS
  <2>2. PICK n \in Bad : \A m \in Bad : n <= m
    BY <2>1, LeastExists
  <2>3. PICK u \in T : u <= n
    BY <2>2
  <2>4. n \in Nat /\ ~ LowestUpTo(n)
    BY <2>2
  <2>5. CASE n \notin T
    <3>1. n # 0 /\ n - 1 \in Nat /\ u <= n - 1
      <4> HIDE DEF LowestUpTo, Bad
      <4>1. u # n /\ u \in Nat /\ n \in Nat
        BY <2>4, <2>5, <1>0
      <4>2. QED BY <4>1, <2>3
    <3>2. n - 1 \notin Bad
      <4> HIDE DEF LowestUpTo, Bad
      <4>1. QED BY <3>1, <2>2, <2>4
    <3>3. LowestUpTo(n - 1)
      BY <3>1, <3>2
    <3>4. \A x \in T : x <= n => x <= n - 1
      <4> HIDE DEF LowestUpTo, Bad
      <4>1. \A x \in T : x # n /\ x \in Nat /\ n \in Nat
        BY <2>4, <2>5, <1>0
      <4>2. QED BY <4>1
    <3>5. LowestUpTo(n)
      BY <3>3, <3>4, <2>4, <1>0
    <3>6. QED BY <3>5, <2>4
  <2>6. CASE n \in T /\ \A x \in T : x < n => Below(f, n, x)
    <3>1. Below(f, n, n) /\ n <= n
      BY <2>4 DEF Below
    <3>2. \A x \in T : x <= n => x < n \/ x = n
      BY <1>0, <2>4
    <3>3. \A x \in T : x <= n => Below(f, n, x)
      BY <3>1, <3>2, <2>6
    <3>4. QED BY <3>1, <3>3, <2>4, <2>6
  <2>7. CASE n \in T /\ \E x \in T : x < n /\ ~ Below(f, n, x)
    <3>1. PICK x \in T : x < n /\ ~ Below(f, n, x)
      BY <2>7
    <3>2. n # 0 /\ n - 1 \in Nat /\ x <= n - 1
      BY <3>1, <2>4, <1>0
    <3>3. LowestUpTo(n - 1)
      <4>1. n - 1 \notin Bad
        <5> HIDE DEF LowestUpTo, Bad
        <5>1. QED BY <3>2, <2>2, <2>4
      <4>2. QED BY <3>2, <4>1
    <3>4. PICK t \in T : t <= n - 1 /\ \A y \in T : y <= n - 1 => Below(f, t, y)
      BY <3>3
    <3>5. f[n] \in Int /\ f[x] \in Int /\ f[t] \in Int /\ t \in Nat /\ x \in Nat
      BY <2>7, <3>1, <3>4, <1>0
    <3>6. Below(f, t, x)
      BY <3>2, <3>4
    <3>7. Below(f, t, n) /\ t <= n
      <4> HIDE DEF LowestUpTo, Bad
      <4>1. n \in Nat
        BY <2>4
      <4>2. ~ Below(f, n, x)
        BY <3>1
      <4>3. f[t] < f[n] \/ (f[t] = f[n] /\ t <= n)
        BY <4>1, <4>2, <3>1, <3>4, <3>5, <3>6 DEF Below
      <4>4. QED BY <4>1, <4>3, <3>4, <3>5 DEF Below
    <3>8. \A y \in T : y <= n => y <= n - 1 \/ y = n
      BY <1>0, <2>4
    <3>9. \A y \in T : y <= n => Below(f, t, y)
      BY <3>4, <3>7, <3>8
    <3>10. QED BY <3>7, <3>9, <2>4
  <2>8. QED BY <2>5, <2>6, <2>7
<1>2. LowestUpTo(N)
  <2>1. N \notin Bad
    BY <1>1
  <2>2. QED BY <2>1, <1>0
<1>3. PICK t \in T : \A u \in T : u <= N => Below(f, t, u)
  BY <1>2
<1>4. \A u \in T : Below(f, t, u)
  BY <1>0, <1>3
<1>5. QED BY <1>4

-----------------------------------------------------------------------------
(* What a history keeps of the readings it was made of. *)

Sample == [at : Int, value : Int]
Pairs(S) == [low : S, high : S]

\* A bucket is of one second, and no later than a time.
Compact(b) == /\ b.low \in Sample /\ b.high \in Sample
              /\ b.low.value <= b.high.value /\ b.low.at \div Second = b.high.at \div Second
UpTo(b, t) == b.low.at <= t /\ b.high.at <= t

\* It stands for a reading between its extremes that is not a second younger than they are.
Stands(b, r) == /\ b.low.value <= r.value /\ r.value <= b.high.value
                /\ r.at < b.low.at + Second /\ r.at < b.high.at + Second

\* A reading no window reaches.
Outdated(r, t) == t - r.at + Second > Windows[3]
Recalled(h, r, t) == Outdated(r, t) \/ \E i \in DOMAIN h : Stands(h[i], r)

Encloses(env, h) == /\ env # None /\ env.low \in Int /\ env.high \in Int
                    /\ \A i \in DOMAIN h : env.low <= h[i].low.value /\ h[i].high.value <= env.high

\* A history as it is between two readings.
Sound(h, env, t) == /\ h # <<>> /\ Encloses(env, h)
                    /\ \A i \in DOMAIN h : Compact(h[i]) /\ UpTo(h[i], t)

\* What the rules are.
LEMMA Rules ==
  /\ Second \in Nat /\ Second > 0 /\ OldestBaseline \in Nat
  /\ \A i \in 1 .. 3 : Limits[i] \in Nat /\ Limits[i] > 0 /\ Windows[i] \in Nat
  /\ Limits[1] <= Limits[2] /\ Limits[2] <= Limits[3]
  /\ Second <= Windows[3] /\ Windows[3] <= OldestBaseline
BY TrackAssumption, RulesAssumption DEF TrackAssumption, RulesAssumption

\* Times of one second are less than a second apart.
LEMMA SameSecondIsNear ==
  ASSUME NEW t \in Int, NEW u \in Int, t \div Second = u \div Second
  PROVE  t < u + Second
<1> DEFINE q == t \div Second
<1>1. Second \in Nat /\ Second > 0 /\ q \in Int
  BY Rules
<1>2. q * Second <= u /\ t < q * Second + Second
  <2>1. \A x, k \in Int : k > 0 => (x \div k) * k <= x /\ x < (x \div k) * k + k
    BY SMT
  <2>2. QED BY <2>1, <1>1
<1>3. q * Second \in Int
  BY <1>1
<1> HIDE DEF q
<1>4. QED BY <1>1, <1>2, <1>3

\* Of two numbers, the least and the greatest.
LEMMA OfTwo ==
  ASSUME NEW a \in Int, NEW b \in Int
  PROVE  /\ Least({a, b}) \in Int /\ Least({a, b}) <= a /\ Least({a, b}) <= b
         /\ Greatest({a, b}) \in Int /\ Greatest({a, b}) >= a /\ Greatest({a, b}) >= b
<1>1. \E x \in {a, b} : \A y \in {a, b} : x <= y
  <2>1. CASE a <= b
    BY <2>1
  <2>2. CASE ~ (a <= b)
    BY <2>2
  <2>3. QED BY <2>1, <2>2
<1>2. \E x \in {a, b} : \A y \in {a, b} : x >= y
  <2>1. CASE a >= b
    BY <2>1
  <2>2. CASE ~ (a >= b)
    BY <2>2
  <2>3. QED BY <2>1, <2>2
<1>3. Least({a, b}) \in {a, b} /\ \A y \in {a, b} : Least({a, b}) <= y
  BY <1>1 DEF Least
<1>4. Greatest({a, b}) \in {a, b} /\ \A y \in {a, b} : Greatest({a, b}) >= y
  BY <1>2 DEF Greatest
<1>5. QED BY <1>3, <1>4

\* Track.remember makes or changes the last bucket, and what the old one stood for the new
\* one stands for.
EndsIn(h, v, k, b) ==
  /\ k \in Nat /\ Extended(h, v) \in Seq(Pairs(Sample)) /\ Len(Extended(h, v)) = k + 1 /\ Extended(h, v)[k + 1] = b
  /\ \A i \in 1 .. k : i <= Len(h) /\ Extended(h, v)[i] = h[i]
  /\ Compact(b) /\ UpTo(b, now) /\ Stands(b, At(v)) /\ b.high.at + Second > now
  /\ b.low.value = v \/ \E i \in DOMAIN h : b.low.value = h[i].low.value
  /\ b.high.value = v \/ \E i \in DOMAIN h : b.high.value = h[i].high.value
  /\ \A i \in DOMAIN h : i <= k \/ \A r \in Sample : r.at <= now /\ Stands(h[i], r) => Stands(b, r)

\* There is one in each of its cases: the first, a plateau, a new second, the same second.
LEMMA ExtendedIs ==
  ASSUME now \in Int, NEW v \in Int, NEW h, h \in Seq(Pairs(Sample)),
         \A i \in DOMAIN h : Compact(h[i]) /\ UpTo(h[i], now)
  PROVE  \E k, b : EndsIn(h, v, k, b)
<1> DEFINE flat == [low |-> At(v), high |-> At(v)]
           L == Len(h)
           bucket == h[L]
           wider == [low  |-> IF v < bucket.low.value THEN At(v) ELSE bucket.low,
                     high |-> IF v > bucket.high.value THEN At(v) ELSE bucket.high]
<1>1. /\ L \in Nat /\ (L = 0 <=> h = <<>>) /\ DOMAIN h = 1 .. L
      /\ \A i \in 1 .. L : h[i] \in Pairs(Sample)
  BY LenProperties, EmptySeq, ElementOfSeq
<1>2. Second \in Nat /\ Second > 0
  BY Rules
<1>3. /\ Compact(flat) /\ UpTo(flat, now) /\ Stands(flat, At(v)) /\ flat.high.at + Second > now
      /\ flat.low.value = v /\ flat.high.value = v
  BY <1>2 DEF Compact, UpTo, Stands, At, Sample
<1>4. CASE h = <<>>
  <2>1. Extended(h, v) = <<flat>> /\ L = 0
    BY <1>4, <1>1 DEF Extended
  <2>2. Len(<<flat>>) = 0 + 1 /\ <<flat>>[0 + 1] = flat
    OBVIOUS
  <2>5. <<flat>> \in Seq(Pairs(Sample))
    BY DEF Pairs, Sample, At
  <2> HIDE DEF flat
  <2>3. EndsIn(h, v, 0, flat)
    BY <2>5, <1>1, <1>3, <2>1, <2>2 DEF EndsIn
  <2>4. QED BY <2>3
<1>5. CASE h # <<>>
  <2>1. L > 0 /\ L \in 1 .. L /\ L \in DOMAIN h /\ Compact(bucket) /\ UpTo(bucket, now)
    BY <1>1, <1>5
  <2>2. Front(h) \in Seq(Pairs(Sample)) /\ Len(Front(h)) = L - 1 /\ \A i \in 1 .. (L - 1) : Front(h)[i] = h[i]
    <3>1. 1 \in Int /\ L - 1 \in Int /\ \A i \in 1 .. (L - 1) : h[i] \in Pairs(Sample)
      BY <1>1, <2>1
    <3>2. QED BY <1>1, <2>1, <3>1, SubSeqProperties DEF Front
  <2>3. ASSUME NEW b \in Pairs(Sample)
        PROVE  /\ Append(Front(h), b) \in Seq(Pairs(Sample))
               /\ Len(Append(Front(h), b)) = (L - 1) + 1 /\ Append(Front(h), b)[(L - 1) + 1] = b
               /\ \A i \in 1 .. (L - 1) : Append(Front(h), b)[i] = h[i]
    <3>1. /\ Append(Front(h), b) \in Seq(Pairs(Sample)) /\ Len(Append(Front(h), b)) = Len(Front(h)) + 1
          /\ \A i \in 1 .. Len(Front(h)) : Append(Front(h), b)[i] = Front(h)[i]
          /\ Append(Front(h), b)[Len(Front(h)) + 1] = b
      BY <2>2, AppendProperties
    <3>2. QED BY <3>1, <2>2
  <2>4. ASSUME NEW b \in Pairs(Sample)
        PROVE  /\ Append(h, b) \in Seq(Pairs(Sample)) /\ Len(Append(h, b)) = L + 1 /\ Append(h, b)[L + 1] = b
               /\ \A i \in 1 .. L : Append(h, b)[i] = h[i]
    BY AppendProperties
  <2>5. flat \in Pairs(Sample) /\ wider \in Pairs(Sample)
    BY <1>1, <2>1 DEF Pairs, Sample, At
  <2>6. ASSUME NEW b \in Pairs(Sample), Extended(h, v) = Append(Front(h), b),
               Compact(b), UpTo(b, now), Stands(b, At(v)), b.high.at + Second > now,
               b.low.value \in {v, bucket.low.value}, b.high.value \in {v, bucket.high.value},
               \A r \in Sample : r.at <= now /\ Stands(bucket, r) => Stands(b, r)
        PROVE  EndsIn(h, v, L - 1, b)
    <3>1. L - 1 \in Nat /\ \A i \in 1 .. (L - 1) : i <= L
      BY <1>1, <2>1
    <3>2. \A i \in DOMAIN h : i <= L - 1 \/ i = L
      BY <1>1
    <3> HIDE DEF L, bucket
    <3>3. \A i \in DOMAIN h : i <= L - 1 \/ \A r \in Sample : r.at <= now /\ Stands(h[i], r) => Stands(b, r)
      BY <3>2, <2>6 DEF bucket
    <3>4. /\ b.low.value = v \/ \E i \in DOMAIN h : b.low.value = h[i].low.value
          /\ b.high.value = v \/ \E i \in DOMAIN h : b.high.value = h[i].high.value
      BY <2>1, <2>6 DEF bucket
    <3>5. QED BY <3>1, <3>3, <3>4, <2>3, <2>6 DEF EndsIn, L
  <2>7. CASE Plateau(bucket, v)
    <3>1. Extended(h, v) = Append(Front(h), flat)
      BY <1>5, <2>7 DEF Extended
    <3>2. \A r \in Sample : r.at <= now /\ Stands(bucket, r) => Stands(flat, r)
      BY <1>2, <2>7 DEF Stands, Plateau, Sample, At
    <3> HIDE DEF flat, bucket
    <3>3. EndsIn(h, v, L - 1, flat)
      BY <2>5, <2>6, <3>1, <3>2, <1>3
    <3>4. QED BY <3>3
  <2>8. CASE ~ Plateau(bucket, v) /\ ~ SameSecond(bucket)
    <3>1. Extended(h, v) = Append(h, flat)
      BY <1>5, <2>8 DEF Extended
    <3>2. \A i \in DOMAIN h : i <= L
      BY <1>1
    <3> HIDE DEF flat, L
    <3>3. EndsIn(h, v, L, flat)
      BY <3>1, <3>2, <2>4, <2>5, <1>1, <1>3 DEF EndsIn
    <3>4. QED BY <3>3
  <2>9. CASE ~ Plateau(bucket, v) /\ SameSecond(bucket)
    <3>1. Extended(h, v) = Append(Front(h), wider)
      BY <1>5, <2>9 DEF Extended
    <3>2. /\ bucket.low \in Sample /\ bucket.high \in Sample /\ bucket.low.value <= bucket.high.value
          /\ bucket.low.at <= now /\ bucket.high.at <= now
          /\ bucket.low.at \div Second = now \div Second /\ bucket.high.at \div Second = now \div Second
      BY <2>1, <2>9 DEF Compact, UpTo, SameSecond
    <3>3. now < bucket.low.at + Second /\ now < bucket.high.at + Second
      BY <3>2, SameSecondIsNear DEF Sample
    <3>4. /\ wider.low = At(v) \/ wider.low = bucket.low
          /\ wider.high = At(v) \/ wider.high = bucket.high
          /\ wider.low.value <= v /\ v <= wider.high.value
          /\ wider.low.value <= bucket.low.value /\ bucket.high.value <= wider.high.value
      BY <3>2 DEF At, Sample
    <3> HIDE DEF wider, bucket, L
    <3>5. /\ wider.low \in Sample /\ wider.high \in Sample
          /\ wider.low.at <= now /\ wider.high.at <= now
          /\ now < wider.low.at + Second /\ now < wider.high.at + Second
          /\ wider.low.at \div Second = now \div Second /\ wider.high.at \div Second = now \div Second
      BY <3>2, <3>3, <3>4, <1>2 DEF At, Sample
    <3>6. Compact(wider) /\ UpTo(wider, now)
      BY <3>2, <3>4, <3>5 DEF Compact, UpTo, Sample
    <3>7. Stands(wider, At(v))
      BY <3>4, <3>5 DEF Stands, At
    <3>8. ASSUME NEW r \in Sample, r.at <= now, Stands(bucket, r) PROVE Stands(wider, r)
      <4>1. r.at \in Int /\ r.value \in Int /\ bucket.low.value \in Int /\ bucket.high.value \in Int
            /\ wider.low.value \in Int /\ wider.high.value \in Int
            /\ wider.low.at \in Int /\ wider.high.at \in Int
        BY <3>2, <3>5 DEF Sample
      <4>2. bucket.low.value <= r.value /\ r.value <= bucket.high.value
        BY <3>8 DEF Stands
      <4>3. r.at < wider.low.at + Second /\ r.at < wider.high.at + Second
        <5> DEFINE x == wider.low.at
                   y == wider.high.at
                   t == r.at
        <5>1. x \in Int /\ y \in Int /\ t \in Int /\ t <= now /\ now < x + Second /\ now < y + Second
          BY <4>1, <3>5, <3>8
        <5> HIDE DEF x, y, t
        <5>2. t < x + Second /\ t < y + Second
          BY <5>1, <1>2
        <5>3. QED BY <5>2 DEF x, y, t
      <4>4. wider.low.value <= r.value /\ r.value <= wider.high.value
        BY <4>1, <4>2, <3>4
      <4>5. QED BY <4>3, <4>4 DEF Stands
    <3>9. wider.low.value \in {v, bucket.low.value} /\ wider.high.value \in {v, bucket.high.value}
      BY <3>4 DEF At
    <3>10. EndsIn(h, v, L - 1, wider)
      BY <2>5, <2>6, <3>1, <3>5, <3>6, <3>7, <3>8, <3>9
    <3>11. QED BY <3>10
  <2>10. QED BY <2>7, <2>8, <2>9
<1>6. QED BY <1>4, <1>5

\* The envelope of a history encloses it.
LEMMA EnvelopeIs ==
  ASSUME NEW h, h \in Seq(Pairs(Sample)), h # <<>>
  PROVE  Encloses(Envelope(h), h)
<1> DEFINE D == DOMAIN h
           low == [i \in D |-> h[i].low.value]
           down == [i \in D |-> - h[i].high.value]
           Lows == {h[i].low.value : i \in D}
           Highs == {h[i].high.value : i \in D}
<1>1. /\ Len(h) \in Nat /\ D = 1 .. Len(h) /\ D # {} /\ D \subseteq Nat
      /\ \A i \in D : i <= Len(h) /\ h[i].low.value \in Int /\ h[i].high.value \in Int
  <2>1. Len(h) \in Nat /\ D = 1 .. Len(h) /\ Len(h) # 0
    BY LenProperties, EmptySeq
  <2>2. \A i \in D : h[i] \in Pairs(Sample)
    BY <2>1, ElementOfSeq
  <2>3. \A i \in D : h[i].low.value \in Int /\ h[i].high.value \in Int
    BY <2>2 DEF Pairs, Sample
  <2>4. 1 \in D
    BY <2>1
  <2>5. QED BY <2>1, <2>3, <2>4
<1>2. \E i \in D : \A j \in D : h[i].low.value <= h[j].low.value
  <2>1. \A i \in D : low[i] \in Int
    BY <1>1
  <2>2. PICK i \in D : \A j \in D : Below(low, i, j)
    <3> HIDE DEF low, D
    <3>1. QED BY <2>1, <1>1, LeastValueIn
  <2>3. \A j \in D : h[i].low.value <= h[j].low.value
    BY <1>1, <2>2 DEF Below
  <2>4. QED BY <2>3
<1>3. \E i \in D : \A j \in D : h[i].high.value >= h[j].high.value
  <2>1. \A i \in D : down[i] \in Int
    BY <1>1
  <2>2. PICK i \in D : \A j \in D : Below(down, i, j)
    <3> HIDE DEF down, D
    <3>1. QED BY <2>1, <1>1, LeastValueIn
  <2>3. \A j \in D : h[i].high.value >= h[j].high.value
    BY <1>1, <2>2 DEF Below
  <2>4. QED BY <2>3
<1>4. \E x \in Lows : \A y \in Lows : x <= y
  BY <1>2
<1>5. \E x \in Highs : \A y \in Highs : x >= y
  BY <1>3
<1>6. Least(Lows) \in Lows /\ \A y \in Lows : Least(Lows) <= y
  <2> HIDE DEF Lows
  <2>1. QED BY <1>4 DEF Least
<1>7. Greatest(Highs) \in Highs /\ \A y \in Highs : Greatest(Highs) >= y
  <2> HIDE DEF Highs
  <2>1. QED BY <1>5 DEF Greatest
<1>8. Least(Lows) \in Int /\ \A i \in D : Least(Lows) <= h[i].low.value
  BY <1>1, <1>6
<1>9. Greatest(Highs) \in Int /\ \A i \in D : h[i].high.value <= Greatest(Highs)
  BY <1>1, <1>7
<1>10. Envelope(h).low = Least(Lows) /\ Envelope(h).high = Greatest(Highs) /\ Envelope(h) # None
  <2>1. DOMAIN Envelope(h) # DOMAIN None
    BY DEF Envelope, None
  <2>2. QED BY <2>1 DEF Envelope
<1> HIDE DEF Lows, Highs
<1>11. QED BY <1>8, <1>9, <1>10 DEF Encloses

\* A reading widens it.
LEMMA WidenedIs ==
  ASSUME now \in Int, NEW v \in Int, NEW h, h \in Seq(Pairs(Sample)), NEW env,
         (h = <<>> /\ env = None) \/ Sound(h, env, now)
  PROVE  Encloses(Widened(env, v), Extended(h, v))
<1> DEFINE w == Widened(env, v)
           all == Extended(h, v)
<1>1. \A i \in DOMAIN h : h[i] \in Pairs(Sample) /\ h[i].low.value \in Int /\ h[i].high.value \in Int
  <2>1. Len(h) \in Nat /\ DOMAIN h = 1 .. Len(h) /\ \A i \in 1 .. Len(h) : h[i] \in Pairs(Sample)
    BY LenProperties, ElementOfSeq
  <2>2. QED BY <2>1 DEF Pairs, Sample
<1>2. /\ w.low \in Int /\ w.high \in Int /\ w.low <= v /\ v <= w.high
      /\ \A i \in DOMAIN h : w.low <= h[i].low.value /\ h[i].high.value <= w.high
  <2>1. CASE env = None /\ h = <<>>
    BY <2>1 DEF Widened
  <2>2. CASE Sound(h, env, now) /\ env # None
    <3>1. env.low \in Int /\ env.high \in Int /\ \A i \in DOMAIN h : env.low <= h[i].low.value /\ h[i].high.value <= env.high
      BY <2>2 DEF Sound, Encloses
    <3>2. w.low = Least({env.low, v}) /\ w.high = Greatest({env.high, v})
      BY <2>2 DEF Widened
    <3>3. /\ w.low \in Int /\ w.low <= env.low /\ w.low <= v
          /\ w.high \in Int /\ w.high >= env.high /\ w.high >= v
      BY <3>1, <3>2, OfTwo
    <3> HIDE DEF w
    <3>4. QED BY <1>1, <3>1, <3>3
  <2>3. Sound(h, env, now) => env # None
    BY DEF Sound, Encloses
  <2>4. QED BY <2>1, <2>2, <2>3
<1>3. \A i \in DOMAIN h : Compact(h[i]) /\ UpTo(h[i], now)
  <2>1. CASE h = <<>>
    <3>1. DOMAIN h = {}
      BY <2>1
    <3>2. QED BY <3>1
  <2>2. CASE Sound(h, env, now)
    BY <2>2 DEF Sound
  <2>3. QED BY <2>1, <2>2
<1>4. PICK k, b : EndsIn(h, v, k, b)
  BY <1>3, ExtendedIs
<1>5. /\ k \in Nat /\ all \in Seq(Pairs(Sample)) /\ Len(all) = k + 1 /\ all[k + 1] = b
      /\ \A i \in 1 .. k : i <= Len(h) /\ all[i] = h[i]
      /\ b.low.value = v \/ \E i \in DOMAIN h : b.low.value = h[i].low.value
      /\ b.high.value = v \/ \E i \in DOMAIN h : b.high.value = h[i].high.value
  BY <1>4 DEF EndsIn
<1>6. w # None
  <2>1. \A x, y : [low |-> x, high |-> y] # None
    <3>1. \A x, y : DOMAIN [low |-> x, high |-> y] # {}
      OBVIOUS
    <3>2. DOMAIN None = {}
      BY DEF None
    <3>3. QED BY <3>1, <3>2
  <2>2. QED BY <2>1 DEF Widened
<1> HIDE DEF w, all
<1>7. w.low <= b.low.value /\ b.high.value <= w.high
  BY <1>2, <1>5
<1>8. DOMAIN all = 1 .. (k + 1) /\ \A i \in DOMAIN all : i \in 1 .. k \/ i = k + 1
  <2>1. DOMAIN all = 1 .. Len(all)
    BY <1>5, LenProperties
  <2>2. QED BY <2>1, <1>5
<1>9. \A i \in 1 .. k : i \in DOMAIN h
  <2>1. DOMAIN h = 1 .. Len(h) /\ Len(h) \in Nat
    BY LenProperties
  <2>2. QED BY <2>1, <1>5
<1>10. \A i \in DOMAIN all : w.low <= all[i].low.value /\ all[i].high.value <= w.high
  BY <1>2, <1>5, <1>7, <1>8, <1>9
<1>11. QED BY <1>2, <1>6, <1>10 DEF Encloses, w, all

\* Track.remember: the history stays sound, and recalls the reading and what it recalled
\* before. A bucket that leaves stands only for readings no window reaches.
LEMMA RememberKeeps ==
  ASSUME now \in Int, NEW v \in Int, NEW h, h \in Seq(Pairs(Sample)), NEW env,
         (h = <<>> /\ env = None) \/ Sound(h, env, now),
         Remember(v, h, env),
         NEW R, R \subseteq Sample, \A r \in R : r.at <= now /\ Recalled(h, r, now)
  PROVE  /\ last' = At(v) /\ history' \in Seq(Pairs(Sample)) /\ Sound(history', bounds', now)
         /\ \A r \in R \cup {At(v)} : Recalled(history', r, now)
<1> DEFINE all == Extended(h, v)
           wide == Widened(env, v)
           Left(n) == SubSeq(all, n + 1, Len(all))
           Out(n) == UNION {{all[i].low.value, all[i].high.value} : i \in 1 .. n}
<1>1. PICK n \in 0 .. Len(all) :
        /\ Expired(all, n) /\ history' = Left(n) /\ last' = At(v)
        /\ bounds' = IF Out(n) \cap {wide.low, wide.high} # {} THEN Envelope(Left(n)) ELSE wide
  BY DEF Remember
<1>2. \A i \in DOMAIN h : Compact(h[i]) /\ UpTo(h[i], now)
  <2>1. CASE h = <<>>
    <3>1. DOMAIN h = {}
      BY <2>1
    <3>2. QED BY <3>1
  <2>2. CASE Sound(h, env, now)
    BY <2>2 DEF Sound
  <2>3. QED BY <2>1, <2>2
<1>3. PICK k, b : EndsIn(h, v, k, b)
  BY <1>2, ExtendedIs
<1>4. /\ k \in Nat /\ all \in Seq(Pairs(Sample)) /\ Len(all) = k + 1 /\ all[k + 1] = b
      /\ \A i \in 1 .. k : i <= Len(h) /\ all[i] = h[i]
      /\ Compact(b) /\ UpTo(b, now) /\ Stands(b, At(v)) /\ b.high.at + Second > now
      /\ \A i \in DOMAIN h : i <= k \/ \A r \in Sample : r.at <= now /\ Stands(h[i], r) => Stands(b, r)
  BY <1>3 DEF EndsIn
<1>5. Encloses(wide, all)
  BY WidenedIs
<1> HIDE DEF all, wide
<1>6. DOMAIN h = 1 .. Len(h) /\ Len(h) \in Nat
  BY LenProperties
<1>7. \A i \in 1 .. (k + 1) : Compact(all[i]) /\ UpTo(all[i], now)
  <2>1. ASSUME NEW i \in 1 .. k PROVE Compact(all[i]) /\ UpTo(all[i], now)
    <3>1. i \in DOMAIN h /\ all[i] = h[i]
      BY <1>4, <1>6, <2>1
    <3>2. QED BY <3>1, <1>2
  <2>2. \A i \in 1 .. (k + 1) : i \in 1 .. k \/ i = k + 1
    BY <1>4
  <2>3. QED BY <2>1, <2>2, <1>4
<1>8. n \in 0 .. k
  <2>1. CASE n = k + 1
    <3>1. now - all[k + 1].high.at > Windows[3]
      <4>1. k + 1 \in 1 .. n
        BY <1>4, <2>1
      <4>2. QED BY <4>1, <1>1 DEF Expired
    <3>2. b.high.at \in Int
      BY <1>4 DEF Compact, Sample
    <3>3. FALSE
      BY <3>1, <3>2, <1>4, Rules
    <3>4. QED BY <3>3
  <2>2. QED BY <2>1, <1>1, <1>4
<1>9. /\ history' \in Seq(Pairs(Sample)) /\ Len(history') = k + 1 - n
      /\ \A i \in 1 .. (k + 1 - n) : history'[i] = all[n + i]
  <2>1. n + 1 \in Int /\ Len(all) \in Int /\ \A i \in (n + 1) .. Len(all) : all[i] \in Pairs(Sample)
    <3>1. \A i \in (n + 1) .. Len(all) : i \in 1 .. Len(all)
      BY <1>4, <1>8
    <3>2. \A i \in 1 .. Len(all) : all[i] \in Pairs(Sample)
      BY <1>4, ElementOfSeq
    <3>3. QED BY <3>1, <3>2, <1>4, <1>8
  <2>2. /\ Left(n) \in Seq(Pairs(Sample))
        /\ Len(Left(n)) = IF n + 1 <= Len(all) THEN Len(all) - (n + 1) + 1 ELSE 0
        /\ \A i \in 1 .. (Len(all) - (n + 1) + 1) : Left(n)[i] = all[(n + 1) + i - 1]
    BY <2>1, SubSeqProperties
  <2>3. \A i \in 1 .. (k + 1 - n) : i \in 1 .. (Len(all) - (n + 1) + 1) /\ (n + 1) + i - 1 = n + i
    BY <1>4, <1>8
  <2> HIDE DEF Left
  <2>4. QED BY <2>2, <2>3, <1>1, <1>4, <1>8
<1>10. DOMAIN history' = 1 .. (k + 1 - n) /\ history' # <<>> /\ \A i \in DOMAIN history' : n + i \in 1 .. (k + 1)
  <2>1. DOMAIN history' = 1 .. Len(history') /\ Len(history') # 0
    BY <1>4, <1>8, <1>9, LenProperties
  <2>2. history' # <<>>
    BY <2>1
  <2>3. QED BY <2>1, <2>2, <1>4, <1>8, <1>9
<1>11. Encloses(bounds', history')
  <2>1. CASE bounds' = Envelope(history')
    BY <2>1, <1>9, <1>10, EnvelopeIs
  <2>2. CASE bounds' = wide
    <3>1. DOMAIN all = 1 .. (k + 1)
      BY <1>4, LenProperties
    <3>2. QED BY <2>2, <3>1, <1>5, <1>9, <1>10 DEF Encloses
  <2>3. QED BY <2>1, <2>2, <1>1
<1>12. Sound(history', bounds', now)
  BY <1>7, <1>9, <1>10, <1>11 DEF Sound
<1>13. ASSUME NEW r \in Sample, NEW i \in 1 .. (k + 1), Stands(all[i], r)
       PROVE  Recalled(history', r, now)
  <2>1. CASE i > n
    <3>1. i - n \in 1 .. (k + 1 - n) /\ n + (i - n) = i
      BY <2>1, <1>4, <1>8
    <3>2. i - n \in DOMAIN history' /\ history'[i - n] = all[i]
      BY <3>1, <1>9, <1>10
    <3>3. QED BY <3>2, <1>13 DEF Recalled
  <2>2. CASE ~ (i > n)
    <3>1. i \in 1 .. n
      BY <2>2, <1>8
    <3>2. now - all[i].high.at > Windows[3]
      BY <3>1, <1>1 DEF Expired
    <3>3. all[i].high.at \in Int /\ r.at < all[i].high.at + Second /\ r.at \in Int
      BY <1>7, <1>13 DEF Compact, Sample, Stands
    <3>4. now - r.at + Second > Windows[3]
      <4>1. Windows[3] \in Int /\ Second \in Int
        BY Rules
      <4> DEFINE x == all[i].high.at
                 y == r.at
                 w == Windows[3]
      <4>2. x \in Int /\ y \in Int /\ w \in Int /\ y < x + Second /\ now - x > w
        BY <3>2, <3>3, <4>1
      <4> HIDE DEF x, y, w
      <4>3. now - y + Second > w
        BY <4>1, <4>2
      <4>4. QED BY <4>3 DEF y, w
    <3>5. QED BY <3>4 DEF Recalled, Outdated
  <2>3. QED BY <2>1, <2>2
<1>14. At(v) \in Sample /\ Recalled(history', At(v), now)
  <2>1. At(v) \in Sample /\ k + 1 \in 1 .. (k + 1)
    BY <1>4 DEF At, Sample
  <2>2. QED BY <2>1, <1>4, <1>13
<1>15. ASSUME NEW r \in R PROVE Recalled(history', r, now)
  <2>1. r \in Sample /\ r.at <= now
    OBVIOUS
  <2>2. CASE Outdated(r, now)
    BY <2>2 DEF Recalled
  <2>3. CASE \E i \in DOMAIN h : Stands(h[i], r)
    <3>1. PICK i \in DOMAIN h : Stands(h[i], r)
      BY <2>3
    <3>2. CASE i <= k
      <4>1. i \in 1 .. k /\ i \in 1 .. (k + 1) /\ all[i] = h[i]
        BY <3>2, <1>4, <1>6
      <4>2. QED BY <4>1, <3>1, <2>1, <1>13
    <3>3. CASE Stands(b, r)
      <4>1. k + 1 \in 1 .. (k + 1)
        BY <1>4
      <4>2. QED BY <4>1, <3>3, <2>1, <1>4, <1>13
    <3>4. QED BY <3>1, <3>2, <3>3, <2>1, <1>4
  <2>4. QED BY <2>2, <2>3 DEF Recalled
<1>16. QED BY <1>1, <1>9, <1>12, <1>14, <1>15

-----------------------------------------------------------------------------
(* What a displacement is found by. *)

\* A positive factor does not change which of two numbers is greater.
LEMMA Cancelled ==
  ASSUME NEW x \in Int, NEW y \in Int, NEW k \in Nat, k > 0
  PROVE  x > y <=> x * k > y * k
<1>1. ASSUME NEW d \in Int, d > 0 PROVE d * k > 0
  BY <1>1
<1>2. CASE x > y
  <2>1. (x - y) * k > 0
    BY <1>1, <1>2
  <2>2. (x - y) * k = x * k - y * k
    OBVIOUS
  <2>3. QED BY <1>2, <2>1, <2>2
<1>3. CASE y > x
  <2>1. (y - x) * k > 0
    BY <1>1, <1>3
  <2>2. (y - x) * k = y * k - x * k
    OBVIOUS
  <2>3. QED BY <1>3, <2>1, <2>2
<1>4. CASE x = y
  BY <1>4
<1>5. QED BY <1>2, <1>3, <1>4

\* change / limit as a number: all three limits multiplied by.
Factor(b) == IF now - b.at <= Windows[1] THEN Limits[2] * Limits[3]
             ELSE IF now - b.at <= Windows[2] THEN Limits[1] * Limits[3]
             ELSE Limits[1] * Limits[2]
Weight(b, v) == Abs(v - b.value) * Factor(b)

\* The stronger displacement weighs more: what `Stronger` compares is an order of numbers.
LEMMA StrongerIs ==
  ASSUME NEW a \in Sample, NEW b \in Sample, NEW v \in Int, now \in Int
  PROVE  /\ Weight(a, v) \in Int /\ Weight(b, v) \in Int
         /\ Stronger(a, b, v) <=> Weight(a, v) > Weight(b, v)
<1> DEFINE x == Abs(v - a.value)
           y == Abs(v - b.value)
           K == Limits[1]
           L == Limits[2]
           M == Limits[3]
<1>1. x \in Int /\ y \in Int
  BY DEF Abs, Sample
<1>2. K \in Nat /\ L \in Nat /\ M \in Nat /\ K > 0 /\ L > 0 /\ M > 0
  BY Rules
<1>3. /\ \/ Limit(a) = K /\ Factor(a) = L * M
         \/ Limit(a) = L /\ Factor(a) = K * M
         \/ Limit(a) = M /\ Factor(a) = K * L
      /\ \/ Limit(b) = K /\ Factor(b) = L * M
         \/ Limit(b) = L /\ Factor(b) = K * M
         \/ Limit(b) = M /\ Factor(b) = K * L
  BY DEF Limit, LimitAt, Factor
<1>4. /\ Stronger(a, b, v) <=> x * Limit(b) > y * Limit(a)
      /\ Weight(a, v) = x * Factor(a) /\ Weight(b, v) = y * Factor(b)
  BY DEF Stronger, Weight
<1> HIDE DEF x, y, K, L, M
<1>5. ASSUME NEW p \in Nat, NEW q \in Nat, NEW k \in Nat, k > 0
      PROVE  x * p > y * q <=> x * (p * k) > y * (q * k)
  <2>1. x * p \in Int /\ y * q \in Int
    BY <1>1, <1>5
  <2>2. x * p > y * q <=> (x * p) * k > (y * q) * k
    BY <2>1, <1>5, Cancelled
  <2>3. (x * p) * k = x * (p * k) /\ (y * q) * k = y * (q * k)
    BY <1>1, <1>5
  <2>4. QED BY <2>2, <2>3
<1>6. ASSUME NEW p \in Nat, NEW q \in Nat, p > 0, q > 0
      PROVE  x * p > y * p <=> x * q > y * q
  BY <1>1, <1>6, Cancelled
<1>7. /\ L * M \in Nat /\ K * M \in Nat /\ K * L \in Nat /\ L * M > 0 /\ K * M > 0 /\ K * L > 0
      /\ L * M = M * L /\ K * M = M * K /\ K * L = L * K
  <2>1. ASSUME NEW p \in Nat, NEW q \in Nat, p > 0, q > 0 PROVE p * q \in Nat /\ p * q > 0 /\ p * q = q * p
    BY <2>1
  <2>2. QED BY <2>1, <1>2
<1>8. x * Factor(a) \in Int /\ y * Factor(b) \in Int
  <2>1. Factor(a) \in Int /\ Factor(b) \in Int
    BY <1>3, <1>7
  <2>2. QED BY <2>1, <1>1
<1>9. x * Limit(b) > y * Limit(a) <=> x * Factor(a) > y * Factor(b)
  <2>1. /\ x * K > y * K <=> x * (L * M) > y * (L * M)
        /\ x * L > y * L <=> x * (K * M) > y * (K * M)
        /\ x * M > y * M <=> x * (K * L) > y * (K * L)
    BY <1>2, <1>6, <1>7
  <2>2. /\ x * L > y * K <=> x * (L * M) > y * (K * M)
        /\ x * M > y * K <=> x * (M * L) > y * (K * L)
        /\ x * K > y * L <=> x * (K * M) > y * (L * M)
        /\ x * M > y * L <=> x * (M * K) > y * (L * K)
        /\ x * K > y * M <=> x * (K * L) > y * (M * L)
        /\ x * L > y * M <=> x * (L * K) > y * (M * K)
    BY <1>2, <1>5
  <2>3. /\ x * M > y * K <=> x * (L * M) > y * (K * L)
        /\ x * M > y * L <=> x * (K * M) > y * (K * L)
        /\ x * K > y * M <=> x * (K * L) > y * (L * M)
        /\ x * L > y * M <=> x * (K * L) > y * (K * M)
    BY <2>2, <1>7
  <2>4. QED BY <2>1, <2>2, <2>3, <1>3, Zenon
<1>10. QED BY <1>4, <1>8, <1>9

\* Readings are the ends of the buckets.
LEMMA ReadingsAre ==
  ASSUME history \in Seq(Pairs(Sample))
  PROVE  /\ Len(history) \in Nat /\ DOMAIN Readings = 1 .. 2 * Len(history)
         /\ \A i \in DOMAIN Readings : Readings[i] \in Sample
         /\ \A i \in DOMAIN history :
              /\ 2 * i - 1 \in DOMAIN Readings /\ Readings[2 * i - 1] = history[i].low
              /\ 2 * i \in DOMAIN Readings /\ Readings[2 * i] = history[i].high
<1> DEFINE n == Len(history)
<1>1. n \in Nat /\ DOMAIN history = 1 .. n /\ \A i \in 1 .. n : history[i] \in Pairs(Sample)
  BY LenProperties, ElementOfSeq
<1>2. \A i \in 1 .. n : history[i].low \in Sample /\ history[i].high \in Sample
  BY <1>1 DEF Pairs
<1>3. DOMAIN Readings = 1 .. 2 * n
  BY DEF Readings
<1>4. \A i \in 1 .. 2 * n : Readings[i] = IF i % 2 = 1 THEN history[(i + 1) \div 2].low ELSE history[i \div 2].high
  BY DEF Readings
<1> HIDE DEF n
<1>5. ASSUME NEW i \in 1 .. 2 * n PROVE Readings[i] \in Sample
  <2>1. i % 2 = 1 => (i + 1) \div 2 \in 1 .. n
    BY <1>1
  <2>2. i % 2 # 1 => i \div 2 \in 1 .. n
    BY <1>1
  <2>3. QED BY <1>2, <1>4, <2>1, <2>2
<1>6. ASSUME NEW i \in 1 .. n
      PROVE  /\ 2 * i - 1 \in 1 .. 2 * n /\ Readings[2 * i - 1] = history[i].low
             /\ 2 * i \in 1 .. 2 * n /\ Readings[2 * i] = history[i].high
  <2>1. /\ 2 * i - 1 \in 1 .. 2 * n /\ (2 * i - 1) % 2 = 1 /\ ((2 * i - 1) + 1) \div 2 = i
        /\ 2 * i \in 1 .. 2 * n /\ (2 * i) % 2 # 1 /\ (2 * i) \div 2 = i
    BY <1>1
  <2>2. QED BY <2>1, <1>4
<1>7. QED BY <1>1, <1>3, <1>5, <1>6 DEF n

\* Of the candidates one is the strongest, and the earliest of those.
LEMMA StrongestExists ==
  ASSUME history \in Seq(Pairs(Sample)), now \in Int, NEW v \in Int, Candidates(v) # {}
  PROVE  Strongest(v) # {}
<1> DEFINE R == Readings
           C == Candidates(v)
           f == [i \in C |-> - Weight(R[i], v)]
<1>1. Len(history) \in Nat /\ DOMAIN R = 1 .. 2 * Len(history) /\ \A i \in DOMAIN R : R[i] \in Sample
  BY ReadingsAre
<1>2. C \subseteq DOMAIN R
  BY DEF Candidates, Recent
<1>3. \A i \in C : R[i] \in Sample /\ Weight(R[i], v) \in Int
  BY <1>1, <1>2, StrongerIs
<1>4. \A i \in C : f[i] \in Int /\ f[i] = - Weight(R[i], v)
  BY <1>3
<1>5. C \subseteq Nat /\ 2 * Len(history) \in Nat /\ \A i \in C : i <= 2 * Len(history)
  BY <1>1, <1>2
<1> HIDE DEF C, R, f
<1>6. PICK i \in C : \A j \in C : Below(f, i, j)
  BY <1>4, <1>5, LeastValueIn DEF C
<1>7. ASSUME NEW j \in C
      PROVE  ~ Stronger(R[j], R[i], v) /\ (j < i => Stronger(R[i], R[j], v))
  <2>1. f[i] < f[j] \/ (f[i] = f[j] /\ i <= j)
    BY <1>6 DEF Below
  <2>2. /\ Stronger(R[j], R[i], v) <=> Weight(R[j], v) > Weight(R[i], v)
        /\ Stronger(R[i], R[j], v) <=> Weight(R[i], v) > Weight(R[j], v)
    BY <1>3, StrongerIs
  <2>3. i \in Nat /\ j \in Nat
    BY <1>5
  <2>4. QED BY <2>1, <2>2, <2>3, <1>3, <1>4
<1>8. R[i] \in Strongest(v)
  BY <1>7 DEF Strongest, C, R
<1>9. QED BY <1>8

\* There is only one of them.
LEMMA StrongestIsOne ==
  ASSUME history \in Seq(Pairs(Sample)), NEW v \in Int,
         NEW a \in Strongest(v), NEW b \in Strongest(v)
  PROVE  a = b
<1> DEFINE R == Readings
           C == Candidates(v)
           Best(i) == \A j \in C : ~ Stronger(R[j], R[i], v) /\ (j < i => Stronger(R[i], R[j], v))
<1>1. PICK i \in C : a = R[i] /\ Best(i)
  BY DEF Strongest
<1>2. PICK j \in C : b = R[j] /\ Best(j)
  BY DEF Strongest
<1>3. i \in Nat /\ j \in Nat
  BY ReadingsAre DEF Candidates, Recent
<1>4. i = j
  <2>1. ~ (j < i)
    BY <1>1, <1>2
  <2>2. ~ (i < j)
    BY <1>1, <1>2
  <2>3. QED BY <2>1, <2>2, <1>3
<1>5. QED BY <1>1, <1>2, <1>4

\* A candidate is reason enough for a pulse.
LEMMA BaselineExists ==
  ASSUME history \in Seq(Pairs(Sample)), now \in Int, NEW v \in Int, Candidates(v) # {}
  PROVE  Baseline(v) # {}
<1>1. PICK c : c \in Strongest(v)
  BY StrongestExists
<1>2. CASE \A b \in Slow(v) : ~ Stronger(b, c, v)
  <2>1. c \in Baseline(v)
    BY <1>1, <1>2 DEF Baseline
  <2>2. QED BY <2>1
<1>3. CASE \E b \in Slow(v) : Stronger(b, c, v)
  <2>1. PICK b \in Slow(v) : Stronger(b, c, v)
    BY <1>3
  <2>2. \A d \in Strongest(v) : d = c
    BY <1>1, StrongestIsOne
  <2>3. \A d \in Strongest(v) : Stronger(b, d, v)
    BY <2>1, <2>2
  <2>4. b \in Baseline(v)
    BY <2>1, <2>3 DEF Baseline
  <2>5. QED BY <2>4
<1>4. QED BY <1>2, <1>3

\* A longer age asks for no less.
LEMMA LimitsGrow ==
  ASSUME NEW a \in Int, NEW b \in Int, a <= b
  PROVE  /\ LimitAt(a) \in Nat /\ LimitAt(b) \in Nat /\ LimitAt(a) > 0
         /\ Limits[1] <= LimitAt(a) /\ LimitAt(a) <= LimitAt(b)
<1>1. /\ Limits[1] \in Nat /\ Limits[2] \in Nat /\ Limits[3] \in Nat /\ Limits[1] > 0
      /\ Limits[1] <= Limits[2] /\ Limits[2] <= Limits[3] /\ Windows[1] \in Nat /\ Windows[2] \in Nat
  BY Rules
<1>2. QED BY <1>1 DEF LimitAt

\* What is missed by a reading at time t.
MissedAt(r, v, t) == /\ t - r.at >= 1 /\ t - r.at + Second <= Windows[3]
                     /\ Abs(r.value) >= Limits[1] \/ Abs(v) >= Limits[1]
                     /\ Abs(v - r.value) >= LimitAt(t - r.at + Second)

\* What stands for a missed reading, on the side the value moved away from, is a candidate.
LEMMA StandInIsDisplaced ==
  ASSUME now \in Int, NEW v \in Int, NEW r \in Sample, NEW b \in Sample,
         MissedAt(r, v, now), b.at < now, r.at < b.at + Second,
         v > r.value => b.value <= r.value, v < r.value => b.value >= r.value
  PROVE  /\ now - b.at \in 1 .. Windows[3] /\ Displaced(b, v, 0)
         /\ Abs(v - b.value) \in Int /\ Abs(v - b.value) >= Limits[1]
<1> DEFINE age == now - r.at + Second
<1>1. /\ r.at \in Int /\ r.value \in Int /\ b.at \in Int /\ b.value \in Int
      /\ Second \in Nat /\ Windows[3] \in Nat /\ OldestBaseline \in Nat /\ Windows[3] <= OldestBaseline
      /\ Limits[1] \in Nat /\ Limits[1] > 0
  BY Rules DEF Sample
<1>2. now - b.at >= 1 /\ now - b.at <= age /\ age <= Windows[3] /\ age \in Int /\ now - b.at \in Int
  BY <1>1 DEF MissedAt
<1>3. now - b.at \in 1 .. Windows[3] /\ now - b.at \in 1 .. OldestBaseline
  BY <1>1, <1>2
<1>4. /\ LimitAt(age) \in Nat /\ LimitAt(now - b.at) \in Nat
      /\ Limits[1] <= LimitAt(now - b.at) /\ LimitAt(now - b.at) <= LimitAt(age)
  <2> HIDE DEF age
  <2>1. QED BY <1>2, LimitsGrow
<1>5. /\ Abs(v - r.value) \in Int /\ Abs(v - r.value) >= LimitAt(age)
      /\ Abs(r.value) >= Limits[1] \/ Abs(v) >= Limits[1]
  BY <1>1 DEF MissedAt, Abs
<1> HIDE DEF age
<1>6. v # r.value
  BY <1>1, <1>4, <1>5 DEF Abs
<1>7. Abs(v - b.value) \in Int /\ Abs(v - b.value) >= Abs(v - r.value)
  BY <1>1, <1>6 DEF Abs
<1>8. Abs(v - b.value) >= LimitAt(now - b.at) /\ Abs(v - b.value) >= Limits[1] /\ Abs(v - b.value) >= 0
  BY <1>1, <1>4, <1>5, <1>7
<1>9. Abs(b.value) >= Limits[1] \/ Abs(v) >= Limits[1]
  <2>1. CASE Abs(v) >= Limits[1]
    BY <2>1
  <2>2. CASE Abs(r.value) >= Limits[1] /\ v > r.value
    <3>1. v - r.value >= Limits[1] /\ b.value <= r.value
      BY <1>1, <1>4, <1>5, <2>2 DEF Abs
    <3>2. QED BY <1>1, <2>2, <3>1 DEF Abs
  <2>3. CASE Abs(r.value) >= Limits[1] /\ v < r.value
    <3>1. r.value - v >= Limits[1] /\ b.value >= r.value
      BY <1>1, <1>4, <1>5, <2>3 DEF Abs
    <3>2. QED BY <1>1, <2>3, <3>1 DEF Abs
  <2>4. QED BY <1>1, <1>5, <1>6, <2>1, <2>2, <2>3
<1>10. Displaced(b, v, 0)
  BY <1>3, <1>8, <1>9 DEF Displaced, Eligible, Limit
<1>11. QED BY <1>3, <1>7, <1>8, <1>10

\* The scan over a sound history misses no displacement from a reading it recalls.
LEMMA SearchFinds ==
  ASSUME now \in Int, NEW v \in Levels, history \in Seq(Pairs(Sample)),
         NEW t \in Int, t < now, Sound(history, bounds, t),
         NEW r \in Sample, Recalled(history, r, now), MissedAt(r, v, now)
  PROVE  Candidates(v) # {}
<1>1. v \in Int /\ r.at \in Int /\ r.value \in Int /\ Limits[1] \in Nat /\ Second \in Nat /\ Windows[3] \in Nat
  BY Settings, Rules DEF Sample
<1>2. ~ Outdated(r, now)
  BY <1>1 DEF MissedAt, Outdated
<1>3. PICK i \in DOMAIN history : Stands(history[i], r)
  BY <1>2 DEF Recalled
<1> DEFINE low == history[i].low
           high == history[i].high
<1>4. /\ low \in Sample /\ high \in Sample /\ low.at <= t /\ high.at <= t
      /\ low.value <= r.value /\ r.value <= high.value
      /\ r.at < low.at + Second /\ r.at < high.at + Second
      /\ low.value <= high.value
  BY <1>3 DEF Sound, Compact, UpTo, Stands
<1>5. /\ bounds.low \in Int /\ bounds.high \in Int /\ bounds.low <= low.value /\ high.value <= bounds.high
      /\ history # <<>>
  BY DEF Sound, Encloses
<1>6. /\ 2 * i - 1 \in DOMAIN Readings /\ Readings[2 * i - 1] = low
      /\ 2 * i \in DOMAIN Readings /\ Readings[2 * i] = high
  BY ReadingsAre
<1> HIDE DEF low, high
<1>7. low.at < now /\ high.at < now /\ low.value \in Int /\ high.value \in Int
  BY <1>4 DEF Sample
<1>8. PICK k \in DOMAIN Readings :
        /\ Readings[k] = low \/ Readings[k] = high
        /\ now - Readings[k].at \in 1 .. Windows[3] /\ Displaced(Readings[k], v, 0)
        /\ Abs(v - Readings[k].value) \in Int /\ Abs(v - Readings[k].value) >= Limits[1]
  <2>1. CASE v >= r.value
    <3>1. v < r.value => low.value >= r.value
      BY <1>1, <2>1
    <3>2. /\ now - low.at \in 1 .. Windows[3] /\ Displaced(low, v, 0)
          /\ Abs(v - low.value) \in Int /\ Abs(v - low.value) >= Limits[1]
      BY <1>1, <1>4, <1>7, <3>1, StandInIsDisplaced
    <3>3. QED BY <1>6, <3>2
  <2>2. CASE v < r.value
    <3>1. v > r.value => high.value <= r.value
      BY <1>1, <2>2
    <3>2. /\ now - high.at \in 1 .. Windows[3] /\ Displaced(high, v, 0)
          /\ Abs(v - high.value) \in Int /\ Abs(v - high.value) >= Limits[1]
      BY <1>1, <1>4, <1>7, <3>1, StandInIsDisplaced
    <3>3. QED BY <1>6, <3>2
  <2>3. QED BY <1>1, <2>1, <2>2
<1>9. Possible[v] >= Limits[1] /\ Possible[v] \in Int
  <2>1. Possible[v] = Greatest({Abs(v - bounds.low), Abs(v - bounds.high)})
    BY <1>5 DEF Possible
  <2>2. Abs(v - bounds.low) \in Int /\ Abs(v - bounds.high) \in Int
    <3>1. v - bounds.low \in Int /\ v - bounds.high \in Int
      BY <1>1, <1>5
    <3>2. \A n \in Int : Abs(n) \in Int
      BY DEF Abs
    <3>3. QED BY <3>1, <3>2, Zenon
  <2>3. /\ Possible[v] \in Int /\ Possible[v] >= Abs(v - bounds.low) /\ Possible[v] >= Abs(v - bounds.high)
    BY <2>1, <2>2, OfTwo
  <2>4. Readings[k].value \in Int /\ bounds.low <= Readings[k].value /\ Readings[k].value <= bounds.high
    BY <1>4, <1>5, <1>7, <1>8
  <2>5. Abs(v - Readings[k].value) <= Abs(v - bounds.low) \/ Abs(v - Readings[k].value) <= Abs(v - bounds.high)
    BY <1>1, <1>5, <2>4 DEF Abs
  <2>6. QED BY <1>1, <1>8, <2>2, <2>3, <2>5
<1>10. k \in Candidates(v)
  BY <1>1, <1>8, <1>9 DEF Candidates, Recent
<1>11. QED BY <1>10

-----------------------------------------------------------------------------
(* No jump is missed. *)

\* The inductive invariant: between readings the history is sound and recalls all that
\* were read, and while no pulse is held the latest reading missed none of them.
JumpInv ==
  /\ raw \subseteq Sample /\ history \in Seq(Pairs(Sample))
  /\ last = None => history = <<>> /\ bounds = None /\ raw = {}
  /\ last # None =>
       /\ last \in raw /\ Sound(history, bounds, last.at)
       /\ \A r \in raw : r.at <= last.at /\ (r.at = last.at => r = last) /\ Recalled(history, r, now)
       /\ held = {} => \A r \in raw : ~ MissedAt(r, last.value, last.at)

\* What a step has to do.
NothingMissed ==
  held = {} /\ held' = {} /\ raw \subseteq raw' /\ last' # last
    => ~ \E r \in raw : Missed(r, last'.value)
Catches == JumpInv' /\ NothingMissed

\* A reading has no age yet, so it does not miss itself.
LEMMA NoReadingMissesItself ==
  ASSUME now \in Int, NEW v
  PROVE  ~ Missed(At(v), v) /\ ~ MissedAt(At(v), v, now)
BY DEF Missed, MissedAt, At

\* The reading of this moment.
LEMMA ReadingIs ==
  ASSUME now \in Int, NEW v \in Levels
  PROVE  At(v) \in Sample /\ At(v).at = now /\ At(v).value = v /\ At(v) # None
<1>1. v \in Int
  BY Settings
<1>2. DOMAIN At(v) # DOMAIN None
  BY DEF At, None
<1>3. QED BY <1>1, <1>2 DEF At, Sample

\* Where the history begins again nothing earlier is compared with.
LEMMA AfreshCatches ==
  ASSUME now \in Int, now' = now, NEW v \in Levels, RememberAfresh(v)
  PROVE  Catches
<1>1. /\ Remember(v, <<>>, None) /\ raw' = {At(v)}
      /\ v \in Int /\ At(v) \in Sample /\ At(v).at = now /\ At(v).value = v /\ At(v) # None
  BY ReadingIs, Settings DEF RememberAfresh
<1>2. /\ last' = At(v) /\ history' \in Seq(Pairs(Sample)) /\ Sound(history', bounds', now)
      /\ Recalled(history', At(v), now)
  <2> DEFINE h == <<>>
             env == None
             R == {}
  <2>1. /\ h \in Seq(Pairs(Sample)) /\ Remember(v, h, env)
        /\ (h = <<>> /\ env = None) \/ Sound(h, env, now)
    BY <1>1, EmptySeq
  <2>2. R \subseteq Sample /\ \A r \in R : r.at <= now /\ Recalled(h, r, now)
    OBVIOUS
  <2> HIDE DEF h, env, R
  <2>3. QED BY <1>1, <2>1, <2>2, RememberKeeps
<1>3. \A r \in raw' : r = At(v) /\ ~ MissedAt(r, v, now) /\ ~ Missed(r, v)
  BY <1>1, NoReadingMissesItself
<1>4. JumpInv'
  BY <1>1, <1>2, <1>3 DEF JumpInv, Recalled, Outdated
<1>5. NothingMissed
  BY <1>1, <1>2, <1>3 DEF NothingMissed
<1>6. QED BY <1>4, <1>5 DEF Catches

\* A reading is added to what is remembered.
LEMMA OnCatches ==
  ASSUME now \in Int, now' = now, JumpInv, last # None, last.at < now,
         NEW v \in Levels, RememberOn(v),
         held' = {} => held = {} /\ \A r \in raw : ~ MissedAt(r, v, now)
  PROVE  Catches
<1>1. /\ Remember(v, history, bounds) /\ raw' = raw \cup {At(v)}
      /\ v \in Int /\ At(v) \in Sample /\ At(v).at = now /\ At(v).value = v /\ At(v) # None
  BY ReadingIs, Settings DEF RememberOn
<1>2. /\ raw \subseteq Sample /\ history \in Seq(Pairs(Sample)) /\ last \in raw /\ Sound(history, bounds, last.at)
      /\ \A r \in raw : r.at <= last.at /\ Recalled(history, r, now)
  BY DEF JumpInv
<1>3. last.at \in Int /\ \A r \in raw : r.at \in Int /\ r.at < now
  BY <1>2 DEF Sample
<1>4. Sound(history, bounds, now)
  <2>1. \A i \in DOMAIN history : UpTo(history[i], now)
    <3>1. ASSUME NEW i \in DOMAIN history PROVE UpTo(history[i], now)
      <4>1. /\ history[i].low.at \in Int /\ history[i].high.at \in Int
            /\ history[i].low.at <= last.at /\ history[i].high.at <= last.at
        BY <1>2 DEF Sound, Compact, UpTo, Sample
      <4>2. QED BY <4>1, <1>3 DEF UpTo
    <3>2. QED BY <3>1
  <2>2. QED BY <1>2, <2>1 DEF Sound
<1>5. /\ last' = At(v) /\ history' \in Seq(Pairs(Sample)) /\ Sound(history', bounds', now)
      /\ \A r \in raw \cup {At(v)} : Recalled(history', r, now)
  <2>1. \A r \in raw : r.at <= now /\ Recalled(history, r, now)
    BY <1>2, <1>3
  <2>2. QED BY <1>1, <1>2, <1>4, <2>1, RememberKeeps
<1>6. /\ \A r \in raw' : r.at <= now /\ (r.at = now => r = At(v))
      /\ held' = {} => \A r \in raw' : ~ MissedAt(r, v, now)
  BY <1>1, <1>3, NoReadingMissesItself
<1>7. JumpInv'
  BY <1>1, <1>2, <1>5, <1>6 DEF JumpInv, Recalled, Outdated
<1>8. NothingMissed
  <2>1. \A r \in raw : MissedAt(r, v, now) <=> Missed(r, v)
    BY DEF Missed, MissedAt
  <2>2. QED BY <1>1, <1>5, <2>1 DEF NothingMissed
<1>9. QED BY <1>7, <1>8 DEF Catches

\* A repeated value misses no more than it did the first time.
LEMMA RepeatMissesNone ==
  ASSUME now \in Int, JumpInv, last # None, last.at < now, held = {}, NEW r \in raw
  PROVE  ~ MissedAt(r, last.value, now)
<1> SUFFICES ASSUME MissedAt(r, last.value, now) PROVE FALSE
  OBVIOUS
<1>1. /\ last \in Sample /\ r \in Sample /\ r.at <= last.at /\ (r.at = last.at => r = last)
      /\ ~ MissedAt(r, last.value, last.at)
  BY DEF JumpInv
<1>2. last.at \in Int /\ r.at \in Int /\ last.value \in Int /\ r.value \in Int /\ Second \in Nat /\ Windows[3] \in Nat
  BY <1>1, Rules DEF Sample
<1> DEFINE age == now - r.at + Second
           then == last.at - r.at + Second
<1>3. age \in Int /\ then \in Int /\ then <= age
  BY <1>2
<1>4. LimitAt(then) \in Nat /\ LimitAt(age) \in Nat /\ LimitAt(then) <= LimitAt(age) /\ LimitAt(age) > 0
  <2> HIDE DEF age, then
  <2>1. QED BY <1>3, LimitsGrow
<1>5. /\ Abs(r.value) >= Limits[1] \/ Abs(last.value) >= Limits[1]
      /\ Abs(last.value - r.value) >= LimitAt(age) /\ Abs(last.value - r.value) \in Int
      /\ age <= Windows[3]
  BY <1>2 DEF MissedAt, Abs
<1>6. CASE r = last
  BY <1>2, <1>4, <1>5, <1>6 DEF Abs
<1>7. CASE r # last
  <2>1. last.at - r.at >= 1 /\ then <= Windows[3]
    BY <1>1, <1>2, <1>3, <1>5, <1>7
  <2>2. Abs(last.value - r.value) >= LimitAt(then)
    <3> HIDE DEF age, then
    <3>1. QED BY <1>4, <1>5
  <2>3. MissedAt(r, last.value, last.at)
    BY <1>5, <2>1, <2>2 DEF MissedAt
  <2>4. QED BY <2>3, <1>1
<1>8. QED BY <1>6, <1>7

\* A reading while no pulse is held: either it opens one or the scan found nothing.
LEMMA IdleCatches ==
  ASSUME now \in Int, now' = now, JumpInv, NEW v \in Levels, Idle(v)
  PROVE  Catches
<1>1. last # None /\ last.at < now /\ held = {}
  <2>1. last # None /\ now > last.at
    BY DEF Idle, Follows
  <2>2. last \in Sample
    BY <2>1 DEF JumpInv
  <2>3. QED BY <2>1, <2>2 DEF Idle, Sample
<1>2. CASE v # last.value /\ Baseline(v) # {}
  BY <1>2, AfreshCatches DEF Idle
<1>3. CASE ~ (v # last.value /\ Baseline(v) # {})
  <2>1. RememberOn(v)
    BY <1>3 DEF Idle
  <2>2. \A r \in raw : ~ MissedAt(r, v, now)
    <3>1. CASE v = last.value
      BY <3>1, <1>1, RepeatMissesNone
    <3>2. CASE Baseline(v) = {}
      <4>1. /\ v \in Int /\ history \in Seq(Pairs(Sample)) /\ Sound(history, bounds, last.at)
            /\ last.at \in Int /\ \A r \in raw : r \in Sample /\ Recalled(history, r, now)
        BY <1>1, Settings DEF JumpInv, Sample
      <4>2. Candidates(v) = {}
        BY <3>2, <4>1, BaselineExists
      <4>3. QED BY <4>1, <4>2, <1>1, SearchFinds
    <3>3. QED BY <1>3, <3>1, <3>2
  <2>3. QED BY <1>1, <2>1, <2>2, OnCatches
<1>4. QED BY <1>2, <1>3

\* A reading while a pulse is held is remembered, or the history begins again with it.
LEMMA ActiveCatches ==
  ASSUME now \in Int, now' = now, JumpInv, NEW v \in Levels, Active(v)
  PROVE  Catches
<1>1. last # None /\ last.at < now
  <2>1. last # None /\ now > last.at
    BY DEF Active, Follows
  <2>2. last \in Sample
    BY <2>1 DEF JumpInv
  <2>3. QED BY <2>1, <2>2 DEF Sample
<1>2. held # {} /\ (RememberAfresh(v) \/ (RememberOn(v) /\ held' = held))
  BY DEF Active
<1>3. QED BY <1>1, <1>2, AfreshCatches, OnCatches

\* Every step keeps the invariant and misses nothing.
LEMMA StepCatches == TrackInv /\ JumpInv /\ [Next]_vars => Catches
<1> SUFFICES ASSUME TrackInv, JumpInv, [Next]_vars PROVE Catches
  OBVIOUS
<1>1. now \in Int
  BY Settings DEF TrackInv, TimeTyped
<1>2. CASE observe
  <2>1. PICK v \in Levels : First(v) \/ Skip(v) \/ Idle(v) \/ Active(v)
    BY <1>2 DEF observe
  <2>2. now' = now
    BY <1>2 DEF observe
  <2>3. CASE First(v)
    BY <2>2, <2>3, <1>1, AfreshCatches DEF First
  <2>4. CASE Skip(v)
    <3>1. UNCHANGED <<now, held, history, bounds, last, raw>>
      BY <2>2, <2>4 DEF Skip, track
    <3>2. QED BY <3>1 DEF Catches, JumpInv, NothingMissed, Recalled, Outdated
  <2>5. QED BY <2>1, <2>2, <2>3, <2>4, <1>1, IdleCatches, ActiveCatches
<1>3. CASE (\E reason \in {"data_gap", "isolated"} : reset(reason)) /\ now' = now
  <2>1. history' = <<>> /\ bounds' = None /\ last' = None /\ raw' = {}
    BY <1>3 DEF reset
  <2>2. JumpInv'
    BY <2>1, EmptySeq DEF JumpInv
  <2>3. QED BY <2>1, <2>2 DEF Catches, NothingMissed
<1>4. CASE Tick /\ UNCHANGED <<life, held, track, raw, since>>
  <2>1. UNCHANGED <<held, history, bounds, last, raw>> /\ now' \in Int /\ now <= now'
    BY <1>1, <1>4 DEF Tick, track
  <2>2. ASSUME NEW r \in raw, Recalled(history, r, now) PROVE Recalled(history, r, now')
    <3>1. r.at \in Int /\ Second \in Nat /\ Windows[3] \in Nat
      BY Rules DEF JumpInv, Sample
    <3>2. Outdated(r, now) => Outdated(r, now')
      BY <1>1, <2>1, <3>1 DEF Outdated
    <3>3. QED BY <2>2, <3>2 DEF Recalled
  <2>3. JumpInv'
    <3>1. \A r \in raw : Recalled(history, r, now) => Recalled(history', r, now')
      BY <2>1, <2>2
    <3>2. \A r \in raw' : last # None => Recalled(history, r, now)'
      BY <2>1, <3>1 DEF JumpInv, Recalled, Outdated
    <3>3. QED BY <2>1, <3>2 DEF JumpInv
  <2>4. QED BY <2>1, <2>3 DEF Catches, NothingMissed
<1>5. CASE UNCHANGED vars
  <2>1. UNCHANGED <<now, held, history, bounds, last, raw>>
    BY <1>5 DEF vars, lifeVars, track
  <2>2. QED BY <2>1 DEF Catches, JumpInv, NothingMissed, Recalled, Outdated
<1>6. QED BY <1>2, <1>3, <1>4, <1>5 DEF Next

\* "This envelope can reject an impossible threshold" and a plateau keeps only its latest
\* reading, and yet no displacement is missed (Track.remember, possible_change and the scan
\* of observe): a reading that opens no pulse is displaced from none of those before it, in
\* the longest window, by the limit of an age a second greater.
THEOREM JumpsCaught == Spec => NoJumpMissed
<1>1. Init => TrackInv /\ JumpInv
  <2>1. Init => TrackInv
    BY InitImplements
  <2>2. Init => JumpInv
    BY EmptySeq DEF Init, JumpInv
  <2>3. QED BY <2>1, <2>2
<1>2. TrackInv /\ JumpInv /\ [Next]_vars => TrackInv' /\ JumpInv'
  BY StepImplements, StepCatches DEF Catches
<1>3. TrackInv /\ JumpInv /\ [Next]_vars
        => [held = {} /\ held' = {} /\ raw \subseteq raw' /\ last' # last
              => ~ \E r \in raw : Missed(r, last'.value)]_vars
  BY StepCatches DEF Catches, NothingMissed
<1>4. QED BY <1>1, <1>2, <1>3, PTL DEF Spec, NoJumpMissed

-----------------------------------------------------------------------------
(* Sets of times, in order. *)

\* Times are numbers, and any set of them is finite.
LEMMA TimesAreFinite ==
  ASSUME NEW T \in SUBSET Times
  PROVE  T \subseteq Nat /\ IsFiniteSet(T) /\ Cardinality(T) \in Nat
<1>1. MaxTime \in Nat /\ Times = 0 .. MaxTime
  BY HistoryAssumption DEF Times
<1>2. IsFiniteSet(Times)
  BY <1>1, FS_Interval
<1>3. IsFiniteSet(T)
  BY <1>2, FS_Subset
<1>4. Cardinality(T) \in Nat
  BY <1>3, FS_CardinalityType
<1>5. QED BY <1>1, <1>3, <1>4

\* Some of them is the first, and some the last.
LEMMA FirstAndLast ==
  ASSUME NEW T \in SUBSET Times, T # {}
  PROVE  /\ \E m \in T : \A u \in T : m <= u
         /\ \E m \in T : \A u \in T : u <= m
<1>1. T \subseteq Nat /\ MaxTime \in Nat /\ \A u \in T : u <= MaxTime
  BY HistoryAssumption, TimesAreFinite DEF Times
<1>2. \E m \in T : \A u \in T : m <= u
  BY <1>1, LeastExists
<1>3. \E m \in T : \A u \in T : u <= m
  <2> DEFINE S == {MaxTime - u : u \in T}
  <2>1. S \subseteq Nat /\ S # {}
    <3>1. \A u \in T : MaxTime - u \in Nat
      BY <1>1
    <3>2. QED BY <3>1
  <2> HIDE DEF S
  <2>2. PICK k \in S : \A x \in S : k <= x
    BY <2>1, LeastExists
  <2>3. PICK m \in T : k = MaxTime - m
    BY <2>2 DEF S
  <2>4. \A u \in T : MaxTime - m <= MaxTime - u
    BY <2>2, <2>3 DEF S
  <2>5. QED BY <2>4, <1>1
<1>4. QED BY <1>2, <1>3

\* The greatest of them.
LEMMA MaxIs ==
  ASSUME NEW T \in SUBSET Times, T # {}
  PROVE  Max(T) \in T /\ \A u \in T : u <= Max(T)
<1>1. PICK m \in T : \A u \in T : u <= m
  BY FirstAndLast
<1>2. T \subseteq Nat
  BY TimesAreFinite
<1>3. \E x \in T : \A y \in T : x >= y
  BY <1>1, <1>2
<1>4. Max(T) \in T /\ \A y \in T : Max(T) >= y
  BY <1>3 DEF Max
<1>5. QED BY <1>4, <1>2

\* There is only one.
LEMMA MaxIsOne ==
  ASSUME NEW T \in SUBSET Times, NEW m \in T, \A u \in T : u <= m
  PROVE  Max(T) = m
<1>1. Max(T) \in T /\ m <= Max(T) /\ Max(T) <= m
  BY MaxIs
<1>2. QED BY <1>1, TimesAreFinite

\* How many come before.
Rank(T, t) == Cardinality({u \in T : u < t})

\* It tells them apart, and is between nothing and all.
LEMMA RankGrowsIn ==
  ASSUME NEW T, T \subseteq Nat, IsFiniteSet(T), NEW t \in T
  PROVE  /\ Rank(T, t) \in Nat /\ Rank(T, t) < Cardinality(T)
         /\ \A u \in T : t < u => Rank(T, t) < Rank(T, u)
<1>0. T \subseteq Nat /\ IsFiniteSet(T) /\ Cardinality(T) \in Nat
  BY FS_CardinalityType
<1> DEFINE B(x) == {u \in T : u < x}
<1>1. \A S \in SUBSET T : IsFiniteSet(S) /\ Cardinality(S) \in Nat
  BY <1>0, FS_Subset, FS_CardinalityType
<1>2. ASSUME NEW S \in SUBSET T, B(t) \subseteq S, t \in S
      PROVE  Rank(T, t) < Cardinality(S)
  <2>1. t \notin B(t) /\ B(t) \in SUBSET S /\ B(t) \in SUBSET T
    BY <1>0, <1>2
  <2>2. Cardinality(B(t)) <= Cardinality(S) /\ (Cardinality(S) = Cardinality(B(t)) => S = B(t))
    BY <2>1, <1>1, FS_Subset
  <2>3. Cardinality(B(t)) \in Nat /\ Cardinality(S) \in Nat
    BY <1>1, <2>1
  <2> HIDE DEF B
  <2>4. Cardinality(B(t)) < Cardinality(S)
    BY <2>1, <2>2, <2>3, <1>2
  <2>5. QED BY <2>4 DEF Rank, B
<1>3. Rank(T, t) \in Nat
  BY <1>1 DEF Rank
<1>4. Rank(T, t) < Cardinality(T)
  BY <1>2
<1>5. ASSUME NEW u \in T, t < u
      PROVE  Rank(T, t) < Rank(T, u)
  <2>1. B(t) \subseteq B(u) /\ t \in B(u) /\ B(u) \in SUBSET T
    <3>1. \A x \in T : x < t => x < u
      BY <1>0, <1>5
    <3>2. QED BY <3>1, <1>5
  <2>2. Rank(T, t) < Cardinality(B(u))
    BY <2>1, <1>2
  <2>3. QED BY <2>2 DEF Rank
<1>6. QED BY <1>3, <1>4, <1>5

\* Every number below all is the rank of one of them.
LEMMA RankExistsIn ==
  ASSUME NEW T, T \subseteq Nat, IsFiniteSet(T), NEW n \in 1 .. Cardinality(T)
  PROVE  \E t \in T : Rank(T, t) = n - 1
<1>0. T \subseteq Nat /\ IsFiniteSet(T) /\ Cardinality(T) \in Nat
  BY FS_CardinalityType
<1> DEFINE c == Cardinality(T)
           f == [t \in T |-> Rank(T, t) + 1]
<1>1. IsFiniteSet(1 .. c) /\ Cardinality(1 .. c) = c
  BY <1>0, FS_Interval
<1>r. \A x \in T : /\ Rank(T, x) \in Nat /\ Rank(T, x) < c
                  /\ \A u \in T : x < u => Rank(T, x) < Rank(T, u)
  BY <1>0, RankGrowsIn
<1>2. f \in [T -> 1 .. c]
  <2>1. \A x \in T : Rank(T, x) + 1 \in 1 .. c
    BY <1>0, <1>r
  <2>2. QED BY <2>1
<1>3. ASSUME NEW x \in T, NEW y \in T, f[x] = f[y] PROVE x = y
  <2>1. Rank(T, x) = Rank(T, y) /\ Rank(T, x) \in Nat
    BY <1>3, <1>r
  <2>2. ~ (x < y) /\ ~ (y < x)
    BY <2>1, <1>r
  <2>3. QED BY <2>2, <1>0
<1>4. f \in Injection(T, 1 .. c)
  BY <1>2, <1>3 DEF Injection, IsInjective
<1> HIDE DEF f
<1>5. f \in Surjection(T, 1 .. c)
  BY <1>1, <1>4, FS_Injection
<1>6. PICK t \in T : f[t] = n
  BY <1>5 DEF Surjection
<1>7. Rank(T, t) + 1 = n /\ Rank(T, t) \in Nat
  BY <1>6, <1>r DEF f
<1>8. QED BY <1>7

\* Ordered lists each time once, in order.
LEMMA OrderedIsIn ==
  ASSUME NEW T, T \subseteq Nat, IsFiniteSet(T)
  PROVE  /\ Ordered(T) \in [1 .. Cardinality(T) -> T]
         /\ Ordered(T) \in Seq(T) /\ Len(Ordered(T)) = Cardinality(T)
         /\ \A n \in 1 .. Cardinality(T) : Rank(T, Ordered(T)[n]) = n - 1
<1>1. \A n \in 1 .. Cardinality(T) : \E t \in T : Cardinality({u \in T : u < t}) = n - 1
  BY RankExistsIn DEF Rank
<1>2. ASSUME NEW n \in 1 .. Cardinality(T)
      PROVE  Ordered(T)[n] \in T /\ Rank(T, Ordered(T)[n]) = n - 1
  <2>1. Ordered(T)[n] = CHOOSE t \in T : Cardinality({u \in T : u < t}) = n - 1
    BY DEF Ordered
  <2>2. QED BY <2>1, <1>1 DEF Rank
<1> DEFINE e(n) == CHOOSE t \in T : Cardinality({u \in T : u < t}) = n - 1
<1>3. Ordered(T) = [n \in 1 .. Cardinality(T) |-> e(n)]
  BY DEF Ordered
<1> HIDE DEF e
<1>4. Ordered(T) \in [1 .. Cardinality(T) -> T]
  BY <1>2, <1>3
<1>5. Cardinality(T) \in Nat
  BY FS_CardinalityType
<1>6. QED BY <1>2, <1>4, <1>5, SeqDef

\* A time is listed at its rank.
LEMMA OrderedAtIn ==
  ASSUME NEW T, T \subseteq Nat, IsFiniteSet(T), NEW t \in T
  PROVE  Rank(T, t) + 1 \in 1 .. Cardinality(T) /\ Ordered(T)[Rank(T, t) + 1] = t
<1>1. Rank(T, t) \in Nat /\ Rank(T, t) < Cardinality(T) /\ Cardinality(T) \in Nat /\ T \subseteq Nat
  BY RankGrowsIn, FS_CardinalityType
<1>2. Rank(T, t) + 1 \in 1 .. Cardinality(T)
  BY <1>1
<1>3. PICK x \in T : x = Ordered(T)[Rank(T, t) + 1] /\ Rank(T, x) = (Rank(T, t) + 1) - 1
  BY <1>2, OrderedIsIn
<1>4. Rank(T, x) = Rank(T, t)
  BY <1>1, <1>3
<1>5. ~ (x < t) /\ ~ (t < x)
  <2>1. \A y \in T : \A u \in T : y < u => Rank(T, y) < Rank(T, u)
    BY <1>1, RankGrowsIn
  <2>2. QED BY <2>1, <1>1, <1>4
<1>6. QED BY <1>1, <1>2, <1>3, <1>5

\* All of it for times.
LEMMA RankGrows ==
  ASSUME NEW T \in SUBSET Times, NEW t \in T
  PROVE  /\ Rank(T, t) \in Nat /\ Rank(T, t) < Cardinality(T)
         /\ \A u \in T : t < u => Rank(T, t) < Rank(T, u)
BY TimesAreFinite, RankGrowsIn

\* The list of times.
LEMMA OrderedIs ==
  ASSUME NEW T \in SUBSET Times
  PROVE  /\ Ordered(T) \in [1 .. Cardinality(T) -> T]
         /\ Ordered(T) \in Seq(T) /\ Len(Ordered(T)) = Cardinality(T)
         /\ \A n \in 1 .. Cardinality(T) : Rank(T, Ordered(T)[n]) = n - 1
BY TimesAreFinite, OrderedIsIn

\* Where one is in it.
LEMMA OrderedAt ==
  ASSUME NEW T \in SUBSET Times, NEW t \in T
  PROVE  Rank(T, t) + 1 \in 1 .. Cardinality(T) /\ Ordered(T)[Rank(T, t) + 1] = t
BY TimesAreFinite, OrderedAtIn

\* So the list has the members of the set.
LEMMA OrderedHas ==
  ASSUME NEW T \in SUBSET Times
  PROVE  ToSet(Ordered(T)) = T
<1>1. DOMAIN Ordered(T) = 1 .. Cardinality(T) /\ \A n \in 1 .. Cardinality(T) : Ordered(T)[n] \in T
  BY OrderedIs
<1>2. \A t \in T : \E n \in 1 .. Cardinality(T) : Ordered(T)[n] = t
  BY OrderedAt
<1>3. QED BY <1>1, <1>2 DEF ToSet

\* The first of the list is the first of the set, the last the last.
LEMMA OrderedEnds ==
  ASSUME NEW T \in SUBSET Times, T # {}
  PROVE  /\ Cardinality(T) >= 1 /\ Ordered(T) # <<>>
         /\ Head(Ordered(T)) \in T /\ \A u \in T : Head(Ordered(T)) <= u
         /\ Last(Ordered(T)) = Max(T)
<1>0. IsFiniteSet(T) /\ Cardinality(T) \in Nat /\ T \subseteq Nat
  BY TimesAreFinite
<1>1. Cardinality(T) >= 1
  BY <1>0, FS_EmptySet
<1>2. /\ Ordered(T) \in Seq(T) /\ Len(Ordered(T)) = Cardinality(T)
      /\ \A n \in 1 .. Cardinality(T) : Ordered(T)[n] \in T /\ Rank(T, Ordered(T)[n]) = n - 1
  BY OrderedIs
<1> DEFINE s == Ordered(T)
           c == Cardinality(T)
<1>3. Head(s) = s[1] /\ Last(s) = s[c] /\ s # <<>>
  BY <1>1, <1>2 DEF Last
<1>4. s[1] \in T /\ Rank(T, s[1]) = 0 /\ s[c] \in T /\ Rank(T, s[c]) = c - 1
  BY <1>0, <1>1, <1>2
<1>5. ASSUME NEW u \in T PROVE s[1] <= u /\ u <= s[c]
  <2>1. Rank(T, u) \in Nat /\ Rank(T, u) < c
    BY RankGrows
  <2>2. ~ (u < s[1])
    <3>1. u < s[1] => Rank(T, u) < Rank(T, s[1])
      BY <1>4, RankGrows
    <3>2. QED BY <3>1, <2>1, <1>4
  <2>3. ~ (s[c] < u)
    <3>1. s[c] < u => Rank(T, s[c]) < Rank(T, u)
      BY <1>4, RankGrows
    <3>2. QED BY <3>1, <2>1, <1>4, <1>0
  <2>4. s[1] \in Nat /\ s[c] \in Nat /\ u \in Nat
    BY <1>0, <1>4
  <2>5. QED BY <2>2, <2>3, <2>4
<1>6. Max(T) = s[c]
  BY <1>4, <1>5, MaxIsOne
<1>7. QED BY <1>1, <1>3, <1>4, <1>5, <1>6

\* A later time comes at the end of the list.
LEMMA OrderedMore ==
  ASSUME NEW T \in SUBSET Times, NEW t \in Times, \A u \in T : u < t
  PROVE  /\ Cardinality(T \cup {t}) = Cardinality(T) + 1
         /\ \A n \in 1 .. Cardinality(T) : Ordered(T \cup {t})[n] = Ordered(T)[n]
         /\ Ordered(T \cup {t})[Cardinality(T) + 1] = t
<1> DEFINE W == T \cup {t}
<1>0. /\ W \in SUBSET Times /\ IsFiniteSet(T) /\ Cardinality(T) \in Nat /\ T \subseteq Nat
      /\ t \in Nat /\ t \notin T
  BY TimesAreFinite
<1>1. Cardinality(W) = Cardinality(T) + 1
  BY <1>0, FS_AddElement
<1>2. ASSUME NEW x \in T PROVE Rank(W, x) = Rank(T, x)
  <2>1. x < t /\ x \in Nat /\ t \in Nat
    BY <1>0
  <2>2. {u \in W : u < x} = {u \in T : u < x}
    BY <2>1
  <2>3. QED BY <2>2 DEF Rank
<1>3. Rank(W, t) = Cardinality(T)
  <2>1. {u \in W : u < t} = T
    <3>1. ~ (t < t) /\ \A u \in T : u < t
      BY <1>0
    <3>2. QED BY <3>1
  <2>2. QED BY <2>1 DEF Rank
<1> HIDE DEF W
<1>4. ASSUME NEW n \in 1 .. Cardinality(T) PROVE Ordered(W)[n] = Ordered(T)[n]
  <2>1. PICK x \in T : x = Ordered(T)[n] /\ Rank(T, x) = n - 1
    BY OrderedIs
  <2>2. x \in W /\ Rank(W, x) + 1 = n
    BY <2>1, <1>2, <1>0 DEF W
  <2>3. Ordered(W)[Rank(W, x) + 1] = x
    BY <1>0, <2>2, OrderedAt
  <2>4. QED BY <2>1, <2>2, <2>3
<1>5. Ordered(W)[Cardinality(T) + 1] = t
  BY <1>0, <1>3, OrderedAt DEF W
<1>6. QED BY <1>1, <1>4, <1>5 DEF W

-----------------------------------------------------------------------------
(* The extremes of a set of times. *)

Valued == quote \in [Times -> Int]

\* One is the lowest, and the earliest of those.
LEMMA LeastValueExists ==
  ASSUME NEW T \in SUBSET Times, T # {}, NEW f \in [Times -> Int]
  PROVE  \E t \in T : \A u \in T : Below(f, t, u)
<1>1. T \subseteq Nat /\ (\A u \in T : f[u] \in Int) /\ MaxTime \in Nat /\ \A u \in T : u <= MaxTime
  BY HistoryAssumption, TimesAreFinite DEF Times
<1>2. QED BY <1>1, LeastValueIn

\* The lowest of some of the values is the lowest of all if that is among them.
LEMMA LeastWithin ==
  ASSUME NEW P \in SUBSET Times, NEW Q \in SUBSET P, NEW f \in [Times -> Int],
         \A t \in P : (\A u \in P : Below(f, t, u)) => t \in Q,
         NEW t \in Q, \A u \in Q : Below(f, t, u)
  PROVE  \A u \in P : Below(f, t, u)
<1>1. PICK l \in P : \A u \in P : Below(f, l, u)
  BY LeastValueExists
<1>2. l \in Q /\ Below(f, t, l)
  BY <1>1
<1>3. ASSUME NEW u \in P PROVE Below(f, t, u)
  <2>1. Below(f, l, u)
    BY <1>1
  <2>2. f[t] \in Int /\ f[l] \in Int /\ f[u] \in Int /\ t \in Nat /\ l \in Nat /\ u \in Nat
    BY TimesAreFinite
  <2>3. QED BY <2>1, <2>2, <1>2 DEF Below
<1>4. QED BY <1>3

Negated == [t \in Times |-> - quote[t]]

\* Lowest and Highest are each the least, of the quotes or of their opposites.
LEMMA LeastAre ==
  ASSUME Valued, NEW T \in SUBSET Times, NEW t
  PROVE  /\ Negated \in [Times -> Int]
         /\ t \in Lowest(T) <=> t \in T /\ \A u \in T : Below(quote, t, u)
         /\ t \in Highest(T) <=> t \in T /\ \A u \in T : Below(Negated, t, u)
<1>1. Negated \in [Times -> Int]
  BY DEF Negated, Valued
<1>2. t \in Lowest(T) <=> t \in T /\ \A u \in T : Below(quote, t, u)
  BY DEF Lowest, Below
<1>3. ASSUME t \in T, NEW u \in T
      PROVE  Below(Negated, t, u) <=> quote[t] > quote[u] \/ (quote[t] = quote[u] /\ t <= u)
  <2>1. Negated[t] = - quote[t] /\ Negated[u] = - quote[u] /\ quote[t] \in Int /\ quote[u] \in Int
    BY <1>3 DEF Negated, Valued
  <2>2. QED BY <2>1 DEF Below
<1>4. t \in Highest(T) <=> t \in T /\ \A u \in T : Below(Negated, t, u)
  BY <1>3 DEF Highest
<1>5. QED BY <1>1, <1>2, <1>4

\* An extreme of some that is among fewer is an extreme of these.
LEMMA ExtremesKept ==
  ASSUME NEW P, NEW Q \in SUBSET P
  PROVE  Extremes(P) \cap Q \subseteq Extremes(Q)
BY DEF Extremes, Lowest, Highest, Ends

\* Whatever else is left out, the extremes tell the extremes.
LEMMA ExtremesWithin ==
  ASSUME Valued, NEW P \in SUBSET Times, NEW Q \in SUBSET P, Extremes(P) \subseteq Q
  PROVE  Extremes(Q) = Extremes(P)
<1>0. quote \in [Times -> Int] /\ Negated \in [Times -> Int] /\ Q \in SUBSET Times
  BY LeastAre DEF Valued
<1>1. Extremes(P) \subseteq Extremes(Q)
  BY ExtremesKept
<1>2. Lowest(Q) \subseteq Lowest(P)
  <2>1. ASSUME NEW t \in Lowest(Q) PROVE t \in Lowest(P)
    <3>1. t \in Q /\ \A u \in Q : Below(quote, t, u)
      BY <1>0, LeastAre
    <3>2. \A x \in P : (\A u \in P : Below(quote, x, u)) => x \in Q
      BY LeastAre DEF Extremes
    <3>3. \A u \in P : Below(quote, t, u)
      BY <1>0, <3>1, <3>2, LeastWithin
    <3>4. QED BY <3>1, <3>3, LeastAre
  <2>2. QED BY <2>1
<1>3. Highest(Q) \subseteq Highest(P)
  <2>1. ASSUME NEW t \in Highest(Q) PROVE t \in Highest(P)
    <3>1. t \in Q /\ \A u \in Q : Below(Negated, t, u)
      BY <1>0, LeastAre
    <3>2. \A x \in P : (\A u \in P : Below(Negated, x, u)) => x \in Q
      BY LeastAre DEF Extremes
    <3>3. \A u \in P : Below(Negated, t, u)
      BY <1>0, <3>1, <3>2, LeastWithin
    <3>4. QED BY <3>1, <3>3, LeastAre
  <2>2. QED BY <2>1
<1>4. ASSUME NEW t \in Ends(Q) PROVE t \in Ends(P)
  <2>1. t \in Q /\ P # {} /\ P \subseteq Nat
    BY TimesAreFinite DEF Ends
  <2>2. PICK a \in P : \A u \in P : a <= u
    BY <2>1, FirstAndLast
  <2>3. PICK z \in P : \A u \in P : u <= z
    BY <2>1, FirstAndLast
  <2>4. a \in Q /\ z \in Q
    BY <2>2, <2>3 DEF Extremes, Ends
  <2>5. CASE \A u \in Q : u <= t
    <3>1. t = z
      BY <2>1, <2>3, <2>4, <2>5
    <3>2. QED BY <3>1, <2>3 DEF Ends
  <2>6. CASE \A u \in Q : t <= u
    <3>1. t = a
      BY <2>1, <2>2, <2>4, <2>6
    <3>2. QED BY <3>1, <2>2 DEF Ends
  <2>7. QED BY <2>5, <2>6 DEF Ends
<1>5. QED BY <1>1, <1>2, <1>3, <1>4 DEF Extremes

\* The extremes of times that are not none are among them, with the first and the last.
LEMMA ExtremesAre ==
  ASSUME NEW P \in SUBSET Times, P # {}
  PROVE  /\ Extremes(P) \in SUBSET P /\ Extremes(P) # {} /\ Max(Extremes(P)) = Max(P)
         /\ \A g \in P : (\A u \in P : g <= u) => g \in Extremes(P)
<1>1. Extremes(P) \in SUBSET P
  BY DEF Extremes, Lowest, Highest, Ends
<1>2. \A g \in P : (\A u \in P : g <= u) => g \in Extremes(P)
  BY DEF Extremes, Ends
<1>3. Max(P) \in P /\ \A u \in P : u <= Max(P)
  BY MaxIs
<1>4. Max(P) \in Extremes(P)
  BY <1>3 DEF Extremes, Ends
<1>5. Max(Extremes(P)) = Max(P)
  BY <1>1, <1>3, <1>4, MaxIsOne
<1>6. QED BY <1>1, <1>2, <1>4, <1>5

\* A reduced part: the samples it has, its first and its last.
LEMMA ExtremaAre ==
  ASSUME NEW P \in SUBSET Times, NEW g \in P, \A u \in P : g <= u
  PROVE  /\ ToSet(Extrema(P)) = Extremes(P)
         /\ Head(Extrema(P)) = g /\ Last(Extrema(P)) = Max(P) /\ Extrema(P) # <<>>
<1>1. /\ Extremes(P) \in SUBSET Times /\ Extremes(P) # {} /\ Max(Extremes(P)) = Max(P)
      /\ g \in Extremes(P) /\ \A u \in Extremes(P) : u \in P
  BY ExtremesAre
<1>2. ToSet(Extrema(P)) = Extremes(P)
  BY <1>1, OrderedHas DEF Extrema
<1>3. /\ Ordered(Extremes(P)) # <<>>
      /\ Head(Ordered(Extremes(P))) \in Extremes(P)
      /\ \A u \in Extremes(P) : Head(Ordered(Extremes(P))) <= u
      /\ Last(Ordered(Extremes(P))) = Max(P)
  BY <1>1, OrderedEnds
<1>4. Head(Ordered(Extremes(P))) = g
  <2>1. Head(Ordered(Extremes(P))) <= g /\ g <= Head(Ordered(Extremes(P)))
    BY <1>1, <1>3
  <2>2. g \in Nat /\ Head(Ordered(Extremes(P))) \in Nat
    BY <1>1, <1>3, TimesAreFinite
  <2>3. QED BY <2>1, <2>2
<1>5. QED BY <1>2, <1>3, <1>4 DEF Extrema

-----------------------------------------------------------------------------
(* The parts of a set of times, between its gaps. *)

\* Numbers: the constant and the times.
LEMMA Numbers ==
  /\ MaxGap \in Nat /\ Times \subseteq Nat
BY HistoryAssumption, TimesAreFinite

\* Every time is in the part of one opening, which is the first of its part.
LEMMA PartsCover ==
  ASSUME NEW T \in SUBSET Times
  PROVE  /\ GapStarts(T) \in SUBSET T
         /\ \A g \in GapStarts(T) : g \in Part(T, g) /\ Part(T, g) \in SUBSET T
                                    /\ \A u \in Part(T, g) : g <= u
         /\ \A x \in T : \E g \in GapStarts(T) : x \in Part(T, g)
<1>1. GapStarts(T) \in SUBSET T /\ T \subseteq Nat
  BY TimesAreFinite DEF GapStarts
<1>2. ASSUME NEW g \in GapStarts(T)
      PROVE  g \in Part(T, g) /\ Part(T, g) \in SUBSET T /\ \A u \in Part(T, g) : g <= u
  <2>0. g \in T /\ g \in Nat
    BY <1>1
  <2>1. g \in T /\ g <= g
    BY <2>0
  <2>2. g \in Part(T, g)
    BY <2>1 DEF Part
  <2>3. Part(T, g) \in SUBSET T /\ \A u \in Part(T, g) : g <= u
    BY DEF Part
  <2>4. QED BY <2>2, <2>3
<1>3. ASSUME NEW x \in T
      PROVE  \E g \in GapStarts(T) : x \in Part(T, g)
  <2> DEFINE S == {b \in GapStarts(T) : b <= x}
  <2>1. PICK a \in T : \A u \in T : a <= u
    BY FirstAndLast
  <2>2. a \in S
    BY <2>1, <1>1, Numbers DEF GapStarts
  <2>3. S \in SUBSET Times
    BY <1>1
  <2>4. PICK g \in S : \A b \in S : b <= g
    BY <2>2, <2>3, FirstAndLast
  <2>5. x \in Part(T, g)
    BY <2>4 DEF Part
  <2>6. QED BY <2>4, <2>5
<1>4. QED BY <1>1, <1>2, <1>3

\* An opening of more times is no later than the opening of the part, of fewer, that it falls in.
LEMMA Straddles ==
  ASSUME NEW C \in SUBSET Times, NEW X \in SUBSET C, NEW g, NEW x \in Part(X, g),
         NEW b \in GapStarts(C), b <= x, g \in X
  PROVE  b <= g
<1> DEFINE S == {u \in X : b <= u}
<1>1. C \subseteq Nat /\ x \in X /\ b \in C
  BY TimesAreFinite DEF Part, GapStarts
<1>2. x \in S /\ S \in SUBSET Times
  BY <1>1
<1>3. PICK h \in S : \A u \in S : h <= u
  BY <1>2, FirstAndLast
<1>4. h \in X /\ b <= h /\ h <= x
  BY <1>2, <1>3
<1>5. \A u \in X : h - u > MaxGap \/ u >= h
  <2>1. ASSUME NEW u \in X, ~ (u >= h) PROVE h - u > MaxGap
    <3>1. u \notin S /\ u \in Nat /\ h \in Nat /\ b \in Nat
      BY <2>1, <1>1, <1>3, <1>4
    <3>2. ~ (b <= u)
      BY <3>1
    <3>3. b - u > MaxGap
      BY <3>1, <3>2 DEF GapStarts
    <3>4. QED BY <3>1, <3>3, <1>4, Numbers
  <2>2. QED BY <2>1
<1>6. h \in GapStarts(X)
  BY <1>4, <1>5 DEF GapStarts
<1>7. h <= g
  BY <1>4, <1>6 DEF Part
<1>8. QED BY <1>1, <1>4, <1>7

\* What the ranges of a reduction are.
RangesOf(T) == {<<g, Max(Part(T, g))>> : g \in GapStarts(T)}

\* The ranges of two: each opens where a part of one of them does.
LEMMA OpeningsAre ==
  ASSUME NEW A \in SUBSET Times, NEW B \in SUBSET Times
  PROVE  Openings(RangesOf(A) \cup RangesOf(B)) = GapStarts(A \cup B)
<1> DEFINE C == A \cup B
           R == RangesOf(A) \cup RangesOf(B)
<1>0. C \in SUBSET Times /\ C \subseteq Nat
  BY TimesAreFinite
<1>1. ASSUME NEW X \in {A, B}, NEW g \in GapStarts(X)
      PROVE  /\ <<g, Max(Part(X, g))>> \in R /\ g \in X /\ X \in SUBSET C
             /\ Max(Part(X, g)) \in Part(X, g) /\ Max(Part(X, g)) \in X
             /\ \A u \in Part(X, g) : u <= Max(Part(X, g))
  <2>1. X \in SUBSET Times /\ X \in SUBSET C
    OBVIOUS
  <2>2. g \in X /\ g \in Part(X, g) /\ Part(X, g) \in SUBSET X
    BY <2>1, PartsCover
  <2>3. Part(X, g) \in SUBSET Times /\ Part(X, g) # {}
    BY <2>1, <2>2
  <2>4. Max(Part(X, g)) \in Part(X, g) /\ \A u \in Part(X, g) : u <= Max(Part(X, g))
    BY <2>3, MaxIs
  <2>5. <<g, Max(Part(X, g))>> \in R
    BY DEF RangesOf
  <2>6. QED BY <2>1, <2>2, <2>4, <2>5
<1>2. \A r \in R : \E X \in {A, B} : \E g \in GapStarts(X) : r = <<g, Max(Part(X, g))>>
  BY DEF RangesOf
<1>3. ASSUME NEW g \in GapStarts(C)
      PROVE  g \in Openings(R)
  <2>1. g \in C /\ \A u \in C : g - u > MaxGap \/ u >= g
    BY DEF GapStarts
  <2>2. PICK X \in {A, B} : g \in X
    BY <2>1
  <2>3. g \in GapStarts(X)
    BY <2>1, <2>2 DEF GapStarts
  <2>4. <<g, Max(Part(X, g))>> \in R
    BY <2>3, <1>1
  <2>5. ASSUME NEW y \in R, y[1] < g
        PROVE  g - y[2] > MaxGap
    <3>0. PICK Y \in {A, B} : \E h \in GapStarts(Y) : y = <<h, Max(Part(Y, h))>>
      BY <1>2
    <3>1. PICK h \in GapStarts(Y) : y = <<h, Max(Part(Y, h))>>
      BY <3>0
    <3>2. /\ Max(Part(Y, h)) \in Part(Y, h) /\ Max(Part(Y, h)) \in Y /\ Y \in SUBSET C /\ h \in Y
      BY <1>1
    <3>3. y[1] = h /\ y[2] = Max(Part(Y, h))
      BY <3>1
    <3>4. ~ (g <= y[2])
      <4>1. SUFFICES ASSUME g <= y[2] PROVE FALSE
        OBVIOUS
      <4>2. g <= h
        BY <4>1, <3>2, <3>3, <1>0, Straddles
      <4>3. h < g /\ h \in Nat /\ g \in Nat
        BY <2>5, <3>2, <3>3, <2>1, <1>0
      <4>4. QED BY <4>2, <4>3
    <3>5. y[2] \in C
      BY <3>2, <3>3
    <3>6. y[2] \in Nat /\ g \in Nat
      BY <3>5, <2>1, <1>0
    <3>7. QED BY <2>1, <3>4, <3>5, <3>6
  <2>6. QED BY <2>4, <2>5 DEF Openings
<1>4. ASSUME NEW g \in Openings(R)
      PROVE  g \in GapStarts(C)
  <2>1. PICK r \in R : r[1] = g /\ \A y \in R : y[1] < r[1] => r[1] - y[2] > MaxGap
    BY DEF Openings
  <2>0. PICK X \in {A, B} : \E h \in GapStarts(X) : r = <<h, Max(Part(X, h))>>
    BY <1>2
  <2>2. PICK x \in GapStarts(X) : r = <<x, Max(Part(X, x))>>
    BY <2>0
  <2>3. g = x /\ g \in X /\ g \in C
    BY <2>1, <2>2, <1>1
  <2>4. ASSUME NEW u \in C, ~ (u >= g)
        PROVE  g - u > MaxGap
    <3>1. PICK Y \in {A, B} : u \in Y
      OBVIOUS
    <3>2. PICK h \in GapStarts(Y) : u \in Part(Y, h)
      BY <3>1, PartsCover
    <3>3. /\ <<h, Max(Part(Y, h))>> \in R /\ h \in Y /\ Max(Part(Y, h)) \in Y /\ Y \in SUBSET C
          /\ u <= Max(Part(Y, h))
      BY <3>2, <1>1
    <3>4. h <= u
      BY <3>2 DEF Part
    <3>5. h \in Nat /\ u \in Nat /\ g \in Nat /\ Max(Part(Y, h)) \in Nat
      BY <3>3, <2>3, <1>0
    <3>6. h < g
      BY <3>4, <3>5, <2>4
    <3>7. g - Max(Part(Y, h)) > MaxGap
      <4>1. <<h, Max(Part(Y, h))>>[1] = h /\ <<h, Max(Part(Y, h))>>[2] = Max(Part(Y, h))
        OBVIOUS
      <4>2. QED BY <4>1, <3>3, <3>6, <2>1
    <3>8. QED BY <3>3, <3>5, <3>7, Numbers
  <2>5. QED BY <2>3, <2>4 DEF GapStarts
<1>5. QED BY <1>3, <1>4

\* They end where the part of all does.
LEMMA EndIs ==
  ASSUME NEW A \in SUBSET Times, NEW B \in SUBSET Times, NEW g \in GapStarts(A \cup B)
  PROVE  EndOf(RangesOf(A) \cup RangesOf(B), g) = Max(Part(A \cup B, g))
<1> DEFINE C == A \cup B
           R == RangesOf(A) \cup RangesOf(B)
           Z == {r[2] : r \in {x \in R : g <= x[1] /\ \A b \in Openings(R) : b <= x[1] => b <= g}}
           P == Part(C, g)
<1>0. C \in SUBSET Times /\ C \subseteq Nat /\ g \in C /\ g \in P /\ P \in SUBSET C
  BY TimesAreFinite, PartsCover
<1>1. ASSUME NEW X \in {A, B}, NEW h \in GapStarts(X)
      PROVE  /\ <<h, Max(Part(X, h))>> \in R /\ h \in X /\ X \in SUBSET C
             /\ Max(Part(X, h)) \in Part(X, h) /\ Max(Part(X, h)) \in X
             /\ \A u \in Part(X, h) : u <= Max(Part(X, h)) /\ h <= u
  <2>1. X \in SUBSET Times /\ X \in SUBSET C
    OBVIOUS
  <2>2. h \in X /\ h \in Part(X, h) /\ Part(X, h) \in SUBSET X /\ \A u \in Part(X, h) : h <= u
    BY <2>1, PartsCover
  <2>3. Part(X, h) \in SUBSET Times /\ Part(X, h) # {}
    BY <2>1, <2>2
  <2>4. Max(Part(X, h)) \in Part(X, h) /\ \A u \in Part(X, h) : u <= Max(Part(X, h))
    BY <2>3, MaxIs
  <2>5. <<h, Max(Part(X, h))>> \in R
    BY DEF RangesOf
  <2>6. QED BY <2>1, <2>2, <2>4, <2>5
<1>2. Openings(R) = GapStarts(C)
  BY OpeningsAre
<1>3. ASSUME NEW z \in Z PROVE z \in P
  <2>1. PICK r \in R : z = r[2] /\ g <= r[1] /\ \A b \in GapStarts(C) : b <= r[1] => b <= g
    BY <1>2
  <2>0. PICK X \in {A, B} : \E h \in GapStarts(X) : r = <<h, Max(Part(X, h))>>
    BY DEF RangesOf
  <2>2. PICK h \in GapStarts(X) : r = <<h, Max(Part(X, h))>>
    BY <2>0
  <2>3. r[1] = h /\ z = Max(Part(X, h))
    BY <2>1, <2>2
  <2>4. z \in Part(X, h) /\ z \in X /\ h \in X /\ X \in SUBSET C /\ h <= z
    BY <2>3, <1>1
  <2>5. g <= z
    <3>1. g \in Nat /\ h \in Nat /\ z \in Nat
      BY <2>4, <1>0
    <3>2. QED BY <3>1, <2>1, <2>3, <2>4
  <2>6. \A b \in GapStarts(C) : b <= z => b <= g
    <3>1. ASSUME NEW b \in GapStarts(C), b <= z PROVE b <= g
      <4>1. b <= h
        BY <3>1, <2>4, <1>0, Straddles
      <4>2. QED BY <4>1, <2>1, <2>3
    <3>2. QED BY <3>1
  <2>7. QED BY <2>4, <2>5, <2>6 DEF Part
<1>4. ASSUME NEW u \in P PROVE \E z \in Z : u <= z
  <2>1. PICK X \in {A, B} : u \in X
    BY <1>0
  <2>2. PICK h \in GapStarts(X) : u \in Part(X, h)
    BY <2>1, PartsCover
  <2>3. g <= u /\ \A b \in GapStarts(C) : b <= u => b <= g
    BY DEF Part
  <2>4. <<h, Max(Part(X, h))>> \in R /\ h \in X /\ X \in SUBSET C /\ u <= Max(Part(X, h)) /\ h <= u
    BY <2>2, <1>1
  <2>5. g <= h
    BY <2>2, <2>3, <2>4, <1>0, Straddles
  <2>6. \A b \in GapStarts(C) : b <= h => b <= g
    <3>1. ASSUME NEW b \in GapStarts(C), b <= h PROVE b <= g
      <4>1. b \in Nat /\ h \in Nat /\ u \in Nat
        BY <1>0, <2>4, PartsCover
      <4>2. b <= u
        BY <4>1, <3>1, <2>4
      <4>3. QED BY <4>2, <2>3
    <3>2. QED BY <3>1
  <2>7. Max(Part(X, h)) \in Z
    <3>1. <<h, Max(Part(X, h))>>[1] = h /\ <<h, Max(Part(X, h))>>[2] = Max(Part(X, h))
      OBVIOUS
    <3>2. QED BY <3>1, <2>4, <2>5, <2>6, <1>2
  <2>8. QED BY <2>4, <2>7
<1> HIDE DEF Z, P
<1>5. Z \in SUBSET P /\ P \in SUBSET Times /\ P # {} /\ P \subseteq Nat
  BY <1>0, <1>3
<1>6. Max(P) \in P /\ \A u \in P : u <= Max(P)
  BY <1>5, MaxIs
<1>7. PICK z \in Z : Max(P) <= z
  BY <1>4, <1>6
<1>8. z = Max(P)
  <2>1. z \in P /\ z \in Nat /\ Max(P) \in Nat
    BY <1>5, <1>6
  <2>2. z <= Max(P)
    BY <1>6, <2>1
  <2>3. QED BY <2>1, <2>2, <1>7
<1>9. Max(Z) = Max(P)
  BY <1>5, <1>6, <1>8, MaxIsOne
<1>10. EndOf(R, g) = Max(Z)
  BY DEF EndOf, Z
<1>11. QED BY <1>9, <1>10 DEF P

-----------------------------------------------------------------------------
(* A reduction, its points and its ranges; two reductions merged. *)

\* The segments of a reduction: the extremes of each part, in order.
LEMMA SegmentsAre ==
  ASSUME NEW T \in SUBSET Times
  PROVE  /\ DOMAIN Reduction(T) = 1 .. Cardinality(GapStarts(T))
         /\ Cardinality(GapStarts(T)) \in Nat /\ GapStarts(T) \in SUBSET Times
         /\ \A i \in 1 .. Cardinality(GapStarts(T)) :
               /\ Ordered(GapStarts(T))[i] \in GapStarts(T)
               /\ Reduction(T)[i] = Extrema(Part(T, Ordered(GapStarts(T))[i]))
         /\ \A g \in GapStarts(T) :
               \E i \in 1 .. Cardinality(GapStarts(T)) : Ordered(GapStarts(T))[i] = g
<1>1. GapStarts(T) \in SUBSET Times
  BY PartsCover
<1>2. Cardinality(GapStarts(T)) \in Nat
  BY <1>1, TimesAreFinite
<1>3. DOMAIN Reduction(T) = 1 .. Cardinality(GapStarts(T))
  BY DEF Reduction
<1>4. \A i \in 1 .. Cardinality(GapStarts(T)) :
         Reduction(T)[i] = Extrema(Part(T, Ordered(GapStarts(T))[i]))
  BY DEF Reduction
<1>5. \A i \in 1 .. Cardinality(GapStarts(T)) : Ordered(GapStarts(T))[i] \in GapStarts(T)
  BY <1>1, OrderedIs
<1>6. \A g \in GapStarts(T) :
         \E i \in 1 .. Cardinality(GapStarts(T)) : Ordered(GapStarts(T))[i] = g
  BY <1>1, OrderedAt
<1>7. QED BY <1>1, <1>2, <1>3, <1>4, <1>5, <1>6

\* A part, reduced.
LEMMA PartReduced ==
  ASSUME NEW T \in SUBSET Times, NEW g \in GapStarts(T)
  PROVE  /\ ToSet(Extrema(Part(T, g))) = Extremes(Part(T, g))
         /\ Head(Extrema(Part(T, g))) = g /\ Last(Extrema(Part(T, g))) = Max(Part(T, g))
         /\ Extremes(Part(T, g)) \in SUBSET T
<1>1. /\ g \in Part(T, g) /\ Part(T, g) \in SUBSET T /\ \A u \in Part(T, g) : g <= u
      /\ Part(T, g) \in SUBSET Times
  BY PartsCover
<1>2. Extremes(Part(T, g)) \in SUBSET Part(T, g)
  BY <1>1, ExtremesAre
<1>3. QED BY <1>1, <1>2, ExtremaAre

\* So a reduction has the ranges of the parts,
LEMMA RangesAre ==
  ASSUME NEW T \in SUBSET Times
  PROVE  Ranges(Reduction(T)) = RangesOf(T)
<1> DEFINE D == 1 .. Cardinality(GapStarts(T))
           S(i) == Reduction(T)[i]
           O(i) == Ordered(GapStarts(T))[i]
<1>1. \A i \in D : O(i) \in GapStarts(T) /\ S(i) = Extrema(Part(T, O(i)))
  BY SegmentsAre
<1>2. \A i \in D : <<Head(S(i)), Last(S(i))>> = <<O(i), Max(Part(T, O(i)))>>
  <2>1. ASSUME NEW i \in D
        PROVE  <<Head(S(i)), Last(S(i))>> = <<O(i), Max(Part(T, O(i)))>>
    <3>1. O(i) \in GapStarts(T) /\ S(i) = Extrema(Part(T, O(i)))
      BY <1>1
    <3>2. Head(Extrema(Part(T, O(i)))) = O(i) /\ Last(Extrema(Part(T, O(i)))) = Max(Part(T, O(i)))
      BY <3>1, PartReduced
    <3>3. QED BY <3>1, <3>2
  <2>2. QED BY <2>1
<1>3. \A g \in GapStarts(T) : \E i \in D : O(i) = g
  BY SegmentsAre
<1>4. Ranges(Reduction(T)) = {<<Head(S(i)), Last(S(i))>> : i \in D}
  BY SegmentsAre DEF Ranges
<1> HIDE DEF D, S, O
<1>5. {<<Head(S(i)), Last(S(i))>> : i \in D} = {<<g, Max(Part(T, g))>> : g \in GapStarts(T)}
  <2>1. ASSUME NEW x \in {<<Head(S(i)), Last(S(i))>> : i \in D}
        PROVE  x \in {<<g, Max(Part(T, g))>> : g \in GapStarts(T)}
    <3>1. PICK i \in D : x = <<Head(S(i)), Last(S(i))>>
      OBVIOUS
    <3>2. x = <<O(i), Max(Part(T, O(i)))>> /\ O(i) \in GapStarts(T)
      BY <3>1, <1>1, <1>2
    <3>3. QED BY <3>2
  <2>2. ASSUME NEW x \in {<<g, Max(Part(T, g))>> : g \in GapStarts(T)}
        PROVE  x \in {<<Head(S(i)), Last(S(i))>> : i \in D}
    <3>1. PICK g \in GapStarts(T) : x = <<g, Max(Part(T, g))>>
      OBVIOUS
    <3>2. PICK i \in D : O(i) = g
      BY <1>3
    <3>3. x = <<Head(S(i)), Last(S(i))>>
      BY <3>1, <3>2, <1>2
    <3>4. QED BY <3>3
  <2>3. QED BY <2>1, <2>2
<1>6. QED BY <1>4, <1>5 DEF RangesOf

\* and their extremes as its points.
LEMMA PointsAre ==
  ASSUME NEW T \in SUBSET Times
  PROVE  /\ \A g \in GapStarts(T) : Extremes(Part(T, g)) \in SUBSET Points(Reduction(T))
         /\ Points(Reduction(T)) \in SUBSET T
<1> DEFINE D == 1 .. Cardinality(GapStarts(T))
           S(i) == Reduction(T)[i]
           O(i) == Ordered(GapStarts(T))[i]
<1>1. \A i \in D : O(i) \in GapStarts(T) /\ S(i) = Extrema(Part(T, O(i)))
  BY SegmentsAre
<1>2. \A g \in GapStarts(T) : \E i \in D : O(i) = g
  BY SegmentsAre
<1>3. Points(Reduction(T)) = UNION {ToSet(S(i)) : i \in D}
  BY SegmentsAre DEF Points
<1>4. ASSUME NEW i \in D
      PROVE  ToSet(S(i)) = Extremes(Part(T, O(i))) /\ Extremes(Part(T, O(i))) \in SUBSET T
  <2>1. O(i) \in GapStarts(T) /\ S(i) = Extrema(Part(T, O(i)))
    BY <1>1
  <2>2. ToSet(Extrema(Part(T, O(i)))) = Extremes(Part(T, O(i))) /\ Extremes(Part(T, O(i))) \in SUBSET T
    BY <2>1, PartReduced
  <2>3. QED BY <2>1, <2>2
<1> HIDE DEF D, S, O
<1>5. ASSUME NEW g \in GapStarts(T)
      PROVE  Extremes(Part(T, g)) \in SUBSET Points(Reduction(T))
  <2>1. PICK i \in D : O(i) = g
    BY <1>2
  <2>2. ToSet(S(i)) = Extremes(Part(T, g))
    BY <2>1, <1>4
  <2>3. QED BY <2>2, <1>3
<1>6. ASSUME NEW x \in Points(Reduction(T)) PROVE x \in T
  <2>1. PICK i \in D : x \in ToSet(S(i))
    BY <1>3
  <2>2. QED BY <2>1, <1>4
<1>7. QED BY <1>5, <1>6

\* What falls in a part of all: the points within, between its first and its last.
LEMMA PartMerged ==
  ASSUME Valued, NEW A \in SUBSET Times, NEW B \in SUBSET Times, NEW g \in GapStarts(A \cup B)
  PROVE  LET Q == {t \in Points(Reduction(A)) \cup Points(Reduction(B)) :
                     g <= t /\ t <= Max(Part(A \cup B, g))}
         IN  Extremes(Q) = Extremes(Part(A \cup B, g))
<1> DEFINE C == A \cup B
           P == Part(C, g)
           N == Points(Reduction(A)) \cup Points(Reduction(B))
           Q == {t \in N : g <= t /\ t <= Max(P)}
<1>0. /\ C \in SUBSET Times /\ C \subseteq Nat /\ g \in C /\ g \in P /\ P \in SUBSET C
      /\ P \in SUBSET Times /\ P # {} /\ GapStarts(C) \in SUBSET C
  BY TimesAreFinite, PartsCover
<1>1. Max(P) \in P /\ \A u \in P : u <= Max(P)
  BY <1>0, MaxIs
<1>2. N \in SUBSET C
  BY PointsAre
<1>3. Q \in SUBSET P
  <2>1. ASSUME NEW t \in Q PROVE t \in P
    <3>1. t \in C /\ g <= t /\ t <= Max(P)
      BY <1>2
    <3>2. \A b \in GapStarts(C) : b <= Max(P) => b <= g
      BY <1>1 DEF Part
    <3>3. \A b \in GapStarts(C) : b <= t => b <= Max(P)
      <4> HIDE DEF P, Q, N, C
      <4>1. t \in Nat /\ Max(P) \in Nat /\ \A b \in GapStarts(C) : b \in Nat
        BY <1>0, <1>1, <3>1
      <4>2. QED BY <4>1, <3>1
    <3>4. QED BY <3>1, <3>2, <3>3 DEF Part
  <2>2. QED BY <2>1
<1>4. Extremes(P) \in SUBSET Q
  <2>1. ASSUME NEW x \in Extremes(P) PROVE x \in Q
    <3>1. x \in P /\ x \in C /\ g <= x /\ x <= Max(P)
      <4>1. x \in P
        BY <1>0, ExtremesAre
      <4>2. QED BY <4>1, <1>0, <1>1 DEF Part
    <3>2. PICK X \in {A, B} : x \in X
      BY <3>1
    <3>3. X \in SUBSET Times /\ X \in SUBSET C
      OBVIOUS
    <3>4. PICK h \in GapStarts(X) : x \in Part(X, h)
      BY <3>2, <3>3, PartsCover
    <3>5. h \in X /\ Part(X, h) \in SUBSET X /\ \A z \in Part(X, h) : h <= z
      BY <3>3, PartsCover
    <3>6. g <= h
      BY <3>1, <3>3, <3>4, <3>5, <1>0, Straddles
    <3>7. ASSUME NEW z \in Part(X, h) PROVE z \in P
      <4>1. z \in C /\ h <= z /\ h \in C
        BY <3>3, <3>5
      <4>2. z \in Nat /\ h \in Nat /\ g \in Nat /\ x \in Nat /\ \A b \in GapStarts(C) : b \in Nat
        BY <4>1, <3>1, <1>0
      <4>3. g <= z
        BY <4>1, <4>2, <3>6
      <4>4. ASSUME NEW b \in GapStarts(C), b <= z PROVE b <= g
        <5>1. b <= h
          BY <4>4, <3>3, <3>5, <1>0, Straddles
        <5>2. h <= x
          BY <3>4, <3>5
        <5>3. b <= x
          BY <5>1, <5>2, <4>2
        <5>4. QED BY <5>3, <3>1 DEF Part
      <4>5. QED BY <4>1, <4>3, <4>4 DEF Part
    <3>8. x \in Extremes(Part(X, h))
      <4>1. Part(X, h) \in SUBSET P
        BY <3>7
      <4>2. Extremes(P) \cap Part(X, h) \subseteq Extremes(Part(X, h))
        <5> HIDE DEF P
        <5>1. QED BY <4>1, ExtremesKept
      <4>3. QED BY <4>2, <3>4
    <3>9. x \in Points(Reduction(X))
      BY <3>3, <3>8, PointsAre
    <3>10. x \in N
      BY <3>9
    <3>11. QED BY <3>1, <3>10
  <2>2. QED BY <2>1
<1> HIDE DEF P, Q
<1>5. Extremes(Q) = Extremes(P)
  BY <1>0, <1>3, <1>4, ExtremesWithin
<1>6. QED BY <1>5 DEF P, Q

\* Two reductions, merged, are the reduction of all.
LEMMA MergedIs ==
  ASSUME Valued, NEW A \in SUBSET Times, NEW B \in SUBSET Times
  PROVE  Merged(Reduction(A), Reduction(B)) = Reduction(A \cup B)
<1> DEFINE C == A \cup B
           R == RangesOf(A) \cup RangesOf(B)
           N == Points(Reduction(A)) \cup Points(Reduction(B))
           O == Ordered(GapStarts(C))
           Q(g) == {t \in N : g <= t /\ t <= EndOf(R, g)}
           n == Cardinality(GapStarts(C))
<1>1. Ranges(Reduction(A)) \cup Ranges(Reduction(B)) = R
  BY RangesAre
<1>2. Openings(R) = GapStarts(C)
  BY OpeningsAre
<1>3. Merged(Reduction(A), Reduction(B)) = [i \in 1 .. n |-> Extrema(Q(O[i]))]
  BY <1>1, <1>2, Zenon DEF Merged
<1>4. ASSUME NEW i \in 1 .. n
      PROVE  Extrema(Q(O[i])) = Extrema(Part(C, O[i]))
  <2>1. O[i] \in GapStarts(C)
    <3>1. C \in SUBSET Times
      OBVIOUS
    <3>2. QED BY <3>1, SegmentsAre
  <2>2. EndOf(R, O[i]) = Max(Part(C, O[i]))
    BY <2>1, EndIs
  <2>3. Extremes({t \in N : O[i] <= t /\ t <= Max(Part(C, O[i]))}) = Extremes(Part(C, O[i]))
    BY <2>1, PartMerged
  <2>4. Extremes(Q(O[i])) = Extremes(Part(C, O[i]))
    BY <2>2, <2>3
  <2>5. QED BY <2>4 DEF Extrema
<1>5. Reduction(C) = [i \in 1 .. n |-> Extrema(Part(C, O[i]))]
  BY DEF Reduction
<1> HIDE DEF Q, O, n, C
<1>6. [i \in 1 .. n |-> Extrema(Q(O[i]))] = [i \in 1 .. n |-> Extrema(Part(C, O[i]))]
  BY <1>4
<1>7. QED BY <1>3, <1>5, <1>6 DEF C

-----------------------------------------------------------------------------
(* One more sample. *)

\* Without one, there is nothing, and only then.
LEMMA EmptyReduction ==
  ASSUME NEW T \in SUBSET Times
  PROVE  Reduction(T) = <<>> <=> T = {}
<1>1. DOMAIN Reduction(T) = 1 .. Cardinality(GapStarts(T)) /\ Cardinality(GapStarts(T)) \in Nat
      /\ IsFiniteSet(GapStarts(T))
  BY SegmentsAre, TimesAreFinite
<1>2. Cardinality(GapStarts(T)) = 0 <=> GapStarts(T) = {}
  BY <1>1, FS_EmptySet
<1>3. GapStarts(T) = {} <=> T = {}
  BY PartsCover
<1>4. ASSUME Reduction(T) = <<>> PROVE Cardinality(GapStarts(T)) = 0
  <2>1. DOMAIN Reduction(T) = {}
    BY <1>4
  <2>2. QED BY <1>1, <2>1
<1>5. ASSUME Cardinality(GapStarts(T)) = 0 PROVE Reduction(T) = <<>>
  <2>1. Reduction(T) = [i \in 1 .. 0 |-> Extrema(Part(T, Ordered(GapStarts(T))[i]))]
    BY <1>5 DEF Reduction
  <2>2. QED BY <2>1
<1>6. QED BY <1>2, <1>3, <1>4, <1>5

\* Openings of more times, when the new one is later than all.
LEMMA OpeningsMore ==
  ASSUME NEW T \in SUBSET Times, NEW t \in Times, T # {}, \A u \in T : u < t
  PROVE  /\ t - Max(T) > MaxGap => GapStarts(T \cup {t}) = GapStarts(T) \cup {t}
         /\ ~ (t - Max(T) > MaxGap) => GapStarts(T \cup {t}) = GapStarts(T)
<1>0. T \subseteq Nat /\ t \in Nat /\ MaxGap \in Nat
  BY Numbers, TimesAreFinite
<1>1. Max(T) \in T /\ \A u \in T : u <= Max(T)
  BY MaxIs
<1>2. ASSUME NEW x \in T
      PROVE  x \in GapStarts(T \cup {t}) <=> x \in GapStarts(T)
  <2>1. t >= x /\ ~ (t - x > MaxGap /\ FALSE)
    BY <1>0
  <2>2. QED BY <2>1 DEF GapStarts
<1>3. t \in GapStarts(T \cup {t}) <=> t - Max(T) > MaxGap
  <2>1. t \in GapStarts(T \cup {t}) <=> \A u \in T : t - u > MaxGap \/ u >= t
    <3>1. t >= t
      BY <1>0
    <3>2. QED BY <3>1 DEF GapStarts
  <2>2. \A u \in T : ~ (u >= t)
    BY <1>0
  <2>3. ASSUME t - Max(T) > MaxGap, NEW u \in T PROVE t - u > MaxGap
    <3>1. u \in Nat /\ Max(T) \in Nat /\ u <= Max(T)
      BY <1>0, <1>1
    <3>2. QED BY <3>1, <2>3, <1>0
  <2>4. QED BY <2>1, <2>2, <2>3, <1>1
<1>4. t \notin T /\ t \notin GapStarts(T)
  BY <1>0 DEF GapStarts
<1>5. GapStarts(T \cup {t}) \subseteq T \cup {t} /\ GapStarts(T) \subseteq T
  BY DEF GapStarts
<1>6. QED BY <1>2, <1>3, <1>4, <1>5

\* The last opening is the last of the ordered.
LEMMA LastOpening ==
  ASSUME NEW T \in SUBSET Times, T # {}
  PROVE  /\ Cardinality(GapStarts(T)) >= 1
         /\ Max(GapStarts(T)) \in GapStarts(T) /\ \A b \in GapStarts(T) : b <= Max(GapStarts(T))
         /\ Ordered(GapStarts(T))[Cardinality(GapStarts(T))] = Max(GapStarts(T))
         /\ Max(T) \in Part(T, Max(GapStarts(T)))
         /\ Max(Part(T, Max(GapStarts(T)))) = Max(T)
         /\ \A i \in 1 .. Cardinality(GapStarts(T)) :
              Ordered(GapStarts(T))[i] = Max(GapStarts(T)) => i = Cardinality(GapStarts(T))
<1> DEFINE G == GapStarts(T)
           m == Max(GapStarts(T))
           n == Cardinality(GapStarts(T))
<1>1. G \in SUBSET T /\ G \in SUBSET Times /\ T \subseteq Nat
  BY PartsCover, TimesAreFinite
<1>2. G # {}
  <2>1. \A x \in T : \E g \in GapStarts(T) : x \in Part(T, g)
    BY PartsCover
  <2>2. QED BY <2>1
<1>3. m \in G /\ \A b \in G : b <= m
  BY <1>1, <1>2, MaxIs
<1>4. n \in Nat /\ Ordered(G) \in Seq(G) /\ Len(Ordered(G)) = n
      /\ \A i \in 1 .. n : Rank(G, Ordered(G)[i]) = i - 1
  BY <1>1, OrderedIs, TimesAreFinite
<1>5. n >= 1 /\ Last(Ordered(G)) = m
  BY <1>1, <1>2, OrderedEnds
<1>6. Ordered(G)[n] = m
  BY <1>4, <1>5 DEF Last
<1>7. ASSUME NEW i \in 1 .. n, Ordered(G)[i] = m PROVE i = n
  <2>1. Rank(G, m) = i - 1 /\ Rank(G, m) = n - 1
    <3>1. n \in 1 .. n
      BY <1>4, <1>5
    <3>2. QED BY <3>1, <1>4, <1>6, <1>7
  <2>2. QED BY <2>1, <1>4
<1>8. Max(T) \in T /\ \A u \in T : u <= Max(T)
  BY MaxIs
<1>9. Max(T) \in Part(T, m)
  <2>1. m <= Max(T)
    BY <1>1, <1>3, <1>8
  <2>2. QED BY <2>1, <1>3, <1>8 DEF Part
<1>10. Part(T, m) \in SUBSET T
  BY DEF Part
<1>11. Max(Part(T, m)) = Max(T)
  <2>1. Part(T, m) \in SUBSET Times /\ \A u \in Part(T, m) : u <= Max(T)
    BY <1>8, <1>10
  <2>2. QED BY <2>1, <1>9, MaxIsOne
<1>12. QED BY <1>3, <1>5, <1>6, <1>7, <1>9, <1>11

\* Parts of more times.
LEMMA PartsMore ==
  ASSUME NEW T \in SUBSET Times, NEW t \in Times, T # {}, \A u \in T : u < t,
         NEW g \in GapStarts(T)
  PROVE  /\ t - Max(T) > MaxGap => Part(T \cup {t}, g) = Part(T, g)
         /\ ~ (t - Max(T) > MaxGap) =>
              Part(T \cup {t}, g) = IF g = Max(GapStarts(T)) THEN Part(T, g) \cup {t} ELSE Part(T, g)
<1>0. T \subseteq Nat /\ t \in Nat /\ GapStarts(T) \in SUBSET T /\ g \in T
  BY TimesAreFinite, PartsCover
<1>1. /\ t - Max(T) > MaxGap => GapStarts(T \cup {t}) = GapStarts(T) \cup {t}
      /\ ~ (t - Max(T) > MaxGap) => GapStarts(T \cup {t}) = GapStarts(T)
  BY OpeningsMore
<1>2. Max(GapStarts(T)) \in GapStarts(T) /\ \A b \in GapStarts(T) : b <= Max(GapStarts(T))
  BY LastOpening
<1>3. ASSUME NEW x \in T PROVE x \in Part(T \cup {t}, g) <=> x \in Part(T, g)
  <2>1. ~ (t <= x)
    BY <1>0
  <2>2. \A b \in GapStarts(T \cup {t}) : b \in GapStarts(T) \/ b = t
    BY <1>1
  <2>3. \A b \in GapStarts(T) : b \in GapStarts(T \cup {t})
    BY <1>1
  <2>4. QED BY <2>1, <2>2, <2>3 DEF Part
<1>4. t \notin T /\ ~ (t <= g) /\ t <= t /\ g <= t
  BY <1>0
<1>5. t - Max(T) > MaxGap => t \notin Part(T \cup {t}, g)
  BY <1>1, <1>4 DEF Part
<1>6. ASSUME ~ (t - Max(T) > MaxGap)
      PROVE  t \in Part(T \cup {t}, g) <=> g = Max(GapStarts(T))
  <2>1. t \in Part(T \cup {t}, g) <=> \A b \in GapStarts(T) : b <= t => b <= g
    BY <1>1, <1>4, <1>6 DEF Part
  <2>2. \A b \in GapStarts(T) : b <= t
    BY <1>0
  <2>3. (\A b \in GapStarts(T) : b <= g) <=> g = Max(GapStarts(T))
    <3>1. \A b \in GapStarts(T) : b \in Nat
      BY <1>0
    <3>2. QED BY <3>1, <1>2
  <2>4. QED BY <2>1, <2>2, <2>3
<1>7. \A x \in Part(T \cup {t}, g) : x \in T \/ x = t
  BY DEF Part
<1>8. Part(T, g) \in SUBSET T
  BY DEF Part
<1>9. QED BY <1>3, <1>4, <1>5, <1>6, <1>7, <1>8

\* The extremes of the extremes and a later one are those of all.
LEMMA ExtremesMore ==
  ASSUME Valued, NEW P \in SUBSET Times, P # {}, NEW t \in Times
  PROVE  Extrema(Extremes(P) \cup {t}) = Extrema(P \cup {t})
<1>1. Extremes(P \cup {t}) \cap P \subseteq Extremes(P)
  <2>1. P \in SUBSET (P \cup {t})
    OBVIOUS
  <2>2. QED BY <2>1, ExtremesKept
<1>2. Extremes(P \cup {t}) \in SUBSET (P \cup {t}) /\ Extremes(P) \in SUBSET P
  BY DEF Extremes, Lowest, Highest, Ends
<1>3. Extremes(P \cup {t}) \subseteq Extremes(P) \cup {t}
  BY <1>1, <1>2
<1>4. P \cup {t} \in SUBSET Times /\ Extremes(P) \cup {t} \in SUBSET (P \cup {t})
  BY <1>2
<1>5. Extremes(Extremes(P) \cup {t}) = Extremes(P \cup {t})
  BY <1>3, <1>4, ExtremesWithin
<1>6. QED BY <1>5 DEF Extrema

\* A sample alone is its own extreme.
LEMMA ExtremaOne ==
  ASSUME Valued, NEW t \in Times
  PROVE  Extrema({t}) = <<t>>
<1>1. t \in Nat /\ t <= t
  BY Numbers
<1>2. Extremes({t}) = {t}
  BY <1>1 DEF Extremes, Lowest, Highest, Ends
<1>3. Cardinality({t}) = 1
  BY FS_Singleton
<1>4. {t} \in SUBSET Times
  OBVIOUS
<1>5. Ordered({t}) \in [1 .. 1 -> {t}]
  BY <1>3, <1>4, OrderedIs
<1>6. Ordered({t}) = <<t>>
  <2>1. Ordered({t}) = [i \in 1 .. 1 |-> t]
    BY <1>5
  <2>2. <<t>> = [i \in 1 .. 1 |-> t]
    OBVIOUS
  <2>3. QED BY <2>1, <2>2
<1>7. QED BY <1>2, <1>6 DEF Extrema

Lines == {Extrema(P) : P \in SUBSET Times}

\* A reduction is a sequence of reduced parts.
LEMMA ReductionIsSeq ==
  ASSUME NEW T \in SUBSET Times
  PROVE  Reduction(T) \in Seq(Lines) /\ Len(Reduction(T)) = Cardinality(GapStarts(T))
<1>1. /\ DOMAIN Reduction(T) = 1 .. Cardinality(GapStarts(T)) /\ Cardinality(GapStarts(T)) \in Nat
      /\ Reduction(T) = [i \in 1 .. Cardinality(GapStarts(T)) |-> Reduction(T)[i]]
  BY SegmentsAre DEF Reduction
<1>2. ASSUME NEW i \in 1 .. Cardinality(GapStarts(T)) PROVE Reduction(T)[i] \in Lines
  <2>1. Reduction(T)[i] = Extrema(Part(T, Ordered(GapStarts(T))[i]))
    BY SegmentsAre
  <2>2. Part(T, Ordered(GapStarts(T))[i]) \in SUBSET Times
    BY DEF Part
  <2>3. QED BY <2>1, <2>2 DEF Lines
<1>3. Reduction(T) \in [1 .. Cardinality(GapStarts(T)) -> Lines]
  BY <1>1, <1>2
<1>4. QED BY <1>1, <1>3, SeqDef

\* The last sample a reduction shows is the last there is.
LEMMA LastTimeIs ==
  ASSUME NEW T \in SUBSET Times, T # {}
  PROVE  LastTime(Reduction(T)) = Max(T)
<1> DEFINE n == Cardinality(GapStarts(T))
           m == Max(GapStarts(T))
<1>1. n \in Nat /\ n >= 1 /\ m \in GapStarts(T) /\ Ordered(GapStarts(T))[n] = m
      /\ Max(Part(T, m)) = Max(T)
  BY LastOpening, SegmentsAre
<1>2. Last(Reduction(T)) = Reduction(T)[n]
  BY ReductionIsSeq DEF Last
<1>3. Reduction(T)[n] = Extrema(Part(T, m))
  <2>1. n \in 1 .. n
    BY <1>1
  <2>2. QED BY <2>1, <1>1, SegmentsAre
<1>4. Last(Extrema(Part(T, m))) = Max(Part(T, m))
  BY <1>1, PartReduced
<1>5. QED BY <1>1, <1>2, <1>3, <1>4 DEF LastTime

\* After a gap, a segment more.
LEMMA AddAfterGap ==
  ASSUME Valued, NEW T \in SUBSET Times, NEW t \in Times, \A u \in T : u < t,
         T = {} \/ t - Max(T) > MaxGap
  PROVE  Append(Reduction(T), <<t>>) = Reduction(T \cup {t})
<1> DEFINE W == T \cup {t}
           n == Cardinality(GapStarts(T))
<1>0. t \in Nat /\ T \subseteq Nat /\ W \in SUBSET Times /\ n \in Nat /\ GapStarts(T) \in SUBSET T
      /\ GapStarts(T) \in SUBSET Times
  BY Numbers, SegmentsAre, PartsCover
<1>1. GapStarts(W) = GapStarts(T) \cup {t}
  <2>1. CASE T = {}
    <3>1. t \in GapStarts({t})
      <4>1. t >= t
        BY <1>0
      <4>2. QED BY <4>1 DEF GapStarts
    <3>2. GapStarts({t}) = {t} /\ GapStarts({}) = {}
      BY <3>1 DEF GapStarts
    <3>3. QED BY <2>1, <3>2
  <2>2. CASE T # {}
    BY <2>2, OpeningsMore
  <2>3. QED BY <2>1, <2>2
<1>2. ASSUME NEW g \in GapStarts(T) PROVE Part(W, g) = Part(T, g)
  <2>1. T # {} /\ t - Max(T) > MaxGap
    BY <1>0
  <2>2. QED BY <2>1, PartsMore
<1>3. Part(W, t) = {t}
  <2>1. \A u \in T : ~ (t <= u)
    BY <1>0
  <2>2. t \in GapStarts(W) /\ t \in W
    BY <1>1
  <2>3. t \in Part(W, t)
    BY <2>2, PartsCover
  <2>4. \A u \in Part(W, t) : u \in W /\ t <= u
    BY DEF Part
  <2>5. QED BY <2>1, <2>3, <2>4
<1>4. /\ Cardinality(GapStarts(W)) = n + 1
      /\ \A i \in 1 .. n : Ordered(GapStarts(W))[i] = Ordered(GapStarts(T))[i]
      /\ Ordered(GapStarts(W))[n + 1] = t
  <2>1. \A u \in GapStarts(T) : u < t
    BY <1>0
  <2>2. /\ Cardinality(GapStarts(T) \cup {t}) = Cardinality(GapStarts(T)) + 1
        /\ \A i \in 1 .. Cardinality(GapStarts(T)) :
             Ordered(GapStarts(T) \cup {t})[i] = Ordered(GapStarts(T))[i]
        /\ Ordered(GapStarts(T) \cup {t})[Cardinality(GapStarts(T)) + 1] = t
    BY <2>1, <1>0, OrderedMore
  <2>3. QED BY <2>2, <1>1, Zenon
<1>5. <<t>> \in Lines /\ Extrema({t}) = <<t>>
  <2>1. Extrema({t}) = <<t>> /\ {t} \in SUBSET Times
    BY ExtremaOne
  <2>2. QED BY <2>1 DEF Lines
<1>6. /\ Reduction(T) \in Seq(Lines) /\ Len(Reduction(T)) = n
      /\ Reduction(W) \in Seq(Lines) /\ Len(Reduction(W)) = n + 1
  BY <1>0, <1>4, ReductionIsSeq
<1>7. /\ Append(Reduction(T), <<t>>) \in Seq(Lines)
      /\ Len(Append(Reduction(T), <<t>>)) = n + 1
      /\ \A i \in 1 .. n : Append(Reduction(T), <<t>>)[i] = Reduction(T)[i]
      /\ Append(Reduction(T), <<t>>)[n + 1] = <<t>>
  BY <1>5, <1>6, AppendProperties
<1>8. ASSUME NEW i \in 1 .. n PROVE Reduction(W)[i] = Reduction(T)[i]
  <2>1. i \in 1 .. n + 1 /\ Ordered(GapStarts(T))[i] \in GapStarts(T)
    BY <1>0, SegmentsAre
  <2>2. Reduction(W)[i] = Extrema(Part(W, Ordered(GapStarts(W))[i]))
    BY <2>1, <1>0, <1>4, SegmentsAre
  <2>3. Reduction(T)[i] = Extrema(Part(T, Ordered(GapStarts(T))[i]))
    BY SegmentsAre
  <2>4. Part(W, Ordered(GapStarts(W))[i]) = Part(T, Ordered(GapStarts(T))[i])
    BY <2>1, <1>2, <1>4
  <2>5. QED BY <2>2, <2>3, <2>4
<1>9. Reduction(W)[n + 1] = <<t>>
  <2>1. n + 1 \in 1 .. n + 1
    BY <1>0
  <2>2. Reduction(W)[n + 1] = Extrema(Part(W, Ordered(GapStarts(W))[n + 1]))
    BY <2>1, <1>0, <1>4, SegmentsAre
  <2>3. QED BY <2>2, <1>3, <1>4, <1>5
<1>10. \A i \in 1 .. n + 1 : i \in 1 .. n \/ i = n + 1
  BY <1>0
<1> HIDE DEF W, n
<1>11. \A i \in 1 .. n + 1 : Append(Reduction(T), <<t>>)[i] = Reduction(W)[i]
  BY <1>7, <1>8, <1>9, <1>10
<1>12. Append(Reduction(T), <<t>>) = Reduction(W)
  BY <1>6, <1>7, <1>11, SeqEqual
<1>13. QED BY <1>12 DEF W

\* Without one, the last segment takes it.
LEMMA AddToLast ==
  ASSUME Valued, NEW T \in SUBSET Times, T # {}, NEW t \in Times, \A u \in T : u < t,
         ~ (t - Max(T) > MaxGap)
  PROVE  Append(Front(Reduction(T)), Extrema(ToSet(Last(Reduction(T))) \cup {t})) = Reduction(T \cup {t})
<1> DEFINE W == T \cup {t}
           n == Cardinality(GapStarts(T))
           m == Max(GapStarts(T))
           F == Front(Reduction(T))
           x == Extrema(ToSet(Last(Reduction(T))) \cup {t})
<1>0. t \in Nat /\ T \subseteq Nat /\ W \in SUBSET Times /\ n \in Nat
  BY Numbers, SegmentsAre
<1>1. GapStarts(W) = GapStarts(T)
  BY OpeningsMore
<1>2. \A g \in GapStarts(T) :
         Part(W, g) = IF g = m THEN Part(T, g) \cup {t} ELSE Part(T, g)
  BY PartsMore
<1>3. /\ n >= 1 /\ m \in GapStarts(T) /\ Ordered(GapStarts(T))[n] = m
      /\ \A i \in 1 .. n : Ordered(GapStarts(T))[i] = m => i = n
  BY LastOpening
<1>4. /\ Reduction(T) \in Seq(Lines) /\ Len(Reduction(T)) = n
      /\ Reduction(W) \in Seq(Lines) /\ Len(Reduction(W)) = n
  BY <1>0, <1>1, ReductionIsSeq
<1>5. x = Extrema(Part(T, m) \cup {t})
  <2>1. Last(Reduction(T)) = Extrema(Part(T, m))
    <3>1. n \in 1 .. n
      BY <1>0, <1>3
    <3>2. Reduction(T)[n] = Extrema(Part(T, m))
      BY <3>1, <1>3, SegmentsAre
    <3>3. QED BY <3>2, <1>4 DEF Last
  <2>2. ToSet(Last(Reduction(T))) = Extremes(Part(T, m))
    BY <2>1, <1>3, PartReduced
  <2>3. Part(T, m) \in SUBSET Times /\ Part(T, m) # {}
    BY <1>3, PartsCover
  <2>4. Extrema(Extremes(Part(T, m)) \cup {t}) = Extrema(Part(T, m) \cup {t})
    BY <2>3, ExtremesMore
  <2>5. QED BY <2>2, <2>4
<1>6. x \in Lines
  <2>1. Part(T, m) \cup {t} \in SUBSET Times
    BY DEF Part
  <2>2. QED BY <2>1, <1>5 DEF Lines
<1>7. /\ F \in Seq(Lines) /\ Len(F) = n - 1
      /\ \A i \in 1 .. n - 1 : F[i] = Reduction(T)[i]
  <2>1. \A i \in 1 .. n - 1 : Reduction(T)[i] \in Lines
    BY <1>0, <1>4, ElementOfSeq
  <2>2. /\ SubSeq(Reduction(T), 1, n - 1) \in Seq(Lines)
        /\ Len(SubSeq(Reduction(T), 1, n - 1)) = IF 1 <= n - 1 THEN (n - 1) - 1 + 1 ELSE 0
        /\ \A i \in 1 .. (n - 1) - 1 + 1 : SubSeq(Reduction(T), 1, n - 1)[i] = Reduction(T)[1 + i - 1]
    BY <2>1, <1>0, SubSeqProperties
  <2>3. F = SubSeq(Reduction(T), 1, n - 1)
    BY <1>4 DEF Front
  <2>4. Len(F) = n - 1
    BY <2>2, <2>3, <1>0, <1>3
  <2>5. \A i \in 1 .. n - 1 : F[i] = Reduction(T)[i]
    BY <2>2, <2>3, <1>0
  <2>6. QED BY <2>2, <2>3, <2>4, <2>5
<1> HIDE DEF F, x
<1>8. /\ Append(F, x) \in Seq(Lines) /\ Len(Append(F, x)) = n
      /\ \A i \in 1 .. n - 1 : Append(F, x)[i] = F[i]
      /\ Append(F, x)[n] = x
  <2>1. /\ Append(F, x) \in Seq(Lines) /\ Len(Append(F, x)) = Len(F) + 1
        /\ \A i \in 1 .. Len(F) : Append(F, x)[i] = F[i]
        /\ Append(F, x)[Len(F) + 1] = x
    BY <1>6, <1>7, AppendProperties
  <2>2. Len(F) + 1 = n
    BY <1>7, <1>0
  <2>3. QED BY <2>1, <2>2, <1>7
<1>9. ASSUME NEW i \in 1 .. n
      PROVE  /\ Reduction(W)[i] = Extrema(Part(W, Ordered(GapStarts(T))[i]))
             /\ Reduction(T)[i] = Extrema(Part(T, Ordered(GapStarts(T))[i]))
             /\ Ordered(GapStarts(T))[i] \in GapStarts(T)
  BY <1>0, <1>1, SegmentsAre
<1>10. ASSUME NEW i \in 1 .. n - 1 PROVE Reduction(W)[i] = Reduction(T)[i]
  <2>1. i \in 1 .. n /\ i # n
    BY <1>0
  <2>2. Ordered(GapStarts(T))[i] # m /\ Ordered(GapStarts(T))[i] \in GapStarts(T)
    BY <2>1, <1>3, <1>9
  <2>3. Part(W, Ordered(GapStarts(T))[i]) = Part(T, Ordered(GapStarts(T))[i])
    BY <2>2, <1>2
  <2>4. QED BY <2>1, <2>3, <1>9
<1>11. Reduction(W)[n] = x
  <2>1. n \in 1 .. n
    BY <1>0, <1>3
  <2>2. Part(W, m) = Part(T, m) \cup {t}
    BY <1>2, <1>3
  <2>3. QED BY <2>1, <2>2, <1>3, <1>5, <1>9
<1>12. \A i \in 1 .. n : i \in 1 .. n - 1 \/ i = n
  BY <1>0
<1> HIDE DEF W, n, m
<1>13. \A i \in 1 .. n : Append(F, x)[i] = Reduction(W)[i]
  BY <1>7, <1>8, <1>10, <1>11, <1>12
<1>14. Append(F, x) = Reduction(W)
  BY <1>4, <1>8, <1>13, SeqEqual
<1>15. QED BY <1>14 DEF W, F, x

\* add_point keeps a reduction a reduction, of one sample more.
LEMMA AddPointIs ==
  ASSUME Valued, NEW T \in SUBSET Times, NEW t \in Times, \A u \in T : u < t
  PROVE  AddPoint(Reduction(T), t) = Reduction(T \cup {t})
<1>1. CASE T = {}
  <2>1. Reduction(T) = <<>>
    BY <1>1, EmptyReduction
  <2>2. AddPoint(Reduction(T), t) = Append(Reduction(T), <<t>>)
    BY <2>1 DEF AddPoint
  <2>3. QED BY <2>2, <1>1, AddAfterGap
<1>2. CASE T # {}
  <2>1. Reduction(T) # <<>> /\ LastTime(Reduction(T)) = Max(T)
    BY <1>2, EmptyReduction, LastTimeIs
  <2>2. CASE t - Max(T) > MaxGap
    <3>1. AddPoint(Reduction(T), t) = Append(Reduction(T), <<t>>)
      BY <2>1, <2>2 DEF AddPoint
    <3>2. QED BY <3>1, <2>2, AddAfterGap
  <2>3. CASE ~ (t - Max(T) > MaxGap)
    <3>1. AddPoint(Reduction(T), t) =
            Append(Front(Reduction(T)), Extrema(ToSet(Last(Reduction(T))) \cup {t}))
      BY <2>1, <2>3 DEF AddPoint
    <3>2. QED BY <3>1, <1>2, <2>3, AddToLast
  <2>4. QED BY <2>2, <2>3
<1>3. QED BY <1>1, <1>2

\* A record takes a sample when it is later than all it has.
LEMMA TakesWhenLater ==
  ASSUME NEW T \in SUBSET Times, NEW t \in Times, NEW r, r.segments = Reduction(T)
  PROVE  Takes(r, t) <=> \A u \in T : u < t
<1>1. CASE T = {}
  BY <1>1, EmptyReduction DEF Takes
<1>2. CASE T # {}
  <2>1. Reduction(T) # <<>> /\ LastTime(Reduction(T)) = Max(T)
    BY <1>2, EmptyReduction, LastTimeIs
  <2>2. Max(T) \in T /\ (\A u \in T : u <= Max(T)) /\ T \subseteq Nat /\ t \in Nat
    BY <1>2, MaxIs, Numbers
  <2>3. t > Max(T) <=> \A u \in T : u < t
    <3>1. ASSUME t > Max(T), NEW u \in T PROVE u < t
      <4>1. u \in Nat /\ Max(T) \in Nat /\ u <= Max(T)
        BY <2>2
      <4>2. QED BY <4>1, <3>1, <2>2
    <3>2. QED BY <3>1, <2>2
  <2>4. QED BY <2>1, <2>3 DEF Takes
<1>3. QED BY <1>1, <1>2

-----------------------------------------------------------------------------
(* The records of the buffer and their copies on the way to the file. *)

Shapes == [key : Keys, segments : Seq(Seq(Times)), version : Nat, saved : Nat, all : SUBSET Times]
Copies == acks \cup UNION todo
Reduced(r) == r.segments = Reduction(r.all)
OneEach(S) == \A r, q \in S : r.key = q.key => r = q
Settled(r) == r.saved <= r.version /\ (r.saved = r.version => r.all \subseteq onDisk[r.key])
Copied(c, r) == /\ r.key = c.key /\ r.saved < c.version /\ c.version <= r.version
                /\ c.all \subseteq r.all /\ (c.version = r.version => c.all = r.all)

ChartTyped ==
  /\ quote \in [Times -> Quotes] /\ time \in Times
  /\ minutes \in Seq(Shapes) /\ todo \in SUBSET SUBSET Shapes /\ acks \in SUBSET Shapes
  /\ onDisk \in [Keys -> SUBSET Times]
  /\ accepted \in [Keys -> SUBSET Times] /\ counted \in [Keys -> SUBSET Times]

\* Records and copies are reductions, one of each minute; the chunks are disjoint; what
\* was committed is in the file.
RecordsFit == /\ \A r \in Buffered \cup Copies : Reduced(r)
              /\ OneEach(Buffered) /\ OneEach(Copies)
              /\ \A p, q \in todo : p # q => p \cap q = {}
              /\ \A p \in todo : p \cap acks = {}
              /\ \A c \in acks : c.all \subseteq onDisk[c.key]

\* In the minutes whose unsaved record was never dropped: a record that counts as saved is
\* in the file, and each copy was taken from a record that is held and still unsaved.
MarksFit == /\ \A r \in Buffered : r.key \notin overflowed => Settled(r)
            /\ \A c \in Copies : c.key \notin overflowed => \E r \in Buffered : Copied(c, r)

ChartInv == /\ ChartTyped /\ RecordsFit /\ MarksFit
            /\ disk = [k \in Keys |-> Reduction(onDisk[k])]
            /\ NoSilentLoss

\* A reduction is made of segments of times.
LEMMA ReductionShape ==
  ASSUME NEW T \in SUBSET Times
  PROVE  Reduction(T) \in Seq(Seq(Times))
<1>1. ASSUME NEW P \in SUBSET Times PROVE Extrema(P) \in Seq(Times)
  <2>1. Extremes(P) \in SUBSET Times
    BY DEF Extremes, Lowest, Highest, Ends
  <2>2. Ordered(Extremes(P)) \in Seq(Extremes(P))
    BY <2>1, OrderedIs
  <2>3. QED BY <2>1, <2>2, SeqMonotonic DEF Extrema
<1>2. Lines \subseteq Seq(Times)
  BY <1>1 DEF Lines
<1>3. Reduction(T) \in Seq(Lines)
  BY ReductionIsSeq
<1>4. QED BY <1>2, <1>3, SeqMonotonic

\* A record that has taken a sample, or not.
Grown(r, q) == /\ q.key = r.key /\ q.saved = r.saved /\ r.all \subseteq q.all
               /\ r.version <= q.version /\ (q.version = r.version => q = r)

\* Taking a sample keeps a record a reduction of its samples.
LEMMA SampledIs ==
  ASSUME Valued, NEW r \in Shapes, Reduced(r), NEW t \in Times
  PROVE  /\ Sampled(r, t) \in Shapes /\ Reduced(Sampled(r, t)) /\ Grown(r, Sampled(r, t))
         /\ Takes(r, t) => Sampled(r, t).version = r.version + 1
<1>1. /\ r.key \in Keys /\ r.version \in Nat /\ r.saved \in Nat /\ r.all \in SUBSET Times
      /\ r.segments = Reduction(r.all)
  BY DEF Shapes, Reduced
<1>2. CASE ~ Takes(r, t)
  <2>1. Sampled(r, t) = r
    BY <1>2 DEF Sampled
  <2>2. QED BY <2>1, <1>1, <1>2 DEF Grown
<1>3. CASE Takes(r, t)
  <2>1. \A u \in r.all : u < t
    BY <1>1, <1>3, TakesWhenLater
  <2>2. AddPoint(r.segments, t) = Reduction(r.all \cup {t})
    BY <1>1, <2>1, AddPointIs
  <2>3. r.all \cup {t} \in SUBSET Times
    BY <1>1
  <2>4. Reduction(r.all \cup {t}) \in Seq(Seq(Times))
    BY <2>3, ReductionShape
  <2>5. Sampled(r, t) = [r EXCEPT !.segments = AddPoint(r.segments, t), !.version = r.version + 1,
                                  !.all = r.all \cup {t}]
    BY <1>3 DEF Sampled
  <2>6. Sampled(r, t) = [key |-> r.key, segments |-> Reduction(r.all \cup {t}),
                         version |-> r.version + 1, saved |-> r.saved, all |-> r.all \cup {t}]
    BY <2>2, <2>5 DEF Shapes
  <2>7. Sampled(r, t) \in Shapes
    BY <2>3, <2>4, <2>6, <1>1 DEF Shapes
  <2>8. Reduced(Sampled(r, t))
    BY <2>6 DEF Reduced
  <2>9. Grown(r, Sampled(r, t)) /\ Sampled(r, t).version = r.version + 1
    BY <2>6, <1>1 DEF Grown
  <2>10. QED BY <2>7, <2>8, <2>9
<1>4. QED BY <1>2, <1>3

\* A new record takes its first sample.
LEMMA NewRecordIs ==
  ASSUME Valued, NEW k \in Keys, NEW t \in Times
  PROVE  /\ Sampled(NewRecord(k), t) \in Shapes /\ Reduced(Sampled(NewRecord(k), t))
         /\ Sampled(NewRecord(k), t).key = k
         /\ Sampled(NewRecord(k), t).saved = 0 /\ Sampled(NewRecord(k), t).version = 1
<1>1. Reduction({}) = <<>>
  BY EmptyReduction
<1>2. <<>> \in Seq(Seq(Times))
  BY EmptySeq
<1>3. NewRecord(k) \in Shapes /\ Reduced(NewRecord(k)) /\ Takes(NewRecord(k), t)
  BY <1>1, <1>2 DEF NewRecord, Shapes, Reduced, Takes
<1>4. NewRecord(k).version = 0 /\ NewRecord(k).saved = 0 /\ NewRecord(k).key = k
  BY DEF NewRecord
<1>5. QED BY <1>3, <1>4, SampledIs DEF Grown

\* Picked keeps the records at the given places.
LEMMA PickedHas ==
  ASSUME NEW R, NEW s \in Seq(R), NEW I \in SUBSET (DOMAIN s)
  PROVE  Picked(s, I) \in Seq(R) /\ ToSet(Picked(s, I)) = {s[i] : i \in I}
<1>1. Len(s) \in Nat /\ DOMAIN s = 1 .. Len(s) /\ \A i \in DOMAIN s : s[i] \in R
  BY LenProperties, ElementOfSeq
<1>2. I \subseteq Nat /\ IsFiniteSet(I) /\ Cardinality(I) \in Nat
  <2>1. I \subseteq Nat
    BY <1>1
  <2>2. IsFiniteSet(1 .. Len(s))
    BY <1>1, FS_Interval
  <2>3. IsFiniteSet(I)
    BY <2>2, <1>1, FS_Subset
  <2>4. QED BY <2>1, <2>3, FS_CardinalityType
<1> DEFINE n == Cardinality(I)
           O == Ordered(I)
<1>3. \A i \in 1 .. n : O[i] \in I
  <2>1. O \in [1 .. n -> I]
    BY <1>2, OrderedIsIn
  <2>2. QED BY <2>1
<1>4. \A x \in I : \E i \in 1 .. n : O[i] = x
  <2>1. ASSUME NEW x \in I PROVE \E i \in 1 .. n : O[i] = x
    <3>1. Rank(I, x) + 1 \in 1 .. n /\ O[Rank(I, x) + 1] = x
      BY <1>2, OrderedAtIn
    <3>2. QED BY <3>1
  <2>2. QED BY <2>1
<1>5. Picked(s, I) = [i \in 1 .. n |-> s[O[i]]]
  BY DEF Picked
<1> HIDE DEF O, n
<1>6. Picked(s, I) \in [1 .. n -> R]
  <2>1. \A i \in 1 .. n : s[O[i]] \in R
    BY <1>1, <1>3
  <2>2. QED BY <2>1, <1>5
<1>7. Picked(s, I) \in Seq(R)
  BY <1>2, <1>6, SeqDef DEF n
<1>8. DOMAIN Picked(s, I) = 1 .. n /\ \A i \in 1 .. n : Picked(s, I)[i] = s[O[i]]
  BY <1>5
<1>9. ToSet(Picked(s, I)) = {s[i] : i \in I}
  <2>1. ASSUME NEW x \in ToSet(Picked(s, I)) PROVE x \in {s[i] : i \in I}
    <3>1. PICK i \in 1 .. n : x = Picked(s, I)[i]
      BY <1>8 DEF ToSet
    <3>2. QED BY <3>1, <1>3, <1>8
  <2>2. ASSUME NEW x \in {s[i] : i \in I} PROVE x \in ToSet(Picked(s, I))
    <3>1. PICK y \in I : x = s[y]
      OBVIOUS
    <3>2. PICK i \in 1 .. n : O[i] = y
      BY <1>4
    <3>3. x = Picked(s, I)[i]
      BY <3>1, <3>2, <1>8
    <3>4. QED BY <3>3, <1>8 DEF ToSet
  <2>3. QED BY <2>1, <2>2
<1>10. QED BY <1>7, <1>9

\* A reduction says the same as long as the quotes do.
LEMMA SameReduction ==
  ASSUME quote' = quote
  PROVE  \A T : Reduction(T)' = Reduction(T)
BY DEF Reduction, Extrema, Extremes, Lowest, Highest, Ends, Ordered, GapStarts, Part

-----------------------------------------------------------------------------
(* The steps. *)

\* The quotes are numbers.
LEMMA QuotesAreNumbers ==
  ASSUME ChartInv
  PROVE  Valued
BY HistoryAssumption DEF ChartInv, ChartTyped, Valued

\* What a finite set is mapped to is finite.
LEMMA ImageFinite ==
  ASSUME NEW S, IsFiniteSet(S), NEW f, f = [x \in S |-> f[x]]
  PROVE  IsFiniteSet({f[x] : x \in S})
<1> DEFINE T == {f[x] : x \in S}
<1>1. f \in [S -> T]
  OBVIOUS
<1>2. \A y \in T : \E x \in S : f[x] = y
  OBVIOUS
<1> HIDE DEF T
<1>3. f \in Surjection(S, T)
  BY <1>1, <1>2 DEF Surjection
<1>4. IsFiniteSet(T)
  BY <1>3, FS_Surjection
<1>5. QED BY <1>4 DEF T

\* Two sequences, one after the other, have the members of both.
LEMMA ConcatHas ==
  ASSUME NEW R, NEW s \in Seq(R), NEW u \in Seq(R)
  PROVE  s \o u \in Seq(R) /\ ToSet(s \o u) = ToSet(s) \cup ToSet(u)
<1>1. /\ s \o u \in Seq(R) /\ Len(s \o u) = Len(s) + Len(u)
      /\ \A i \in 1 .. Len(s) + Len(u) : (s \o u)[i] = IF i <= Len(s) THEN s[i] ELSE u[i - Len(s)]
  BY ConcatProperties
<1>2. /\ Len(s) \in Nat /\ Len(u) \in Nat /\ DOMAIN s = 1 .. Len(s) /\ DOMAIN u = 1 .. Len(u)
      /\ DOMAIN (s \o u) = 1 .. Len(s) + Len(u)
  BY <1>1, LenProperties
<1> DEFINE v == s \o u
<1> HIDE DEF v
<1>3. \A i \in 1 .. Len(s) + Len(u) : v[i] = IF i <= Len(s) THEN s[i] ELSE u[i - Len(s)]
  BY <1>1 DEF v
<1>4. ASSUME NEW i \in DOMAIN s PROVE \E j \in DOMAIN v : v[j] = s[i]
  <2>1. i \in 1 .. Len(s) + Len(u) /\ i <= Len(s)
    BY <1>2
  <2>2. QED BY <2>1, <1>2, <1>3 DEF v
<1>5. ASSUME NEW i \in DOMAIN u PROVE \E j \in DOMAIN v : v[j] = u[i]
  <2>1. /\ i + Len(s) \in 1 .. Len(s) + Len(u) /\ ~ (i + Len(s) <= Len(s))
        /\ i + Len(s) - Len(s) = i
    BY <1>2
  <2>2. v[i + Len(s)] = u[i]
    BY <2>1, <1>3
  <2>3. QED BY <2>1, <2>2, <1>2 DEF v
<1>6. ASSUME NEW j \in DOMAIN v
      PROVE  (\E i \in DOMAIN s : v[j] = s[i]) \/ (\E i \in DOMAIN u : v[j] = u[i])
  <2>1. j \in 1 .. Len(s) + Len(u)
    BY <1>2 DEF v
  <2>2. CASE j <= Len(s)
    <3>1. j \in DOMAIN s
      BY <2>1, <2>2, <1>2
    <3>2. QED BY <3>1, <2>1, <2>2, <1>3
  <2>3. CASE ~ (j <= Len(s))
    <3>1. j - Len(s) \in DOMAIN u
      BY <2>1, <2>3, <1>2
    <3>2. QED BY <3>1, <2>1, <2>3, <1>3
  <2>4. QED BY <2>2, <2>3
<1>7. ToSet(v) = ToSet(s) \cup ToSet(u)
  BY <1>4, <1>5, <1>6 DEF ToSet
<1>8. QED BY <1>1, <1>7 DEF v

\* What sampling leaves, before the overflow and after: W are the records of the first.
SampledTo(W, lost) ==
  /\ W \in SUBSET Shapes /\ lost \in SUBSET W /\ OneEach(W)
  /\ \A w \in W : Reduced(w)
  /\ \A r \in Buffered : \E w \in W : Grown(r, w)
  /\ \A w \in W : \/ \E r \in Buffered : Grown(r, w)
                  \/ w.saved = 0 /\ w.version = 1 /\ \A r \in Buffered : r.key # w.key
  /\ minutes' \in Seq(Shapes) /\ ToSet(minutes') \subseteq W
  /\ \A w \in W : w \in ToSet(minutes') \/ w \in lost \/ ~ Unsaved(w)
  /\ accepted' = [k \in Keys |-> accepted[k] \cup UNION {r.all : r \in {x \in W : x.key = k}}]
  /\ counted' = [k \in Keys |-> counted[k] \cup UNION {r.all : r \in {x \in lost : x.key = k}}]
  /\ overflowed' = overflowed \cup {r.key : r \in lost}
  /\ UNCHANGED <<time, quote, todo, acks, disk, onDisk>>

\* A sampling is one of those.
LEMMA SampleIs ==
  ASSUME ChartInv, sample
  PROVE  \E W, lost : SampledTo(W, lost)
<1>v. Valued
  BY QuotesAreNumbers
<1>1. PICK S \in SUBSET Series \ {{}}, t \in {time - 1, time} \cap Times :
        LET keys  == {<<s, MinuteOf(t)>> : s \in S}
            fresh == {Sampled(NewRecord(k), t) : k \in {x \in keys : ~ Has(Buffered, x)}}
            known == [i \in DOMAIN minutes |->
                        IF minutes[i].key \in keys THEN Sampled(minutes[i], t) ELSE minutes[i]]
        IN \E added \in Bijection(1 .. Cardinality(fresh), fresh) :
             LET full == known \o added
                 out  == Evicted(full)
                 lost == {full[i] : i \in {j \in out : Unsaved(full[j])}}
             IN /\ full # minutes
                /\ minutes' = Picked(full, DOMAIN full \ out)
                /\ accepted' = [k \in Keys |-> accepted[k] \cup UNION {r.all : r \in {x \in ToSet(full) : x.key = k}}]
                /\ counted' = [k \in Keys |-> counted[k] \cup UNION {r.all : r \in {x \in lost : x.key = k}}]
                /\ overflowed' = overflowed \cup {r.key : r \in lost}
                /\ UNCHANGED <<time, quote, writing, file, faults, crashed>>
  BY Zenon DEF sample
<1> DEFINE keys  == {<<s, MinuteOf(t)>> : s \in S}
           fresh == {Sampled(NewRecord(k), t) : k \in {x \in keys : ~ Has(Buffered, x)}}
           known == [i \in DOMAIN minutes |->
                        IF minutes[i].key \in keys THEN Sampled(minutes[i], t) ELSE minutes[i]]
<1>2. PICK added \in Bijection(1 .. Cardinality(fresh), fresh) :
             LET full == known \o added
                 out  == Evicted(full)
                 lost == {full[i] : i \in {j \in out : Unsaved(full[j])}}
             IN /\ full # minutes
                /\ minutes' = Picked(full, DOMAIN full \ out)
                /\ accepted' = [k \in Keys |-> accepted[k] \cup UNION {r.all : r \in {x \in ToSet(full) : x.key = k}}]
                /\ counted' = [k \in Keys |-> counted[k] \cup UNION {r.all : r \in {x \in lost : x.key = k}}]
                /\ overflowed' = overflowed \cup {r.key : r \in lost}
                /\ UNCHANGED <<time, quote, writing, file, faults, crashed>>
  BY <1>1, Zenon
<1> DEFINE full == known \o added
           out  == Evicted(full)
           lost == {full[i] : i \in {j \in out : Unsaved(full[j])}}
           W == ToSet(full)
           F(r) == IF r.key \in keys THEN Sampled(r, t) ELSE r
<1>3. /\ minutes' = Picked(full, DOMAIN full \ out)
      /\ accepted' = [k \in Keys |-> accepted[k] \cup UNION {r.all : r \in {x \in W : x.key = k}}]
      /\ counted' = [k \in Keys |-> counted[k] \cup UNION {r.all : r \in {x \in lost : x.key = k}}]
      /\ overflowed' = overflowed \cup {r.key : r \in lost}
      /\ UNCHANGED <<time, quote, writing, file, faults, crashed>>
  BY <1>2, Zenon
<1>4. /\ minutes \in Seq(Shapes) /\ DOMAIN minutes = 1 .. Len(minutes) /\ Len(minutes) \in Nat
      /\ \A i \in DOMAIN minutes : minutes[i] \in Shapes /\ Reduced(minutes[i]) /\ minutes[i] \in Buffered
      /\ Buffered = {minutes[i] : i \in DOMAIN minutes}
  <2>1. minutes \in Seq(Shapes)
    BY DEF ChartInv, ChartTyped
  <2>2. Buffered = {minutes[i] : i \in DOMAIN minutes}
    BY DEF Buffered, ToSet
  <2>3. DOMAIN minutes = 1 .. Len(minutes) /\ Len(minutes) \in Nat
    BY <2>1, LenProperties
  <2>4. \A i \in DOMAIN minutes : minutes[i] \in Shapes
    BY <2>1, <2>3, ElementOfSeq
  <2>5. \A i \in DOMAIN minutes : Reduced(minutes[i])
    BY <2>2 DEF ChartInv, RecordsFit
  <2>6. QED BY <2>1, <2>2, <2>3, <2>4, <2>5
<1>5. ASSUME NEW r \in Buffered
      PROVE  r \in Shapes /\ F(r) \in Shapes /\ Reduced(F(r)) /\ Grown(r, F(r))
  <2>1. r \in Shapes /\ Reduced(r)
    BY <1>4
  <2>2. Grown(r, r)
    BY <2>1 DEF Grown, Shapes
  <2>3. Sampled(r, t) \in Shapes /\ Reduced(Sampled(r, t)) /\ Grown(r, Sampled(r, t))
    BY <1>v, <2>1, SampledIs
  <2>4. QED BY <2>1, <2>2, <2>3
<1>6. ASSUME NEW w \in fresh
      PROVE  /\ w \in Shapes /\ Reduced(w) /\ w.saved = 0 /\ w.version = 1
             /\ \A r \in Buffered : r.key # w.key
             /\ w = Sampled(NewRecord(w.key), t)
  <2>1. PICK k \in keys : ~ Has(Buffered, k) /\ w = Sampled(NewRecord(k), t)
    OBVIOUS
  <2>2. k \in Keys
    BY DEF Keys
  <2>3. /\ w \in Shapes /\ Reduced(w) /\ w.saved = 0 /\ w.version = 1 /\ w.key = k
    BY <1>v, <2>1, <2>2, NewRecordIs
  <2>4. \A r \in Buffered : r.key # w.key
    BY <2>1, <2>3 DEF Has
  <2>5. QED BY <2>1, <2>3, <2>4
<1>7. IsFiniteSet(fresh)
  <2> DEFINE h == [s \in Series |-> Sampled(NewRecord(<<s, MinuteOf(t)>>), t)]
  <2>1. IsFiniteSet(Series) /\ h = [s \in Series |-> h[s]]
    BY HistoryAssumption
  <2>2. fresh \in SUBSET {h[s] : s \in Series}
    OBVIOUS
  <2> HIDE DEF h, fresh
  <2>3. IsFiniteSet({h[s] : s \in Series})
    BY <2>1, ImageFinite
  <2>4. QED BY <2>2, <2>3, FS_Subset
<1>8. added \in Seq(Shapes) /\ ToSet(added) = fresh
  <2>1. Cardinality(fresh) \in Nat
    BY <1>7, FS_CardinalityType
  <2>2. fresh \subseteq Shapes
    BY <1>6
  <2> HIDE DEF fresh
  <2>3. added \in [1 .. Cardinality(fresh) -> fresh] /\ \A w \in fresh : \E i \in 1 .. Cardinality(fresh) : added[i] = w
    BY <1>2 DEF Bijection, Surjection, Injection
  <2>4. added \in [1 .. Cardinality(fresh) -> Shapes]
    BY <2>2, <2>3
  <2>5. added \in Seq(Shapes)
    BY <2>1, <2>4, SeqDef
  <2>6. ToSet(added) = fresh
    BY <2>3 DEF ToSet
  <2>7. QED BY <2>5, <2>6
<1>9. known \in Seq(Shapes) /\ ToSet(known) = {F(r) : r \in Buffered}
  <2>1. \A i \in DOMAIN minutes : F(minutes[i]) \in Shapes
    BY <1>4, <1>5
  <2>2. known = [i \in DOMAIN minutes |-> F(minutes[i])]
    OBVIOUS
  <2> HIDE DEF F, known
  <2>3. known \in [1 .. Len(minutes) -> Shapes]
    BY <2>1, <2>2, <1>4
  <2>4. known \in Seq(Shapes)
    BY <2>3, <1>4, SeqDef
  <2>5. DOMAIN known = DOMAIN minutes /\ \A i \in DOMAIN minutes : known[i] = F(minutes[i])
    BY <2>2
  <2>6. ToSet(known) = {F(r) : r \in Buffered}
    <3>1. ToSet(known) = {known[i] : i \in DOMAIN minutes}
      BY <2>5 DEF ToSet
    <3>2. ASSUME NEW x \in {known[i] : i \in DOMAIN minutes} PROVE x \in {F(r) : r \in Buffered}
      BY <2>5, <1>4
    <3>3. ASSUME NEW x \in {F(r) : r \in Buffered} PROVE x \in {known[i] : i \in DOMAIN minutes}
      <4>1. PICK r \in Buffered : x = F(r)
        OBVIOUS
      <4>2. PICK i \in DOMAIN minutes : r = minutes[i]
        BY <1>4
      <4>3. QED BY <4>1, <4>2, <2>5
    <3>4. QED BY <3>1, <3>2, <3>3
  <2>7. QED BY <2>4, <2>6
<1> HIDE DEF known, fresh, F, keys
<1>10. full \in Seq(Shapes) /\ W = {F(r) : r \in Buffered} \cup fresh
  BY <1>8, <1>9, ConcatHas
<1> HIDE DEF full
<1>11. W = {full[i] : i \in DOMAIN full}
  BY DEF ToSet
<1>12. minutes' \in Seq(Shapes) /\ ToSet(minutes') = {full[i] : i \in DOMAIN full \ out}
  <2>1. DOMAIN full \ out \in SUBSET (DOMAIN full)
    OBVIOUS
  <2> HIDE DEF out
  <2>2. QED BY <2>1, <1>3, <1>10, PickedHas
<1>13. \A w \in W : w \in ToSet(minutes') \/ w \in lost \/ ~ Unsaved(w)
  BY <1>11, <1>12
<1>14. lost \in SUBSET W /\ ToSet(minutes') \subseteq W
  <2>1. out \subseteq DOMAIN full
    BY DEF Evicted
  <2>2. QED BY <2>1, <1>11, <1>12
<1> HIDE DEF W, lost, out
<1>15. W \in SUBSET Shapes /\ \A w \in W : Reduced(w)
  BY <1>5, <1>6, <1>10
<1>16. \A r \in Buffered : \E w \in W : Grown(r, w)
  BY <1>5, <1>10
<1>17. \A w \in W : \/ \E r \in Buffered : Grown(r, w)
                    \/ w.saved = 0 /\ w.version = 1 /\ \A r \in Buffered : r.key # w.key
  BY <1>5, <1>6, <1>10
<1>18. OneEach(W)
  <2>1. ASSUME NEW x \in W, NEW y \in W, x.key = y.key PROVE x = y
    <3>1. CASE x \in fresh /\ y \in fresh
      BY <3>1, <2>1, <1>6
    <3>2. CASE \E r \in Buffered, q \in Buffered : x = F(r) /\ y = F(q)
      <4>1. PICK r \in Buffered, q \in Buffered : x = F(r) /\ y = F(q)
        BY <3>2
      <4>2. x.key = r.key /\ y.key = q.key
        BY <4>1, <1>5 DEF Grown
      <4>3. r = q
        BY <4>2, <2>1 DEF ChartInv, RecordsFit, OneEach
      <4>4. QED BY <4>1, <4>3
    <3>3. \A r \in Buffered, z \in fresh : F(r).key # z.key
      BY <1>5, <1>6 DEF Grown
    <3>4. QED BY <3>1, <3>2, <3>3, <2>1, <1>10
  <2>2. QED BY <2>1 DEF OneEach
<1>19. SampledTo(W, lost)
  BY <1>3, <1>12, <1>13, <1>14, <1>15, <1>16, <1>17, <1>18 DEF SampledTo, writing, file
<1>20. QED BY <1>19

\* A record that is held is a record.
LEMMA BufferedIs ==
  ASSUME ChartInv, NEW r \in Buffered
  PROVE  r \in Shapes /\ Reduced(r) /\ \A q \in Buffered : q.key = r.key => q = r
<1>1. minutes \in Seq(Shapes)
  BY DEF ChartInv, ChartTyped
<1>2. r \in Shapes
  BY <1>1, ElementOfSeq, LenProperties DEF Buffered, ToSet
<1>3. QED BY <1>2 DEF ChartInv, RecordsFit, OneEach

\* So is a copy.
LEMMA CopyIs ==
  ASSUME ChartInv, NEW c \in Copies
  PROVE  c \in Shapes /\ Reduced(c) /\ \A d \in Copies : d.key = c.key => d = c
<1>1. todo \in SUBSET SUBSET Shapes /\ acks \in SUBSET Shapes
  BY DEF ChartInv, ChartTyped
<1>2. Copies \subseteq Shapes
  BY <1>1 DEF Copies
<1>3. QED BY <1>2 DEF ChartInv, RecordsFit, OneEach

\* Sampling keeps the invariant.
LEMMA SampleKeeps ==
  ASSUME ChartInv, sample
  PROVE  ChartInv'
<1>1. PICK W, lost : SampledTo(W, lost)
  BY SampleIs
<1> DEFINE H == ToSet(minutes')
<1>2. /\ W \in SUBSET Shapes /\ lost \in SUBSET W /\ OneEach(W)
      /\ \A w \in W : Reduced(w)
      /\ minutes' \in Seq(Shapes) /\ H \subseteq W
      /\ \A w \in W : w \in H \/ w \in lost \/ ~ Unsaved(w)
      /\ overflowed' = overflowed \cup {r.key : r \in lost}
      /\ UNCHANGED <<time, quote, todo, acks, disk, onDisk>>
  BY <1>1 DEF SampledTo
<1>3. \A T : Reduction(T)' = Reduction(T)
  BY <1>2, SameReduction
<1>4. Buffered' = H /\ Copies' = Copies
  BY <1>2 DEF Buffered, Copies
<1> HIDE DEF H
<1>5. \A w \in W : w.key \notin overflowed' => w \notin lost
  BY <1>2
<1>6. ASSUME NEW w \in W, w.key \notin overflowed
      PROVE  Settled(w)
  <2>1. w \in Shapes
    BY <1>2
  <2>2. CASE \E r \in Buffered : Grown(r, w)
    <3>1. PICK r \in Buffered : Grown(r, w)
      BY <2>2
    <3>2. r.key = w.key /\ Settled(r) /\ r \in Shapes
      <4>1. r.key = w.key
        BY <3>1 DEF Grown
      <4>2. Settled(r)
        BY <4>1, <1>6 DEF ChartInv, MarksFit
      <4>3. r \in Shapes
        BY ElementOfSeq, LenProperties DEF ChartInv, ChartTyped, Buffered, ToSet
      <4>4. QED BY <4>1, <4>2, <4>3
    <3>3. /\ w.saved = r.saved /\ r.version <= w.version /\ (w.version = r.version => w = r)
          /\ r.saved <= r.version /\ r.saved \in Nat /\ r.version \in Nat /\ w.version \in Nat
          /\ (r.saved = r.version => r.all \subseteq onDisk[r.key])
      BY <2>1, <3>1, <3>2 DEF Grown, Settled, Shapes
    <3>4. w.saved <= w.version /\ (w.saved = w.version => w = r /\ r.saved = r.version)
      BY <3>3
    <3>5. QED BY <3>3, <3>4 DEF Settled
  <2>3. CASE w.saved = 0 /\ w.version = 1
    BY <2>3 DEF Settled
  <2>4. QED BY <2>2, <2>3, <1>1 DEF SampledTo
<1>7. ChartTyped'
  <2>1. /\ accepted' = [k \in Keys |-> accepted[k] \cup UNION {r.all : r \in {x \in W : x.key = k}}]
        /\ counted' = [k \in Keys |-> counted[k] \cup UNION {r.all : r \in {x \in lost : x.key = k}}]
    BY <1>1 DEF SampledTo
  <2>2. \A k \in Keys : /\ accepted[k] \in SUBSET Times /\ counted[k] \in SUBSET Times
    BY DEF ChartInv, ChartTyped
  <2>3. \A w \in W : w.all \in SUBSET Times
    BY <1>2 DEF Shapes
  <2>4. \A k \in Keys : UNION {r.all : r \in {x \in W : x.key = k}} \in SUBSET Times
    BY <2>3
  <2>5. \A k \in Keys : UNION {r.all : r \in {x \in lost : x.key = k}} \in SUBSET Times
    BY <2>3, <1>2
  <2>6. accepted' \in [Keys -> SUBSET Times] /\ counted' \in [Keys -> SUBSET Times]
    BY <2>1, <2>2, <2>4, <2>5
  <2>7. QED BY <2>6, <1>2 DEF ChartInv, ChartTyped
<1>8. RecordsFit'
  <2>1. OneEach(H)
    BY <1>2 DEF OneEach
  <2>2. (OneEach(Buffered))' /\ (OneEach(Copies))'
    <3>1. OneEach(Copies)
      BY DEF ChartInv, RecordsFit
    <3>2. QED BY <2>1, <3>1, <1>4 DEF OneEach
  <2>3. ASSUME NEW r \in H \cup Copies PROVE Reduced(r)'
    <3>1. Reduced(r)
      BY <1>2 DEF ChartInv, RecordsFit
    <3>2. QED BY <3>1, <1>3 DEF Reduced
  <2>4. \A r \in (Buffered \cup Copies)' : Reduced(r)'
    BY <2>3, <1>4
  <2>5. /\ \A p, q \in todo : p # q => p \cap q = {}
        /\ \A p \in todo : p \cap acks = {}
        /\ \A c \in acks : c.all \subseteq onDisk[c.key]
    BY DEF ChartInv, RecordsFit
  <2>6. QED BY <2>2, <2>4, <2>5, <1>2 DEF RecordsFit
<1>9. MarksFit'
  <2>1. ASSUME NEW r \in H, r.key \notin overflowed' PROVE Settled(r)'
    <3>1. Settled(r)
      BY <2>1, <1>2, <1>6
    <3>2. QED BY <3>1, <1>2 DEF Settled
  <2>2. ASSUME NEW c \in Copies, c.key \notin overflowed' PROVE \E r \in H : Copied(c, r)
    <3>1. c.key \notin overflowed
      BY <2>2, <1>2
    <3>2. PICK r \in Buffered : Copied(c, r)
      BY <3>1 DEF ChartInv, MarksFit
    <3>3. PICK w \in W : Grown(r, w)
      BY <1>1 DEF SampledTo
    <3>4. r \in Shapes /\ w \in Shapes
      <4>1. r \in Shapes
        BY ElementOfSeq, LenProperties DEF ChartInv, ChartTyped, Buffered, ToSet
      <4>2. QED BY <4>1, <1>2
    <3>5. c \in Shapes
      BY CopyIs
    <3>6. /\ r.version \in Nat /\ r.saved \in Nat /\ w.version \in Nat /\ c.version \in Nat
          /\ r.key = c.key /\ r.saved < c.version /\ c.version <= r.version
          /\ c.all \subseteq r.all /\ (c.version = r.version => c.all = r.all)
          /\ w.key = r.key /\ w.saved = r.saved /\ r.all \subseteq w.all
          /\ r.version <= w.version /\ (w.version = r.version => w = r)
      BY <3>2, <3>3, <3>4, <3>5 DEF Copied, Grown, Shapes
    <3>7. Copied(c, w) /\ w.version # w.saved
      <4>1. w.saved < c.version /\ c.version <= w.version
            /\ (c.version = w.version => c.version = r.version /\ w.version = r.version)
        BY <3>6
      <4>2. w.version # w.saved
        BY <4>1, <3>6
      <4>3. QED BY <4>1, <4>2, <3>6 DEF Copied
    <3>8. w \in H
      BY <1>2, <1>5, <2>2, <3>6, <3>7 DEF Unsaved
    <3>9. QED BY <3>7, <3>8
  <2>3. QED BY <2>1, <2>2, <1>4 DEF MarksFit, Copied
<1>10. (disk = [k \in Keys |-> Reduction(onDisk[k])])'
  <2>1. disk = [k \in Keys |-> Reduction(onDisk[k])]
    BY DEF ChartInv
  <2>2. QED BY <2>1, <1>2, <1>3
<1>11. ASSUME NEW k \in Keys \ overflowed', NEW x \in accepted'[k]
       PROVE  Kept(k, x)'
  <2>1. /\ k \in Keys /\ k \notin overflowed
        /\ accepted'[k] = accepted[k] \cup UNION {r.all : r \in {y \in W : y.key = k}}
        /\ counted'[k] = counted[k] \cup UNION {r.all : r \in {y \in lost : y.key = k}}
    BY <1>1, <1>2 DEF SampledTo
  <2>2. ASSUME NEW w \in W, w.key = k, x \in w.all PROVE Kept(k, x)'
    <3>1. CASE w \in H /\ Unsaved(w)
      BY <3>1, <2>2, <1>4 DEF Kept, Unsaved
    <3>2. CASE ~ Unsaved(w)
      <4>1. w.all \subseteq onDisk[k]
        BY <3>2, <2>1, <2>2, <1>6 DEF Settled, Unsaved
      <4>2. QED BY <4>1, <2>2, <1>2 DEF Kept
    <3>3. CASE w \in lost
      BY <3>3, <2>2, <1>5
    <3>4. QED BY <3>1, <3>2, <3>3, <1>2
  <2>3. CASE x \in accepted[k]
    <3>1. Kept(k, x)
      BY <2>1, <2>3 DEF ChartInv, NoSilentLoss
    <3>2. CASE x \in onDisk[k] \/ x \in counted[k]
      BY <3>2, <2>1, <1>2 DEF Kept
    <3>3. CASE \E r \in Buffered : r.key = k /\ x \in r.all
      <4>1. PICK r \in Buffered : r.key = k /\ x \in r.all
        BY <3>3
      <4>2. PICK w \in W : Grown(r, w)
        BY <1>1 DEF SampledTo
      <4>3. w.key = k /\ x \in w.all
        BY <4>1, <4>2 DEF Grown
      <4>4. QED BY <4>3, <2>2
    <3>4. QED BY <3>1, <3>2, <3>3 DEF Kept
  <2>4. QED BY <2>1, <2>2, <2>3
<1>12. NoSilentLoss'
  BY <1>11 DEF NoSilentLoss
<1>13. QED BY <1>7, <1>8, <1>9, <1>10, <1>12 DEF ChartInv

\* Taking a snapshot keeps it.
LEMMA SnapshotKeeps ==
  ASSUME ChartInv, snapshot
  PROVE  ChartInv'
<1> DEFINE I == {i \in DOMAIN minutes : ~ Forget(minutes[i])}
           H == ToSet(minutes')
           Z == UNION todo'
<1>1. /\ todo = {} /\ acks = {} /\ minutes' = Picked(minutes, I)
      /\ todo' = {ChunkOf(s) : s \in Series} \ {{}}
      /\ UNCHANGED <<time, quote, acks, disk, onDisk, accepted, counted, overflowed>>
  BY DEF snapshot, file
<1>2. \A T : Reduction(T)' = Reduction(T)
  BY <1>1, SameReduction
<1>3. minutes' \in Seq(Shapes) /\ H = {minutes[i] : i \in I}
  <2>1. minutes \in Seq(Shapes)
    BY DEF ChartInv, ChartTyped
  <2>2. I \in SUBSET (DOMAIN minutes)
    OBVIOUS
  <2> HIDE DEF I
  <2>3. Picked(minutes, I) \in Seq(Shapes) /\ ToSet(Picked(minutes, I)) = {minutes[i] : i \in I}
    BY <2>1, <2>2, PickedHas
  <2>4. QED BY <2>3, <1>1
<1>4. H \subseteq Buffered /\ \A r \in Buffered : Unsaved(r) => r \in H
  <2>1. Buffered = {minutes[i] : i \in DOMAIN minutes}
    BY DEF Buffered, ToSet
  <2>2. \A i \in DOMAIN minutes : Unsaved(minutes[i]) => i \in I
    BY DEF Forget
  <2>3. I \subseteq DOMAIN minutes
    OBVIOUS
  <2> HIDE DEF I
  <2>4. QED BY <2>1, <2>2, <2>3, <1>3
<1>5. Z \subseteq Buffered /\ \A r \in Z : Unsaved(r)
  BY <1>1 DEF ChunkOf
<1>6. Buffered' = H /\ Copies' = Z
  BY <1>1 DEF Buffered, Copies
<1>7. todo' \in SUBSET SUBSET Buffered /\ \A p, q \in todo' : p # q => p \cap q = {}
  <2>1. \A p \in todo' : \E s \in Series : p = ChunkOf(s)
    BY <1>1
  <2>2. \A s, u \in Series : s # u => ChunkOf(s) \cap ChunkOf(u) = {}
    BY DEF ChunkOf
  <2>3. \A s \in Series : ChunkOf(s) \in SUBSET Buffered
    BY DEF ChunkOf
  <2>4. ASSUME NEW p \in todo', NEW q \in todo', p # q PROVE p \cap q = {}
    BY <2>1, <2>2, <2>4
  <2>5. QED BY <2>1, <2>3, <2>4
<1> HIDE DEF H, Z
<1>8. ChartTyped'
  <2>1. todo' \in SUBSET SUBSET Shapes
    <3>1. Buffered \subseteq Shapes
      BY BufferedIs
    <3>2. QED BY <3>1, <1>7
  <2>2. QED BY <2>1, <1>1, <1>3 DEF ChartInv, ChartTyped
<1>9. RecordsFit'
  <2>1. OneEach(Buffered) /\ \A r \in Buffered : Reduced(r)
    BY DEF ChartInv, RecordsFit
  <2>2. (OneEach(Buffered))' /\ (OneEach(Copies))'
    BY <2>1, <1>4, <1>5, <1>6 DEF OneEach
  <2>3. ASSUME NEW r \in H \cup Z PROVE Reduced(r)'
    <3>1. Reduced(r)
      BY <2>1, <1>4, <1>5
    <3>2. QED BY <3>1, <1>2 DEF Reduced
  <2>4. \A r \in (Buffered \cup Copies)' : Reduced(r)'
    BY <2>3, <1>6
  <2>5. acks' = {}
    BY <1>1
  <2>6. QED BY <2>2, <2>4, <2>5, <1>7 DEF RecordsFit
<1>10. MarksFit'
  <2>1. ASSUME NEW r \in H, r.key \notin overflowed' PROVE Settled(r)'
    <3>1. Settled(r)
      BY <2>1, <1>1, <1>4 DEF ChartInv, MarksFit
    <3>2. QED BY <3>1, <1>1 DEF Settled
  <2>2. ASSUME NEW c \in Z, c.key \notin overflowed' PROVE \E r \in H : Copied(c, r)
    <3>1. c \in Buffered /\ c \in H /\ Unsaved(c) /\ c \in Shapes
      BY <1>4, <1>5, BufferedIs
    <3>2. Settled(c)
      BY <2>2, <3>1, <1>1 DEF ChartInv, MarksFit
    <3>3. Copied(c, c)
      BY <3>1, <3>2 DEF Copied, Settled, Unsaved, Shapes
    <3>4. QED BY <3>1, <3>3
  <2>3. QED BY <2>1, <2>2, <1>6 DEF MarksFit, Copied
<1>11. (disk = [k \in Keys |-> Reduction(onDisk[k])])'
  <2>1. disk = [k \in Keys |-> Reduction(onDisk[k])]
    BY DEF ChartInv
  <2>2. QED BY <2>1, <1>1, <1>2
<1>12. ASSUME NEW k \in Keys \ overflowed', NEW x \in accepted'[k]
       PROVE  Kept(k, x)'
  <2>1. Kept(k, x)
    BY <1>1 DEF ChartInv, NoSilentLoss
  <2>2. QED BY <2>1, <1>1, <1>4, <1>6 DEF Kept, Unsaved
<1>13. NoSilentLoss'
  BY <1>12 DEF NoSilentLoss
<1>14. QED BY <1>8, <1>9, <1>10, <1>11, <1>13 DEF ChartInv

\* A transaction keeps it: what it merges into the file is the reduction of all samples.
LEMMA CommitKeeps ==
  ASSUME ChartInv, commit
  PROVE  ChartInv'
<1>1. PICK part \in SUBSET todo \ {{}} :
        /\ acks = {} /\ todo' = todo \ part /\ acks' = UNION part
        /\ disk' = [k \in Keys |-> IF Has(acks', k) THEN Merged(disk[k], RecordOf(acks', k).segments) ELSE disk[k]]
        /\ onDisk' = [k \in Keys |-> IF Has(acks', k) THEN onDisk[k] \cup RecordOf(acks', k).all ELSE onDisk[k]]
        /\ UNCHANGED <<time, quote, minutes, accepted, counted, overflowed>>
  BY DEF commit
<1> DEFINE A == UNION part
<1>v. Valued
  BY QuotesAreNumbers
<1>2. \A T : Reduction(T)' = Reduction(T)
  BY <1>1, SameReduction
<1>3. A \subseteq Copies /\ Copies' = Copies /\ Buffered' = Buffered /\ UNION (todo \ part) \subseteq Copies
  <2>1. part \subseteq todo
    OBVIOUS
  <2>2. (UNION part) \cup UNION (todo \ part) = UNION todo
    BY <2>1
  <2>3. Copies = UNION todo
    BY <1>1 DEF Copies
  <2>4. Copies' = (UNION part) \cup UNION (todo \ part)
    BY <1>1 DEF Copies
  <2>5. Buffered' = Buffered
    BY <1>1 DEF Buffered
  <2>6. QED BY <2>2, <2>3, <2>4, <2>5
<1>4. ASSUME NEW k \in Keys, Has(A, k)
      PROVE  /\ RecordOf(A, k) \in A /\ RecordOf(A, k).key = k /\ RecordOf(A, k) \in Shapes
             /\ RecordOf(A, k).segments = Reduction(RecordOf(A, k).all)
             /\ RecordOf(A, k).all \in SUBSET Times
             /\ \A c \in A : c.key = k => c = RecordOf(A, k)
  <2>1. RecordOf(A, k) \in A /\ RecordOf(A, k).key = k
    <3> HIDE DEF A
    <3>1. QED BY <1>4 DEF Has, RecordOf
  <2>2. RecordOf(A, k) \in Copies
    BY <2>1, <1>3
  <2>3. /\ RecordOf(A, k) \in Shapes /\ Reduced(RecordOf(A, k))
        /\ \A d \in Copies : d.key = RecordOf(A, k).key => d = RecordOf(A, k)
    BY <2>2, CopyIs
  <2> HIDE DEF A
  <2>4. QED BY <2>1, <2>3, <1>3 DEF Reduced, Shapes
<1>5. /\ disk' = [k \in Keys |-> IF Has(A, k) THEN Merged(disk[k], RecordOf(A, k).segments) ELSE disk[k]]
      /\ onDisk' = [k \in Keys |-> IF Has(A, k) THEN onDisk[k] \cup RecordOf(A, k).all ELSE onDisk[k]]
      /\ acks' = A
  BY <1>1
<1> HIDE DEF A
<1>6. ASSUME NEW k \in Keys
      PROVE  /\ disk[k] = Reduction(onDisk[k]) /\ onDisk[k] \in SUBSET Times
             /\ onDisk'[k] \in SUBSET Times /\ onDisk[k] \subseteq onDisk'[k]
             /\ disk'[k] = Reduction(onDisk'[k])
  <2>1. disk[k] = Reduction(onDisk[k]) /\ onDisk[k] \in SUBSET Times
    BY DEF ChartInv, ChartTyped
  <2>2. CASE Has(A, k)
    <3>1. /\ disk'[k] = Merged(disk[k], RecordOf(A, k).segments)
          /\ onDisk'[k] = onDisk[k] \cup RecordOf(A, k).all
      BY <2>2, <1>5
    <3>2. Merged(Reduction(onDisk[k]), Reduction(RecordOf(A, k).all)) = Reduction(onDisk[k] \cup RecordOf(A, k).all)
      BY <1>v, <2>1, <2>2, <1>4, MergedIs
    <3>3. QED BY <3>1, <3>2, <2>1, <2>2, <1>4
  <2>3. CASE ~ Has(A, k)
    BY <2>1, <2>3, <1>5
  <2>4. QED BY <2>2, <2>3
<1>7. ChartTyped'
  <2>1. onDisk' \in [Keys -> SUBSET Times]
    <3>1. DOMAIN onDisk' = Keys /\ onDisk' = [k \in Keys |-> onDisk'[k]]
      BY <1>5
    <3>2. QED BY <3>1, <1>6
  <2>2. A \subseteq Shapes
    BY <1>3, CopyIs
  <2>3. todo' \in SUBSET SUBSET Shapes
    BY <1>1 DEF ChartInv, ChartTyped
  <2>4. QED BY <2>1, <2>2, <2>3, <1>1, <1>5 DEF ChartInv, ChartTyped
<1>8. RecordsFit'
  <2>1. (OneEach(Buffered))' /\ (OneEach(Copies))'
    <3>1. OneEach(Buffered) /\ OneEach(Copies)
      BY DEF ChartInv, RecordsFit
    <3>2. QED BY <3>1, <1>3 DEF OneEach
  <2>2. \A r \in (Buffered \cup Copies)' : Reduced(r)'
    <3>1. \A r \in Buffered \cup Copies : Reduced(r)
      BY DEF ChartInv, RecordsFit
    <3>2. QED BY <3>1, <1>2, <1>3 DEF Reduced
  <2>3. \A p, q \in todo : p # q => p \cap q = {}
    BY DEF ChartInv, RecordsFit
  <2>4. \A p \in todo' : p \cap acks' = {}
    <3>1. ASSUME NEW p \in todo \ part, NEW c \in p, c \in UNION part PROVE FALSE
      <4>1. PICK q \in part : c \in q
        BY <3>1
      <4>2. p \in todo /\ q \in todo /\ p # q
        BY <4>1
      <4>3. QED BY <4>1, <4>2, <2>3
    <3>2. QED BY <3>1, <1>1
  <2>5. ASSUME NEW c \in A PROVE c.all \subseteq onDisk'[c.key]
    <3>1. c.key \in Keys /\ Has(A, c.key)
      BY <1>3, CopyIs DEF Shapes, Has
    <3>2. c = RecordOf(A, c.key)
      BY <3>1, <1>4
    <3>3. onDisk'[c.key] = onDisk[c.key] \cup RecordOf(A, c.key).all
      BY <3>1, <1>5
    <3>4. QED BY <3>2, <3>3
  <2>6. todo' \subseteq todo
    BY <1>1
  <2>7. QED BY <2>1, <2>2, <2>3, <2>4, <2>5, <2>6, <1>5 DEF RecordsFit
<1>9. MarksFit'
  <2>1. ASSUME NEW r \in Buffered, r.key \notin overflowed PROVE Settled(r)'
    <3>1. Settled(r) /\ r.key \in Keys
      BY <2>1, BufferedIs DEF ChartInv, MarksFit, Shapes
    <3>2. onDisk[r.key] \subseteq onDisk'[r.key]
      BY <3>1, <1>6
    <3>3. QED BY <3>1, <3>2 DEF Settled
  <2>2. \A c \in Copies : c.key \notin overflowed => \E r \in Buffered : Copied(c, r)
    BY DEF ChartInv, MarksFit
  <2>3. QED BY <2>1, <2>2, <1>1, <1>3 DEF MarksFit, Copied
<1>10. (disk = [k \in Keys |-> Reduction(onDisk[k])])'
  <2>1. disk' = [k \in Keys |-> disk'[k]]
    BY <1>5
  <2>2. disk' = [k \in Keys |-> Reduction(onDisk'[k])]
    BY <2>1, <1>6
  <2>3. QED BY <2>2, <1>2
<1>11. ASSUME NEW k \in Keys \ overflowed', NEW x \in accepted'[k]
       PROVE  Kept(k, x)'
  <2>1. Kept(k, x) /\ onDisk[k] \subseteq onDisk'[k]
    BY <1>1, <1>6 DEF ChartInv, NoSilentLoss
  <2>2. QED BY <2>1, <1>1, <1>3 DEF Kept, Unsaved
<1>12. NoSilentLoss'
  BY <1>11 DEF NoSilentLoss
<1>13. QED BY <1>7, <1>8, <1>9, <1>10, <1>12 DEF ChartInv

\* A failed transaction keeps it, and so does what leaves the buffer and the file alone.
LEMMA FailKeeps ==
  ASSUME ChartInv, todo' \in {todo, {}}, time' \in Times,
         UNCHANGED <<quote, minutes, acks, disk, onDisk, accepted, counted, overflowed>>
  PROVE  ChartInv'
<1>1. \A T : Reduction(T)' = Reduction(T)
  BY SameReduction
<1>2. Buffered' = Buffered /\ Copies' \subseteq Copies /\ todo' \subseteq todo
  BY DEF Buffered, Copies
<1>3. ChartTyped'
  BY <1>2 DEF ChartInv, ChartTyped
<1>4. RecordsFit'
  <2>1. OneEach(Buffered) /\ OneEach(Copies)
    BY DEF ChartInv, RecordsFit
  <2>2. (OneEach(Buffered))' /\ (OneEach(Copies))'
    BY <2>1, <1>2 DEF OneEach
  <2>3. \A r \in Buffered \cup Copies : Reduced(r)
    BY DEF ChartInv, RecordsFit
  <2>4. \A r \in (Buffered \cup Copies)' : Reduced(r)'
    BY <2>3, <1>1, <1>2 DEF Reduced
  <2>5. /\ \A p, q \in todo : p # q => p \cap q = {}
        /\ \A p \in todo : p \cap acks = {}
        /\ \A c \in acks : c.all \subseteq onDisk[c.key]
    BY DEF ChartInv, RecordsFit
  <2>6. QED BY <2>2, <2>4, <2>5, <1>2 DEF RecordsFit
<1>5. MarksFit'
  <2>1. MarksFit
    BY DEF ChartInv
  <2>2. QED BY <2>1, <1>2 DEF MarksFit, Settled, Copied
<1>6. (disk = [k \in Keys |-> Reduction(onDisk[k])])'
  <2>1. disk = [k \in Keys |-> Reduction(onDisk[k])]
    BY DEF ChartInv
  <2>2. QED BY <2>1, <1>1
<1>7. NoSilentLoss'
  <2>1. NoSilentLoss
    BY DEF ChartInv
  <2>2. QED BY <2>1, <1>2 DEF NoSilentLoss, Kept, Unsaved
<1>8. QED BY <1>3, <1>4, <1>5, <1>6, <1>7 DEF ChartInv

\* An acknowledgement keeps it: it marks as saved what its copy had.
LEMMA AcknowledgeKeeps ==
  ASSUME ChartInv, acknowledge
  PROVE  ChartInv'
<1> DEFINE G(r) == IF Has(acks, r.key) THEN [r EXCEPT !.saved = SavedVersion(r, RecordOf(acks, r.key))] ELSE r
           H == {G(r) : r \in Buffered}
<1>1. /\ acks # {} /\ acks' = {}
      /\ minutes' = [i \in DOMAIN minutes |-> G(minutes[i])]
      /\ UNCHANGED <<time, quote, todo, disk, onDisk, accepted, counted, overflowed>>
  BY DEF acknowledge, file
<1>2. \A T : Reduction(T)' = Reduction(T)
  BY <1>1, SameReduction
<1>3. ASSUME NEW k \in Keys, Has(acks, k)
      PROVE  /\ RecordOf(acks, k) \in acks /\ RecordOf(acks, k).key = k
             /\ RecordOf(acks, k) \in Copies /\ RecordOf(acks, k) \in Shapes
             /\ RecordOf(acks, k).all \subseteq onDisk[k]
  <2>1. RecordOf(acks, k) \in acks /\ RecordOf(acks, k).key = k
    BY <1>3 DEF Has, RecordOf
  <2>2. RecordOf(acks, k) \in Copies
    BY <2>1 DEF Copies
  <2>3. QED BY <2>1, <2>2, CopyIs DEF ChartInv, RecordsFit
<1>4. ASSUME NEW r \in Buffered
      PROVE  /\ r \in Shapes /\ Reduced(r) /\ r.key \in Keys
             /\ G(r) \in Shapes /\ G(r).key = r.key /\ G(r).all = r.all /\ G(r).version = r.version
             /\ G(r).segments = r.segments
             /\ G(r).saved = IF Has(acks, r.key) THEN SavedVersion(r, RecordOf(acks, r.key)) ELSE r.saved
  <2>1. r \in Shapes /\ Reduced(r) /\ r.key \in Keys
    BY BufferedIs DEF Shapes
  <2>2. CASE Has(acks, r.key)
    <3>1. RecordOf(acks, r.key).version \in Nat /\ r.saved \in Nat
      BY <2>1, <2>2, <1>3 DEF Shapes
    <3>2. SavedVersion(r, RecordOf(acks, r.key)) \in Nat
      BY <3>1 DEF SavedVersion
    <3>3. G(r) = [r EXCEPT !.saved = SavedVersion(r, RecordOf(acks, r.key))]
      BY <2>2
    <3> HIDE DEF G
    <3>4. QED BY <2>1, <2>2, <3>2, <3>3 DEF Shapes
  <2>3. CASE ~ Has(acks, r.key)
    BY <2>1, <2>3
  <2>4. QED BY <2>2, <2>3
<1>5. minutes' \in Seq(Shapes) /\ ToSet(minutes') = H
  <2>1. /\ minutes \in Seq(Shapes) /\ DOMAIN minutes = 1 .. Len(minutes) /\ Len(minutes) \in Nat
        /\ Buffered = {minutes[i] : i \in DOMAIN minutes}
    BY LenProperties DEF ChartInv, ChartTyped, Buffered, ToSet
  <2>2. \A i \in DOMAIN minutes : minutes[i] \in Buffered /\ G(minutes[i]) \in Shapes
    BY <2>1, <1>4
  <2> HIDE DEF G
  <2>3. minutes' \in [1 .. Len(minutes) -> Shapes]
    BY <2>1, <2>2, <1>1
  <2>4. minutes' \in Seq(Shapes)
    BY <2>1, <2>3, SeqDef
  <2>5. ToSet(minutes') = {G(minutes[i]) : i \in DOMAIN minutes}
    BY <1>1 DEF ToSet
  <2>6. ASSUME NEW x \in H PROVE x \in {G(minutes[i]) : i \in DOMAIN minutes}
    <3>1. PICK r \in Buffered : x = G(r)
      OBVIOUS
    <3>2. PICK i \in DOMAIN minutes : r = minutes[i]
      BY <2>1
    <3>3. QED BY <3>1, <3>2
  <2>7. \A x \in {G(minutes[i]) : i \in DOMAIN minutes} : x \in H
    BY <2>2
  <2>8. QED BY <2>4, <2>5, <2>6, <2>7
<1>6. Buffered' = H /\ Copies' \subseteq Copies /\ Copies' = UNION todo /\ Copies = Copies' \cup acks
  BY <1>1, <1>5 DEF Buffered, Copies
<1>7. ASSUME NEW h \in H PROVE \E r \in Buffered : h = G(r)
  OBVIOUS
<1>8. \A r \in Buffered : G(r) \in H
  OBVIOUS
<1> HIDE DEF H, G
<1>9. ChartTyped'
  BY <1>1, <1>5 DEF ChartInv, ChartTyped
<1>10. RecordsFit'
  <2>1. (OneEach(Buffered))'
    <3>1. ASSUME NEW x \in H, NEW y \in H, x.key = y.key PROVE x = y
      <4>1. PICK r \in Buffered : x = G(r)
        BY <1>7
      <4>2. PICK q \in Buffered : y = G(q)
        BY <1>7
      <4>3. r.key = q.key
        BY <3>1, <4>1, <4>2, <1>4
      <4>4. r = q
        BY <4>3, BufferedIs
      <4>5. QED BY <4>1, <4>2, <4>4
    <3>2. QED BY <3>1, <1>6 DEF OneEach
  <2>2. (OneEach(Copies))'
    <3>1. OneEach(Copies)
      BY DEF ChartInv, RecordsFit
    <3>2. QED BY <3>1, <1>6 DEF OneEach
  <2>3. ASSUME NEW r \in H \cup Copies' PROVE Reduced(r)'
    <3>1. CASE r \in H
      <4>1. PICK q \in Buffered : r = G(q)
        BY <3>1, <1>7
      <4>2. r.segments = Reduction(r.all)
        BY <4>1, <1>4 DEF Reduced
      <4>3. QED BY <4>2, <1>2 DEF Reduced
    <3>2. CASE r \in Copies'
      <4>1. r.segments = Reduction(r.all)
        BY <3>2, <1>6, CopyIs DEF Reduced
      <4>2. QED BY <4>1, <1>2 DEF Reduced
    <3>3. QED BY <3>1, <3>2
  <2>4. \A r \in (Buffered \cup Copies)' : Reduced(r)'
    BY <2>3, <1>6
  <2>5. \A p, q \in todo : p # q => p \cap q = {}
    BY DEF ChartInv, RecordsFit
  <2>6. QED BY <2>1, <2>2, <2>4, <2>5, <1>1 DEF RecordsFit
<1>11. ASSUME NEW r \in Buffered, r.key \notin overflowed
       PROVE  /\ G(r).saved <= G(r).version
              /\ G(r).saved = G(r).version => r.all \subseteq onDisk[r.key]
  <2>1. Settled(r)
    BY <1>11 DEF ChartInv, MarksFit
  <2>2. CASE ~ Has(acks, r.key)
    BY <2>1, <2>2, <1>4 DEF Settled
  <2>3. CASE Has(acks, r.key)
    <3> DEFINE c == RecordOf(acks, r.key)
    <3>1. c \in acks /\ c.key = r.key /\ c \in Copies /\ c \in Shapes /\ c.all \subseteq onDisk[r.key]
      BY <2>3, <1>3, <1>4
    <3> HIDE DEF c
    <3>2. PICK q \in Buffered : Copied(c, q)
      BY <3>1, <1>11 DEF ChartInv, MarksFit
    <3>3. q = r
      BY <3>1, <3>2, BufferedIs DEF Copied
    <3>4. /\ r.saved < c.version /\ c.version <= r.version /\ (c.version = r.version => c.all = r.all)
          /\ c.version \in Nat /\ r.version \in Nat /\ r.saved \in Nat
      BY <3>1, <3>2, <3>3, <1>4 DEF Copied, Shapes
    <3>5. G(r).saved = c.version /\ G(r).version = r.version
      BY <2>3, <3>4, <1>4 DEF SavedVersion, c
    <3>6. QED BY <3>1, <3>4, <3>5
  <2>4. QED BY <2>2, <2>3
<1>12. MarksFit'
  <2>1. ASSUME NEW h \in H, h.key \notin overflowed PROVE Settled(h)'
    <3>1. PICK r \in Buffered : h = G(r)
      BY <1>7
    <3>2. h.key = r.key /\ h.all = r.all
      BY <3>1, <1>4
    <3>3. h.saved <= h.version /\ (h.saved = h.version => h.all \subseteq onDisk[h.key])
      BY <2>1, <3>1, <3>2, <1>11
    <3>4. QED BY <3>3, <1>1 DEF Settled
  <2>2. ASSUME NEW c \in Copies', c.key \notin overflowed PROVE \E h \in H : Copied(c, h)
    <3>1. c \in Copies /\ c \in UNION todo
      BY <1>6
    <3>2. PICK r \in Buffered : Copied(c, r)
      BY <2>2, <3>1 DEF ChartInv, MarksFit
    <3>3. r.key = c.key
      BY <3>2 DEF Copied
    <3>4. ~ Has(acks, r.key)
      <4>1. SUFFICES ASSUME Has(acks, r.key) PROVE FALSE
        OBVIOUS
      <4>2. PICK d \in acks : d.key = c.key
        BY <4>1, <3>3 DEF Has
      <4>3. d \in Copies
        BY <4>2 DEF Copies
      <4>4. d = c
        BY <3>1, <4>2, <4>3, CopyIs
      <4>5. PICK p \in todo : c \in p
        BY <3>1
      <4>6. p \cap acks = {}
        BY <4>5 DEF ChartInv, RecordsFit
      <4>7. QED BY <4>2, <4>4, <4>5, <4>6
    <3>5. G(r) = r
      BY <3>4 DEF G
    <3>6. QED BY <3>2, <3>5, <1>8
  <2>3. QED BY <2>1, <2>2, <1>1, <1>6 DEF MarksFit, Copied
<1>13. (disk = [k \in Keys |-> Reduction(onDisk[k])])'
  <2>1. disk = [k \in Keys |-> Reduction(onDisk[k])]
    BY DEF ChartInv
  <2>2. QED BY <2>1, <1>1, <1>2
<1>14. ASSUME NEW k \in Keys \ overflowed', NEW x \in accepted'[k]
       PROVE  Kept(k, x)'
  <2>1. Kept(k, x) /\ k \notin overflowed
    BY <1>1 DEF ChartInv, NoSilentLoss
  <2>2. CASE x \in onDisk[k] \/ x \in counted[k]
    BY <2>2, <1>1 DEF Kept
  <2>3. CASE \E r \in Buffered : r.key = k /\ x \in r.all
    <3>1. PICK r \in Buffered : r.key = k /\ x \in r.all
      BY <2>3
    <3>2. G(r) \in H /\ G(r).key = k /\ x \in G(r).all
      BY <3>1, <1>4, <1>8
    <3>3. CASE Unsaved(G(r))
      BY <3>2, <3>3, <1>6 DEF Kept, Unsaved
    <3>4. CASE ~ Unsaved(G(r))
      <4>1. x \in onDisk[k]
        BY <3>1, <3>4, <2>1, <1>11 DEF Unsaved
      <4>2. QED BY <4>1, <1>1 DEF Kept
    <3>5. QED BY <3>3, <3>4
  <2>4. QED BY <2>1, <2>2, <2>3 DEF Kept
<1>15. NoSilentLoss'
  BY <1>14 DEF NoSilentLoss
<1>16. QED BY <1>9, <1>10, <1>12, <1>13, <1>15 DEF ChartInv

\* The death of the process keeps it: what it held is counted.
LEMMA CrashKeeps ==
  ASSUME ChartInv, crash
  PROVE  ChartInv'
<1>1. /\ minutes' = <<>> /\ todo' = {} /\ acks' = {}
      /\ counted' = [k \in Keys |-> counted[k] \cup UNION {r.all : r \in {x \in Buffered : x.key = k}}]
      /\ UNCHANGED <<time, quote, disk, onDisk, accepted, overflowed>>
  BY DEF crash, file
<1>2. \A T : Reduction(T)' = Reduction(T)
  BY <1>1, SameReduction
<1>3. Buffered' = {} /\ Copies' = {}
  BY <1>1 DEF Buffered, Copies, ToSet
<1>4. ChartTyped'
  <2>1. \A r \in Buffered : r.all \in SUBSET Times
    BY BufferedIs DEF Shapes
  <2>2. \A k \in Keys : counted[k] \in SUBSET Times
    BY DEF ChartInv, ChartTyped
  <2>3. \A k \in Keys : UNION {r.all : r \in {x \in Buffered : x.key = k}} \in SUBSET Times
    BY <2>1
  <2>4. counted' \in [Keys -> SUBSET Times]
    BY <2>2, <2>3, <1>1
  <2>5. minutes' \in Seq(Shapes)
    BY <1>1, EmptySeq
  <2>6. QED BY <2>4, <2>5, <1>1 DEF ChartInv, ChartTyped
<1>5. RecordsFit'
  BY <1>1, <1>3 DEF RecordsFit, OneEach
<1>6. MarksFit'
  BY <1>3 DEF MarksFit
<1>7. (disk = [k \in Keys |-> Reduction(onDisk[k])])'
  <2>1. disk = [k \in Keys |-> Reduction(onDisk[k])]
    BY DEF ChartInv
  <2>2. QED BY <2>1, <1>1, <1>2
<1>8. ASSUME NEW k \in Keys \ overflowed', NEW x \in accepted'[k]
      PROVE  Kept(k, x)'
  <2>1. Kept(k, x)
    BY <1>1 DEF ChartInv, NoSilentLoss
  <2>2. counted'[k] = counted[k] \cup UNION {r.all : r \in {y \in Buffered : y.key = k}}
    BY <1>1
  <2>3. x \in onDisk[k] \/ x \in counted'[k]
    BY <2>1, <2>2 DEF Kept
  <2>4. QED BY <2>3, <1>1 DEF Kept
<1>9. NoSilentLoss'
  BY <1>8 DEF NoSilentLoss
<1>10. QED BY <1>4, <1>5, <1>6, <1>7, <1>9 DEF ChartInv

\* It holds at first, with nothing read.
LEMMA ChartStarts ==
  ASSUME ChartInit
  PROVE  ChartInv
<1>1. Buffered = {} /\ Copies = {}
  BY DEF ChartInit, Buffered, Copies, ToSet
<1>2. NoSamples \in [Keys -> SUBSET Times] /\ \A k \in Keys : NoSamples[k] = {}
  BY DEF NoSamples
<1>3. 0 \in Times
  BY HistoryAssumption DEF Times
<1>4. minutes \in Seq(Shapes)
  BY EmptySeq DEF ChartInit
<1>5. ChartTyped
  BY <1>2, <1>3, <1>4 DEF ChartInit, ChartTyped
<1>6. RecordsFit /\ MarksFit
  BY <1>1 DEF ChartInit, RecordsFit, MarksFit, OneEach
<1>7. disk = [k \in Keys |-> Reduction(onDisk[k])]
  <2>1. \A k \in Keys : onDisk[k] = {}
    BY <1>2 DEF ChartInit
  <2>2. Reduction({}) = <<>>
    BY EmptyReduction
  <2>3. QED BY <2>1, <2>2 DEF ChartInit
<1>8. NoSilentLoss
  BY <1>2 DEF ChartInit, NoSilentLoss
<1>9. QED BY <1>5, <1>6, <1>7, <1>8 DEF ChartInv

\* Every step keeps it.
LEMMA ChartSteps ==
  ASSUME ChartInv, [ChartNext]_chartVars
  PROVE  ChartInv'
<1>1. CASE sample
  BY <1>1, SampleKeeps
<1>2. CASE snapshot
  BY <1>2, SnapshotKeeps
<1>3. CASE commit
  BY <1>3, CommitKeeps
<1>4. CASE fail
  <2>1. time \in Times
    BY DEF ChartInv, ChartTyped
  <2>2. QED BY <2>1, <1>4, FailKeeps DEF fail, file
<1>5. CASE acknowledge
  BY <1>5, AcknowledgeKeeps
<1>6. CASE crash
  BY <1>6, CrashKeeps
<1>7. CASE tick
  <2>1. time' \in Times
    BY <1>7, HistoryAssumption DEF tick, ChartInv, ChartTyped, Times
  <2>2. QED BY <2>1, <1>7, FailKeeps DEF tick, writing, file
<1>8. CASE UNCHANGED chartVars
  <2>1. time \in Times
    BY DEF ChartInv, ChartTyped
  <2>2. QED BY <2>1, <1>8, FailKeeps DEF chartVars, writing, file
<1>9. QED BY <1>1, <1>2, <1>3, <1>4, <1>5, <1>6, <1>7, <1>8 DEF ChartNext

\* A chart shows every sample there was, once, or says how many it lacks: for any series,
\* quotes, widths and limits, over failed transactions, a full buffer and a restart.
THEOREM ChartWhole == ChartSpec => []ChartIsWhole
<1>1. ChartInit => ChartInv
  BY ChartStarts
<1>2. ChartInv /\ [ChartNext]_chartVars => ChartInv'
  BY ChartSteps
<1>3. ChartInv => ChartIsWhole
  BY DEF ChartInv, ChartIsWhole, FileIsExact
<1>4. QED BY <1>1, <1>2, <1>3, PTL DEF ChartSpec
=============================================================================
