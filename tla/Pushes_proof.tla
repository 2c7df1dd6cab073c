---------------------------- MODULE Pushes_proof ----------------------------
(***************************************************************************)
(* Proofs about what is pushed and marked, whatever is lost, restarted or    *)
(* runs beside it: the judgements on watched symbols, their medium-term view, *)
(* the scans for trends, and the divergences and trackings of the basis.      *)
(***************************************************************************)
EXTENDS ThoughtPush, ThoughtHorizon, TrendScans, Basis, SequenceTheorems, TLAPS

-----------------------------------------------------------------------------
(* Judgements on watched symbols. *)

EventType == [symbol : Symbols, direction : Directions, zone : Zones, after : Nat, shift : BOOLEAN,
              at : Int, status : {"reserved", "sent", "rejected", "uncertain"}]

\* What was judged last of a symbol is its last event.
JudgedLast(s) ==
  /\ judged[s].version \in Nat /\ judged[s].at \in Int
  /\ judged[s].version = 0 => /\ judged[s].direction = "none"
                              /\ \A i \in DOMAIN pushEvents : pushEvents[i].symbol # s
  /\ judged[s].version # 0 =>
       /\ judged[s].version \in DOMAIN pushEvents
       /\ pushEvents[judged[s].version].symbol = s
       /\ pushEvents[judged[s].version].direction = judged[s].direction
       /\ pushEvents[judged[s].version].at = judged[s].at
       /\ \A i \in DOMAIN pushEvents : i > judged[s].version => pushEvents[i].symbol # s

\* A pass that will push has news of what was judged last, or its cooldown is over.
PassSound(pass) ==
  \/ pass = NoRound
  \/ pass.stage = "reserved" /\ pass.event \in DOMAIN pushEvents
  \/ /\ pass.stage = "decided" /\ pass.symbol \in Symbols /\ pass.direction \in Directions
     /\ pass.zone \in Zones /\ pass.after \in Nat /\ pass.shift \in BOOLEAN
     /\ judged[pass.symbol].direction = pass.direction /\ ~ pass.shift
          => thoughtTime - judged[pass.symbol].at >= RepeatCooldown

\* With the lock of the database, one process is in a pass at a time.
OneAtATime == \A p, q \in Processes : rounds[p] # NoRound /\ rounds[q] # NoRound => p = q

ThoughtInv ==
  /\ thoughtTime \in Nat /\ pushEvents \in Seq(EventType)
  /\ judged = [s \in Symbols |-> judged[s]] /\ rounds = [p \in Processes |-> rounds[p]]
  /\ \A s \in Symbols : JudgedLast(s)
  /\ \A p \in Processes : PassSound(rounds[p])
  /\ OneAtATime /\ NotSaidAgain

\* The sign that no pass runs is no pass.
LEMMA NoRoundIs == NoRound.stage = "none" /\ \A r : r.stage \in {"decided", "reserved"} => r # NoRound
BY DEF NoRound

\* Without news, what was judged last is pushed only when its cooldown is over.
LEMMA VerdictWaits ==
  ASSUME NEW s \in Symbols, NEW c, NEW d \in Directions, NEW shift \in BOOLEAN, NEW deep \in BOOLEAN,
         Verdict(s, c, d, shift, deep).push, judged[s].direction = d, ~ shift
  PROVE  ~ Cooling(s)
<1>1. d # "none"
  BY ThoughtAssumption DEF ThoughtAssumption
<1>2. CASE classOf[s] = "turnover"
  <2>1. Verdict(s, c, d, shift, deep) = [push |-> shift \/ ~ Cooling(s), left |-> NoCandidate, steady |-> TRUE]
    BY <1>1, <1>2 DEF Verdict
  <2>2. QED BY <2>1
<1>3. CASE classOf[s] # "turnover" /\ Cooling(s)
  <2>1. Verdict(s, c, d, shift, deep) = [push |-> shift, left |-> Unsteadied(c, d), steady |-> TRUE]
    BY <1>1, <1>3 DEF Verdict
  <2>2. QED BY <2>1
<1>4. QED BY <1>2, <1>3

\* Nothing that was said changes.
LEMMA SameEvents ==
  ASSUME ThoughtInv, pushEvents' = pushEvents
  PROVE  NotSaidAgain'
BY DEF ThoughtInv, NotSaidAgain

\* A judgement starts a pass only when none runs, and one that may push.
LEMMA WatchKeeps ==
  ASSUME Locking, ThoughtInv, NEW p \in Processes, WatchSymbol(p)
  PROVE  ThoughtInv'
<1>1. UNCHANGED <<thoughtTime, judged, pushEvents>>
  BY DEF WatchSymbol
<1>2. \A q \in Processes : rounds[q] = NoRound
  BY DEF WatchSymbol, MayEnter
<1>3. rounds' = rounds \/ \E pass : rounds' = [rounds EXCEPT ![p] = pass] /\ PassSound(pass)
  <2>1. PICK s \in Symbols, d \in Directions, z \in Zones, shift \in BOOLEAN, deep \in BOOLEAN :
          LET v == Verdict(s, candidates[p][s], d, shift, deep)
          IN \/ rounds' = rounds
             \/ /\ v.push
                /\ rounds' = [rounds EXCEPT ![p] =
                     [stage |-> "decided", symbol |-> s, direction |-> d, zone |-> z,
                      after |-> judged[s].version, shift |-> shift, steady |-> v.steady]]
    BY DEF WatchSymbol
  <2> DEFINE v == Verdict(s, candidates[p][s], d, shift, deep)
             pass == [stage |-> "decided", symbol |-> s, direction |-> d, zone |-> z,
                      after |-> judged[s].version, shift |-> shift, steady |-> v.steady]
  <2>2. CASE rounds' = rounds
    BY <2>2
  <2>3. CASE v.push /\ rounds' = [rounds EXCEPT ![p] = pass]
    <3>1. judged[s].direction = d /\ ~ shift => ~ Cooling(s)
      BY <2>3, VerdictWaits
    <3>2. judged[s].version \in Nat /\ judged[s].at \in Int /\ thoughtTime \in Nat /\ RepeatCooldown \in Nat
      BY ThoughtAssumption DEF ThoughtAssumption, ThoughtInv, JudgedLast
    <3>3. /\ pass.stage = "decided" /\ pass.symbol = s /\ pass.direction = d /\ pass.zone = z
          /\ pass.after = judged[s].version /\ pass.shift = shift
      OBVIOUS
    <3> HIDE DEF pass, v
    <3>4. PassSound(pass)
      BY <3>1, <3>2, <3>3 DEF PassSound, Cooling
    <3>5. QED BY <2>3, <3>4
  <2>4. QED BY <2>1, <2>2, <2>3
<1>4. \A pass : PassSound(pass) => PassSound(pass)'
  BY <1>1 DEF PassSound
<1>5. \A q \in Processes : PassSound(rounds[q])'
  BY <1>3, <1>4 DEF ThoughtInv
<1>6. OneAtATime'
  BY <1>2, <1>3 DEF ThoughtInv, OneAtATime
<1>7. \A s \in Symbols : JudgedLast(s)'
  BY <1>1 DEF ThoughtInv, JudgedLast
<1>8. rounds' = [q \in Processes |-> rounds'[q]]
  BY <1>3 DEF ThoughtInv
<1>9. QED BY <1>1, <1>5, <1>6, <1>7, <1>8, SameEvents DEF ThoughtInv

\* A pass that ends without a push: the others are as they were.
LEMMA RoundEnds ==
  ASSUME ThoughtInv, NEW p \in Processes, rounds' = [rounds EXCEPT ![p] = NoRound],
         UNCHANGED <<thoughtTime, judged, pushEvents>>
  PROVE  ThoughtInv'
<1>1. /\ rounds' = [q \in Processes |-> rounds'[q]]
      /\ \A q \in Processes : rounds'[q] = rounds[q] \/ rounds'[q] = NoRound
  BY DEF ThoughtInv
<1>2. \A q \in Processes : PassSound(rounds[q])'
  BY <1>1 DEF ThoughtInv, PassSound
<1>3. OneAtATime'
  BY <1>1 DEF ThoughtInv, OneAtATime
<1>4. \A s \in Symbols : JudgedLast(s)'
  BY DEF ThoughtInv, JudgedLast
<1>5. QED BY <1>1, <1>2, <1>3, <1>4, SameEvents DEF ThoughtInv

\* What an appended event leaves of the others.
LEMMA Appended ==
  ASSUME ThoughtInv, NEW e \in EventType, pushEvents' = Append(pushEvents, e)
  PROVE  /\ pushEvents' \in Seq(EventType) /\ Len(pushEvents) \in Nat
         /\ DOMAIN pushEvents = 1 .. Len(pushEvents) /\ DOMAIN pushEvents' = 1 .. Len(pushEvents) + 1
         /\ \A i \in DOMAIN pushEvents : pushEvents'[i] = pushEvents[i]
         /\ pushEvents'[Len(pushEvents) + 1] = e
<1>1. pushEvents \in Seq(EventType)
  BY DEF ThoughtInv
<1>2. Len(pushEvents) \in Nat /\ DOMAIN pushEvents = 1 .. Len(pushEvents)
  BY <1>1, LenProperties
<1>3. /\ pushEvents' \in Seq(EventType) /\ Len(pushEvents') = Len(pushEvents) + 1
      /\ \A i \in 1 .. Len(pushEvents) : pushEvents'[i] = pushEvents[i]
      /\ pushEvents'[Len(pushEvents) + 1] = e
  BY <1>1, AppendProperties
<1>4. DOMAIN pushEvents' = 1 .. Len(pushEvents')
  BY <1>3, LenProperties
<1>5. QED BY <1>2, <1>3, <1>4

\* A reserved push is the last word on its symbol, and it had news or waited.
LEMMA PushKeeps ==
  ASSUME ThoughtInv, NEW p \in Processes, rounds[p].stage = "decided", UNCHANGED thoughtTime,
         NEW e \in EventType, pushEvents' = Append(pushEvents, e),
         e.symbol = rounds[p].symbol, e.direction = rounds[p].direction, e.at = thoughtTime,
         e.shift = rounds[p].shift,
         NEW zone, judged' = [judged EXCEPT ![rounds[p].symbol] =
                     [direction |-> e.direction, zone |-> zone, at |-> thoughtTime, version |-> Len(pushEvents) + 1]],
         rounds' = [rounds EXCEPT ![p] = [stage |-> "reserved", event |-> Len(pushEvents) + 1]]
  PROVE  ThoughtInv'
<1> DEFINE s == rounds[p].symbol
           n == Len(pushEvents) + 1
<1>1. /\ pushEvents' \in Seq(EventType) /\ Len(pushEvents) \in Nat
      /\ DOMAIN pushEvents = 1 .. Len(pushEvents) /\ DOMAIN pushEvents' = 1 .. n
      /\ \A i \in DOMAIN pushEvents : pushEvents'[i] = pushEvents[i]
      /\ pushEvents'[n] = e
  BY Appended
<1>2. /\ PassSound(rounds[p]) /\ rounds[p] # NoRound /\ thoughtTime \in Nat
      /\ \A q \in Symbols : JudgedLast(q)
  BY NoRoundIs DEF ThoughtInv
<1>3. /\ s \in Symbols
      /\ judged[s].direction = e.direction /\ ~ e.shift => thoughtTime - judged[s].at >= RepeatCooldown
  BY <1>2 DEF PassSound, NoRound
<1>4. JudgedLast(s)
  BY <1>2, <1>3
<1>5. NotSaidAgain'
  <2>1. ASSUME NEW j \in DOMAIN pushEvents', NEW i \in 1 .. j - 1,
               pushEvents'[i].symbol = pushEvents'[j].symbol,
               pushEvents'[i].direction = pushEvents'[j].direction,
               pushEvents'[i].zone = pushEvents'[j].zone, ~ pushEvents'[j].shift,
               \A k \in i + 1 .. j - 1 : pushEvents'[k].symbol # pushEvents'[j].symbol
        PROVE  pushEvents'[j].at - pushEvents'[i].at >= RepeatCooldown
    <3>1. CASE j \in DOMAIN pushEvents
      <4>1. i \in DOMAIN pushEvents /\ \A k \in i + 1 .. j - 1 : k \in DOMAIN pushEvents
        BY <1>1, <3>1
      <4>2. \A k \in i + 1 .. j - 1 : pushEvents[k].symbol # pushEvents[j].symbol
        BY <1>1, <2>1, <3>1, <4>1
      <4>3. /\ pushEvents[i].symbol = pushEvents[j].symbol /\ pushEvents[i].direction = pushEvents[j].direction
            /\ pushEvents[i].zone = pushEvents[j].zone /\ ~ pushEvents[j].shift
        BY <1>1, <2>1, <3>1, <4>1
      <4>4. pushEvents[j].at - pushEvents[i].at >= RepeatCooldown
        BY <3>1, <4>2, <4>3 DEF ThoughtInv, NotSaidAgain
      <4>5. QED BY <1>1, <3>1, <4>1, <4>4
    <3>2. CASE j = n
      <4>1. i \in DOMAIN pushEvents /\ pushEvents'[i] = pushEvents[i] /\ pushEvents'[j] = e
        BY <1>1, <3>2
      <4>2. pushEvents[i].symbol = s
        BY <2>1, <4>1
      <4>3. judged[s].version # 0 /\ judged[s].version \in DOMAIN pushEvents /\ ~ (i > judged[s].version)
        BY <1>4, <4>1, <4>2 DEF JudgedLast
      <4>4. ~ (judged[s].version > i)
        <5>1. ASSUME judged[s].version > i PROVE FALSE
          <6>1. judged[s].version \in i + 1 .. j - 1
            BY <1>1, <3>2, <4>1, <4>3, <5>1
          <6>2. pushEvents'[judged[s].version].symbol # e.symbol
            BY <2>1, <4>1, <6>1
          <6>3. QED BY <1>1, <1>4, <4>3, <6>2 DEF JudgedLast
        <5>2. QED BY <5>1
      <4>5. i = judged[s].version
        BY <1>1, <4>1, <4>3, <4>4
      <4>6. pushEvents[i].direction = judged[s].direction /\ pushEvents[i].at = judged[s].at
        BY <1>4, <4>3, <4>5 DEF JudgedLast
      <4>7. judged[s].direction = e.direction /\ ~ e.shift
        BY <2>1, <4>1, <4>6
      <4>8. QED BY <1>3, <4>1, <4>6, <4>7
    <3>3. QED BY <1>1, <3>1, <3>2
  <2>2. QED BY <2>1 DEF NotSaidAgain
<1>6. ASSUME NEW q \in Symbols PROVE JudgedLast(q)'
  <2>1. CASE q = s
    <3>1. /\ judged'[q] = [direction |-> e.direction, zone |-> zone, at |-> thoughtTime, version |-> n]
      BY <1>3, <2>1 DEF ThoughtInv
    <3>2. /\ judged'[q].version = n /\ judged'[q].at = thoughtTime /\ judged'[q].direction = e.direction
      BY <3>1
    <3>3. n \in DOMAIN pushEvents' /\ n # 0 /\ n \in Nat /\ \A i \in DOMAIN pushEvents' : ~ (i > n)
      BY <1>1
    <3>4. QED BY <1>1, <1>2, <2>1, <3>2, <3>3 DEF JudgedLast
  <2>2. CASE q # s
    <3>1. judged'[q] = judged[q] /\ JudgedLast(q)
      BY <1>2, <2>2 DEF ThoughtInv
    <3>2. \A i \in DOMAIN pushEvents' : pushEvents'[i].symbol = q => i \in DOMAIN pushEvents /\ pushEvents[i].symbol = q
      BY <1>1, <2>2
    <3>3. QED BY <1>1, <3>1, <3>2 DEF JudgedLast
  <2>3. QED BY <2>1, <2>2
<1>7. rounds' = [q \in Processes |-> rounds'[q]] /\ judged' = [q \in Symbols |-> judged'[q]]
  BY DEF ThoughtInv
<1>8. ASSUME NEW q \in Processes PROVE PassSound(rounds[q])' /\ (rounds'[q] # NoRound => q = p)
  <2>1. CASE q = p
    <3>1. rounds'[q] = [stage |-> "reserved", event |-> n]
      BY <2>1 DEF ThoughtInv
    <3>2. n \in DOMAIN pushEvents'
      BY <1>1
    <3>3. QED BY <2>1, <3>1, <3>2 DEF PassSound
  <2>2. CASE q # p
    <3>1. rounds'[q] = rounds[q] /\ rounds[q] = NoRound
      BY <1>2, <2>2 DEF ThoughtInv, OneAtATime
    <3>2. QED BY <3>1 DEF PassSound
  <2>3. QED BY <2>1, <2>2
<1>9. OneAtATime'
  BY <1>8 DEF OneAtATime
<1>10. QED BY <1>1, <1>2, <1>5, <1>6, <1>7, <1>8, <1>9 DEF ThoughtInv

\* A reservation adds the event and judges by it, or gives the pass up.
LEMMA ReserveKeeps ==
  ASSUME ThoughtInv, NEW p \in Processes, Reserve(p)
  PROVE  ThoughtInv'
<1> DEFINE pass == rounds[p]
           s == pass.symbol
           number == Len(pushEvents) + 1
           e == [symbol |-> s, direction |-> pass.direction, zone |-> pass.zone, after |-> pass.after,
                 shift |-> pass.shift, at |-> thoughtTime, status |-> "reserved"]
<1>1. /\ pass.stage = "decided" /\ UNCHANGED thoughtTime
      /\ \/ /\ pushEvents' = Append(pushEvents, e)
            /\ judged' = [judged EXCEPT ![s] =
                 [direction |-> pass.direction, zone |-> pass.zone, at |-> thoughtTime, version |-> number]]
            /\ rounds' = [rounds EXCEPT ![p] = [stage |-> "reserved", event |-> number]]
         \/ rounds' = [rounds EXCEPT ![p] = NoRound] /\ UNCHANGED <<pushEvents, judged>>
  BY DEF Reserve
<1>2. CASE rounds' = [rounds EXCEPT ![p] = NoRound] /\ UNCHANGED <<pushEvents, judged>>
  BY <1>1, <1>2, RoundEnds
<1>3. CASE /\ pushEvents' = Append(pushEvents, e)
           /\ judged' = [judged EXCEPT ![s] =
                [direction |-> pass.direction, zone |-> pass.zone, at |-> thoughtTime, version |-> number]]
           /\ rounds' = [rounds EXCEPT ![p] = [stage |-> "reserved", event |-> number]]
  <2>1. /\ s \in Symbols /\ pass.direction \in Directions /\ pass.zone \in Zones /\ pass.after \in Nat
        /\ pass.shift \in BOOLEAN /\ thoughtTime \in Nat
    <3>1. PassSound(pass) /\ thoughtTime \in Nat
      BY DEF ThoughtInv
    <3>2. QED BY <1>1, <3>1, NoRoundIs DEF PassSound
  <2>2. e \in EventType
    BY <2>1 DEF EventType
  <2>3. e.symbol = s /\ e.direction = pass.direction /\ e.at = thoughtTime /\ e.shift = pass.shift
    OBVIOUS
  <2> HIDE DEF e
  <2>4. QED BY <1>1, <1>3, <2>2, <2>3, PushKeeps
<1>4. QED BY <1>1, <1>2, <1>3

\* The answer marks its own event and nothing else of it.
LEMMA AnswerKeeps ==
  ASSUME ThoughtInv, NEW p \in Processes, LarkAnswers(p)
  PROVE  ThoughtInv'
<1> DEFINE n == rounds[p].event
<1>1. /\ rounds[p].stage = "reserved" /\ rounds' = [rounds EXCEPT ![p] = NoRound]
      /\ UNCHANGED <<thoughtTime, judged>>
  BY DEF LarkAnswers
<1>2. PICK status \in {"sent", "rejected", "uncertain", "reserved"} :
        pushEvents' = [pushEvents EXCEPT ![n].status = status]
  BY DEF LarkAnswers
<1>3. n \in DOMAIN pushEvents
  BY <1>1, NoRoundIs DEF ThoughtInv, PassSound
<1>4. pushEvents \in Seq(EventType) /\ Len(pushEvents) \in Nat /\ DOMAIN pushEvents = 1 .. Len(pushEvents)
  BY LenProperties DEF ThoughtInv
<1> DEFINE new == [pushEvents[n] EXCEPT !.status = status]
<1>5. pushEvents[n] \in EventType
  BY <1>3, <1>4, ElementOfSeq
<1>6. /\ new \in EventType /\ new.symbol = pushEvents[n].symbol /\ new.direction = pushEvents[n].direction
      /\ new.zone = pushEvents[n].zone /\ new.at = pushEvents[n].at /\ new.shift = pushEvents[n].shift
  BY <1>5 DEF EventType
<1>7. pushEvents' = [pushEvents EXCEPT ![n] = new]
  BY <1>2
<1> HIDE DEF new
<1>8. /\ pushEvents' \in Seq(EventType) /\ DOMAIN pushEvents' = DOMAIN pushEvents
      /\ \A i \in DOMAIN pushEvents : pushEvents'[i] = IF i = n THEN new ELSE pushEvents[i]
  BY <1>3, <1>4, <1>6, <1>7, ExceptSeq
<1>9. \A i \in DOMAIN pushEvents :
        /\ pushEvents'[i].symbol = pushEvents[i].symbol /\ pushEvents'[i].direction = pushEvents[i].direction
        /\ pushEvents'[i].zone = pushEvents[i].zone /\ pushEvents'[i].at = pushEvents[i].at
        /\ pushEvents'[i].shift = pushEvents[i].shift
  BY <1>6, <1>8
<1>10. NotSaidAgain'
  <2>1. ASSUME NEW j \in DOMAIN pushEvents', NEW i \in 1 .. j - 1,
               pushEvents'[i].symbol = pushEvents'[j].symbol,
               pushEvents'[i].direction = pushEvents'[j].direction,
               pushEvents'[i].zone = pushEvents'[j].zone, ~ pushEvents'[j].shift,
               \A k \in i + 1 .. j - 1 : pushEvents'[k].symbol # pushEvents'[j].symbol
        PROVE  pushEvents'[j].at - pushEvents'[i].at >= RepeatCooldown
    <3>1. j \in DOMAIN pushEvents /\ i \in DOMAIN pushEvents /\ \A k \in i + 1 .. j - 1 : k \in DOMAIN pushEvents
      BY <1>4, <1>8
    <3>2. \A k \in i + 1 .. j - 1 : pushEvents[k].symbol # pushEvents[j].symbol
      BY <1>9, <2>1, <3>1
    <3>3. pushEvents[j].at - pushEvents[i].at >= RepeatCooldown
      BY <1>9, <2>1, <3>1, <3>2 DEF ThoughtInv, NotSaidAgain
    <3>4. QED BY <1>9, <3>1, <3>3
  <2>2. QED BY <2>1 DEF NotSaidAgain
<1>11. ASSUME NEW s \in Symbols PROVE JudgedLast(s)'
  BY <1>1, <1>8, <1>9 DEF ThoughtInv, JudgedLast
<1>12. /\ rounds' = [q \in Processes |-> rounds'[q]]
       /\ \A q \in Processes : rounds'[q] = rounds[q] \/ rounds'[q] = NoRound
  BY <1>1 DEF ThoughtInv
<1>13. \A q \in Processes : PassSound(rounds[q])'
  BY <1>1, <1>8, <1>12 DEF ThoughtInv, PassSound
<1>14. OneAtATime'
  BY <1>12 DEF ThoughtInv, OneAtATime
<1>15. QED BY <1>1, <1>8, <1>10, <1>11, <1>12, <1>13, <1>14 DEF ThoughtInv

\* A judgement that was the last one said is not said again without news before its
\* cooldown is over: with the lock of the database no process comes between the comparison
\* with the last judgement and the push that follows it.
THEOREM SaidOnce == Locking => (ThoughtSpec => []NotSaidAgain)
<1> SUFFICES ASSUME Locking PROVE ThoughtSpec => []NotSaidAgain
  OBVIOUS
<1>1. ThoughtInit => ThoughtInv
  <2> SUFFICES ASSUME ThoughtInit PROVE ThoughtInv
    OBVIOUS
  <2>1. /\ thoughtTime = 0 /\ pushEvents = <<>> /\ rounds = [p \in Processes |-> NoRound]
        /\ judged = [s \in Symbols |-> NoSnapshot]
    BY DEF ThoughtInit
  <2>2. pushEvents \in Seq(EventType) /\ DOMAIN pushEvents = {}
    BY <2>1, EmptySeq
  <2>3. \A s \in Symbols : JudgedLast(s)
    BY <2>1, <2>2 DEF JudgedLast, NoSnapshot, Long
  <2>4. QED BY <2>1, <2>2, <2>3 DEF ThoughtInv, PassSound, OneAtATime, NotSaidAgain
<1>2. ASSUME ThoughtInv, [ThoughtNext]_thoughtVars
      PROVE  ThoughtInv'
  <2>1. CASE UNCHANGED thoughtVars
    BY <1>2, <2>1, SameEvents DEF thoughtVars, ThoughtInv, JudgedLast, PassSound, OneAtATime
  <2>2. CASE ThoughtTicks
    <3>1. thoughtTime' = thoughtTime + 1 /\ UNCHANGED <<rounds, judged, pushEvents>>
      BY <2>2 DEF ThoughtTicks
    <3>2. \A s \in Symbols : JudgedLast(s)'
      BY <1>2, <3>1 DEF ThoughtInv, JudgedLast
    <3>3. ASSUME NEW p \in Processes PROVE PassSound(rounds[p])'
      <4>1. PassSound(rounds[p]) /\ thoughtTime \in Nat /\ \A s \in Symbols : judged[s].at \in Int
        BY <1>2 DEF ThoughtInv, JudgedLast
      <4>2. RepeatCooldown \in Nat
        BY ThoughtAssumption DEF ThoughtAssumption
      <4>3. \A x \in Int : thoughtTime - x >= RepeatCooldown => thoughtTime + 1 - x >= RepeatCooldown
        BY <4>1, <4>2
      <4>4. QED BY <3>1, <4>1, <4>3 DEF PassSound
    <3>4. QED BY <1>2, <3>1, <3>2, <3>3, SameEvents DEF ThoughtInv, OneAtATime
  <2>3. ASSUME NEW p \in Processes, WatchSymbol(p) PROVE ThoughtInv'
    BY <1>2, <2>3, WatchKeeps
  <2>4. ASSUME NEW p \in Processes, Reserve(p) PROVE ThoughtInv'
    BY <1>2, <2>4, ReserveKeeps
  <2>5. ASSUME NEW p \in Processes, LarkAnswers(p) PROVE ThoughtInv'
    BY <1>2, <2>5, AnswerKeeps
  <2>6. ASSUME NEW p \in Processes, Die(p) PROVE ThoughtInv'
    BY <1>2, <2>6, RoundEnds DEF Die
  <2>7. ASSUME NEW p \in Processes, Unwatch(p) PROVE ThoughtInv'
    BY <1>2, <2>7, SameEvents DEF Unwatch, ThoughtInv, JudgedLast, PassSound, OneAtATime
  <2>8. QED BY <1>2, <2>1, <2>2, <2>3, <2>4, <2>5, <2>6, <2>7 DEF ThoughtNext
<1>3. ThoughtInv => NotSaidAgain
  BY DEF ThoughtInv
<1>4. QED BY <1>1, <1>2, <1>3, PTL DEF ThoughtSpec

-----------------------------------------------------------------------------
(* The medium-term view. *)

\* The states of the view and of the history beside it.
ViewType == [stable : Biases, candidate : Biases \cup {"none"}, since : Int, count : Nat]
StreakType == [bias : Biases \cup {"none"}, since : Int, scans : Nat]

\* What the view counts for a candidate the live snapshots really showed: no later than
\* the view began to count, and no fewer of them.
Backed(v, s) ==
  v.candidate # "none" => /\ s.bias = v.candidate /\ s.since <= v.since /\ s.scans >= v.count
                          /\ v.candidate # v.stable
HorizonInv ==
  /\ horizonTime \in Nat
  /\ streak \in StreakType /\ (streak.bias # "none" => streak.scans >= 1) /\ streak.since <= horizonTime
  /\ view = Unseen \/ (view \in ViewType /\ Backed(view, streak))

\* A row has a candidate, the sign that there is none has not.
LEMMA RowIsSeen == \A v \in ViewType : v # Unseen
<1> SUFFICES ASSUME NEW v \in ViewType PROVE v # Unseen
  OBVIOUS
<1>1. DOMAIN v = {"stable", "candidate", "since", "count"}
  BY DEF ViewType
<1>2. DOMAIN Unseen = {"stable"}
  BY DEF Unseen
<1>3. "count" \in DOMAIN v /\ "count" \notin DOMAIN Unseen
  BY <1>1, <1>2
<1>4. QED BY <1>3

\* The history counts a snapshot as the view does.
LEMMA StreakCounts ==
  ASSUME HorizonInv, NEW raw \in Biases
  PROVE  /\ Agreeing(raw) \in StreakType /\ Agreeing(raw).bias = raw /\ Agreeing(raw).scans >= 1
         /\ Agreeing(raw).since <= horizonTime
         /\ streak.bias = raw =>
              /\ Agreeing(raw).since = streak.since
              /\ Agreeing(raw).scans = IF streak.scans < ScansNeeded THEN streak.scans + 1 ELSE streak.scans
<1>1. /\ streak \in StreakType /\ horizonTime \in Nat /\ streak.since <= horizonTime
      /\ streak.bias # "none" => streak.scans >= 1
  BY DEF HorizonInv
<1>2. streak.scans \in Nat /\ streak.since \in Int /\ raw # "none"
  BY <1>1 DEF StreakType, Biases
<1>3. ScansNeeded \in Nat
  BY HorizonAssumption DEF HorizonAssumption
<1>4. CASE streak.bias = raw
  <2>1. Agreeing(raw) = [streak EXCEPT !.scans = IF @ < ScansNeeded THEN @ + 1 ELSE @]
    BY <1>4 DEF Agreeing
  <2>2. QED BY <1>1, <1>2, <1>3, <1>4, <2>1 DEF StreakType
<1>5. CASE streak.bias # raw
  <2>1. Agreeing(raw) = [bias |-> raw, since |-> horizonTime, scans |-> 1]
    BY <1>5 DEF Agreeing
  <2>2. QED BY <1>1, <1>5, <2>1 DEF StreakType
<1>6. QED BY <1>4, <1>5

\* What the view counts is backed by the history of the same snapshot.
LEMMA CountedIsBacked ==
  ASSUME HorizonInv, view \in ViewType, NEW raw \in Biases, raw # view.stable
  PROVE  /\ Counted(view, raw) \in ViewType /\ Backed(Counted(view, raw), Agreeing(raw))
         /\ Counted(view, raw).candidate = raw /\ Counted(view, raw).stable = view.stable
<1>1. horizonTime \in Nat /\ streak \in StreakType /\ Backed(view, streak)
  BY RowIsSeen DEF HorizonInv
<1>2. streak.scans \in Nat /\ streak.since \in Int /\ view.since \in Int /\ view.count \in Nat /\ raw # "none"
  BY <1>1 DEF StreakType, Biases, ViewType
<1>3. ScansNeeded \in Nat
  BY HorizonAssumption DEF HorizonAssumption
<1>4. CASE view.candidate = raw
  <2>1. Counted(view, raw) = [view EXCEPT !.count = IF @ < ScansNeeded THEN @ + 1 ELSE @]
    BY <1>4 DEF Counted
  <2>2. Counted(view, raw) \in ViewType
    BY <1>2, <1>3, <2>1 DEF ViewType
  <2>3. /\ Counted(view, raw).candidate = raw /\ Counted(view, raw).stable = view.stable
        /\ Counted(view, raw).since = view.since
        /\ Counted(view, raw).count = IF view.count < ScansNeeded THEN view.count + 1 ELSE view.count
    BY <1>4, <2>1 DEF ViewType
  <2>4. streak.bias = raw /\ streak.since <= view.since /\ streak.scans >= view.count
    BY <1>1, <1>2, <1>4 DEF Backed
  <2>5. QED BY <1>2, <1>3, <2>2, <2>3, <2>4, StreakCounts DEF Backed
<1>5. CASE view.candidate # raw
  <2>1. Counted(view, raw) = [view EXCEPT !.candidate = raw, !.since = horizonTime, !.count = 1]
    BY <1>5 DEF Counted
  <2>2. /\ Counted(view, raw).candidate = raw /\ Counted(view, raw).stable = view.stable
        /\ Counted(view, raw).since = horizonTime /\ Counted(view, raw).count = 1
        /\ Counted(view, raw) \in ViewType
    <3> DEFINE first == [view EXCEPT !.candidate = raw]
               next == [first EXCEPT !.since = horizonTime]
    <3>1. Counted(view, raw) = [next EXCEPT !.count = 1]
      BY <2>1
    <3>2. first \in ViewType /\ first.candidate = raw /\ first.stable = view.stable
      BY DEF ViewType
    <3> HIDE DEF first
    <3>3. /\ next \in ViewType /\ next.candidate = raw /\ next.stable = view.stable
          /\ next.since = horizonTime
      BY <1>1, <3>2 DEF ViewType
    <3> HIDE DEF next
    <3>4. QED BY <3>1, <3>3 DEF ViewType
  <2>3. QED BY <2>2, StreakCounts DEF Backed
<1>6. QED BY <1>4, <1>5

\* One snapshot: the view is backed as before, and turns only with what the history saw.
LEMMA ScanFollows ==
  ASSUME HorizonInv, Scan
  PROVE  /\ HorizonInv'
         /\ view # Unseen /\ view'.stable # view.stable =>
              /\ streak'.bias = view'.stable /\ streak'.scans >= ScansNeeded
              /\ horizonTime - streak'.since >= Needed(view.stable, view'.stable)
<1>1. horizonTime \in Nat /\ ScansNeeded \in Nat /\ horizonTime' \in Nat /\ horizonTime' >= horizonTime
  BY HorizonAssumption DEF HorizonAssumption, HorizonInv, Scan
<1>2. \A raw \in Biases : /\ Settled(raw) \in ViewType /\ Settled(raw).stable = raw
                          /\ Settled(raw).candidate = "none"
  BY DEF Settled, ViewType
<1>3. CASE ScanOld
  <2>1. PICK raw \in Biases : view' = Settled(raw)
    BY <1>3 DEF ScanOld
  <2>2. view = Unseen /\ UNCHANGED streak
    BY <1>3 DEF ScanOld
  <2>3. view' \in ViewType /\ view'.candidate = "none"
    BY <1>2, <2>1
  <2>4. /\ streak' \in StreakType /\ streak'.since <= horizonTime
        /\ streak'.bias # "none" => streak'.scans >= 1
    BY <2>2 DEF HorizonInv
  <2>5. streak'.since \in Int
    BY <2>4 DEF StreakType
  <2>6. HorizonInv'
    BY <1>1, <2>3, <2>4, <2>5 DEF HorizonInv, Backed
  <2>7. QED BY <2>2, <2>6
<1>4. CASE ScanLive
  <2>1. PICK raw \in Biases : /\ view' = IF view = Unseen THEN Settled(raw) ELSE Stabilized(view, raw)
                             /\ streak' = Agreeing(raw)
    BY <1>4 DEF ScanLive
  <2>2. /\ streak' \in StreakType /\ streak'.bias = raw /\ streak'.scans >= 1
        /\ streak'.since <= horizonTime /\ streak'.since \in Int /\ streak'.scans \in Nat
    BY <2>1, StreakCounts DEF StreakType
  <2>3. streak'.since <= horizonTime'
    BY <1>1, <2>2
  <2>4. ASSUME NEW bias \in Biases, view' = Settled(bias)
        PROVE  HorizonInv'
    BY <1>1, <1>2, <2>2, <2>3, <2>4 DEF HorizonInv, Backed
  <2>5. CASE view = Unseen
    BY <2>1, <2>4, <2>5
  <2>6. CASE view # Unseen /\ raw = view.stable
    <3>1. view' = Settled(view.stable)
      BY <2>1, <2>6 DEF Stabilized, CandidateGone
    <3>2. QED BY <1>2, <2>4, <2>6, <3>1
  <2>7. CASE view # Unseen /\ raw # view.stable
    <3> DEFINE next == Counted(view, raw)
    <3>1. view \in ViewType
      BY <2>7 DEF HorizonInv
    <3>2. /\ next \in ViewType /\ Backed(next, streak') /\ next.candidate = raw
          /\ next.stable = view.stable /\ next.since \in Int /\ next.count \in Nat
      BY <2>1, <2>7, <3>1, CountedIsBacked DEF ViewType
    <3>3. raw # "none"
      BY DEF Biases
    <3>4. view' = IF next.count >= ScansNeeded /\ horizonTime - next.since >= Needed(view.stable, raw)
                  THEN Settled(raw) ELSE next
      BY <2>1, <2>7 DEF Stabilized
    <3> HIDE DEF next
    <3>5. CASE next.count >= ScansNeeded /\ horizonTime - next.since >= Needed(view.stable, raw)
      <4>1. view' = Settled(raw) /\ view'.stable = raw
        BY <1>2, <3>4, <3>5
      <4>2. streak'.since <= next.since /\ streak'.scans >= next.count
        BY <3>2, <3>3 DEF Backed
      <4>3. Needed(view.stable, raw) \in Nat
        BY HorizonAssumption DEF HorizonAssumption, Needed
      <4>4. QED BY <1>1, <2>2, <2>4, <3>2, <3>5, <4>1, <4>2, <4>3
    <3>6. CASE ~ (next.count >= ScansNeeded /\ horizonTime - next.since >= Needed(view.stable, raw))
      <4>1. view' = next
        BY <3>4, <3>6
      <4>2. HorizonInv'
        BY <1>1, <2>2, <2>3, <3>2, <4>1 DEF HorizonInv
      <4>3. QED BY <3>2, <4>1, <4>2
    <3>7. QED BY <3>5, <3>6
  <2>8. QED BY <2>5, <2>6, <2>7
<1>5. QED BY <1>3, <1>4 DEF Scan

\* The view of a watched symbol turns only after the live snapshots agreed on the new one
\* without a break, as often and as long as the rule asks: the state counts no snapshot
\* that was not shown and forgets the count with the first that disagrees.
THEOREM TurnsAreSustained == HorizonSpec => FlipsAreSustained
<1>1. HorizonInit => HorizonInv
  BY HorizonAssumption DEF HorizonAssumption, HorizonInit, HorizonInv, NoStreak, StreakType, Biases
<1>2. ASSUME HorizonInv, [Scan]_horizonVars
      PROVE  HorizonInv'
  <2>1. CASE UNCHANGED horizonVars
    BY <1>2, <2>1 DEF horizonVars, HorizonInv
  <2>2. QED BY <1>2, <2>1, ScanFollows
<1>3. HorizonInv /\ [Scan]_horizonVars =>
        [view # Unseen /\ view'.stable # view.stable
         => /\ streak'.bias = view'.stable /\ streak'.scans >= ScansNeeded
            /\ horizonTime - streak'.since >= Needed(view.stable, view'.stable)]_horizonVars
  BY ScanFollows DEF horizonVars
<1>4. QED BY <1>1, <1>2, <1>3, PTL DEF HorizonSpec, FlipsAreSustained

-----------------------------------------------------------------------------
(* The two scans for trends. *)

Reports == {Report(date) : date \in 1 .. Days}

\* The states of the two scans and of the histories.
HalfHourSound ==
  \/ halfHour = NoScan
  \/ \E rows \in SUBSET ScanRows : halfHour = [at |-> "staged", rows |-> rows]
  \/ \E keys : /\ halfHour = [at |-> "reserved", keys |-> keys]
               /\ keys \cap Reports = {} /\ keys \subseteq pushMarks /\ keys \cap DOMAIN told = {}
DailyType == [at : {"idle"}, last : Nat] \cup [at : {"scanning", "scanned", "sent"}, last : Nat, date : 1 .. Days]
ScanShape ==
  /\ day \in [date : 1 .. Days, due : BOOLEAN] /\ daily \in DailyType /\ doubts \in Nat
  /\ told = [k \in DOMAIN told |-> told[k]] /\ \A k \in DOMAIN told : told[k] \in Nat
  /\ daily.at # "idle" => daily.date <= day.date

\* A stage that was told had been reserved, and is told once.
StagesTold == \A k \in DOMAIN told \ Reports : k \in pushMarks /\ told[k] <= 1

\* A report was told once more than there are doubts at the most, and not before its day.
ReportsTold == \A date \in 1 .. Days : /\ Times(Report(date)) <= 1 + doubts
                                       /\ date > day.date => Times(Report(date)) = 0

\* While the report of the day may still be sent, every arrival of it is a doubt; one that
\* midnight overtook has a doubt of its own besides.
DayOpen ==
  /\ daily.at = "idle" /\ ~ AlreadyPushed(day.date) => Times(Report(day.date)) <= doubts
  /\ daily.at \in {"scanning", "scanned"} /\ daily.date = day.date => Times(Report(day.date)) <= doubts
  /\ daily.at \in {"scanning", "scanned"} /\ daily.date # day.date => Times(Report(day.date)) < doubts
  /\ daily.at = "sent" /\ daily.date # day.date => Times(Report(day.date)) <= doubts

ScanInv == ScanShape /\ HalfHourSound /\ StagesTold /\ ReportsTold /\ DayOpen

\* The keys of stages and of reports are told apart.
LEMMA StageIsNoReport == \A date, row : MarkOf(date, row) \notin Reports
<1> SUFFICES ASSUME NEW date, NEW row, NEW d \in 1 .. Days, MarkOf(date, row) = Report(d)
             PROVE  FALSE
  BY DEF Reports
<1>1. "stage" \in DOMAIN MarkOf(date, row)
  BY DEF MarkOf
<1>2. "stage" \notin DOMAIN Report(d)
  BY DEF Report
<1>3. QED BY <1>1, <1>2

\* The reports of two days have two keys.
LEMMA ReportsDiffer == \A a, b \in 1 .. Days : Report(a) = Report(b) => a = b
<1> SUFFICES ASSUME NEW a \in 1 .. Days, NEW b \in 1 .. Days, Report(a) = Report(b)
             PROVE  a = b
  OBVIOUS
<1>1. Report(a).date = a /\ Report(b).date = b
  BY DEF Report
<1>2. QED BY <1>1

\* What arrives is counted, and nothing else changes.
LEMMA ArrivalsCounted ==
  ASSUME ScanShape, NEW keys, told' = Arrived(keys)
  PROVE  /\ told' = [k \in DOMAIN told' |-> told'[k]] /\ \A k \in DOMAIN told' : told'[k] \in Nat
         /\ DOMAIN told' = DOMAIN told \cup keys
         /\ \A k : Times(k)' = Times(k) + (IF k \in keys THEN 1 ELSE 0)
         /\ \A k \in DOMAIN told' : told'[k] = Times(k)'
<1>1. \A k : Times(k) \in Nat
  BY DEF Times, ScanShape
<1>2. told' = [k \in DOMAIN told \cup keys |-> Times(k) + IF k \in keys THEN 1 ELSE 0]
  BY DEF Arrived
<1>3. DOMAIN told' = DOMAIN told \cup keys
  BY <1>2
<1>4. \A k \in DOMAIN told' : told'[k] = Times(k) + IF k \in keys THEN 1 ELSE 0
  BY <1>2, <1>3
<1>5. ASSUME NEW k PROVE Times(k)' = Times(k) + (IF k \in keys THEN 1 ELSE 0)
  <2>1. CASE k \in DOMAIN told'
    BY <1>4, <2>1 DEF Times
  <2>2. CASE k \notin DOMAIN told'
    BY <1>1, <1>3, <2>2 DEF Times
  <2>3. QED BY <2>1, <2>2
<1>6. QED BY <1>1, <1>2, <1>3, <1>4, <1>5

\* Marks may be added while nothing is sent.
LEMMA StagesKept ==
  ASSUME ScanInv, told' = told, pushMarks \subseteq pushMarks'
  PROVE  StagesTold'
BY DEF ScanInv, StagesTold, Reports

\* The half-hourly scan stays sound while nothing is told and marks only come.
LEMMA HalfHourKept ==
  ASSUME ScanInv, told' = told, pushMarks \subseteq pushMarks',
         halfHour' \in {halfHour, NoScan}
  PROVE  HalfHourSound'
<1>1. CASE halfHour' = NoScan
  BY <1>1 DEF HalfHourSound
<1>2. CASE halfHour' = halfHour
  BY <1>2 DEF ScanInv, HalfHourSound, Reports, Report
<1>3. QED BY <1>1, <1>2

\* No report arrives, and the doubts only grow.
LEMMA ReportsKept ==
  ASSUME ScanInv, day' = day, doubts' \in Nat, doubts' >= doubts,
         \A date \in 1 .. Days : Times(Report(date))' = Times(Report(date))
  PROVE  ReportsTold'
<1>1. ASSUME NEW date \in 1 .. Days
      PROVE  /\ Times(Report(date))' <= 1 + doubts'
             /\ date > day'.date => Times(Report(date))' = 0
  <2>1. Times(Report(date)) \in Nat
    BY DEF ScanInv, ScanShape, Times
  <2>2. doubts \in Nat /\ Times(Report(date)) <= 1 + doubts /\ (date > day.date => Times(Report(date)) = 0)
    BY DEF ScanInv, ScanShape, ReportsTold
  <2>3. QED BY <2>1, <2>2
<1>2. QED BY <1>1 DEF ReportsTold, Report

\* The shape of what neither scan touches.
LEMMA ShapeKept ==
  ASSUME ScanInv, told' = told, day' = day, doubts' \in Nat, daily' \in DailyType,
         daily'.at # "idle" => daily'.date <= day.date
  PROVE  ScanShape'
BY DEF ScanInv, ScanShape

\* Each step of the half-hourly scan keeps the invariant.
LEMMA HalfHourSteps ==
  ASSUME ScanInv, ScanHalfHour \/ ReserveStages \/ SendStages \/ FailHalfHour
  PROVE  ScanInv'
<1>1. day' = day /\ daily' = daily /\ doubts' = doubts
  BY DEF ScanHalfHour, ReserveStages, SendStages, FailHalfHour
<1>2. CASE ScanHalfHour
  <2>1. PICK found \in Findings :
          halfHour' = IF Fresh(found) = {} THEN NoScan ELSE [at |-> "staged", rows |-> Fresh(found)]
    BY <1>2 DEF ScanHalfHour
  <2>2. told' = told /\ pushMarks' = pushMarks
    BY <1>2 DEF ScanHalfHour
  <2>3. Fresh(found) \in SUBSET ScanRows
    BY DEF Fresh, Findings
  <2>4. HalfHourSound'
    BY <2>1, <2>3 DEF HalfHourSound
  <2>5. StagesTold'
    BY <2>2, StagesKept
  <2>6. QED BY <1>1, <2>2, <2>4, <2>5 DEF ScanInv, ScanShape, ReportsTold, DayOpen, Times, AlreadyPushed
<1>3. CASE ReserveStages
  <2> DEFINE keys == {MarkOf(day.date, row) : row \in {r \in halfHour.rows : Unsaid(day.date, r)}}
  <2>1. /\ pushMarks' = pushMarks \cup keys /\ told' = told
        /\ halfHour' = IF keys = {} THEN NoScan ELSE [at |-> "reserved", keys |-> keys]
    BY <1>3 DEF ReserveStages
  <2>2. keys \cap Reports = {}
    BY StageIsNoReport
  <2>3. keys \cap pushMarks = {}
    BY DEF Unsaid
  <2> HIDE DEF keys
  <2>4. keys \cap DOMAIN told = {}
    BY <2>2, <2>3 DEF ScanInv, StagesTold
  <2>5. HalfHourSound'
    <3>1. Reports' = Reports
      BY DEF Reports, Report
    <3>2. QED BY <2>1, <2>2, <2>4, <3>1 DEF HalfHourSound
  <2>6. StagesTold'
    BY <2>1, StagesKept
  <2>7. Report(day.date) \in pushMarks' => Report(day.date) \in pushMarks
    <3>1. Report(day.date) \in Reports
      BY DEF Reports, ScanInv, ScanShape
    <3>2. QED BY <2>1, <2>2, <3>1
  <2>8. ScanShape' /\ ReportsTold' /\ DayOpen'
    BY <1>1, <2>1, <2>7 DEF ScanInv, ScanShape, ReportsTold, DayOpen, Times, AlreadyPushed, Report
  <2>9. QED BY <2>5, <2>6, <2>8 DEF ScanInv
<1>4. CASE SendStages
  <2>1. PICK keys : /\ halfHour = [at |-> "reserved", keys |-> keys]
                    /\ keys \cap Reports = {} /\ keys \subseteq pushMarks /\ keys \cap DOMAIN told = {}
    BY <1>4 DEF SendStages, ScanInv, HalfHourSound, NoScan
  <2>2. halfHour.keys = keys /\ halfHour' = NoScan /\ pushMarks' = pushMarks
    BY <1>4, <2>1 DEF SendStages
  <2>3. told' \in {told, Arrived(keys)}
    BY <1>4, <2>2 DEF SendStages
  <2>4. HalfHourSound'
    BY <2>2 DEF HalfHourSound
  <2>5. CASE told' = told
    <3>1. StagesTold'
      BY <2>2, <2>5, StagesKept
    <3>2. QED BY <1>1, <2>2, <2>4, <2>5, <3>1 DEF ScanInv, ScanShape, ReportsTold, DayOpen, Times, AlreadyPushed
  <2>6. CASE told' = Arrived(keys)
    <3>1. /\ told' = [k \in DOMAIN told' |-> told'[k]] /\ \A k \in DOMAIN told' : told'[k] \in Nat
          /\ DOMAIN told' = DOMAIN told \cup keys
          /\ \A k : Times(k)' = Times(k) + (IF k \in keys THEN 1 ELSE 0)
          /\ \A k \in DOMAIN told' : told'[k] = Times(k)'
      BY <2>6, ArrivalsCounted DEF ScanInv
    <3>2. ASSUME NEW date \in 1 .. Days PROVE Times(Report(date))' = Times(Report(date))
      <4>1. Report(date) \notin keys
        BY <2>1 DEF Reports
      <4>2. Times(Report(date)) \in Nat
        BY DEF ScanInv, ScanShape, Times
      <4>3. QED BY <3>1, <4>1, <4>2
    <3>3. ASSUME NEW k \in DOMAIN told', k \notin Reports PROVE k \in pushMarks' /\ told'[k] <= 1
      <4>1. CASE k \in keys
        <5>1. Times(k) = 0
          BY <2>1, <4>1 DEF Times
        <5>2. QED BY <2>1, <2>2, <3>1, <4>1, <5>1
      <4>2. CASE k \notin keys
        <5>1. k \in DOMAIN told /\ told[k] <= 1 /\ k \in pushMarks /\ told[k] \in Nat
          BY <3>1, <3>3, <4>2 DEF ScanInv, StagesTold, ScanShape
        <5>2. Times(k) = told[k]
          BY <5>1 DEF Times
        <5>3. QED BY <2>2, <3>1, <4>2, <5>1, <5>2
      <4>3. QED BY <4>1, <4>2
    <3>4. StagesTold'
      <4>1. Reports' = Reports
        BY DEF Reports, Report
      <4>2. QED BY <3>3, <4>1 DEF StagesTold
    <3>5. ReportsTold'
      <4>1. doubts' \in Nat /\ doubts' >= doubts
        BY <1>1 DEF ScanInv, ScanShape
      <4>2. QED BY <1>1, <3>2, <4>1, ReportsKept
    <3>6. ScanShape'
      BY <1>1, <3>1 DEF ScanInv, ScanShape
    <3>7. Times(Report(day.date))' = Times(Report(day.date))
      BY <1>1, <3>2 DEF ScanInv, ScanShape, Times, Report
    <3>8. DayOpen'
      BY <1>1, <2>2, <3>7 DEF ScanInv, DayOpen, AlreadyPushed, Report, Times
    <3>9. QED BY <2>4, <3>4, <3>5, <3>6, <3>8 DEF ScanInv
  <2>7. QED BY <2>3, <2>5, <2>6
<1>5. CASE FailHalfHour
  <2>1. told' = told /\ pushMarks' = pushMarks /\ halfHour' = NoScan
    BY <1>5 DEF FailHalfHour
  <2>2. HalfHourSound' /\ StagesTold'
    BY <2>1, StagesKept, HalfHourKept
  <2>3. QED BY <1>1, <2>1, <2>2 DEF ScanInv, ScanShape, ReportsTold, DayOpen, Times, AlreadyPushed
<1>6. QED BY <1>2, <1>3, <1>4, <1>5

\* A row of the daily thread that is idle, and one that is not.
LEMMA DailyRows ==
  /\ \A last \in Nat : [at |-> "idle", last |-> last] \in DailyType
  /\ \A d \in DailyType : d.last \in Nat /\ (d.at = "idle" \/ (d.at \in {"scanning", "scanned", "sent"} /\ d.date \in 1 .. Days))
BY DEF DailyType

\* The day stays, a report may arrive: what is left to show of a step of the daily thread.
LEMMA DailyKeeps ==
  ASSUME ScanInv, day' = day, halfHour' \in {halfHour, NoScan}, told' = told, pushMarks \subseteq pushMarks',
         doubts' \in Nat, doubts' >= doubts, daily' \in DailyType,
         daily'.at # "idle" => daily'.date <= day.date,
         DayOpen'
  PROVE  ScanInv'
<1>1. ScanShape' /\ StagesTold' /\ HalfHourSound'
  BY ShapeKept, StagesKept, HalfHourKept
<1>2. \A date \in 1 .. Days : Times(Report(date))' = Times(Report(date))
  BY DEF Times, Report
<1>3. ReportsTold'
  BY <1>2, ReportsKept
<1>4. QED BY <1>1, <1>3 DEF ScanInv

\* The report of the present day is one of the reports.
LEMMA ReportOfToday ==
  ASSUME ScanInv
  PROVE  /\ day.date \in 1 .. Days /\ Report(day.date) \in Reports /\ doubts \in Nat
         /\ Times(Report(day.date)) \in Nat /\ Times(Report(day.date)) <= 1 + doubts
BY DEF ScanInv, ScanShape, Reports, ReportsTold, Times

\* Each step of the daily scan keeps the invariant.
LEMMA DailySteps ==
  ASSUME ScanInv, StartDaily \/ ScanDaily \/ MarkReport \/ FailDaily \/ ScanRestart
  PROVE  ScanInv'
<1>1. /\ day' = day /\ told' = told /\ halfHour' \in {halfHour, NoScan} /\ pushMarks \subseteq pushMarks'
  BY DEF StartDaily, ScanDaily, MarkReport, FailDaily, ScanRestart
<1>2. /\ daily \in DailyType /\ doubts \in Nat /\ DayOpen
      /\ daily.at # "idle" => daily.date <= day.date
  BY DEF ScanInv, ScanShape
<1>3. Times(Report(day.date))' = Times(Report(day.date))
  BY <1>1 DEF Times, Report
<1>4. CASE StartDaily
  <2>1. /\ daily.at = "idle" /\ doubts' = doubts /\ pushMarks' = pushMarks
        /\ daily' = IF AlreadyPushed(day.date) THEN [daily EXCEPT !.last = day.date]
                    ELSE [at |-> "scanning", last |-> daily.last, date |-> day.date]
    BY <1>4 DEF StartDaily
  <2>2. CASE AlreadyPushed(day.date)
    <3>1. daily = [at |-> "idle", last |-> daily.last]
      BY <1>2, <2>1 DEF DailyType
    <3>2. daily' = [at |-> "idle", last |-> day.date]
      BY <2>1, <2>2, <3>1
    <3>3. daily' \in DailyType /\ daily'.at = "idle"
      BY <3>2, ReportOfToday, DailyRows
    <3>4. DayOpen'
      BY <1>1, <2>1, <2>2, <3>3 DEF DayOpen, AlreadyPushed, Report
    <3>5. QED BY <1>1, <1>2, <2>1, <3>3, <3>4, DailyKeeps
  <2>3. CASE ~ AlreadyPushed(day.date)
    <3>1. daily' = [at |-> "scanning", last |-> daily.last, date |-> day.date]
      BY <2>1, <2>3
    <3>2. daily.last \in Nat
      BY <1>2, DailyRows
    <3>3. daily' \in DailyType
      BY <3>1, <3>2, ReportOfToday DEF DailyType
    <3>4. daily'.at = "scanning" /\ daily'.date = day.date
      BY <3>1
    <3>5. Times(Report(day.date)) <= doubts
      BY <1>2, <2>1, <2>3 DEF DayOpen
    <3>6. DayOpen'
      BY <1>1, <1>3, <2>1, <3>4, <3>5 DEF DayOpen
    <3>7. daily'.date <= day.date
      BY <3>4, ReportOfToday
    <3>8. QED BY <1>1, <1>2, <2>1, <3>3, <3>6, <3>7, DailyKeeps
  <2>4. QED BY <2>2, <2>3
<1>5. CASE ScanDaily
  <2>1. daily.at = "scanning" /\ daily' = [daily EXCEPT !.at = "scanned"] /\ doubts' = doubts
    BY <1>5 DEF ScanDaily
  <2>2. daily = [at |-> "scanning", last |-> daily.last, date |-> daily.date]
    BY <1>2, <2>1 DEF DailyType
  <2>3. daily' = [at |-> "scanned", last |-> daily.last, date |-> daily.date]
    BY <2>1, <2>2
  <2>4. daily.last \in Nat /\ daily.date \in 1 .. Days
    BY <1>2, <2>1, DailyRows
  <2>5. daily' \in DailyType /\ daily'.at = "scanned" /\ daily'.date = daily.date
    BY <2>3, <2>4 DEF DailyType
  <2>6. DayOpen'
    BY <1>1, <1>2, <1>3, <2>1, <2>5 DEF DayOpen
  <2>7. daily'.date <= day.date
    BY <1>2, <2>1, <2>5
  <2>8. QED BY <1>1, <1>2, <2>1, <2>5, <2>6, <2>7, DailyKeeps
<1>6. CASE MarkReport
  <2>1. /\ daily.at = "sent" /\ pushMarks' = pushMarks \cup {Report(daily.date)} /\ doubts' = doubts
        /\ daily' = [at |-> "idle", last |-> daily.date]
    BY <1>6 DEF MarkReport
  <2>2. daily.date \in 1 .. Days
    BY <1>2, <2>1, DailyRows
  <2>3. daily' \in DailyType /\ daily'.at = "idle"
    BY <2>1, <2>2, DailyRows
  <2>4. ASSUME ~ AlreadyPushed(day.date)' PROVE Times(Report(day.date)) <= doubts
    <3>1. daily.date # day.date
      BY <1>1, <2>1, <2>4 DEF AlreadyPushed, Report
    <3>2. QED BY <1>2, <2>1, <3>1 DEF DayOpen
  <2>5. DayOpen'
    BY <1>1, <1>3, <2>1, <2>3, <2>4 DEF DayOpen
  <2>6. QED BY <1>1, <1>2, <2>1, <2>3, <2>5, DailyKeeps
<1>7. CASE FailDaily
  <2>1. /\ daily.at \in {"scanning", "scanned"} /\ daily' = [at |-> "idle", last |-> daily.last]
        /\ doubts' = doubts
    BY <1>7 DEF FailDaily
  <2>2. daily.last \in Nat
    BY <1>2, DailyRows
  <2>3. daily' \in DailyType /\ daily'.at = "idle"
    BY <2>1, <2>2, DailyRows
  <2>4. Times(Report(day.date)) <= doubts
    BY <1>2, <2>1, ReportOfToday DEF DayOpen
  <2>5. DayOpen'
    BY <1>1, <1>3, <2>1, <2>3, <2>4 DEF DayOpen
  <2>6. QED BY <1>1, <1>2, <2>1, <2>3, <2>5, DailyKeeps
<1>8. CASE ScanRestart
  <2>1. /\ daily' = [at |-> "idle", last |-> 0] /\ pushMarks' = pushMarks
        /\ doubts' = IF daily.at = "sent" THEN doubts + 1 ELSE doubts
    BY <1>8 DEF ScanRestart
  <2>2. daily' \in DailyType /\ daily'.at = "idle" /\ doubts' \in Nat /\ doubts' >= doubts
    BY <1>2, <2>1, DailyRows
  <2>3. ~ AlreadyPushed(day.date) => Times(Report(day.date)) <= doubts'
    <3>1. CASE daily.at = "sent"
      BY <2>1, <3>1, ReportOfToday
    <3>2. CASE daily.at # "sent"
      <4>1. daily.at = "idle" \/ daily.at \in {"scanning", "scanned"}
        BY <1>2, <3>2, DailyRows
      <4>2. QED BY <1>2, <2>1, <3>2, <4>1, ReportOfToday DEF DayOpen
    <3>3. QED BY <3>1, <3>2
  <2>4. DayOpen'
    BY <1>1, <1>3, <2>1, <2>2, <2>3 DEF DayOpen, AlreadyPushed, Report
  <2>5. QED BY <1>1, <1>2, <2>1, <2>2, <2>4, DailyKeeps
<1>9. QED BY <1>4, <1>5, <1>6, <1>7, <1>8

\* The report goes out: it is counted, unless no answer came and nothing arrived.
LEMMA SendKeeps ==
  ASSUME ScanInv, SendReport
  PROVE  ScanInv'
<1>1. /\ day' = day /\ halfHour' = halfHour /\ pushMarks' = pushMarks /\ daily.at = "scanned"
      /\ doubts' \in Nat /\ doubts' >= doubts
  BY DEF SendReport, ScanInv, ScanShape
<1>2. /\ daily \in DailyType /\ doubts \in Nat /\ DayOpen /\ daily.date <= day.date
      /\ daily.date \in 1 .. Days
  BY <1>1, DailyRows DEF ScanInv, ScanShape
<1>3. CASE told' = told /\ doubts' = doubts /\ daily' = [at |-> "idle", last |-> daily.date]
  <2>1. daily' \in DailyType /\ daily'.at = "idle"
    BY <1>2, <1>3, DailyRows
  <2>2. Times(Report(day.date)) <= doubts
    BY <1>1, <1>2, ReportOfToday DEF DayOpen
  <2>3. DayOpen'
    BY <1>1, <1>3, <2>1, <2>2 DEF DayOpen, Times, Report
  <2>4. QED BY <1>1, <1>2, <1>3, <2>1, <2>3, DailyKeeps
<1>4. CASE told' = Arrived({Report(day.date)})
  <2> DEFINE keys == {Report(day.date)}
  <2>1. /\ told' = [k \in DOMAIN told' |-> told'[k]] /\ \A k \in DOMAIN told' : told'[k] \in Nat
        /\ DOMAIN told' = DOMAIN told \cup keys
        /\ \A k : Times(k)' = Times(k) + (IF k \in keys THEN 1 ELSE 0)
        /\ \A k \in DOMAIN told' : told'[k] = Times(k)'
    BY <1>4, ArrivalsCounted DEF ScanInv
  <2>2. keys \subseteq Reports
    BY ReportOfToday
  <2>3. \A k : Times(k) \in Nat
    BY DEF ScanInv, ScanShape, Times
  <2>4. HalfHourSound'
    <3>1. Reports' = Reports
      BY DEF Reports, Report
    <3>2. QED BY <1>1, <2>1, <2>2, <3>1 DEF ScanInv, HalfHourSound
  <2>5. StagesTold'
    <3>1. ASSUME NEW k \in DOMAIN told', k \notin Reports PROVE k \in pushMarks' /\ told'[k] <= 1
      <4>1. k \notin keys /\ k \in DOMAIN told
        BY <2>1, <2>2, <3>1
      <4>2. Times(k) = told[k] /\ told[k] <= 1 /\ k \in pushMarks
        BY <3>1, <4>1 DEF Times, ScanInv, StagesTold
      <4>3. QED BY <1>1, <2>1, <2>3, <4>1, <4>2
    <3>2. Reports' = Reports
      BY DEF Reports, Report
    <3>3. QED BY <3>1, <3>2 DEF StagesTold
  <2>6. Times(Report(day.date))' = Times(Report(day.date)) + 1
    BY <1>1, <2>1 DEF Times, Report
  <2>7. /\ daily' \in DailyType /\ daily'.at \in {"idle", "sent"}
        /\ daily'.at = "idle" => doubts' = doubts + 1
        /\ daily'.at = "sent" => doubts' = doubts /\ daily'.date = daily.date
    <3>1. CASE doubts' = doubts /\ daily' = [daily EXCEPT !.at = "sent"]
      <4>1. daily = [at |-> "scanned", last |-> daily.last, date |-> daily.date]
        BY <1>1, <1>2 DEF DailyType
      <4>2. daily' = [at |-> "sent", last |-> daily.last, date |-> daily.date]
        BY <3>1, <4>1
      <4>3. daily.last \in Nat
        BY <1>2, DailyRows
      <4>4. daily' \in DailyType
        BY <1>2, <4>2, <4>3 DEF DailyType
      <4>5. QED BY <3>1, <4>2, <4>4
    <3>2. CASE doubts' = doubts + 1 /\ daily' = [at |-> "idle", last |-> daily.date]
      BY <1>2, <3>2, DailyRows
    <3>3. told' # told
      <4>1. Times(Report(day.date))' # Times(Report(day.date))
        BY <2>3, <2>6
      <4>2. QED BY <1>1, <4>1 DEF Times, Report
    <3>4. QED BY <3>1, <3>2, <3>3 DEF SendReport
  <2>8. ScanShape'
    <3>1. daily'.at # "idle" => daily'.date <= day'.date
      BY <1>1, <1>2, <2>7
    <3>2. QED BY <1>1, <2>1, <2>7, <3>1 DEF ScanInv, ScanShape
  <2>9. Times(Report(day.date)) <= doubts /\ (daily.date # day.date => Times(Report(day.date)) < doubts)
    BY <1>1, <1>2, ReportOfToday DEF DayOpen
  <2>10. ReportsTold'
    <3>1. ASSUME NEW date \in 1 .. Days
          PROVE  /\ Times(Report(date))' <= 1 + doubts' /\ (date > day'.date => Times(Report(date))' = 0)
      <4>1. CASE date = day.date
        BY <1>1, <1>2, <2>3, <2>6, <2>9, <4>1, ReportOfToday DEF Times, Report
      <4>2. CASE date # day.date
        <5>1. Times(Report(date))' = Times(Report(date)) /\ Times(Report(date)) \in Nat
          <6>1. Report(date) \notin keys
            BY <4>2, ReportsDiffer, ReportOfToday
          <6>2. QED BY <2>1, <2>3, <6>1
        <5>2. Times(Report(date)) <= 1 + doubts /\ (date > day.date => Times(Report(date)) = 0)
          BY DEF ScanInv, ReportsTold
        <5>3. QED BY <1>1, <1>2, <5>1, <5>2
      <4>3. QED BY <4>1, <4>2
    <3>2. QED BY <3>1 DEF ReportsTold, Report
  <2>11. DayOpen'
    BY <1>1, <1>2, <2>3, <2>6, <2>7, <2>9 DEF DayOpen
  <2>12. QED BY <2>4, <2>5, <2>8, <2>10, <2>11 DEF ScanInv
<1>5. QED BY <1>3, <1>4 DEF SendReport

\* The time of the report comes, or midnight: what is under way then is a doubt.
LEMMA HourKeeps ==
  ASSUME ScanInv, NextHour
  PROVE  ScanInv'
<1>1. /\ told' = told /\ halfHour' = halfHour /\ pushMarks' = pushMarks /\ daily' = daily
      /\ doubts' = IF day.due /\ daily.at # "idle" THEN doubts + 1 ELSE doubts
  BY DEF NextHour
<1>2. /\ daily \in DailyType /\ doubts \in Nat /\ DayOpen /\ day \in [date : 1 .. Days, due : BOOLEAN]
      /\ daily.at # "idle" => daily.date <= day.date
      /\ daily.at # "idle" => daily.date \in 1 .. Days
      /\ daily.at \in {"idle", "scanning", "scanned", "sent"}
  BY DailyRows DEF ScanInv, ScanShape
<1>3. StagesTold' /\ HalfHourSound'
  BY <1>1, StagesKept, HalfHourKept
<1>4. doubts' \in Nat /\ doubts' >= doubts
  BY <1>1, <1>2
<1>5. Days \in Nat
  BY ScanAssumption DEF ScanAssumption
<1>6. CASE ~ day.due
  <2>1. day' = [day EXCEPT !.due = TRUE] /\ doubts' = doubts
    BY <1>1, <1>6 DEF NextHour
  <2>2. day' \in [date : 1 .. Days, due : BOOLEAN] /\ day'.date = day.date
    BY <1>2, <2>1
  <2>3. ScanShape'
    BY <1>1, <1>2, <2>1, <2>2 DEF ScanInv, ScanShape
  <2>4. ReportsTold' /\ DayOpen'
    BY <1>1, <2>1, <2>2 DEF ScanInv, ReportsTold, DayOpen, Times, Report, AlreadyPushed
  <2>5. QED BY <1>3, <2>3, <2>4 DEF ScanInv
<1>7. CASE day.due
  <2>1. day.date < Days /\ day' = [date |-> day.date + 1, due |-> FALSE]
    BY <1>7 DEF NextHour
  <2>2. /\ day' \in [date : 1 .. Days, due : BOOLEAN] /\ day'.date = day.date + 1
        /\ day.date \in Nat /\ day.date + 1 \in 1 .. Days
    BY <1>2, <1>5, <2>1
  <2>3. ScanShape'
    <3>1. daily'.at # "idle" => daily'.date <= day'.date
      BY <1>1, <1>2, <2>2
    <3>2. QED BY <1>1, <1>4, <2>2, <3>1 DEF ScanInv, ScanShape
  <2>4. ASSUME NEW date \in 1 .. Days
        PROVE  /\ Times(Report(date))' = Times(Report(date)) /\ Times(Report(date)) \in Nat
               /\ Times(Report(date)) <= 1 + doubts /\ (date > day.date => Times(Report(date)) = 0)
    BY <1>1 DEF ScanInv, ScanShape, ReportsTold, Times, Report
  <2>5. ReportsTold'
    <3>1. ASSUME NEW date \in 1 .. Days
          PROVE  /\ Times(Report(date))' <= 1 + doubts' /\ (date > day'.date => Times(Report(date))' = 0)
      BY <1>2, <1>4, <2>2, <2>4
    <3>2. QED BY <3>1 DEF ReportsTold, Report
  <2>6. Times(Report(day.date))' = 0
    <3>1. Times(Report(day.date + 1)) = 0
      BY <2>2, <2>4
    <3>2. QED BY <1>1, <2>2, <3>1 DEF Times, Report
  <2>7. daily.at # "idle" => daily.date # day.date + 1 /\ doubts' > 0
    BY <1>1, <1>2, <1>7, <2>2
  <2>8. DayOpen'
    BY <1>1, <1>2, <1>4, <2>2, <2>6, <2>7 DEF DayOpen
  <2>9. QED BY <1>3, <2>3, <2>5, <2>8 DEF ScanInv
<1>8. QED BY <1>6, <1>7

\* The invariant says what the property asks: a key is a report's or a stage's.
LEMMA InvTells == ScanInv => ToldOnce
<1> SUFFICES ASSUME ScanInv, NEW key \in DOMAIN told
             PROVE  told[key] <= 1 + (IF key \in Reports THEN doubts ELSE 0)
  BY DEF ToldOnce, Reports
<1>1. told[key] \in Nat /\ doubts \in Nat
  BY DEF ScanInv, ScanShape
<1>2. CASE key \in Reports
  <2>1. PICK date \in 1 .. Days : key = Report(date)
    BY <1>2 DEF Reports
  <2>2. Times(Report(date)) <= 1 + doubts /\ Times(Report(date)) = told[key]
    BY <2>1 DEF ScanInv, ReportsTold, Times
  <2>3. QED BY <1>2, <2>2
<1>3. CASE key \notin Reports
  BY <1>1, <1>3 DEF ScanInv, StagesTold
<1>4. QED BY <1>2, <1>3

\* A stage of a symbol is told once a day, and a report once more than an answer or its
\* mark was lost or midnight overtook it, however the two scans, restarts and lost
\* answers fall: what was told is reserved, and what is under way has its doubt.
THEOREM StagesToldOnce == ScanSpec => []ToldOnce
<1>1. ScanInit => ScanInv
  <2> SUFFICES ASSUME ScanInit PROVE ScanInv
    OBVIOUS
  <2>1. /\ day = [date |-> 1, due |-> FALSE] /\ pushMarks = {} /\ doubts = 0
        /\ halfHour = NoScan /\ daily = [at |-> "idle", last |-> 0] /\ told = [k \in {} |-> 0]
    BY DEF ScanInit
  <2>2. DOMAIN told = {} /\ \A k : Times(k) = 0
    BY <2>1 DEF Times
  <2>3. 1 \in 1 .. Days
    BY ScanAssumption DEF ScanAssumption
  <2>4. daily \in DailyType /\ daily.at = "idle"
    BY <2>1, DailyRows
  <2>5. ScanShape
    BY <2>1, <2>2, <2>3, <2>4 DEF ScanShape
  <2>6. HalfHourSound /\ StagesTold
    BY <2>1, <2>2 DEF HalfHourSound, StagesTold
  <2>7. ReportsTold /\ DayOpen
    BY <2>1, <2>2, <2>4 DEF ReportsTold, DayOpen
  <2>8. QED BY <2>5, <2>6, <2>7 DEF ScanInv
<1>2. ASSUME ScanInv, [ScanNext]_scanVars
      PROVE  ScanInv'
  <2>1. CASE UNCHANGED scanVars
    BY <1>2, <2>1 DEF scanVars, ScanInv, ScanShape, HalfHourSound, StagesTold, ReportsTold, DayOpen, Times,
       AlreadyPushed, Reports, Report
  <2>2. CASE ScanNext
    BY <1>2, <2>2, HalfHourSteps, DailySteps, SendKeeps, HourKeeps DEF ScanNext
  <2>3. QED BY <1>2, <2>1, <2>2
<1>3. QED BY <1>1, <1>2, InvTells, PTL DEF ScanSpec

-----------------------------------------------------------------------------
(* Divergences and trackings. *)

\* An open divergence: its clocks and its sign.
OpenRow(e) ==
  /\ DOMAIN e = {"open", "candidate", "recovering", "samples", "confirmed", "last", "sign"}
  /\ e.open /\ e.candidate \in Int /\ e.recovering \in Int /\ e.samples \in Nat /\ e.last \in Int
  /\ e.sign \in {-1, 1} /\ (e.candidate = NotYet => e.samples = 0)

\* Its clocks began no sooner than the histories of the readings, and count no more.
Earned(e, h, c) ==
  /\ e.candidate # NotYet => h.sign = e.sign /\ h.since <= e.candidate /\ h.samples >= e.samples /\ h.last = e.last
  /\ e.recovering # NotYet => c.since # NotYet /\ c.since <= e.recovering /\ c.last = e.last

\* The histories themselves.
AgreedShape(h) ==
  /\ DOMAIN h = {"sign", "since", "last", "samples", "closed"}
  /\ h.sign \in {-1, 0, 1} /\ h.since \in Int /\ h.last \in Int /\ h.samples \in Nat /\ (h.sign # 0 => h.samples >= 1)
CalmShape(c) == DOMAIN c = {"since", "last"} /\ c.since \in Int /\ c.last \in Int

EpisodeSound(e, h, c) ==
  AgreedShape(h) /\ CalmShape(c) /\ (e = NoEpisode \/ (OpenRow(e) /\ Earned(e, h, c)))

-----------------------------------------------------------------------------
\* What each step of the row does to its clocks.
SameBut(f, e) == /\ OpenRow(f) /\ (f.confirmed => e.confirmed)
                 /\ f.last = e.last /\ f.sign = e.sign

\* A row whose count starts anew differs in its candidate and its samples only.
LEMMA UncountedIs ==
  ASSUME NEW e, OpenRow(e)
  PROVE  /\ SameBut(Uncounted(e), e) /\ Uncounted(e).candidate = NotYet /\ Uncounted(e).samples = 0
         /\ Uncounted(e).recovering = e.recovering
<1> DEFINE f == [e EXCEPT !.candidate = NotYet]
<1>1. /\ DOMAIN f = DOMAIN e /\ f.open = e.open /\ f.candidate = NotYet /\ f.recovering = e.recovering
      /\ f.samples = e.samples /\ f.confirmed = e.confirmed /\ f.last = e.last /\ f.sign = e.sign
  BY DEF OpenRow
<1>2. Uncounted(e) = [f EXCEPT !.samples = 0]
  BY DEF Uncounted
<1> HIDE DEF f
<1>3. /\ DOMAIN Uncounted(e) = DOMAIN e /\ Uncounted(e).open = e.open /\ Uncounted(e).candidate = NotYet
      /\ Uncounted(e).recovering = e.recovering /\ Uncounted(e).samples = 0
      /\ Uncounted(e).confirmed = e.confirmed /\ Uncounted(e).last = e.last /\ Uncounted(e).sign = e.sign
  BY <1>1, <1>2 DEF OpenRow
<1>4. NotYet \in Int
  BY DEF NotYet
<1>5. QED BY <1>3, <1>4 DEF SameBut, OpenRow

\* One that also stops recovering differs in that only.
LEMMA StoppedIs ==
  ASSUME NEW e, OpenRow(e)
  PROVE  /\ SameBut(Stopped(e), e) /\ Stopped(e).candidate = NotYet /\ Stopped(e).samples = 0
         /\ Stopped(e).recovering = NotYet
<1> DEFINE f == [e EXCEPT !.candidate = NotYet]
           g == [f EXCEPT !.recovering = NotYet]
<1>1. /\ DOMAIN f = DOMAIN e /\ f.open = e.open /\ f.candidate = NotYet /\ f.recovering = e.recovering
      /\ f.samples = e.samples /\ f.confirmed = e.confirmed /\ f.last = e.last /\ f.sign = e.sign
  BY DEF OpenRow
<1>2. Stopped(e) = [g EXCEPT !.samples = 0]
  BY DEF Stopped
<1> HIDE DEF f
<1>3. /\ DOMAIN g = DOMAIN e /\ g.open = e.open /\ g.candidate = NotYet /\ g.recovering = NotYet
      /\ g.samples = e.samples /\ g.confirmed = e.confirmed /\ g.last = e.last /\ g.sign = e.sign
  BY <1>1 DEF OpenRow
<1> HIDE DEF g
<1>4. /\ DOMAIN Stopped(e) = DOMAIN e /\ Stopped(e).open = e.open /\ Stopped(e).candidate = NotYet
      /\ Stopped(e).recovering = NotYet /\ Stopped(e).samples = 0
      /\ Stopped(e).confirmed = e.confirmed /\ Stopped(e).last = e.last /\ Stopped(e).sign = e.sign
  BY <1>2, <1>3 DEF OpenRow
<1>5. NotYet \in Int
  BY DEF NotYet
<1>6. QED BY <1>4, <1>5 DEF SameBut, OpenRow

\* Setting the recovery leaves the other fields.
LEMMA RecoveringSet ==
  ASSUME NEW e, OpenRow(e), NEW x \in Int
  PROVE  LET f == [e EXCEPT !.recovering = x]
         IN /\ SameBut(f, e) /\ f.candidate = e.candidate /\ f.samples = e.samples /\ f.recovering = x
BY DEF SameBut, OpenRow

\* Setting the last observation leaves the other fields.
LEMMA LastSet ==
  ASSUME NEW e, OpenRow(e), NEW x \in Int
  PROVE  LET f == [e EXCEPT !.last = x]
         IN /\ OpenRow(f) /\ (f.confirmed => e.confirmed) /\ f.sign = e.sign
            /\ f.candidate = e.candidate /\ f.samples = e.samples /\ f.recovering = e.recovering /\ f.last = x
BY DEF OpenRow

\* Setting the direction leaves the other fields.
LEMMA SignSet ==
  ASSUME NEW e, OpenRow(e), NEW x \in {-1, 1}
  PROVE  LET f == [e EXCEPT !.sign = x]
         IN /\ OpenRow(f) /\ (f.confirmed => e.confirmed) /\ f.sign = x
            /\ f.candidate = e.candidate /\ f.samples = e.samples /\ f.recovering = e.recovering /\ f.last = e.last
BY DEF OpenRow

\* A row starts its count anew exactly when the sign changes.
LEMMA SameSignIs ==
  ASSUME NEW e, OpenRow(e), NEW r \in RowReadings
  PROVE  LET f == SameSign(e, r)
         IN /\ SameBut(f, e)
            /\ e.sign # r.sign => f.candidate = NotYet /\ f.samples = 0
            /\ e.sign = r.sign => f = e
<1>1. r.sign \in {-1, 1} /\ e.sign \in {-1, 1}
  BY DEF RowReadings, OpenRow
<1>2. e.sign # r.sign <=> e.sign = -r.sign
  BY <1>1
<1>3. CASE e.sign # r.sign
  <2>1. SameSign(e, r) = Uncounted(e)
    BY <1>2, <1>3 DEF SameSign
  <2>2. QED BY <1>3, <2>1, UncountedIs
<1>4. CASE e.sign = r.sign
  <2>1. SameSign(e, r) = e
    BY <1>2, <1>4 DEF SameSign
  <2>2. QED BY <1>4, <2>1 DEF SameBut
<1>5. QED BY <1>3, <1>4

\* What a signal makes of a row: one sample more, confirmed only with enough of them and of time.
LEMMA SignalledIs ==
  ASSUME NEW e, OpenRow(e), NEW r \in RowReadings, basisTime \in Nat
  PROVE  LET f == SameSign(e, r)
             g == Signalled(e, r)
         IN /\ OpenRow(g) /\ g.last = e.last /\ g.sign = e.sign /\ g.recovering = NotYet
            /\ g.candidate = IF f.candidate = NotYet THEN basisTime ELSE f.candidate
            /\ g.samples = IF f.samples < SamplesNeeded THEN f.samples + 1 ELSE f.samples
            /\ g.confirmed => e.confirmed \/ (g.samples >= SamplesNeeded /\ basisTime - g.candidate >= ConfirmFor(r))
<1> DEFINE f == SameSign(e, r)
           g == Signalled(e, r)
           since == IF f.candidate = NotYet THEN basisTime ELSE f.candidate
           samples == IF f.samples < SamplesNeeded THEN f.samples + 1 ELSE f.samples
           one == [f EXCEPT !.candidate = since]
           two == [one EXCEPT !.samples = samples]
           three == [two EXCEPT !.recovering = NotYet]
<1>1. NotYet \in Int /\ SamplesNeeded \in Nat /\ NotYet # basisTime
  BY BasisAssumption DEF NotYet, BasisAssumption
<1>2. SameBut(f, e)
  BY SameSignIs
<1>3. g = [three EXCEPT !.confirmed = @ \/ (samples >= SamplesNeeded /\ basisTime - since >= ConfirmFor(r))]
  BY DEF Signalled
<1> HIDE DEF f, g
<1>4. since \in Int /\ samples \in Nat /\ since # NotYet
  BY <1>1, <1>2 DEF SameBut, OpenRow
<1> HIDE DEF since, samples
<1>5. /\ DOMAIN one = DOMAIN f /\ one.open = f.open /\ one.candidate = since /\ one.recovering = f.recovering
      /\ one.samples = f.samples /\ one.confirmed = f.confirmed /\ one.last = f.last /\ one.sign = f.sign
  BY <1>2 DEF SameBut, OpenRow
<1> HIDE DEF one
<1>6. /\ DOMAIN two = DOMAIN f /\ two.open = f.open /\ two.candidate = since /\ two.recovering = f.recovering
      /\ two.samples = samples /\ two.confirmed = f.confirmed /\ two.last = f.last /\ two.sign = f.sign
  BY <1>2, <1>5 DEF SameBut, OpenRow
<1> HIDE DEF two
<1>7. /\ DOMAIN three = DOMAIN f /\ three.open = f.open /\ three.candidate = since /\ three.recovering = NotYet
      /\ three.samples = samples /\ three.confirmed = f.confirmed /\ three.last = f.last /\ three.sign = f.sign
  BY <1>2, <1>6 DEF SameBut, OpenRow
<1> HIDE DEF three
<1>8. /\ DOMAIN g = DOMAIN f /\ g.open = f.open /\ g.candidate = since /\ g.recovering = NotYet
      /\ g.samples = samples /\ g.last = f.last /\ g.sign = f.sign
      /\ g.confirmed = (f.confirmed \/ (samples >= SamplesNeeded /\ basisTime - since >= ConfirmFor(r)))
  BY <1>2, <1>3, <1>7 DEF SameBut, OpenRow
<1>9. OpenRow(g)
  BY <1>1, <1>2, <1>4, <1>8 DEF SameBut, OpenRow
<1>10. g.last = e.last /\ g.sign = e.sign
  BY <1>2, <1>8 DEF SameBut
<1>11. g.confirmed => e.confirmed \/ (g.samples >= SamplesNeeded /\ basisTime - g.candidate >= ConfirmFor(r))
  BY <1>2, <1>8 DEF SameBut
<1>12. QED BY <1>8, <1>9, <1>10, <1>11 DEF f, g, since, samples

\* The histories, and what they make of a signal and of a convergence.

\* The history of agreement goes on with the sign, or starts now.
LEMMA AgreedIs ==
  ASSUME NEW h, AgreedShape(h), NEW r \in RowReadings, basisTime \in Nat, h.since < basisTime
  PROVE  LET k == Agreed(h, r)
         IN /\ AgreedShape(k) /\ k.since <= basisTime
            /\ ~ Signals(r) => k.since # basisTime
            /\ Signals(r) => /\ k.sign = r.sign /\ k.last = basisTime /\ k.samples >= 1
                             /\ k.closed = (r.kind = "closed")
                             /\ h.sign = r.sign /\ basisTime - h.last <= LongestGap =>
                                  /\ k.since = h.since
                                  /\ k.samples = IF h.samples < SamplesNeeded THEN h.samples + 1 ELSE h.samples
<1> DEFINE k == Agreed(h, r)
<1>1. /\ r.sign \in {-1, 1} /\ NotYet \in Int /\ NotYet # basisTime /\ NotYet <= basisTime
      /\ SamplesNeeded \in Nat /\ LongestGap \in Nat
  BY BasisAssumption DEF RowReadings, NotYet, BasisAssumption
<1>2. CASE ~ Signals(r)
  <2>1. k = [sign |-> 0, since |-> NotYet, last |-> NotYet, samples |-> 0, closed |-> FALSE]
    BY <1>2 DEF Agreed, NoSignals
  <2>2. /\ DOMAIN k = {"sign", "since", "last", "samples", "closed"} /\ k.sign = 0 /\ k.since = NotYet
        /\ k.last = NotYet /\ k.samples = 0
    BY <2>1
  <2>3. QED BY <1>1, <1>2, <2>2 DEF AgreedShape
<1>3. CASE Signals(r) /\ h.sign = r.sign /\ basisTime - h.last <= LongestGap
  <2> DEFINE one == [h EXCEPT !.last = basisTime]
             two == [one EXCEPT !.closed = (r.kind = "closed")]
             more == IF h.samples < SamplesNeeded THEN h.samples + 1 ELSE h.samples
  <2>1. k = [two EXCEPT !.samples = IF @ < SamplesNeeded THEN @ + 1 ELSE @]
    BY <1>3 DEF Agreed
  <2>2. /\ DOMAIN one = DOMAIN h /\ one.sign = h.sign /\ one.since = h.since /\ one.last = basisTime
        /\ one.samples = h.samples
    BY DEF AgreedShape
  <2> HIDE DEF one
  <2>3. /\ DOMAIN two = DOMAIN h /\ two.sign = h.sign /\ two.since = h.since /\ two.last = basisTime
        /\ two.samples = h.samples /\ two.closed = (r.kind = "closed")
    BY <2>2 DEF AgreedShape
  <2> HIDE DEF two
  <2>4. /\ DOMAIN k = DOMAIN h /\ k.sign = h.sign /\ k.since = h.since /\ k.last = basisTime
        /\ k.samples = more /\ k.closed = (r.kind = "closed")
    BY <2>1, <2>3 DEF AgreedShape
  <2> HIDE DEF k
  <2>5. more \in Nat /\ more >= 1
    BY <1>1, <1>3 DEF AgreedShape
  <2>6. AgreedShape(k)
    BY <1>1, <1>3, <2>4, <2>5 DEF AgreedShape
  <2>7. k.since <= basisTime /\ k.sign = r.sign
    BY <1>3, <2>4 DEF AgreedShape
  <2>8. QED BY <1>3, <2>4, <2>5, <2>6, <2>7 DEF k
<1>4. CASE Signals(r) /\ ~ (h.sign = r.sign /\ basisTime - h.last <= LongestGap)
  <2>1. k = [sign |-> r.sign, since |-> basisTime, last |-> basisTime, samples |-> 1, closed |-> r.kind = "closed"]
    BY <1>4 DEF Agreed
  <2>2. /\ DOMAIN k = {"sign", "since", "last", "samples", "closed"} /\ k.sign = r.sign
        /\ k.since = basisTime /\ k.last = basisTime /\ k.samples = 1 /\ k.closed = (r.kind = "closed")
    BY <2>1
  <2> HIDE DEF k
  <2>3. AgreedShape(k)
    BY <1>1, <2>2 DEF AgreedShape
  <2>4. QED BY <1>4, <2>2, <2>3 DEF k
<1>5. QED BY <1>2, <1>3, <1>4

\* The history of calm goes on with each convergence in time, or starts now.
LEMMA CalmIs ==
  ASSUME NEW c, CalmShape(c), NEW r \in RowReadings, basisTime \in Nat, c.since < basisTime
  PROVE  LET m == Calm(c, r)
         IN /\ CalmShape(m) /\ m.since <= basisTime
            /\ r.kind = "converged" =>
                 /\ m.since # NotYet /\ m.last = basisTime
                 /\ c.since # NotYet /\ basisTime - c.last <= LongestGap => m.since = c.since
<1> DEFINE m == Calm(c, r)
<1>1. NotYet \in Int /\ NotYet # basisTime /\ NotYet <= basisTime
  BY DEF NotYet
<1>2. CASE r.kind # "converged"
  <2>1. m = [since |-> NotYet, last |-> NotYet]
    BY <1>2 DEF Calm, NoCalm
  <2>2. QED BY <1>1, <1>2, <2>1 DEF CalmShape
<1>3. CASE r.kind = "converged" /\ c.since # NotYet /\ basisTime - c.last <= LongestGap
  <2>1. m = [c EXCEPT !.last = basisTime]
    BY <1>3 DEF Calm
  <2>2. QED BY <1>1, <1>3, <2>1 DEF CalmShape
<1>4. CASE r.kind = "converged" /\ ~ (c.since # NotYet /\ basisTime - c.last <= LongestGap)
  <2>1. m = [since |-> basisTime, last |-> basisTime]
    BY <1>4 DEF Calm
  <2>2. QED BY <1>1, <1>4, <2>1 DEF CalmShape
<1>5. QED BY <1>2, <1>3, <1>4

-----------------------------------------------------------------------------
\* What one reading may do to the row of a path, with the histories of the same reading.
Follows(e, d, k, m) ==
  /\ EpisodeSound(d, k, m)
  /\ k.since = basisTime => d.open
  /\ d.open /\ d.confirmed /\ (e.open => ~ e.confirmed) =>
       k.samples >= SamplesNeeded /\ basisTime - k.since >= IF k.closed THEN ConfirmClosed ELSE ConfirmOpen
  /\ e.open /\ ~ d.open => m.since # NotYet /\ basisTime - m.since >= RecoverFor
Before(e, h, c) == EpisodeSound(e, h, c) /\ basisTime \in Nat /\ h.since < basisTime /\ c.since < basisTime

\* The sign that there is no episode is no open one.
LEMMA NoneIsClosed == ~ NoEpisode.open
BY DEF NoEpisode

\* An open row before its reading is judged: a gap has stopped its clocks.
LEMMA AfterGapIs ==
  ASSUME NEW e, NEW h, NEW c, Before(e, h, c), OpenRow(e), Earned(e, h, c)
  PROVE  LET f == AfterGap(e)
         IN /\ SameBut(f, e)
            /\ f.candidate # NotYet => f = e /\ basisTime - e.last <= LongestGap
            /\ f.recovering # NotYet => f = e /\ basisTime - e.last <= LongestGap
<1>1. basisTime \in Nat /\ e.last \in Int /\ LongestGap \in Nat
  BY BasisAssumption DEF Before, OpenRow, BasisAssumption
<1>2. CASE basisTime - e.last > LongestGap
  BY <1>1, <1>2, StoppedIs DEF AfterGap
<1>3. CASE ~ (basisTime - e.last > LongestGap)
  BY <1>1, <1>3 DEF AfterGap, SameBut
<1>4. QED BY <1>2, <1>3

\* No price, or none to be trusted.
LEMMA MissingFollows ==
  ASSUME NEW e, NEW h, NEW c, Before(e, h, c), NEW r \in RowReadings, r.kind \in {"missing", "invalid"}
  PROVE  Follows(e, Episode(e, r), Agreed(h, r), Calm(c, r))
<1> DEFINE k == Agreed(h, r)
           m == Calm(c, r)
<1>1. AgreedShape(k) /\ CalmShape(m) /\ k.since # basisTime
  <2>1. ~ Signals(r)
    BY DEF Signals
  <2>2. QED BY <2>1, AgreedIs, CalmIs DEF Before, EpisodeSound
<1> HIDE DEF k, m
<1>2. CASE e = NoEpisode
  <2>1. Episode(e, r) = e
    BY <1>2, NoneIsClosed DEF Episode
  <2>2. QED BY <1>1, <1>2, <2>1, NoneIsClosed DEF Follows, EpisodeSound, k, m
<1>3. CASE OpenRow(e)
  <2>1. Episode(e, r) = Stopped(e)
    BY <1>3 DEF Episode, OpenRow
  <2>2. SameBut(Stopped(e), e) /\ Stopped(e).candidate = NotYet /\ Stopped(e).recovering = NotYet
    BY <1>3, StoppedIs
  <2>3. EpisodeSound(Stopped(e), k, m)
    BY <1>1, <2>2 DEF EpisodeSound, Earned, SameBut
  <2>4. Stopped(e).open /\ e.open /\ (Stopped(e).confirmed => e.confirmed)
    BY <1>3, <2>2 DEF SameBut, OpenRow
  <2>5. QED BY <1>1, <2>1, <2>3, <2>4 DEF Follows, k, m
<1>4. QED BY <1>2, <1>3 DEF Before, EpisodeSound

\* Neither a signal nor a convergence, or a convergence of what is not marked.
LEMMA ClosedFollows ==
  ASSUME NEW h, NEW c, Before(NoEpisode, h, c), NEW r \in RowReadings, ~ Signals(r)
  PROVE  Follows(NoEpisode, Episode(NoEpisode, r), Agreed(h, r), Calm(c, r))
<1>1. AgreedShape(Agreed(h, r)) /\ CalmShape(Calm(c, r)) /\ Agreed(h, r).since # basisTime
  BY AgreedIs, CalmIs DEF Before, EpisodeSound
<1>2. Episode(NoEpisode, r) = NoEpisode
  BY NoneIsClosed DEF Episode
<1>3. QED BY <1>1, <1>2, NoneIsClosed DEF Follows, EpisodeSound

\* A reading that is no signal and no convergence follows from what was known.
LEMMA NeitherFollows ==
  ASSUME NEW e, NEW h, NEW c, Before(e, h, c), OpenRow(e), Earned(e, h, c), NEW r \in RowReadings, r.kind = "neither"
  PROVE  Follows(e, Episode(e, r), Agreed(h, r), Calm(c, r))
<1> DEFINE k == Agreed(h, r)
           m == Calm(c, r)
           f == AfterGap(e)
           g == [f EXCEPT !.last = basisTime]
           u == Uncounted(g)
           n == [u EXCEPT !.recovering = NotYet]
           d == [n EXCEPT !.sign = r.sign]
<1>1. ~ Signals(r)
  BY DEF Signals
<1>2. AgreedShape(k) /\ CalmShape(m) /\ k.since # basisTime
  BY <1>1, AgreedIs, CalmIs DEF Before, EpisodeSound
<1>3. SameBut(f, e) /\ OpenRow(f)
  BY AfterGapIs DEF SameBut
<1>4. basisTime \in Int /\ NotYet \in Int /\ r.sign \in {-1, 1} /\ e.open
  BY DEF Before, NotYet, RowReadings, OpenRow
<1>5. Judged(g, r) = n
  BY <1>1 DEF Judged
<1> HIDE DEF k, m, f
<1>6. OpenRow(g) /\ (g.confirmed => f.confirmed)
  BY <1>3, <1>4, LastSet
<1> HIDE DEF g
<1>7. OpenRow(u) /\ (u.confirmed => g.confirmed) /\ u.candidate = NotYet
  BY <1>6, UncountedIs DEF SameBut
<1> HIDE DEF u
<1>8. OpenRow(n) /\ (n.confirmed => u.confirmed) /\ n.candidate = NotYet /\ n.recovering = NotYet
  BY <1>4, <1>7, RecoveringSet DEF SameBut
<1> HIDE DEF n
<1>9. OpenRow(d) /\ (d.confirmed => n.confirmed) /\ d.candidate = NotYet /\ d.recovering = NotYet
  BY <1>4, <1>8, SignSet
<1>10. Episode(e, r) = d
  BY <1>1, <1>4, <1>5, <1>8 DEF Episode, OpenRow, f, g
<1> HIDE DEF d
<1>11. EpisodeSound(d, k, m)
  BY <1>2, <1>9 DEF EpisodeSound, Earned
<1>12. d.open /\ (d.confirmed => e.confirmed)
  BY <1>3, <1>6, <1>7, <1>8, <1>9 DEF OpenRow, SameBut
<1>13. QED BY <1>2, <1>4, <1>10, <1>11, <1>12 DEF Follows, k, m

\* So does one of convergence: a row closes only after its calm.
LEMMA ConvergedFollows ==
  ASSUME NEW e, NEW h, NEW c, Before(e, h, c), OpenRow(e), Earned(e, h, c), NEW r \in RowReadings, r.kind = "converged"
  PROVE  Follows(e, Episode(e, r), Agreed(h, r), Calm(c, r))
<1> DEFINE k == Agreed(h, r)
           m == Calm(c, r)
           f == AfterGap(e)
           g == [f EXCEPT !.last = basisTime]
           since == IF g.recovering = NotYet THEN basisTime ELSE g.recovering
           u == Uncounted(g)
           n == [u EXCEPT !.recovering = since]
           d == [n EXCEPT !.sign = r.sign]
<1>1. ~ Signals(r)
  BY DEF Signals
<1>2. /\ AgreedShape(k) /\ CalmShape(m) /\ k.since # basisTime /\ m.since <= basisTime
      /\ m.since # NotYet /\ m.last = basisTime
      /\ c.since # NotYet /\ basisTime - c.last <= LongestGap => m.since = c.since
  BY <1>1, AgreedIs, CalmIs DEF Before, EpisodeSound
<1>3. /\ SameBut(f, e) /\ OpenRow(f)
      /\ f.recovering # NotYet => f = e /\ basisTime - e.last <= LongestGap
  BY AfterGapIs DEF SameBut
<1>4. basisTime \in Int /\ NotYet \in Int /\ r.sign \in {-1, 1} /\ e.open /\ RecoverFor \in Nat
  BY BasisAssumption DEF Before, NotYet, RowReadings, OpenRow, BasisAssumption
<1>5. Judged(g, r) = IF basisTime - since >= RecoverFor THEN NoEpisode ELSE n
  BY <1>1 DEF Judged, Recovering
<1>6. e.recovering # NotYet => c.since # NotYet /\ c.since <= e.recovering /\ c.last = e.last
  BY DEF Earned
<1> HIDE DEF k, m, f
<1>7. OpenRow(g) /\ (g.confirmed => f.confirmed) /\ g.recovering = f.recovering /\ g.last = basisTime
  BY <1>3, <1>4, LastSet
<1> HIDE DEF g
<1>8. /\ since \in Int /\ since # NotYet
      /\ m.since <= since
  <2>1. since \in Int
    BY <1>4, <1>7 DEF OpenRow
  <2>2. since # NotYet
    BY DEF NotYet, Before
  <2>3. g.recovering = NotYet => m.since <= since
    BY <1>2
  <2>4. g.recovering # NotYet => m.since <= since
    BY <1>2, <1>3, <1>6, <1>7
  <2>5. QED BY <2>1, <2>2, <2>3, <2>4
<1> HIDE DEF since
<1>9. CASE basisTime - since >= RecoverFor
  <2>1. Judged(g, r) = NoEpisode
    BY <1>5, <1>9
  <2>2. Episode(e, r) = NoEpisode
    BY <1>1, <1>4, <2>1, NoneIsClosed DEF Episode, f, g
  <2>3. EpisodeSound(NoEpisode, k, m)
    BY <1>2 DEF EpisodeSound
  <2>4. basisTime - m.since >= RecoverFor
    BY <1>2, <1>4, <1>8, <1>9 DEF CalmShape
  <2>5. QED BY <1>2, <2>2, <2>3, <2>4, NoneIsClosed DEF Follows, k, m
<1>10. CASE ~ (basisTime - since >= RecoverFor)
  <2>1. OpenRow(u) /\ (u.confirmed => g.confirmed) /\ u.candidate = NotYet /\ u.last = basisTime
    BY <1>7, UncountedIs DEF SameBut
  <2> HIDE DEF u
  <2>2. /\ OpenRow(n) /\ (n.confirmed => u.confirmed) /\ n.candidate = NotYet /\ n.recovering = since
        /\ n.last = basisTime
    BY <1>8, <2>1, RecoveringSet DEF SameBut
  <2>3. Judged(g, r) = n
    BY <1>5, <1>10
  <2> HIDE DEF n
  <2>4. /\ OpenRow(d) /\ (d.confirmed => n.confirmed) /\ d.candidate = NotYet /\ d.recovering = since
        /\ d.last = basisTime
    BY <1>4, <2>2, SignSet
  <2>5. Episode(e, r) = d
    BY <1>1, <1>4, <2>2, <2>3 DEF Episode, OpenRow, f, g
  <2> HIDE DEF d
  <2>6. EpisodeSound(d, k, m)
    BY <1>2, <1>8, <2>4 DEF EpisodeSound, Earned
  <2>7. d.open /\ (d.confirmed => e.confirmed)
    BY <1>3, <1>7, <2>1, <2>2, <2>4 DEF OpenRow, SameBut
  <2>8. QED BY <1>2, <1>4, <2>5, <2>6, <2>7 DEF Follows, k, m
<1>11. QED BY <1>9, <1>10

\* A signal: on a row that is open, or one that it opens.
LEMMA SignalFollows ==
  ASSUME NEW e, NEW h, NEW c, Before(e, h, c), NEW r \in RowReadings, Signals(r)
  PROVE  Follows(e, Episode(e, r), Agreed(h, r), Calm(c, r))
<1> DEFINE k == Agreed(h, r)
           m == Calm(c, r)
           f == IF e.open THEN AfterGap(e) ELSE OpenedBy(r)
           g == [f EXCEPT !.last = basisTime]
           u == SameSign(g, r)
           n == Signalled(g, r)
           d == [n EXCEPT !.sign = r.sign]
           one(x) == IF x < SamplesNeeded THEN x + 1 ELSE x
<1>1. /\ AgreedShape(k) /\ CalmShape(m) /\ k.since <= basisTime
      /\ k.sign = r.sign /\ k.last = basisTime /\ k.samples >= 1
      /\ k.closed = (r.kind = "closed")
      /\ h.sign = r.sign /\ basisTime - h.last <= LongestGap => k.since = h.since /\ k.samples = one(h.samples)
  BY AgreedIs, CalmIs DEF Before, EpisodeSound
<1>2. /\ basisTime \in Nat /\ NotYet \in Int /\ NotYet # basisTime /\ r.sign \in {-1, 1}
      /\ SamplesNeeded \in Nat /\ {ConfirmClosed, ConfirmOpen} \subseteq Nat
      /\ r.kind \notin {"missing", "invalid", "converged"}
      /\ h.samples \in Nat /\ k.samples \in Nat /\ k.since \in Int /\ h.since \in Int
  BY <1>1, BasisAssumption DEF Before, EpisodeSound, AgreedShape, NotYet, RowReadings, BasisAssumption, Signals
<1> HIDE DEF k, m
<1>3. /\ OpenRow(f) /\ (f.confirmed => e.open /\ e.confirmed)
      /\ f.candidate # NotYet /\ f.sign = r.sign => k.since <= f.candidate /\ k.samples >= one(f.samples)
  <2>1. CASE e = NoEpisode
    <3>1. f = OpenedBy(r)
      BY <2>1, NoneIsClosed
    <3>2. /\ DOMAIN f = {"open", "candidate", "recovering", "samples", "confirmed", "last", "sign"}
          /\ f.open /\ f.candidate = basisTime /\ f.recovering = NotYet /\ f.samples = 0 /\ ~ f.confirmed
          /\ f.last = basisTime /\ f.sign = r.sign
      BY <3>1 DEF OpenedBy
    <3> HIDE DEF f
    <3>3. OpenRow(f)
      BY <1>2, <3>2 DEF OpenRow
    <3>4. QED BY <1>1, <1>2, <3>2, <3>3
  <2>2. CASE OpenRow(e) /\ Earned(e, h, c)
    <3>1. f = AfterGap(e) /\ e.open
      BY <2>2 DEF OpenRow
    <3>2. SameBut(f, e) /\ (f.candidate # NotYet => f = e /\ basisTime - e.last <= LongestGap)
      BY <2>2, <3>1, AfterGapIs
    <3> HIDE DEF f
    <3>3. ASSUME f.candidate # NotYet, f.sign = r.sign
          PROVE  k.since <= f.candidate /\ k.samples >= one(f.samples)
      <4>1. f = e /\ basisTime - e.last <= LongestGap
        BY <3>2, <3>3
      <4>2. h.sign = e.sign /\ h.since <= e.candidate /\ h.samples >= e.samples /\ h.last = e.last
        BY <2>2, <3>3, <4>1 DEF Earned
      <4>3. k.since = h.since /\ k.samples = one(h.samples)
        BY <1>1, <3>3, <4>1, <4>2
      <4>4. e.samples \in Nat
        BY <2>2 DEF OpenRow
      <4>5. one(h.samples) >= one(e.samples)
        BY <1>2, <4>2, <4>4
      <4>6. QED BY <4>1, <4>2, <4>3, <4>5
    <3>4. QED BY <3>1, <3>2, <3>3 DEF SameBut
  <2>3. QED BY <2>1, <2>2 DEF Before, EpisodeSound
<1> HIDE DEF f
<1>4. /\ OpenRow(g) /\ (g.confirmed => f.confirmed) /\ g.sign = f.sign /\ g.last = basisTime
      /\ g.candidate = f.candidate /\ g.samples = f.samples
  BY <1>2, <1>3, LastSet
<1> HIDE DEF g
<1>5. /\ SameBut(u, g)
      /\ u.candidate # NotYet => k.since <= u.candidate /\ k.samples >= one(u.samples)
      /\ u.candidate = NotYet => u.samples = 0
  <2>1. /\ SameBut(u, g)
        /\ g.sign # r.sign => u.candidate = NotYet /\ u.samples = 0
        /\ g.sign = r.sign => u = g
    BY <1>4, SameSignIs
  <2>2. u.candidate = NotYet => u.samples = 0
    BY <2>1 DEF SameBut, OpenRow
  <2>3. u.candidate # NotYet => k.since <= u.candidate /\ k.samples >= one(u.samples)
    BY <1>3, <1>4, <2>1
  <2>4. QED BY <2>1, <2>2, <2>3
<1>6. /\ OpenRow(n) /\ n.recovering = NotYet /\ n.last = basisTime
      /\ n.candidate = IF u.candidate = NotYet THEN basisTime ELSE u.candidate
      /\ n.samples = one(u.samples)
      /\ n.confirmed => g.confirmed \/ (n.samples >= SamplesNeeded /\ basisTime - n.candidate >= ConfirmFor(r))
  BY <1>2, <1>4, SignalledIs
<1> HIDE DEF u
<1>7. k.since <= n.candidate /\ k.samples >= n.samples
  <2>1. CASE u.candidate = NotYet
    <3>1. n.samples <= 1
      BY <1>2, <1>5, <1>6, <2>1
    <3>2. n.samples \in Nat
      BY <1>6 DEF OpenRow
    <3>3. QED BY <1>1, <1>2, <1>6, <2>1, <3>1, <3>2
  <2>2. CASE u.candidate # NotYet
    BY <1>5, <1>6, <2>2
  <2>3. QED BY <2>1, <2>2
<1>8. Episode(e, r) = d
  <2>1. Judged(g, r) = n
    BY <1>2 DEF Judged
  <2>2. Episode(e, r) = IF Judged(g, r).open THEN [Judged(g, r) EXCEPT !.sign = r.sign] ELSE Judged(g, r)
    BY <1>2 DEF Episode, f, g
  <2>3. QED BY <1>6, <2>1, <2>2 DEF OpenRow
<1> HIDE DEF n
<1>9. /\ OpenRow(d) /\ (d.confirmed => n.confirmed) /\ d.sign = r.sign /\ d.last = basisTime
      /\ d.candidate = n.candidate /\ d.samples = n.samples /\ d.recovering = NotYet
  BY <1>2, <1>6, SignSet
<1> HIDE DEF d
<1>10. EpisodeSound(d, k, m)
  BY <1>1, <1>7, <1>9 DEF EpisodeSound, Earned
<1>11. ASSUME d.confirmed, e.open => ~ e.confirmed
       PROVE  k.samples >= SamplesNeeded /\ basisTime - k.since >= IF k.closed THEN ConfirmClosed ELSE ConfirmOpen
  <2>1. n.samples >= SamplesNeeded /\ basisTime - n.candidate >= ConfirmFor(r)
    BY <1>3, <1>4, <1>6, <1>9, <1>11
  <2>2. ConfirmFor(r) = IF k.closed THEN ConfirmClosed ELSE ConfirmOpen
    BY <1>1 DEF ConfirmFor
  <2>3. n.samples \in Nat /\ n.candidate \in Int
    BY <1>6 DEF OpenRow
  <2>4. basisTime - k.since >= ConfirmFor(r)
    BY <1>2, <1>7, <2>1, <2>3 DEF ConfirmFor
  <2>5. k.samples >= SamplesNeeded
    BY <1>2, <1>7, <2>1, <2>3
  <2>6. QED BY <2>2, <2>4, <2>5
<1>12. d.open
  BY <1>9 DEF OpenRow
<1>13. Follows(e, d, k, m)
  BY <1>10, <1>11, <1>12 DEF Follows
<1>14. QED BY <1>8, <1>13 DEF k, m

\* One reading of one path, whatever it shows.
LEMMA ReadingFollows ==
  ASSUME NEW e, NEW h, NEW c, Before(e, h, c), NEW r \in RowReadings
  PROVE  Follows(e, Episode(e, r), Agreed(h, r), Calm(c, r))
<1>1. r.kind \in RowKinds
  BY DEF RowReadings
<1>2. r.kind \in {"missing", "invalid", "converged", "neither"} \/ Signals(r)
  BY <1>1 DEF RowKinds, Signals
<1>3. CASE r.kind \in {"missing", "invalid"}
  BY <1>3, MissingFollows
<1>4. CASE Signals(r)
  BY <1>4, SignalFollows
<1>5. CASE r.kind \in {"converged", "neither"}
  <2>1. CASE e = NoEpisode
    <3>1. ~ Signals(r)
      BY <1>5 DEF Signals
    <3>2. QED BY <2>1, <3>1, ClosedFollows
  <2>2. CASE OpenRow(e) /\ Earned(e, h, c)
    BY <1>5, <2>2, ConvergedFollows, NeitherFollows
  <2>3. QED BY <2>1, <2>2 DEF Before, EpisodeSound
<1>6. QED BY <1>2, <1>3, <1>4, <1>5

-----------------------------------------------------------------------------
\* Trackings: what is open, what the memory counts and what was seen of the basis.
TrackingShape ==
  /\ trackings \in Seq([direction : {-1, 1}, level : Int])
  /\ seen \in [direction : {-1, 0, 1}, quiet : 0 .. 2]
  /\ candidate \in [direction : {-1, 0, 1}, count : 0 .. 2]
TrackingSound ==
  /\ \A i, j \in DOMAIN trackings : i # j => trackings[i].direction # trackings[j].direction
  /\ candidate.count >= 1 => candidate.direction = seen.direction
  /\ candidate.direction = 0 => candidate.count = 0
  /\ seen.quiet >= 1 => Len(trackings) <= 1
  /\ seen.quiet >= 2 => trackings = <<>>
TrackingInv == TrackingShape /\ TrackingSound

\* Of two directions there are two trackings at the most.
LEMMA TwoAtMost ==
  ASSUME TrackingInv
  PROVE  Len(trackings) \in Nat /\ Len(trackings) <= 2 /\ DOMAIN trackings = 1 .. Len(trackings)
         /\ \A i \in DOMAIN trackings : trackings[i].direction \in {-1, 1}
<1>1. Len(trackings) \in Nat /\ DOMAIN trackings = 1 .. Len(trackings)
  BY DEF TrackingInv, TrackingShape
<1>2. ASSUME NEW i \in DOMAIN trackings PROVE trackings[i].direction \in {-1, 1}
  <2>1. trackings[i] \in [direction : {-1, 1}, level : Int]
    BY <1>1, ElementOfSeq DEF TrackingInv, TrackingShape
  <2>2. QED BY <2>1
<1>3. ASSUME Len(trackings) > 2 PROVE FALSE
  <2>1. 1 \in DOMAIN trackings /\ 2 \in DOMAIN trackings /\ 3 \in DOMAIN trackings
    BY <1>1, <1>3
  <2>2. /\ trackings[1].direction # trackings[2].direction
        /\ trackings[1].direction # trackings[3].direction
        /\ trackings[2].direction # trackings[3].direction
    BY <2>1 DEF TrackingInv, TrackingSound
  <2>3. QED BY <1>2, <2>1, <2>2
<1>4. QED BY <1>1, <1>2, <1>3

\* A tracking that grows keeps its direction.
Row == [direction : {-1, 1}, level : Int]
\* A tracking grows in its level, never in its direction.
LEMMA GrownIs ==
  ASSUME NEW t \in Row, NEW b \in Int
  PROVE  Grown(t, b) \in Row /\ Grown(t, b).direction = t.direction
<1>1. Size(b) \in Int
  BY DEF Size
<1>2. QED BY <1>1 DEF Grown, Row

\* Growing all trackings keeps their number and directions.
LEMMA AllGrown ==
  ASSUME NEW open \in Seq(Row), NEW b \in Int
  PROVE  LET more == [i \in DOMAIN open |-> Grown(open[i], b)]
         IN /\ more \in Seq(Row) /\ Len(more) = Len(open)
            /\ \A i \in DOMAIN open : more[i].direction = open[i].direction
<1> DEFINE more == [i \in DOMAIN open |-> Grown(open[i], b)]
<1>1. DOMAIN open = 1 .. Len(open) /\ Len(open) \in Nat
  BY LenProperties
<1>2. \A i \in DOMAIN open : Grown(open[i], b) \in Row /\ Grown(open[i], b).direction = open[i].direction
  BY <1>1, GrownIs, ElementOfSeq
<1>3. more \in [1 .. Len(open) -> Row]
  BY <1>1, <1>2
<1>4. more \in Seq(Row)
  BY <1>1, <1>3, SeqDef
<1>5. Len(more) = Len(open)
  BY <1>1, <1>3, <1>4, LenProperties
<1>6. QED BY <1>2, <1>4, <1>5

\* An observation within the threshold: a quiet one ends what was read last.
LEMMA QuietTracks ==
  ASSUME TrackingInv, NEW b \in Int, Track(b), Size(b) < Threshold
  PROVE  TrackingInv' /\ TrackingsAreEarned
<1>1. /\ candidate' = NoCount /\ trackings' = IF Size(b) < QuietBelow /\ trackings # <<>> THEN Ended ELSE trackings
      /\ seen' = [direction |-> 0, quiet |-> IF Size(b) >= QuietBelow THEN 0 ELSE IF seen.quiet < 2 THEN seen.quiet + 1 ELSE 2]
  BY DEF Track, CountedBasis, Heard, Tracking
<1>2. /\ Len(trackings) \in Nat /\ Len(trackings) <= 2 /\ DOMAIN trackings = 1 .. Len(trackings)
      /\ trackings \in Seq(Row) /\ (trackings = <<>> <=> Len(trackings) = 0)
  BY TwoAtMost, EmptySeq DEF TrackingInv, TrackingShape, Row
<1>3. candidate' \in [direction : {-1, 0, 1}, count : 0 .. 2] /\ candidate'.count = 0
  BY <1>1 DEF NoCount
<1>4. /\ seen.quiet \in 0 .. 2 /\ Size(b) \in Int /\ QuietBelow \in Nat
      /\ seen.quiet >= 1 => Len(trackings) <= 1
      /\ seen.quiet >= 2 => trackings = <<>>
  BY BasisAssumption DEF TrackingInv, TrackingShape, TrackingSound, Size, BasisAssumption
<1>5. /\ seen' \in [direction : {-1, 0, 1}, quiet : 0 .. 2]
      /\ seen'.quiet = IF Size(b) >= QuietBelow THEN 0 ELSE IF seen.quiet < 2 THEN seen.quiet + 1 ELSE 2
  BY <1>1, <1>4
<1>6. CASE Size(b) < QuietBelow /\ trackings # <<>>
  <2>1. trackings' = SubSeq(trackings, 1, Len(trackings) - 1)
    BY <1>1, <1>6 DEF Ended
  <2>2. \A i \in 1 .. Len(trackings) - 1 : trackings[i] \in Row
    BY <1>2, ElementOfSeq
  <2>3. /\ trackings' \in Seq(Row)
        /\ Len(trackings') = IF 1 <= Len(trackings) - 1 THEN Len(trackings) - 1 - 1 + 1 ELSE 0
        /\ \A i \in 1 .. Len(trackings) - 1 - 1 + 1 : trackings'[i] = trackings[1 + i - 1]
    BY <1>2, <2>1, <2>2, SubSeqProperties
  <2>4. Len(trackings') = Len(trackings) - 1 /\ Len(trackings') \in Nat
    <3>1. Len(trackings) \in {1, 2}
      BY <1>2, <1>6
    <3>2. CASE Len(trackings) = 1
      BY <2>3, <3>2
    <3>3. CASE Len(trackings) = 2
      BY <2>3, <3>3
    <3>4. QED BY <3>1, <3>2, <3>3
  <2>5. DOMAIN trackings' = 1 .. Len(trackings')
    BY <2>3, LenProperties
  <2>6. DOMAIN trackings' \subseteq DOMAIN trackings /\ \A i \in DOMAIN trackings' : trackings'[i] = trackings[i]
    <3>1. ASSUME NEW i \in DOMAIN trackings' PROVE i \in DOMAIN trackings /\ trackings'[i] = trackings[i]
      <4>1. i \in DOMAIN trackings /\ i \in 1 .. Len(trackings) - 1 - 1 + 1 /\ 1 + i - 1 = i
        BY <1>2, <2>4, <2>5
      <4>2. QED BY <2>3, <4>1
    <3>2. QED BY <3>1
  <2>7. \A i, j \in DOMAIN trackings' : i # j => trackings'[i].direction # trackings'[j].direction
    BY <2>6 DEF TrackingInv, TrackingSound
  <2>8. seen'.quiet >= 1 => Len(trackings') <= 1
    BY <1>2, <2>4
  <2>9. seen'.quiet >= 2 => trackings' = <<>>
    <3>1. seen'.quiet >= 2 => Len(trackings') = 0
      BY <1>2, <1>4, <1>5, <2>4
    <3>2. trackings' # <<>> => Len(trackings') \in Nat \ {0}
      BY <2>3, EmptySeq
    <3>3. QED BY <3>1, <3>2
  <2>10. TrackingInv'
    BY <1>3, <1>5, <2>3, <2>7, <2>8, <2>9 DEF TrackingInv, TrackingShape, TrackingSound, Row
  <2>11. QED BY <1>2, <2>4, <2>7, <2>9, <2>10 DEF TrackingsAreEarned
<1>7. CASE ~ (Size(b) < QuietBelow /\ trackings # <<>>)
  <2>1. trackings' = trackings
    BY <1>1, <1>7
  <2>2. seen'.quiet >= 1 => trackings = <<>>
    BY <1>4, <1>5, <1>7
  <2>3. TrackingInv'
    BY <1>2, <1>3, <1>5, <2>1, <2>2 DEF TrackingInv, TrackingShape, TrackingSound
  <2>4. QED BY <1>2, <1>5, <2>1, <2>2, <2>3 DEF TrackingsAreEarned, TrackingInv, TrackingSound
<1>8. QED BY <1>6, <1>7

\* An observation beyond it: the second of a direction in a row opens the tracking.
LEMMA LoudTracks ==
  ASSUME TrackingInv, NEW b \in Int, Track(b), ~ (Size(b) < Threshold)
  PROVE  TrackingInv' /\ TrackingsAreEarned
<1> DEFINE d == Direction(b)
           open == IF Tracked(b) THEN trackings ELSE Append(trackings, [direction |-> d, level |-> Threshold])
<1>1. /\ candidate' = CountedBasis(b) /\ seen' = Heard(b)
      /\ trackings' = IF candidate'.count < 2 THEN trackings ELSE [i \in DOMAIN open |-> Grown(open[i], b)]
  BY DEF Track, Tracking
<1>2. /\ Len(trackings) \in Nat /\ DOMAIN trackings = 1 .. Len(trackings)
      /\ trackings \in Seq(Row)
      /\ \A i, j \in DOMAIN trackings : i # j => trackings[i].direction # trackings[j].direction
  BY TwoAtMost DEF TrackingInv, TrackingShape, TrackingSound, Row
<1>3. /\ Size(b) \in Int /\ Threshold \in Nat /\ QuietBelow \in Nat /\ QuietBelow <= Threshold
      /\ d \in {-1, 1}
  BY BasisAssumption DEF Size, BasisAssumption, Direction
<1>4. /\ seen \in [direction : {-1, 0, 1}, quiet : 0 .. 2]
      /\ candidate \in [direction : {-1, 0, 1}, count : 0 .. 2]
      /\ candidate.count >= 1 => candidate.direction = seen.direction
      /\ candidate.direction = 0 => candidate.count = 0
  BY DEF TrackingInv, TrackingShape, TrackingSound
<1> HIDE DEF d
<1>5. /\ seen' = [direction |-> d, quiet |-> 0]
      /\ seen' \in [direction : {-1, 0, 1}, quiet : 0 .. 2] /\ seen'.quiet = 0 /\ seen'.direction = d
  BY <1>1, <1>3 DEF Heard, d
<1>6. candidate' = IF candidate.direction \in {0, d}
                   THEN [direction |-> d, count |-> IF candidate.count < 2 THEN candidate.count + 1 ELSE 2]
                   ELSE [direction |-> d, count |-> 1]
  BY <1>1 DEF CountedBasis, d
<1>7. /\ candidate' \in [direction : {-1, 0, 1}, count : 0 .. 2] /\ candidate'.direction = d
      /\ candidate'.count >= 2 => candidate.count >= 1 /\ candidate.direction \in {0, d}
  BY <1>3, <1>4, <1>6
<1>8. CASE candidate'.count < 2
  <2>1. trackings' = trackings
    BY <1>1, <1>8
  <2>2. TrackingInv'
    BY <1>2, <1>3, <1>5, <1>7, <2>1 DEF TrackingInv, TrackingShape, TrackingSound
  <2>3. QED BY <1>2, <1>5, <2>1, <2>2 DEF TrackingsAreEarned
<1>9. CASE ~ (candidate'.count < 2)
  <2>1. seen.direction = d
    BY <1>3, <1>4, <1>7, <1>9
  <2>2. /\ open \in Seq(Row) /\ Len(open) \in Nat /\ DOMAIN open = 1 .. Len(open)
        /\ \A i, j \in DOMAIN open : i # j => open[i].direction # open[j].direction
        /\ Len(open) > Len(trackings) => open[Len(open)].direction = d
    <3>1. CASE Tracked(b)
      BY <1>2, <3>1
    <3>2. CASE ~ Tracked(b)
      <4> DEFINE new == [direction |-> d, level |-> Threshold]
      <4>1. open = Append(trackings, new) /\ new \in Row /\ new.direction = d
        BY <1>3, <3>2 DEF Row
      <4> HIDE DEF new, open
      <4>2. /\ open \in Seq(Row) /\ Len(open) = Len(trackings) + 1
            /\ \A i \in 1 .. Len(trackings) : open[i] = trackings[i]
            /\ open[Len(trackings) + 1] = new
        BY <1>2, <4>1, AppendProperties
      <4>3. DOMAIN open = 1 .. Len(open)
        BY <4>2, LenProperties
      <4>4. \A i \in DOMAIN trackings : trackings[i].direction # d
        BY <3>2 DEF Tracked, d
      <4>5. ASSUME NEW i \in DOMAIN open, NEW j \in DOMAIN open, i # j
            PROVE  open[i].direction # open[j].direction
        <5>1. (i \in DOMAIN trackings \/ i = Len(trackings) + 1) /\ (j \in DOMAIN trackings \/ j = Len(trackings) + 1)
          BY <1>2, <4>2, <4>3
        <5>2. QED BY <1>2, <4>1, <4>2, <4>4, <4>5, <5>1
      <4>6. QED BY <1>2, <4>1, <4>2, <4>3, <4>5
    <3>3. QED BY <3>1, <3>2
  <2>3. trackings' = [i \in DOMAIN open |-> Grown(open[i], b)]
    BY <1>1, <1>9
  <2> HIDE DEF open
  <2>4. /\ trackings' \in Seq(Row) /\ Len(trackings') = Len(open)
        /\ \A i \in DOMAIN open : trackings'[i].direction = open[i].direction
    BY <2>2, <2>3, AllGrown
  <2>5. DOMAIN trackings' = DOMAIN open
    BY <2>3
  <2>6. \A i, j \in DOMAIN trackings' : i # j => trackings'[i].direction # trackings'[j].direction
    BY <2>2, <2>4, <2>5
  <2>7. TrackingInv'
    BY <1>3, <1>5, <1>7, <2>4, <2>6 DEF TrackingInv, TrackingShape, TrackingSound, Row
  <2>8. Len(trackings') > Len(trackings) => trackings'[Len(trackings')].direction = d
    <3>1. Len(open) > Len(trackings) => Len(open) \in DOMAIN open
      BY <1>2, <2>2
    <3>2. QED BY <2>2, <2>4, <3>1
  <2>9. QED BY <1>5, <2>1, <2>6, <2>7, <2>8 DEF TrackingsAreEarned
<1>10. QED BY <1>8, <1>9

\* A round in vain moves the memory and what was seen, and no row.
LEMMA VainTracks ==
  ASSUME TrackingInv, NEW b \in Int, TrackInVain(b)
  PROVE  TrackingInv' /\ TrackingsAreEarned
<1>1. /\ candidate' = CountedBasis(b) /\ seen' = [Heard(b) EXCEPT !.quiet = seen.quiet] /\ trackings' = trackings
  BY DEF TrackInVain
<1>2. /\ seen \in [direction : {-1, 0, 1}, quiet : 0 .. 2]
      /\ candidate \in [direction : {-1, 0, 1}, count : 0 .. 2]
      /\ Direction(b) \in {-1, 1}
  BY DEF TrackingInv, TrackingShape, Direction
<1>3. seen' = [direction |-> IF Size(b) < Threshold THEN 0 ELSE Direction(b), quiet |-> seen.quiet]
  BY <1>1 DEF Heard
<1>4. /\ seen' \in [direction : {-1, 0, 1}, quiet : 0 .. 2] /\ seen'.quiet = seen.quiet
      /\ candidate' \in [direction : {-1, 0, 1}, count : 0 .. 2]
  <2>1. seen' \in [direction : {-1, 0, 1}, quiet : 0 .. 2] /\ seen'.quiet = seen.quiet
    BY <1>2, <1>3
  <2>2. NoCount \in [direction : {-1, 0, 1}, count : 0 .. 2]
    BY DEF NoCount
  <2>3. CASE Size(b) < Threshold
    BY <1>1, <2>1, <2>2, <2>3 DEF CountedBasis
  <2>4. CASE ~ (Size(b) < Threshold)
    <3>1. candidate.count \in 0 .. 2 /\ (IF candidate.count < 2 THEN candidate.count + 1 ELSE 2) \in 0 .. 2
      BY <1>2
    <3>2. candidate' \in [direction : {-1, 0, 1}, count : 0 .. 2]
      BY <1>1, <1>2, <2>4, <3>1 DEF CountedBasis
    <3>3. QED BY <2>1, <3>2
  <2>5. QED BY <2>3, <2>4
<1>5. /\ candidate'.count >= 1 => candidate'.direction = seen'.direction
      /\ candidate'.direction = 0 => candidate'.count = 0
  <2>1. CASE Size(b) < Threshold
    <3>1. candidate'.count = 0
      BY <1>1, <2>1 DEF CountedBasis, NoCount
    <3>2. QED BY <3>1
  <2>2. CASE ~ (Size(b) < Threshold)
    <3>1. candidate'.direction = Direction(b) /\ seen'.direction = Direction(b)
      BY <1>1, <1>3, <2>2 DEF CountedBasis
    <3>2. QED BY <1>2, <3>1
  <2>3. QED BY <2>1, <2>2
<1>6. TrackingInv'
  BY <1>1, <1>4, <1>5 DEF TrackingInv, TrackingShape, TrackingSound
<1>7. Len(trackings) \in Nat
  BY TwoAtMost
<1>8. QED BY <1>1, <1>4, <1>6, <1>7 DEF TrackingsAreEarned, TrackingInv, TrackingSound

\* What the memory loses, or a round without a path that is not marked, counts nothing.
LEMMA CountLost ==
  ASSUME TrackingInv, candidate' = NoCount, UNCHANGED <<trackings, seen>>
  PROVE  TrackingInv' /\ TrackingsAreEarned
<1>1. candidate' \in [direction : {-1, 0, 1}, count : 0 .. 2] /\ candidate'.count = 0
  BY DEF NoCount
<1>2. Len(trackings) \in Nat
  BY TwoAtMost
<1>3. QED BY <1>1, <1>2 DEF TrackingInv, TrackingShape, TrackingSound, TrackingsAreEarned

\* An observation that tracks nothing keeps the trackings sound and earned.
LEMMA NothingTracked ==
  ASSUME TrackingInv, UNCHANGED <<candidate, trackings, seen>>
  PROVE  TrackingInv' /\ TrackingsAreEarned
<1>1. Len(trackings) \in Nat
  BY TwoAtMost
<1>2. QED BY <1>1 DEF TrackingInv, TrackingShape, TrackingSound, TrackingsAreEarned

-----------------------------------------------------------------------------
\* The rows of all paths, and the clock, which every step moves on.
PathsSound ==
  /\ episodes = [p \in Paths |-> episodes[p]] /\ agreed = [p \in Paths |-> agreed[p]] /\ calm = [p \in Paths |-> calm[p]]
  /\ basisTime \in Nat
  /\ \A p \in Paths : Before(episodes[p], agreed[p], calm[p])
BasisInv == PathsSound /\ TrackingInv

\* Every step moves the clock on.
LEMMA ClockMoves ==
  ASSUME BasisInv, BasisNext
  PROVE  basisTime' \in Nat /\ basisTime < basisTime'
BY BasisAssumption DEF BasisInv, PathsSound, BasisNext, BasisAssumption

\* A step that reads no row leaves all of them sound.
LEMMA RowsUntouched ==
  ASSUME BasisInv, basisTime' \in Nat, basisTime < basisTime', UNCHANGED <<episodes, agreed, calm>>
  PROVE  PathsSound' /\ DivergencesAreEarned
<1>1. ASSUME NEW p \in Paths
      PROVE  /\ Before(episodes[p], agreed[p], calm[p])'
             /\ agreed'[p].since # basisTime
  <2>1. EpisodeSound(episodes[p], agreed[p], calm[p]) /\ agreed[p].since < basisTime /\ calm[p].since < basisTime
    BY DEF BasisInv, PathsSound, Before
  <2>2. agreed[p].since \in Int /\ calm[p].since \in Int /\ basisTime \in Nat
    BY <2>1 DEF EpisodeSound, AgreedShape, CalmShape, BasisInv, PathsSound
  <2>3. QED BY <2>1, <2>2 DEF Before
<1>2. PathsSound'
  BY <1>1 DEF BasisInv, PathsSound
<1>3. QED BY <1>1, <1>2 DEF DivergencesAreEarned

\* A reading of every row makes of each what its own reading makes of it.
LEMMA RowsRead ==
  ASSUME BasisInv, basisTime' \in Nat, basisTime < basisTime', NEW r \in [Paths -> RowReadings],
         episodes' = [p \in Paths |-> Episode(episodes[p], r[p])],
         agreed' = [p \in Paths |-> Agreed(agreed[p], r[p])],
         calm' = [p \in Paths |-> Calm(calm[p], r[p])]
  PROVE  PathsSound' /\ DivergencesAreEarned
<1>1. ASSUME NEW p \in Paths
      PROVE  /\ Follows(episodes[p], episodes'[p], agreed'[p], calm'[p])
             /\ agreed'[p].since <= basisTime /\ calm'[p].since <= basisTime
  <2>1. Before(episodes[p], agreed[p], calm[p]) /\ r[p] \in RowReadings
    BY DEF BasisInv, PathsSound
  <2>2. episodes'[p] = Episode(episodes[p], r[p]) /\ agreed'[p] = Agreed(agreed[p], r[p]) /\ calm'[p] = Calm(calm[p], r[p])
    OBVIOUS
  <2>3. agreed'[p].since <= basisTime /\ calm'[p].since <= basisTime
    BY <2>1, <2>2, AgreedIs, CalmIs DEF Before, EpisodeSound
  <2>4. QED BY <2>1, <2>2, <2>3, ReadingFollows
<1>2. ASSUME NEW p \in Paths
      PROVE  Before(episodes[p], agreed[p], calm[p])'
  <2>1. EpisodeSound(episodes'[p], agreed'[p], calm'[p])
    BY <1>1 DEF Follows
  <2>2. agreed'[p].since \in Int /\ calm'[p].since \in Int /\ basisTime \in Nat
    BY <2>1 DEF EpisodeSound, AgreedShape, CalmShape, BasisInv, PathsSound
  <2>3. agreed'[p].since < basisTime' /\ calm'[p].since < basisTime'
    BY <1>1, <2>2
  <2>4. QED BY <2>1, <2>3 DEF Before
<1>3. /\ episodes' = [p \in Paths |-> episodes'[p]] /\ agreed' = [p \in Paths |-> agreed'[p]]
      /\ calm' = [p \in Paths |-> calm'[p]]
  OBVIOUS
<1>4. PathsSound'
  BY <1>2, <1>3 DEF PathsSound
<1>5. DivergencesAreEarned
  BY <1>1 DEF DivergencesAreEarned, Follows
<1>6. QED BY <1>4, <1>5

\* Every step keeps the invariant and marks nothing that was not earned.
LEMMA BasisFollows ==
  ASSUME BasisInv, BasisNext
  PROVE  BasisInv' /\ DivergencesAreEarned /\ TrackingsAreEarned
<1>1. basisTime' \in Nat /\ basisTime < basisTime' /\ TrackingInv /\ Bases \subseteq Int
  BY ClockMoves, BasisAssumption DEF BasisInv, BasisAssumption
<1>2. CASE RefreshSpot
  <2>1. PICK r \in [Paths -> RowReadings] :
          /\ episodes' = [p \in Paths |-> Episode(episodes[p], r[p])]
          /\ agreed' = [p \in Paths |-> Agreed(agreed[p], r[p])]
          /\ calm' = [p \in Paths |-> Calm(calm[p], r[p])]
          /\ \/ UNCHANGED <<candidate, trackings, seen>>
             \/ candidate' = NoCount /\ UNCHANGED <<trackings, seen>>
             \/ \E b \in Bases : Track(b)
    BY <1>2 DEF RefreshSpot
  <2>2. PathsSound' /\ DivergencesAreEarned
    BY <1>1, <2>1, RowsRead
  <2>3. TrackingInv' /\ TrackingsAreEarned
    <3>1. CASE UNCHANGED <<candidate, trackings, seen>>
      BY <1>1, <3>1, NothingTracked
    <3>2. CASE candidate' = NoCount /\ UNCHANGED <<trackings, seen>>
      BY <1>1, <3>2, CountLost
    <3>3. CASE \E b \in Bases : Track(b)
      BY <1>1, <3>3, QuietTracks, LoudTracks
    <3>4. QED BY <2>1, <3>1, <3>2, <3>3
  <2>4. QED BY <2>2, <2>3 DEF BasisInv
<1>3. CASE RefreshFailed
  <2>1. PathsSound' /\ DivergencesAreEarned
    BY <1>1, <1>3, RowsUntouched DEF RefreshFailed
  <2>2. TrackingInv' /\ TrackingsAreEarned
    BY <1>1, <1>3, VainTracks DEF RefreshFailed
  <2>3. QED BY <2>1, <2>2 DEF BasisInv
<1>4. CASE Watch
  <2>1. PathsSound' /\ DivergencesAreEarned
    BY <1>1, <1>4, RowsUntouched DEF Watch
  <2>2. TrackingInv' /\ TrackingsAreEarned
    BY <1>1, <1>4, QuietTracks, LoudTracks DEF Watch
  <2>3. QED BY <2>1, <2>2 DEF BasisInv
<1>5. CASE BasisRestart
  <2>1. PathsSound' /\ DivergencesAreEarned
    BY <1>1, <1>5, RowsUntouched DEF BasisRestart
  <2>2. TrackingInv' /\ TrackingsAreEarned
    BY <1>1, <1>5, CountLost DEF BasisRestart
  <2>3. QED BY <2>1, <2>2 DEF BasisInv
<1>6. QED BY <1>2, <1>3, <1>4, <1>5 DEF BasisNext

\* A path is marked at its first signal, confirmed after an unbroken row of signals of one
\* sign and released after an unbroken convergence; a tracking opens with the second
\* observation of its direction, is alone in it and outlives no two quiet ones: the clocks
\* of a row never run ahead of the readings, whatever fails and whatever the memory loses.
THEOREM MarksAreEarned == BasisSpec => BasisIsEarned
<1>1. BasisInit => BasisInv
  <2> SUFFICES ASSUME BasisInit PROVE BasisInv
    OBVIOUS
  <2>1. /\ episodes = [p \in Paths |-> NoEpisode] /\ agreed = [p \in Paths |-> NoSignals]
        /\ calm = [p \in Paths |-> NoCalm] /\ basisTime = 0
        /\ candidate = NoCount /\ trackings = <<>> /\ seen = [direction |-> 0, quiet |-> 0]
    BY DEF BasisInit
  <2>2. Before(NoEpisode, NoSignals, NoCalm)
    BY <2>1 DEF Before, EpisodeSound, AgreedShape, CalmShape, NoSignals, NoCalm, NotYet
  <2>3. PathsSound
    BY <2>1, <2>2 DEF PathsSound
  <2>4. /\ candidate \in [direction : {-1, 0, 1}, count : 0 .. 2] /\ candidate.count = 0
        /\ seen \in [direction : {-1, 0, 1}, quiet : 0 .. 2] /\ seen.quiet = 0
    BY <2>1 DEF NoCount
  <2>5. TrackingInv
    BY <2>1, <2>4, EmptySeq DEF TrackingInv, TrackingShape, TrackingSound
  <2>6. QED BY <2>3, <2>5 DEF BasisInv
<1>2. ASSUME BasisInv, [BasisNext]_basisVars
      PROVE  BasisInv'
  <2>1. CASE UNCHANGED basisVars
    BY <1>2, <2>1 DEF basisVars, BasisInv, PathsSound, Before, TrackingInv, TrackingShape, TrackingSound
  <2>2. QED BY <1>2, <2>1, BasisFollows
<1>3. BasisInv /\ [BasisNext]_basisVars => [DivergencesAreEarned /\ TrackingsAreEarned]_basisVars
  BY BasisFollows
<1>4. QED BY <1>1, <1>2, <1>3, PTL DEF BasisSpec, BasisIsEarned
=============================================================================
