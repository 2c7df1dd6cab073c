--------------------------- MODULE Verdicts_proof ---------------------------
(***************************************************************************)
(* Proofs about the verdicts on signals, for all candles, halts, levels and    *)
(* windows: a hypothesis of the trend has the verdict of the first candle      *)
(* that touched it, and keeps it; a push is announced in rising phases and     *)
(* judged by its own window; and a trade plan is what its candles say, however *)
(* often and late it was replayed.                                             *)
(***************************************************************************)
EXTENDS TradePlans, TrendHorizons, PushReviews, FiniteSetTheorems, SequenceTheorems,
        WellFoundedInduction, TLAPS

-----------------------------------------------------------------------------
(* The candles. *)

\* What the market knows stays; the table has seen no more than has closed.
CandleTyped == market \in Seq(Shapes \cup {None}) /\ cached \in 0 .. Len(market)

\* A set of numbers that is not empty has a least one: what induction on numbers needs.
LEMMA LeastExists ==
  ASSUME NEW S, S \subseteq Nat, S # {}
  PROVE  \E m \in S : \A u \in S : m <= u
<1>1. PICK m \in S : \A u \in S : ~ (<<u, m>> \in OpToRel(<, Nat))
  BY NatLessThanWellFounded, WFMin
<1>2. \A u \in S : ~ (u < m)
  BY <1>1 DEF OpToRel
<1>3. QED BY <1>2

\* The least and the greatest of a set of numbers are those that were found.
LEMMA LeastOf ==
  ASSUME NEW S, S \subseteq Int, NEW x \in S, \A u \in S : x <= u
  PROVE  Least(S) = x
<1>1. \E z \in S : \A y \in S : z <= y
  OBVIOUS
<1>2. Least(S) \in S /\ \A y \in S : Least(S) <= y
  BY <1>1 DEF Least
<1>3. Least(S) \in Int /\ x \in Int /\ Least(S) <= x /\ x <= Least(S)
  BY <1>2
<1>4. QED BY <1>3

\* The greatest of a set of numbers is the one that was found.
LEMMA GreatestOf ==
  ASSUME NEW S, S \subseteq Int, NEW x \in S, \A u \in S : x >= u
  PROVE  Greatest(S) = x
<1>1. \E z \in S : \A y \in S : z >= y
  OBVIOUS
<1>2. Greatest(S) \in S /\ \A y \in S : Greatest(S) >= y
  BY <1>1 DEF Greatest
<1>3. Greatest(S) \in Int /\ x \in Int /\ Greatest(S) >= x /\ x >= Greatest(S)
  BY <1>2
<1>4. QED BY <1>3

\* A set of natural numbers that is not empty has its least one.
LEMMA LeastIs ==
  ASSUME NEW S, S \subseteq Nat, S # {}
  PROVE  Least(S) \in S /\ \A y \in S : Least(S) <= y
<1>1. \E m \in S : \A u \in S : m <= u
  BY LeastExists
<1>2. QED BY <1>1 DEF Least

\* A set of numbers below a bound has a greatest one.
LEMMA GreatestIs ==
  ASSUME NEW S, S \subseteq Nat, S # {}, NEW n \in Nat, \A y \in S : y <= n
  PROVE  Greatest(S) \in S /\ \A y \in S : Greatest(S) >= y
<1> DEFINE Bounds == {k \in Nat : \A y \in S : y <= k}
<1>1. PICK k \in Bounds : \A u \in Bounds : k <= u
  <2>1. n \in Bounds /\ Bounds \subseteq Nat
    OBVIOUS
  <2> HIDE DEF Bounds
  <2>2. QED BY <2>1, LeastExists
<1>2. k \in Nat /\ \A y \in S : y <= k /\ y \in Nat
  BY <1>1
<1>3. k \in S
  <2>1. SUFFICES ASSUME k \notin S PROVE FALSE
    OBVIOUS
  <2>2. \A y \in S : y <= k - 1
    BY <1>2, <2>1
  <2>3. k - 1 \in Nat
    <3>1. PICK y \in S : TRUE
      OBVIOUS
    <3>2. y \in Nat /\ y <= k - 1
      BY <1>2, <2>2
    <3>3. QED BY <1>2, <3>2
  <2>4. k - 1 \in Bounds
    BY <2>2, <2>3
  <2>5. k <= k - 1
    BY <1>1, <2>4
  <2>6. QED BY <1>2, <2>5
<1>4. \E z \in S : \A y \in S : z >= y
  BY <1>2, <1>3
<1>5. QED BY <1>4 DEF Greatest

\* A closed bucket changes nothing of those before it.
LEMMA MarketGrows ==
  ASSUME CandleTyped, CloseBucket
  PROVE  /\ CandleTyped' /\ cached' = cached /\ Len(market') = Len(market) + 1
         /\ \A b \in 1 .. Len(market) : market'[b] = market[b]
<1>1. PICK c \in Shapes \cup {None} : market' = Append(market, c)
  BY DEF CloseBucket
<1>2. cached' = cached
  BY DEF CloseBucket
<1>3. market \in Seq(Shapes \cup {None}) /\ Len(market) \in Nat
  BY LenProperties DEF CandleTyped
<1>4. /\ market' \in Seq(Shapes \cup {None}) /\ Len(market') = Len(market) + 1
      /\ \A b \in 1 .. Len(market) : market'[b] = market[b]
  BY <1>1, <1>3
<1>5. cached' \in 0 .. Len(market')
  BY <1>2, <1>3, <1>4 DEF CandleTyped
<1>6. QED BY <1>2, <1>4, <1>5 DEF CandleTyped

\* A bucket that traded has a candle of prices.
LEMMA CandleOf ==
  ASSUME CandleTyped, NEW b \in 1 .. Len(market), Traded(b)
  PROVE  /\ market[b] \in Shapes /\ market[b].low \in Int /\ market[b].close \in Int /\ market[b].high \in Int
         /\ market[b].low <= market[b].close /\ market[b].close <= market[b].high
<1>1. market[b] \in Shapes
  BY ElementOfSeq DEF CandleTyped, Traded
<1>2. QED BY <1>1, CandleAssumption

\* A sequence of the elements of a finite set has each of them once.
LEMMA SetToSeqIs ==
  ASSUME NEW S, IsFiniteSet(S)
  PROVE  SetToSeq(S) \in Seq(S)
<1> DEFINE n == Cardinality(S)
           t == SetToSeq(S)
<1>1. n \in Nat /\ ExistsBijection(1 .. n, S)
  BY FS_CardinalityType
<1>2. \E f \in [1 .. n -> S] : IsInjective(f)
  BY <1>1 DEF ExistsBijection, Bijection, Injection
<1>3. t \in [1 .. n -> S]
  BY <1>2 DEF SetToSeq
<1> HIDE DEF t
<1>4. t \in Seq(S)
  BY <1>1, <1>3, SeqDef
<1>5. QED BY <1>4 DEF t

-----------------------------------------------------------------------------
(* The hypotheses of the trend. *)

Events == {"take_profit", "hard_stop", "ambiguous_same_candle", "soft_stop", "near_target_then_reversal"}
Firsts == {"none", "take_profit", "hard_stop", "ambiguous_same_candle"}
Turns == {"observing", "stop_then_target", "stop_then_recovery", "target_then_reversal",
          "near_target_then_reversal"}
Hypothesis ==
  [horizon : Horizons, dir : {-1, 1}, price : Int, at : Nat, latest : Nat,
   status : {"active", "completed"}, first : Firsts, firstAt : Nat, events : SUBSET Events,
   favor : Int, adverse : Int, path : Turns, interim : BOOLEAN]

\* What the candles m say of a hypothesis, as far as it was followed.
FollowedOn(m, r) == {b \in (r.at + 1) .. r.latest : m[b] # None}
TouchesOn(m, r) == {b \in FollowedOn(m, r) : TakesProfit(r, m[b]) \/ HitsHard(r, m[b])}
Decides(r, c) == IF ~ HitsHard(r, c) THEN "take_profit"
               ELSE IF ~ TakesProfit(r, c) THEN "hard_stop" ELSE "ambiguous_same_candle"
Gain(r, c) == r.dir * (Best(c, r.dir) - r.price)

TouchIsFirst(m, r) ==
  /\ TouchesOn(m, r) = {} => r.first = "none" /\ "take_profit" \notin r.events /\ "hard_stop" \notin r.events
  /\ TouchesOn(m, r) # {} => /\ r.firstAt \in TouchesOn(m, r) /\ r.first = Decides(r, m[r.firstAt])
                             /\ \A b \in TouchesOn(m, r) : r.firstAt <= b
FavorIsGreatest(m, r) ==
  /\ r.favor = 0 \/ \E b \in FollowedOn(m, r) : r.favor = Gain(r, m[b])
  /\ 0 <= r.favor /\ \A b \in FollowedOn(m, r) : Gain(r, m[b]) <= r.favor
SoftIsKnown(m, r) == "soft_stop" \in r.events <=> \E b \in FollowedOn(m, r) : HitsSoft(r, m[b])
ReversalIsKnown(m, r) ==
  r.path = "target_then_reversal" <=>
    r.first = "take_profit" /\ \E b \in FollowedOn(m, r) : b > r.firstAt /\ HitsHard(r, m[b])
Follows(m, r) == TouchIsFirst(m, r) /\ FavorIsGreatest(m, r) /\ SoftIsKnown(m, r) /\ ReversalIsKnown(m, r)

\* A row was followed through closed buckets only, if any.
RowFollows(m, r) ==
  /\ r \in Hypothesis /\ 1 <= r.at /\ r.at <= r.latest /\ r.at <= Len(m) + 1
  /\ r.latest = r.at \/ r.latest <= Len(m)
  /\ Follows(m, r)

\* What a later version of a row does not change.
Stands(r, s) ==
  /\ s.horizon = r.horizon /\ s.dir = r.dir /\ s.price = r.price /\ s.at = r.at
  /\ r.events \subseteq s.events
  /\ r.first # "none" => s.first = r.first /\ s.firstAt = r.firstAt

\* Levels are numbers, and depend on the anchor alone.
LEMMA LevelsAre ==
  ASSUME NEW r \in Hypothesis, NEW s \in Hypothesis, s.dir = r.dir, s.price = r.price, NEW c
  PROVE  /\ TakesProfit(s, c) = TakesProfit(r, c) /\ HitsHard(s, c) = HitsHard(r, c)
         /\ HitsSoft(s, c) = HitsSoft(r, c) /\ Gain(s, c) = Gain(r, c) /\ Decides(s, c) = Decides(r, c)
         /\ Behind(s, c) = Behind(r, c)
BY DEF TakesProfit, HitsHard, HitsSoft, Gain, Decides, Behind, Target, Hard, Soft

\* What a candle gains for a hypothesis is a number.
LEMMA GainIsInt ==
  ASSUME NEW r \in Hypothesis, NEW c \in Shapes
  PROVE  Gain(r, c) \in Int
<1>1. c.low \in Int /\ c.high \in Int
  BY CandleAssumption
<1>2. Best(c, r.dir) \in Int /\ r.price \in Int /\ r.dir \in {-1, 1}
  BY <1>1 DEF Best, Hypothesis
<1>3. CASE r.dir = 1
  BY <1>2, <1>3 DEF Gain
<1>4. CASE r.dir = -1
  BY <1>2, <1>4 DEF Gain
<1>5. QED BY <1>2, <1>3, <1>4

\* The excursions of a candle.
LEMMA WidenedIs ==
  ASSUME NEW r \in Hypothesis, NEW c \in Shapes
  PROVE  LET w == Widened(r, c)
         IN /\ w \in Hypothesis /\ w = [r EXCEPT !.favor = w.favor, !.adverse = w.adverse]
            /\ w.favor \in {r.favor, Gain(r, c)} /\ r.favor <= w.favor /\ Gain(r, c) <= w.favor
<1> DEFINE g == Gain(r, c)
           a == r.dir * (r.price - Worst(c, r.dir))
           w == Widened(r, c)
<1>1. g \in Int
  BY GainIsInt
<1>2. a \in Int
  <2>1. c.low \in Int /\ c.high \in Int
    BY CandleAssumption
  <2>2. Worst(c, r.dir) \in Int /\ r.price \in Int /\ r.dir \in {-1, 1}
    BY <2>1 DEF Worst, Hypothesis
  <2>3. CASE r.dir = 1
    BY <2>2, <2>3
  <2>4. CASE r.dir = -1
    BY <2>2, <2>4
  <2>5. QED BY <2>2, <2>3, <2>4
<1>3. r.favor \in Int /\ r.adverse \in Int
  BY DEF Hypothesis
<1>4. w = [r EXCEPT !.favor = Greatest({r.favor, g}), !.adverse = Greatest({r.adverse, a})]
  BY DEF Widened, Gain
<1> HIDE DEF g, a
<1>5. \A x, y \in Int : LET z == Greatest({x, y}) IN z \in {x, y} /\ x <= z /\ y <= z
  <2>1. TAKE x, y \in Int
  <2>2. CASE x <= y
    <3>1. Greatest({x, y}) = y
      BY <2>2, GreatestOf
    <3>2. QED BY <2>2, <3>1
  <2>3. CASE y <= x
    <3>1. Greatest({x, y}) = x
      BY <2>3, GreatestOf
    <3>2. QED BY <2>3, <3>1
  <2>4. QED BY <2>2, <2>3
<1>6. /\ Greatest({r.favor, g}) \in {r.favor, g} /\ r.favor <= Greatest({r.favor, g}) /\ g <= Greatest({r.favor, g})
      /\ Greatest({r.adverse, a}) \in Int
  BY <1>1, <1>2, <1>3, <1>5
<1> DEFINE f == Greatest({r.favor, g})
           e == Greatest({r.adverse, a})
<1> HIDE DEF f, e
<1>7. w = [r EXCEPT !.favor = f, !.adverse = e] /\ f \in Int /\ e \in Int /\ f \in {r.favor, g} /\ r.favor <= f /\ g <= f
  BY <1>1, <1>3, <1>4, <1>6 DEF f, e
<1> HIDE DEF w
<1>8. w \in Hypothesis /\ w.favor = f /\ w.adverse = e
  BY <1>7 DEF Hypothesis
<1>9. QED BY <1>7, <1>8 DEF g, w

\* The touches of a candle tell the first one, if there was none.
LEMMA TouchedIs ==
  ASSUME NEW r \in Hypothesis, NEW b \in Nat
  PROVE  LET c == market[b]
             t == Touched(r, b)
             touches == TakesProfit(r, c) \/ HitsHard(r, c)
         IN /\ t \in Hypothesis /\ t = [r EXCEPT !.events = t.events, !.first = t.first, !.firstAt = t.firstAt]
            /\ r.events \subseteq t.events /\ ("soft_stop" \in t.events <=> "soft_stop" \in r.events)
            /\ r.first # "none" => t.first = r.first /\ t.firstAt = r.firstAt
            /\ r.first = "none" /\ ~ touches => t = r
            /\ r.first = "none" /\ touches /\ "take_profit" \notin r.events /\ "hard_stop" \notin r.events =>
                 t.first = Decides(r, c) /\ t.firstAt = b
<1> DEFINE c == market[b]
           T == TakesProfit(r, c)
           H == HitsHard(r, c)
           t == Touched(r, b)
           s == IF T /\ "take_profit" \notin r.events THEN Hit(r, b, "take_profit") ELSE r
<1>1. \A x \in Hypothesis, e \in {"take_profit", "hard_stop", "ambiguous_same_candle"} :
        LET y == Hit(x, b, e)
        IN /\ y \in Hypothesis /\ y = [x EXCEPT !.events = y.events, !.first = y.first, !.firstAt = y.firstAt]
           /\ y.events = x.events \cup {e}
           /\ y.first = IF x.first = "none" THEN e ELSE x.first
           /\ y.firstAt = IF x.first = "none" THEN b ELSE x.firstAt
  <2>1. TAKE x \in Hypothesis, e \in {"take_profit", "hard_stop", "ambiguous_same_candle"}
  <2>2. e \in Events /\ e \in Firsts
    BY DEF Events, Firsts
  <2>3. QED BY <2>2 DEF Hit, Hypothesis
<1>2. t = IF T /\ H /\ r.first = "none" THEN Hit(r, b, "ambiguous_same_candle")
          ELSE IF H /\ "hard_stop" \notin r.events THEN Hit(s, b, "hard_stop") ELSE s
  BY DEF Touched
<1>3. Decides(r, c) = IF ~ H THEN "take_profit" ELSE IF ~ T THEN "hard_stop" ELSE "ambiguous_same_candle"
  BY DEF Decides
<1>4. /\ s \in Hypothesis /\ s = [r EXCEPT !.events = s.events, !.first = s.first, !.firstAt = s.firstAt]
      /\ s.events = IF T THEN r.events \cup {"take_profit"} ELSE r.events
      /\ s.first = (IF T /\ "take_profit" \notin r.events /\ r.first = "none" THEN "take_profit" ELSE r.first)
      /\ s.firstAt = (IF T /\ "take_profit" \notin r.events /\ r.first = "none" THEN b ELSE r.firstAt)
  <2>1. CASE T /\ "take_profit" \notin r.events
    BY <1>1, <2>1
  <2>2. CASE ~ (T /\ "take_profit" \notin r.events)
    BY <2>2 DEF Hypothesis
  <2>3. QED BY <2>1, <2>2
<1> HIDE DEF s, t, T, H, c
<1>5. CASE T /\ H /\ r.first = "none"
  <2>1. t = Hit(r, b, "ambiguous_same_candle")
    BY <1>2, <1>5
  <2>2. /\ t \in Hypothesis /\ t = [r EXCEPT !.events = t.events, !.first = t.first, !.firstAt = t.firstAt]
        /\ t.events = r.events \cup {"ambiguous_same_candle"}
        /\ t.first = "ambiguous_same_candle" /\ t.firstAt = b
    BY <1>1, <1>5, <2>1
  <2>3. QED BY <1>3, <1>5, <2>2 DEF t, T, H, c
<1>6. CASE ~ (T /\ H /\ r.first = "none") /\ H /\ "hard_stop" \notin r.events
  <2>1. t = Hit(s, b, "hard_stop")
    BY <1>2, <1>6
  <2>2. /\ t \in Hypothesis /\ t = [s EXCEPT !.events = t.events, !.first = t.first, !.firstAt = t.firstAt]
        /\ t.events = s.events \cup {"hard_stop"}
        /\ t.first = (IF s.first = "none" THEN "hard_stop" ELSE s.first)
        /\ t.firstAt = (IF s.first = "none" THEN b ELSE s.firstAt)
    BY <1>1, <1>4, <2>1
  <2>3. t = [r EXCEPT !.events = t.events, !.first = t.first, !.firstAt = t.firstAt]
    BY <1>4, <2>2 DEF Hypothesis
  <2>4. QED BY <1>3, <1>4, <1>6, <2>2, <2>3 DEF t, T, H, c
<1>7. CASE ~ (T /\ H /\ r.first = "none") /\ ~ (H /\ "hard_stop" \notin r.events)
  <2>1. t = s
    BY <1>2, <1>7
  <2>2. ~ T => s = r
    BY DEF s
  <2>3. t \in Hypothesis /\ t = [r EXCEPT !.events = t.events, !.first = t.first, !.firstAt = t.firstAt]
    BY <1>4, <2>1
  <2>4. r.events \subseteq t.events /\ ("soft_stop" \in t.events <=> "soft_stop" \in r.events)
    BY <1>4, <2>1
  <2>5. r.first # "none" => t.first = r.first /\ t.firstAt = r.firstAt
    BY <1>4, <2>1
  <2>6. r.first = "none" /\ ~ (T \/ H) => t = r
    BY <2>1, <2>2
  <2>7. r.first = "none" /\ (T \/ H) /\ "take_profit" \notin r.events /\ "hard_stop" \notin r.events =>
          t.first = Decides(r, c) /\ t.firstAt = b
    BY <1>3, <1>4, <1>7, <2>1
  <2>8. QED BY <2>3, <2>4, <2>5, <2>6, <2>7 DEF t, T, H, c
<1>8. QED BY <1>5, <1>6, <1>7

\* A candle at the soft stop is noted among the events, and nothing else of the row.
LEMMA SoftenedIs ==
  ASSUME NEW r \in Hypothesis, NEW c
  PROVE  LET s == Softened(r, c)
         IN /\ s \in Hypothesis /\ s = [r EXCEPT !.events = s.events]
            /\ s.events = IF HitsSoft(r, c) THEN r.events \cup {"soft_stop"} ELSE r.events
<1>1. "soft_stop" \in Events
  BY DEF Events
<1>2. CASE HitsSoft(r, c)
  BY <1>1, <1>2 DEF Softened, Hypothesis
<1>3. CASE ~ HitsSoft(r, c)
  BY <1>3 DEF Softened, Hypothesis
<1>4. QED BY <1>2, <1>3

\* The way a path is called after a candle: a reversal is one after the target only.
LEMMA PathedIs ==
  ASSUME NEW r \in Hypothesis, NEW c, r.path = "target_then_reversal" => r.first = "take_profit"
  PROVE  LET p == Pathed(r, c)
         IN /\ p \in Hypothesis /\ p = [r EXCEPT !.path = p.path, !.events = p.events]
            /\ p.events \in {r.events, r.events \cup {"near_target_then_reversal"}}
            /\ p.path = "target_then_reversal" <=>
                 r.path = "target_then_reversal" \/ (r.first = "take_profit" /\ HitsHard(r, c))
<1> DEFINE p == Pathed(r, c)
           near == r.favor >= Distance.near /\ Behind(r, c)
           back == r.dir * (c.close - r.price) >= 0
<1>1. /\ "near_target_then_reversal" \in Events
      /\ {"stop_then_target", "stop_then_recovery", "target_then_reversal", "near_target_then_reversal"} \subseteq Turns
  BY DEF Events, Turns
<1>2. r.first \in Firsts
  BY DEF Hypothesis
<1>3. CASE r.first = "hard_stop"
  <2>1. p = IF TakesProfit(r, c) THEN [r EXCEPT !.path = "stop_then_target"]
            ELSE IF back THEN [r EXCEPT !.path = "stop_then_recovery"] ELSE r
    BY <1>3 DEF Pathed
  <2> HIDE DEF p, back
  <2>2. r = [r EXCEPT !.path = r.path, !.events = r.events]
    BY DEF Hypothesis
  <2>3. QED BY <1>1, <1>3, <2>1, <2>2 DEF Hypothesis, p
<1>4. CASE r.first = "take_profit"
  <2>1. p = IF HitsHard(r, c) THEN [r EXCEPT !.path = "target_then_reversal"] ELSE r
    BY <1>4 DEF Pathed
  <2> HIDE DEF p, back
  <2>2. r = [r EXCEPT !.path = r.path, !.events = r.events]
    BY DEF Hypothesis
  <2>3. QED BY <1>1, <1>4, <2>1, <2>2 DEF Hypothesis, p
<1>5. CASE r.first = "none"
  <2>1. p = IF near THEN [r EXCEPT !.path = "near_target_then_reversal",
                                   !.events = @ \cup {"near_target_then_reversal"}] ELSE r
    BY <1>5 DEF Pathed
  <2> HIDE DEF p, near
  <2>2. r = [r EXCEPT !.path = r.path, !.events = r.events]
    BY DEF Hypothesis
  <2>3. CASE near
    <3>1. p = [r EXCEPT !.path = "near_target_then_reversal", !.events = r.events \cup {"near_target_then_reversal"}]
      BY <2>1, <2>3
    <3>2. p \in Hypothesis /\ p = [r EXCEPT !.path = p.path, !.events = p.events]
          /\ p.events = r.events \cup {"near_target_then_reversal"} /\ p.path = "near_target_then_reversal"
      BY <1>1, <3>1 DEF Hypothesis
    <3>3. QED BY <1>5, <3>2 DEF p
  <2>4. CASE ~ near
    BY <1>5, <2>1, <2>2, <2>4 DEF p
  <2>5. QED BY <2>3, <2>4
<1>6. CASE r.first = "ambiguous_same_candle"
  <2>1. p = r
    BY <1>6 DEF Pathed
  <2> HIDE DEF p
  <2>2. QED BY <1>6, <2>1 DEF Hypothesis, p
<1>7. QED BY <1>2, <1>3, <1>4, <1>5, <1>6 DEF Firsts

\* What the judgement of one candle makes of a row.
LEMMA JudgedIs ==
  ASSUME NEW r \in Hypothesis, NEW b \in Nat, market[b] \in Shapes,
         r.path = "target_then_reversal" => r.first = "take_profit"
  PROVE  LET c == market[b]
             y == Judged(r, b)
             touches == TakesProfit(r, c) \/ HitsHard(r, c)
         IN /\ y \in Hypothesis /\ Stands(r, y) /\ y.latest = b /\ y.status = r.status /\ y.interim = r.interim
            /\ y.favor \in {r.favor, Gain(r, c)} /\ r.favor <= y.favor /\ Gain(r, c) <= y.favor
            /\ r.first = "none" /\ ~ touches => y.first = "none" /\ y.events \ r.events \subseteq {"soft_stop", "near_target_then_reversal"}
            /\ r.first = "none" /\ touches /\ "take_profit" \notin r.events /\ "hard_stop" \notin r.events =>
                 y.first = Decides(r, c) /\ y.firstAt = b
            /\ "soft_stop" \in y.events <=> "soft_stop" \in r.events \/ HitsSoft(r, c)
            /\ y.path = "target_then_reversal" <=>
                 r.path = "target_then_reversal" \/ (y.first = "take_profit" /\ HitsHard(r, c))
<1> DEFINE c == market[b]
           w == Widened(r, c)
           t == Touched(w, b)
           s == Softened(t, c)
           p == Pathed(s, c)
           y == Judged(r, b)
<1>1. y = [p EXCEPT !.latest = b]
  BY DEF Judged
<1>2. /\ w \in Hypothesis /\ w = [r EXCEPT !.favor = w.favor, !.adverse = w.adverse]
      /\ w.favor \in {r.favor, Gain(r, c)} /\ r.favor <= w.favor /\ Gain(r, c) <= w.favor
  BY WidenedIs
<1> HIDE DEF w, t, s, p
<1>3. /\ w.dir = r.dir /\ w.price = r.price /\ w.first = r.first /\ w.firstAt = r.firstAt /\ w.events = r.events
      /\ w.path = r.path /\ w.at = r.at /\ w.horizon = r.horizon /\ w.status = r.status /\ w.interim = r.interim
  BY <1>2 DEF Hypothesis
<1>4. /\ TakesProfit(w, c) = TakesProfit(r, c) /\ HitsHard(w, c) = HitsHard(r, c) /\ Decides(w, c) = Decides(r, c)
  BY <1>2, <1>3, LevelsAre
<1>5. /\ t \in Hypothesis /\ t = [w EXCEPT !.events = t.events, !.first = t.first, !.firstAt = t.firstAt]
      /\ w.events \subseteq t.events /\ ("soft_stop" \in t.events <=> "soft_stop" \in w.events)
      /\ w.first # "none" => t.first = w.first /\ t.firstAt = w.firstAt
      /\ w.first = "none" /\ ~ (TakesProfit(w, c) \/ HitsHard(w, c)) => t = w
      /\ w.first = "none" /\ (TakesProfit(w, c) \/ HitsHard(w, c)) /\ "take_profit" \notin w.events /\ "hard_stop" \notin w.events =>
           t.first = Decides(w, c) /\ t.firstAt = b
  BY <1>2, TouchedIs DEF t
<1>6. /\ t.dir = r.dir /\ t.price = r.price /\ t.path = r.path /\ t.at = r.at /\ t.horizon = r.horizon
      /\ t.status = r.status /\ t.interim = r.interim /\ t.favor = w.favor
  BY <1>2, <1>3, <1>5 DEF Hypothesis
<1>7. HitsSoft(t, c) = HitsSoft(r, c) /\ HitsHard(t, c) = HitsHard(r, c)
  BY <1>5, <1>6, LevelsAre
<1>8. /\ s \in Hypothesis /\ s = [t EXCEPT !.events = s.events]
      /\ s.events = IF HitsSoft(t, c) THEN t.events \cup {"soft_stop"} ELSE t.events
  BY <1>5, SoftenedIs DEF s
<1>9. /\ s.dir = r.dir /\ s.price = r.price /\ s.path = r.path /\ s.at = r.at /\ s.horizon = r.horizon
      /\ s.status = r.status /\ s.interim = r.interim /\ s.favor = w.favor
      /\ s.first = t.first /\ s.firstAt = t.firstAt
  BY <1>5, <1>6, <1>8 DEF Hypothesis
<1>10. HitsHard(s, c) = HitsHard(r, c)
  BY <1>8, <1>9, LevelsAre
<1>11. s.path = "target_then_reversal" => s.first = "take_profit"
  BY <1>3, <1>5, <1>9
<1>12. /\ p \in Hypothesis /\ p = [s EXCEPT !.path = p.path, !.events = p.events]
       /\ p.events \in {s.events, s.events \cup {"near_target_then_reversal"}}
       /\ p.path = "target_then_reversal" <=>
            s.path = "target_then_reversal" \/ (s.first = "take_profit" /\ HitsHard(s, c))
  BY <1>8, <1>11, PathedIs DEF p
<1>13. /\ p.dir = r.dir /\ p.price = r.price /\ p.at = r.at /\ p.horizon = r.horizon
       /\ p.status = r.status /\ p.interim = r.interim /\ p.favor = w.favor
       /\ p.first = t.first /\ p.firstAt = t.firstAt
  BY <1>8, <1>9, <1>12 DEF Hypothesis
<1> HIDE DEF y
<1>14. /\ y \in Hypothesis /\ y.latest = b /\ y.dir = p.dir /\ y.price = p.price /\ y.at = p.at /\ y.horizon = p.horizon
       /\ y.status = p.status /\ y.interim = p.interim /\ y.favor = p.favor
       /\ y.first = p.first /\ y.firstAt = p.firstAt /\ y.events = p.events /\ y.path = p.path
  BY <1>1, <1>12 DEF Hypothesis
<1>15. Stands(r, y)
  BY <1>3, <1>5, <1>8, <1>12, <1>13, <1>14 DEF Stands
<1>16. y.favor \in {r.favor, Gain(r, c)} /\ r.favor <= y.favor /\ Gain(r, c) <= y.favor
  BY <1>2, <1>13, <1>14
<1>17. r.first = "none" /\ ~ (TakesProfit(r, c) \/ HitsHard(r, c)) =>
         y.first = "none" /\ y.events \ r.events \subseteq {"soft_stop", "near_target_then_reversal"}
  <2>1. HAVE r.first = "none" /\ ~ (TakesProfit(r, c) \/ HitsHard(r, c))
  <2>2. t = w
    BY <1>3, <1>4, <1>5, <2>1
  <2>3. QED BY <1>3, <1>8, <1>12, <1>13, <1>14, <2>1, <2>2
<1>18. r.first = "none" /\ (TakesProfit(r, c) \/ HitsHard(r, c)) /\ "take_profit" \notin r.events /\ "hard_stop" \notin r.events =>
         y.first = Decides(r, c) /\ y.firstAt = b
  BY <1>3, <1>4, <1>5, <1>13, <1>14
<1>19. "soft_stop" \in y.events <=> "soft_stop" \in r.events \/ HitsSoft(r, c)
  BY <1>3, <1>5, <1>7, <1>8, <1>12, <1>14
<1>20. y.path = "target_then_reversal" <=> r.path = "target_then_reversal" \/ (y.first = "take_profit" /\ HitsHard(r, c))
  BY <1>9, <1>10, <1>12, <1>13, <1>14
<1>21. y.status = r.status /\ y.interim = r.interim
  BY <1>13, <1>14
<1>22. QED BY <1>14, <1>15, <1>16, <1>17, <1>18, <1>19, <1>20, <1>21 DEF y, c

\* A row that is judged by the next candle that traded still follows the candles.
LEMMA JudgedFollows ==
  ASSUME CandleTyped, NEW r, RowFollows(market, r), NEW b \in 1 .. Len(market), Traded(b), r.latest < b,
         \A a \in (r.latest + 1) .. (b - 1) : ~ Traded(a)
  PROVE  LET y == Judged(r, b)
         IN /\ RowFollows(market, y) /\ Stands(r, y) /\ y.latest = b
            /\ y.status = r.status /\ y.interim = r.interim
<1> DEFINE m == market
           c == m[b]
           y == Judged(r, b)
           F == FollowedOn(m, r)
           T == TouchesOn(m, r)
<1>1. c \in Shapes /\ b \in Nat /\ b \in Int /\ Len(m) \in Nat
  BY CandleOf, LenProperties DEF CandleTyped
<1>2. /\ r \in Hypothesis /\ 1 <= r.at /\ r.at <= r.latest /\ r.at <= Len(m) + 1 /\ r.at \in Nat /\ r.latest \in Nat
      /\ TouchIsFirst(m, r) /\ FavorIsGreatest(m, r) /\ SoftIsKnown(m, r) /\ ReversalIsKnown(m, r)
  BY DEF RowFollows, Follows, Hypothesis
<1>3. r.path = "target_then_reversal" => r.first = "take_profit"
  BY <1>2 DEF ReversalIsKnown
<1>4. /\ y \in Hypothesis /\ Stands(r, y) /\ y.latest = b /\ y.status = r.status /\ y.interim = r.interim
      /\ y.favor \in {r.favor, Gain(r, c)} /\ r.favor <= y.favor /\ Gain(r, c) <= y.favor
      /\ r.first = "none" /\ ~ (TakesProfit(r, c) \/ HitsHard(r, c)) =>
           y.first = "none" /\ y.events \ r.events \subseteq {"soft_stop", "near_target_then_reversal"}
      /\ r.first = "none" /\ (TakesProfit(r, c) \/ HitsHard(r, c)) /\ "take_profit" \notin r.events /\ "hard_stop" \notin r.events =>
           y.first = Decides(r, c) /\ y.firstAt = b
      /\ "soft_stop" \in y.events <=> "soft_stop" \in r.events \/ HitsSoft(r, c)
      /\ y.path = "target_then_reversal" <=>
           r.path = "target_then_reversal" \/ (y.first = "take_profit" /\ HitsHard(r, c))
  BY <1>1, <1>2, <1>3, JudgedIs
<1> HIDE DEF y, c
<1>5. y.at = r.at /\ y.dir = r.dir /\ y.price = r.price
  BY <1>4 DEF Stands
<1>6. FollowedOn(m, y) = F \cup {b} /\ b \notin F /\ \A a \in F : a < b /\ a \in Nat
  <2>1. c # None
    BY DEF Traded, c
  <2>2. \A a \in (r.latest + 1) .. (b - 1) : m[a] = None
    BY DEF Traded
  <2>3. FollowedOn(m, y) = {a \in (r.at + 1) .. b : m[a] # None} /\ F = {a \in (r.at + 1) .. r.latest : m[a] # None}
    BY <1>4, <1>5 DEF FollowedOn
  <2>4. \A a : a \in (r.at + 1) .. b <=> a \in (r.at + 1) .. r.latest \/ a \in (r.latest + 1) .. (b - 1) \/ a = b
    BY <1>1, <1>2
  <2>5. \A a : a \in (r.at + 1) .. r.latest => a < b /\ a \in Nat
    BY <1>1, <1>2
  <2> HIDE DEF F
  <2>6. QED BY <2>1, <2>2, <2>3, <2>4, <2>5 DEF c
<1>7. \A a : /\ TakesProfit(y, m[a]) = TakesProfit(r, m[a]) /\ HitsHard(y, m[a]) = HitsHard(r, m[a])
             /\ HitsSoft(y, m[a]) = HitsSoft(r, m[a]) /\ Gain(y, m[a]) = Gain(r, m[a]) /\ Decides(y, m[a]) = Decides(r, m[a])
  BY <1>2, <1>4, <1>5, LevelsAre
<1>8. TouchesOn(m, y) = T \cup (IF TakesProfit(r, c) \/ HitsHard(r, c) THEN {b} ELSE {}) /\ T \subseteq F
  BY <1>6, <1>7 DEF TouchesOn, c
<1> HIDE DEF F, T
<1>9. TouchIsFirst(m, y)
  <2>1. CASE T # {}
    <3>1. r.firstAt \in T /\ r.first = Decides(r, m[r.firstAt]) /\ \A a \in T : r.firstAt <= a
      BY <1>2, <2>1 DEF TouchIsFirst, T
    <3>2. r.first # "none"
      BY <3>1 DEF Decides
    <3>3. y.first = r.first /\ y.firstAt = r.firstAt
      BY <1>4, <3>2 DEF Stands
    <3>4. \A a \in TouchesOn(m, y) : r.firstAt <= a
      BY <1>6, <1>8, <3>1
    <3>5. y.first = Decides(y, m[r.firstAt])
      BY <1>7, <3>1, <3>3
    <3>6. QED BY <1>8, <3>1, <3>3, <3>4, <3>5 DEF TouchIsFirst
  <2>2. CASE T = {}
    <3>1. r.first = "none" /\ "take_profit" \notin r.events /\ "hard_stop" \notin r.events
      BY <1>2, <2>2 DEF TouchIsFirst, T
    <3>2. CASE TakesProfit(r, c) \/ HitsHard(r, c)
      <4>1. y.first = Decides(r, c) /\ y.firstAt = b /\ TouchesOn(m, y) = {b}
        BY <1>4, <1>8, <2>2, <3>1, <3>2
      <4>2. Decides(y, m[b]) = Decides(r, c)
        BY <1>7 DEF c
      <4>3. QED BY <1>1, <4>1, <4>2 DEF TouchIsFirst
    <3>3. CASE ~ (TakesProfit(r, c) \/ HitsHard(r, c))
      <4>1. y.first = "none" /\ y.events \ r.events \subseteq {"soft_stop", "near_target_then_reversal"} /\ TouchesOn(m, y) = {}
        BY <1>4, <1>8, <2>2, <3>1, <3>3
      <4>2. "take_profit" \notin y.events /\ "hard_stop" \notin y.events
        BY <3>1, <4>1
      <4>3. QED BY <4>1, <4>2 DEF TouchIsFirst
    <3>4. QED BY <3>2, <3>3
  <2>3. QED BY <2>1, <2>2
<1>10. FavorIsGreatest(m, y)
  <2>1. /\ r.favor = 0 \/ \E a \in F : r.favor = Gain(r, m[a])
        /\ 0 <= r.favor /\ \A a \in F : Gain(r, m[a]) <= r.favor
    BY <1>2 DEF FavorIsGreatest, F
  <2>2. r.favor \in Int /\ y.favor \in Int
    BY <1>2, <1>4 DEF Hypothesis
  <2>3. \A a \in F : Gain(r, m[a]) \in Int
    <3>1. TAKE a \in F
    <3>2. a \in 1 .. Len(m) /\ m[a] # None
      BY <1>1, <1>2, <1>6 DEF F, FollowedOn
    <3>3. m[a] \in Shapes
      BY <3>2, CandleOf DEF Traded
    <3>4. QED BY <1>2, <3>3, GainIsInt
  <2>4. Gain(r, c) \in Int
    BY <1>1, <1>2, GainIsInt
  <2>5. \A a \in F \cup {b} : Gain(y, m[a]) = Gain(r, m[a])
    BY <1>7
  <2>6. \A a \in F \cup {b} : Gain(r, m[a]) <= y.favor
    BY <1>4, <2>1, <2>2, <2>3, <2>4 DEF c
  <2>7. y.favor = 0 \/ \E a \in F \cup {b} : y.favor = Gain(r, m[a])
    BY <1>4, <2>1 DEF c
  <2>8. 0 <= y.favor
    BY <1>4, <2>1, <2>2
  <2>9. QED BY <1>6, <2>5, <2>6, <2>7, <2>8 DEF FavorIsGreatest
<1>11. SoftIsKnown(m, y)
  <2>1. "soft_stop" \in r.events <=> \E a \in F : HitsSoft(r, m[a])
    BY <1>2 DEF SoftIsKnown, F
  <2>2. QED BY <1>4, <1>6, <1>7, <2>1 DEF SoftIsKnown, c
<1>12. ReversalIsKnown(m, y)
  <2>1. r.path = "target_then_reversal" <=> r.first = "take_profit" /\ \E a \in F : a > r.firstAt /\ HitsHard(r, m[a])
    BY <1>2 DEF ReversalIsKnown, F
  <2>2. CASE r.first # "none"
    <3>1. y.first = r.first /\ y.firstAt = r.firstAt
      BY <1>4, <2>2 DEF Stands
    <3>2. r.firstAt \in F
      BY <1>2, <1>8, <2>2 DEF TouchIsFirst, T
    <3>3. b > r.firstAt
      BY <1>6, <3>2, <1>1
    <3>4. y.path = "target_then_reversal" <=> r.path = "target_then_reversal" \/ (r.first = "take_profit" /\ HitsHard(r, c))
      BY <1>4, <3>1
    <3>5. (\E a \in FollowedOn(m, y) : a > y.firstAt /\ HitsHard(y, m[a]))
            <=> (\E a \in F : a > r.firstAt /\ HitsHard(r, m[a])) \/ HitsHard(r, c)
      BY <1>6, <1>7, <3>1, <3>3 DEF c
    <3>6. QED BY <2>1, <3>1, <3>4, <3>5 DEF ReversalIsKnown
  <2>3. CASE r.first = "none"
    <3>1. T = {} /\ "take_profit" \notin r.events /\ "hard_stop" \notin r.events
      BY <1>2, <2>3 DEF TouchIsFirst, T, Decides
    <3>2. y.first = "take_profit" => ~ HitsHard(r, c) /\ y.firstAt = b
      BY <1>4, <2>3, <3>1 DEF Decides
    <3>3. y.path # "target_then_reversal"
      BY <1>3, <1>4, <2>3, <3>2
    <3>4. y.first = "take_profit" => ~ \E a \in FollowedOn(m, y) : a > y.firstAt /\ HitsHard(y, m[a])
      <4>1. \A a \in F \cup {b} : ~ (a > b)
        BY <1>1, <1>6
      <4>2. QED BY <1>6, <3>2, <4>1
    <3>5. QED BY <3>3, <3>4 DEF ReversalIsKnown
  <2>4. QED BY <2>2, <2>3
<1>13. 1 <= y.at /\ y.at <= y.latest /\ y.at <= Len(m) + 1 /\ y.latest <= Len(m)
  BY <1>1, <1>2, <1>4, <1>5
<1>14. QED BY <1>4, <1>9, <1>10, <1>11, <1>12, <1>13 DEF RowFollows, Follows, y

\* Two rows that say the same of the same candles both follow them.
LEMMA AlikeFollow ==
  ASSUME NEW m, NEW o, Len(m) \in Nat, Len(o) \in Nat, Len(m) <= Len(o), \A b \in 1 .. Len(m) : o[b] = m[b],
         NEW r, RowFollows(m, r), NEW y \in Hypothesis,
         y.dir = r.dir, y.price = r.price, y.at = r.at, y.latest = r.latest, y.first = r.first,
         y.firstAt = r.firstAt, y.events = r.events, y.favor = r.favor, y.path = r.path
  PROVE  RowFollows(o, y)
<1>1. /\ r \in Hypothesis /\ 1 <= r.at /\ r.at <= r.latest /\ r.at <= Len(m) + 1 /\ r.at \in Nat /\ r.latest \in Nat
      /\ r.latest = r.at \/ r.latest <= Len(m)
      /\ TouchIsFirst(m, r) /\ FavorIsGreatest(m, r) /\ SoftIsKnown(m, r) /\ ReversalIsKnown(m, r)
  BY DEF RowFollows, Follows, Hypothesis
<1>2. \A b \in (r.at + 1) .. r.latest : o[b] = m[b]
  <2>1. \A b \in (r.at + 1) .. r.latest : b \in 1 .. Len(m)
    BY <1>1
  <2>2. QED BY <2>1
<1>3. FollowedOn(o, y) = FollowedOn(m, r) /\ \A b \in FollowedOn(m, r) : o[b] = m[b]
  BY <1>2 DEF FollowedOn
<1>4. \A c : /\ TakesProfit(y, c) = TakesProfit(r, c) /\ HitsHard(y, c) = HitsHard(r, c)
             /\ HitsSoft(y, c) = HitsSoft(r, c) /\ Gain(y, c) = Gain(r, c) /\ Decides(y, c) = Decides(r, c)
  BY <1>1, LevelsAre
<1>5. TouchesOn(o, y) = TouchesOn(m, r) /\ TouchesOn(m, r) \subseteq FollowedOn(m, r)
  BY <1>3, <1>4 DEF TouchesOn
<1>6. TouchIsFirst(o, y)
  BY <1>1, <1>3, <1>4, <1>5 DEF TouchIsFirst
<1>7. FavorIsGreatest(o, y)
  BY <1>1, <1>3, <1>4 DEF FavorIsGreatest
<1>8. SoftIsKnown(o, y)
  BY <1>1, <1>3, <1>4 DEF SoftIsKnown
<1>9. ReversalIsKnown(o, y)
  BY <1>1, <1>3, <1>4 DEF ReversalIsKnown
<1>10. y.at <= Len(o) + 1 /\ (y.latest = y.at \/ y.latest <= Len(o))
  BY <1>1
<1>11. QED BY <1>1, <1>6, <1>7, <1>8, <1>9, <1>10 DEF RowFollows, Follows

\* A row after each bucket up to n; that there is such a function.
JudgedUpTo(r, f, n) ==
  f = [b \in 0 .. n |-> IF b = 0 THEN r
                        ELSE IF b \in Tabled(Unjudged(r), Len(market)) THEN Judged(f[b - 1], b) ELSE f[b - 1]]

\* Rows can be followed bucket by bucket.
LEMMA JudgementsExist ==
  ASSUME NEW r, NEW m \in Nat
  PROVE  \E f : JudgedUpTo(r, f, m)
<1> DEFINE E == Tabled(Unjudged(r), Len(market))
           Bad == {n \in Nat : ~ \E f : JudgedUpTo(r, f, n)}
<1>1. SUFFICES ASSUME Bad # {} PROVE FALSE
  OBVIOUS
<1>2. PICK k \in Bad : \A u \in Bad : k <= u
  BY <1>1, LeastExists
<1>3. k # 0
  <2>1. JudgedUpTo(r, [n \in 0 .. 0 |-> r], 0)
    BY DEF JudgedUpTo
  <2>2. QED BY <2>1
<1>4. k - 1 \in Nat /\ k - 1 \notin Bad
  BY <1>2, <1>3
<1>5. PICK f : JudgedUpTo(r, f, k - 1)
  BY <1>4
<1> DEFINE g == [n \in 0 .. k |-> IF n < k THEN f[n] ELSE IF n \in E THEN Judged(f[n - 1], n) ELSE f[n - 1]]
<1> HIDE DEF E
<1>6. JudgedUpTo(r, g, k)
  <2>1. \A n \in 0 .. k : n < k => g[n] = f[n]
    OBVIOUS
  <2>2. ASSUME NEW n \in 0 .. k
        PROVE  g[n] = IF n = 0 THEN r ELSE IF n \in E THEN Judged(g[n - 1], n) ELSE g[n - 1]
    <3>1. CASE n = k
      BY <3>1, <1>3, <1>4, <2>1
    <3>2. CASE n # k
      <4>1. n \in 0 .. k - 1 /\ n < k /\ (n # 0 => n - 1 \in 0 .. k /\ n - 1 < k)
        BY <3>2, <1>4
      <4>2. f[n] = IF n = 0 THEN r ELSE IF n \in E THEN Judged(f[n - 1], n) ELSE f[n - 1]
        BY <1>5, <4>1 DEF JudgedUpTo, E
      <4>3. QED BY <4>1, <4>2, <2>1
    <3>3. QED BY <3>1, <3>2
  <2>3. g = [n \in 0 .. k |-> IF n = 0 THEN r ELSE IF n \in E THEN Judged(g[n - 1], n) ELSE g[n - 1]]
    BY <2>2
  <2>4. QED BY <2>3 DEF JudgedUpTo, E
<1>7. QED BY <1>6

\* However many candles a pass judges, the row follows them all.
LEMMA JudgedOnFollows ==
  ASSUME CandleTyped, NEW r, RowFollows(market, r)
  PROVE  LET y == JudgedOn(r)
         IN /\ RowFollows(market, y) /\ Stands(r, y) /\ y.status = r.status /\ y.interim = r.interim
<1> DEFINE n == Len(market)
           E == Tabled(Unjudged(r), n)
           f == CHOOSE g : JudgedUpTo(r, g, n)
<1>1. n \in Nat /\ DOMAIN market = 1 .. n
  BY LenProperties DEF CandleTyped
<1>2. JudgedOn(r) = f[n]
  BY DEF JudgedOn, JudgedUpTo
<1>3. JudgedUpTo(r, f, n)
  BY <1>1, JudgementsExist
<1> HIDE DEF f
<1>4. \A b \in 0 .. n : f[b] = IF b = 0 THEN r ELSE IF b \in E THEN Judged(f[b - 1], b) ELSE f[b - 1]
  BY <1>3 DEF JudgedUpTo
<1>5. \A b \in 1 .. n : b \in E <=> b > r.latest /\ Traded(b)
  BY <1>1 DEF Tabled, Unjudged
<1> HIDE DEF E, n
<1>6. r \in Hypothesis /\ r.latest \in Nat
  BY DEF RowFollows, Hypothesis
<1> DEFINE Good(b) == /\ RowFollows(market, f[b]) /\ Stands(r, f[b])
                      /\ f[b].status = r.status /\ f[b].interim = r.interim
                      /\ r.latest <= f[b].latest /\ (f[b].latest = r.latest \/ f[b].latest <= b)
                      /\ \A a \in 1 .. b : Traded(a) => a <= f[b].latest
           Bad == {b \in Nat : b <= n /\ ~ Good(b)}
<1>7. Bad = {}
  <2>1. SUFFICES ASSUME Bad # {} PROVE FALSE
    OBVIOUS
  <2>2. PICK k \in Bad : \A u \in Bad : k <= u
    BY <2>1, LeastExists
  <2>3. k \in Nat /\ k <= n /\ ~ Good(k)
    BY <2>2
  <2>4. k # 0
    <3>0. 0 \in 0 .. n
      BY <1>1
    <3>1. f[0] = r
      BY <1>4, <3>0
    <3>2. Stands(r, r)
      BY DEF Stands
    <3>3. Good(0)
      BY <1>6, <3>1, <3>2
    <3>4. QED BY <2>3, <3>3
  <2>5. k - 1 \in Nat /\ k - 1 <= n /\ k \in 1 .. n /\ k \in 0 .. n
    BY <1>1, <2>3, <2>4
  <2>6. Good(k - 1)
    <3>1. k - 1 \notin Bad
      BY <2>2, <2>5
    <3>2. QED BY <2>5, <3>1
  <2> DEFINE x == f[k - 1]
  <2>7. /\ RowFollows(market, x) /\ Stands(r, x) /\ x.status = r.status /\ x.interim = r.interim
        /\ r.latest <= x.latest /\ (x.latest = r.latest \/ x.latest <= k - 1)
        /\ \A a \in 1 .. k - 1 : Traded(a) => a <= x.latest
    BY <2>6
  <2>8. x.latest \in Nat /\ x \in Hypothesis
    BY <2>7 DEF RowFollows, Hypothesis
  <2>9. f[k] = IF k \in E THEN Judged(x, k) ELSE x
    BY <1>4, <2>4, <2>5
  <2> HIDE DEF x
  <2>10. CASE k \in E
    <3>1. k > r.latest /\ Traded(k) /\ x.latest < k
      BY <1>5, <1>6, <2>5, <2>7, <2>8, <2>10
    <3>2. \A a \in (x.latest + 1) .. (k - 1) : ~ Traded(a)
      <4>1. \A a \in (x.latest + 1) .. (k - 1) : a \in 1 .. k - 1 /\ ~ (a <= x.latest)
        BY <2>5, <2>8
      <4>2. QED BY <2>7, <4>1
    <3>3. k \in 1 .. Len(market)
      BY <2>5 DEF n
    <3>4. /\ RowFollows(market, f[k]) /\ Stands(x, f[k]) /\ f[k].latest = k
          /\ f[k].status = x.status /\ f[k].interim = x.interim
      BY <2>7, <2>9, <2>10, <3>1, <3>2, <3>3, JudgedFollows
    <3>5. Stands(r, f[k])
      BY <2>7, <3>4 DEF Stands
    <3>6. Good(k)
      BY <1>6, <2>5, <2>7, <3>1, <3>4, <3>5
    <3>7. QED BY <2>3, <3>6
  <2>11. CASE k \notin E
    <3>1. f[k] = x
      BY <2>9, <2>11
    <3>2. Traded(k) => k <= x.latest
      BY <1>5, <1>6, <2>5, <2>7, <2>8, <2>11
    <3>3. \A a \in 1 .. k : Traded(a) => a <= x.latest
      <4>1. \A a \in 1 .. k : a = k \/ a \in 1 .. k - 1
        BY <2>5
      <4>2. QED BY <2>7, <3>2, <4>1
    <3>4. x.latest = r.latest \/ x.latest <= k
      BY <1>6, <2>5, <2>7, <2>8
    <3>5. Good(k)
      BY <2>7, <3>1, <3>3, <3>4
    <3>6. QED BY <2>3, <3>5
  <2>12. QED BY <2>10, <2>11
<1>8. Good(n)
  BY <1>1, <1>7
<1>9. QED BY <1>2, <1>8

\* A pass over a row judges it, and may end it.
LEMMA RefreshedFollows ==
  ASSUME CandleTyped, NEW r, RowFollows(market, r), NEW due \in BOOLEAN
  PROVE  RowFollows(market, RefreshedRow(r, due)) /\ Stands(r, RefreshedRow(r, due))
<1> DEFINE s == JudgedOn(r)
           age == Forming - r.at
           i == s.interim \/ age > Reviews[r.horizon] \/ (due /\ age = Reviews[r.horizon])
           e == IF age > Expires[r.horizon] \/ (due /\ age = Expires[r.horizon]) THEN "completed" ELSE s.status
           y == RefreshedRow(r, due)
<1>1. RowFollows(market, s) /\ Stands(r, s)
  BY JudgedOnFollows
<1>2. s \in Hypothesis
  BY <1>1 DEF RowFollows
<1>3. y = [s EXCEPT !.interim = i, !.status = e]
  BY DEF RefreshedRow
<1>4. i \in BOOLEAN /\ e \in {"active", "completed"}
  <2>1. s.interim \in BOOLEAN /\ s.status \in {"active", "completed"}
    BY <1>2 DEF Hypothesis
  <2>2. QED BY <2>1
<1> HIDE DEF s, i, e, y
<1>5. /\ y \in Hypothesis /\ y.horizon = s.horizon /\ y.dir = s.dir /\ y.price = s.price /\ y.at = s.at
      /\ y.latest = s.latest /\ y.first = s.first /\ y.firstAt = s.firstAt /\ y.events = s.events
      /\ y.favor = s.favor /\ y.path = s.path
  BY <1>2, <1>3, <1>4 DEF Hypothesis
<1>6. RowFollows(market, y)
  <2>1. Len(market) \in Nat /\ Len(market) <= Len(market)
    BY LenProperties DEF CandleTyped
  <2>2. QED BY <1>1, <1>2, <1>5, <2>1, AlikeFollow
<1>7. Stands(r, y)
  BY <1>1, <1>5 DEF Stands
<1>8. QED BY <1>6, <1>7 DEF y

\* What a pass may make of the rows: more of them, and of each a later version.
RowsFollow(rs) == rs \in Seq(Hypothesis) /\ \A i \in 1 .. Len(rs) : RowFollows(market, rs[i])
Carries(rs, qs) ==
  /\ RowsFollow(qs) /\ Len(rs) <= Len(qs)
  /\ \A i \in 1 .. Len(rs) : Stands(rs[i], qs[i]) /\ (rs[i].status = "completed" => qs[i] = rs[i])

\* What one pass over the hypotheses carries on to the next stays carried on.
LEMMA PassesCompose ==
  ASSUME NEW a \in Seq(Hypothesis), NEW b, NEW c, Carries(a, b), Carries(b, c)
  PROVE  Carries(a, c)
<1>1. Len(a) \in Nat /\ Len(b) \in Nat /\ Len(c) \in Nat
  BY LenProperties DEF Carries, RowsFollow
<1>2. Len(a) <= Len(c) /\ RowsFollow(c)
  BY <1>1 DEF Carries
<1>3. \A i \in 1 .. Len(a) : i \in 1 .. Len(b)
  BY <1>1 DEF Carries
<1>4. \A i \in 1 .. Len(a) : Stands(a[i], c[i])
  BY <1>3 DEF Carries, Stands
<1>5. \A i \in 1 .. Len(a) : a[i].status = "completed" => c[i] = a[i]
  BY <1>3 DEF Carries
<1>6. QED BY <1>2, <1>4, <1>5 DEF Carries

\* A hypothesis that was just anchored has nothing to follow.
LEMMA NewRowFollows ==
  ASSUME CandleTyped, NEW h \in Horizons, NEW d \in {-1, 1}, NEW price \in Int
  PROVE  RowFollows(market, NewRow(h, d, price))
<1> DEFINE r == NewRow(h, d, price)
<1>1. Len(market) \in Nat
  BY LenProperties DEF CandleTyped
<1>2. Forming \in Nat /\ Forming = Len(market) + 1
  BY <1>1 DEF Forming
<1>3. "observing" \in Turns /\ "none" \in Firsts
  BY DEF Turns, Firsts
<1>4. r = [horizon |-> h, dir |-> d, price |-> price, at |-> Forming, latest |-> Forming,
           status |-> "active", first |-> "none", firstAt |-> 0, events |-> {}, favor |-> 0,
           adverse |-> 0, path |-> "observing", interim |-> FALSE]
  BY DEF NewRow
<1> HIDE DEF r
<1>5. r \in Hypothesis
  BY <1>2, <1>3, <1>4 DEF Hypothesis
<1>6. FollowedOn(market, r) = {}
  BY <1>2, <1>4 DEF FollowedOn
<1>7. Follows(market, r)
  <2>1. TouchesOn(market, r) = {}
    BY <1>6 DEF TouchesOn
  <2>2. TouchIsFirst(market, r)
    BY <1>4, <2>1 DEF TouchIsFirst
  <2>3. FavorIsGreatest(market, r)
    <3>1. r.favor = 0
      BY <1>4
    <3>2. QED BY <1>6, <3>1 DEF FavorIsGreatest
  <2>4. SoftIsKnown(market, r) /\ ReversalIsKnown(market, r)
    BY <1>4, <1>6 DEF SoftIsKnown, ReversalIsKnown
  <2>5. QED BY <2>2, <2>3, <2>4 DEF Follows
<1>8. QED BY <1>1, <1>2, <1>4, <1>5, <1>7 DEF RowFollows, r

\* Renewing the hypotheses adds rows.
LEMMA EnsuringAdds ==
  ASSUME CandleTyped, NEW rs, RowsFollow(rs), NEW qs \in EnsuredRows(rs)
  PROVE  Carries(rs, qs)
<1> DEFINE new == SetToSeq(Missing(rs))
<1>1. new \in Seq(Horizons)
  <2>1. Missing(rs) \subseteq Horizons /\ IsFiniteSet(Horizons)
    BY HorizonAssumption DEF Missing
  <2>2. IsFiniteSet(Missing(rs))
    BY <2>1, FS_Subset
  <2>3. new \in Seq(Missing(rs))
    BY <2>2, SetToSeqIs
  <2> HIDE DEF new
  <2>4. QED BY <2>1, <2>3, SeqMonotonic
<1>2. rs \in Seq(Hypothesis) /\ Len(rs) \in Nat /\ Len(new) \in Nat
  BY <1>1, LenProperties DEF RowsFollow
<1>3. CASE new = <<>>
  <2>1. qs = rs
    BY <1>3 DEF EnsuredRows
  <2>2. QED BY <1>2, <2>1 DEF Carries, Stands
<1>4. CASE new # <<>>
  <2> DEFINE T == {b \in DOMAIN market : Traded(b)}
             price == market[Greatest(T)].close
  <2>1. T # {} /\ qs \in {rs \o [i \in DOMAIN new |-> NewRow(new[i], dir[new[i]], price)] : dir \in [Missing(rs) -> {-1, 1}]}
    BY <1>4 DEF EnsuredRows
  <2>2. price \in Int
    <3>1. DOMAIN market = 1 .. Len(market) /\ Len(market) \in Nat
      BY LenProperties DEF CandleTyped
    <3>2. T \subseteq Nat /\ \A y \in T : y <= Len(market)
      BY <3>1
    <3>3. Greatest(T) \in T
      BY <2>1, <3>1, <3>2, GreatestIs
    <3>4. Greatest(T) \in 1 .. Len(market) /\ Traded(Greatest(T))
      BY <3>1, <3>3
    <3>5. QED BY <3>4, CandleOf
  <2>3. PICK dir \in [Missing(rs) -> {-1, 1}] : qs = rs \o [i \in DOMAIN new |-> NewRow(new[i], dir[new[i]], price)]
    BY <2>1
  <2> HIDE DEF T, price
  <2> DEFINE k == Len(new)
             add == [i \in DOMAIN new |-> NewRow(new[i], dir[new[i]], price)]
  <2>4. \A i \in 1 .. k : new[i] \in Missing(rs) /\ new[i] \in Horizons
    <3>1. IsFiniteSet(Missing(rs))
      BY HorizonAssumption, FS_Subset DEF Missing
    <3>2. new \in Seq(Missing(rs))
      BY <3>1, SetToSeqIs
    <3> HIDE DEF new
    <3>3. QED BY <1>1, <3>2, ElementOfSeq
  <2> HIDE DEF new
  <2>5. \A i \in 1 .. k : add[i] = NewRow(new[i], dir[new[i]], price) /\ RowFollows(market, add[i])
    <3>1. TAKE i \in 1 .. k
    <3>2. add[i] = NewRow(new[i], dir[new[i]], price)
      BY <1>1, LenProperties
    <3>3. dir[new[i]] \in {-1, 1}
      BY <2>3, <2>4
    <3>4. QED BY <2>2, <2>4, <3>2, <3>3, NewRowFollows
  <2>6. add \in Seq(Hypothesis) /\ Len(add) = k
    <3>1. add = [i \in 1 .. k |-> add[i]]
      BY <1>1, LenProperties
    <3>2. \A i \in 1 .. k : add[i] \in Hypothesis
      BY <2>5 DEF RowFollows
    <3> HIDE DEF add
    <3>3. add \in [1 .. k -> Hypothesis]
      BY <3>1, <3>2
    <3>4. QED BY <1>2, <3>3, SeqDef
  <2> HIDE DEF add
  <2>7. /\ qs \in Seq(Hypothesis) /\ Len(qs) = Len(rs) + k
        /\ \A i \in 1 .. Len(qs) : qs[i] = IF i <= Len(rs) THEN rs[i] ELSE add[i - Len(rs)]
    <3>1. qs = rs \o add
      BY <2>3 DEF add
    <3>2. /\ rs \o add \in Seq(Hypothesis) /\ Len(rs \o add) = Len(rs) + Len(add)
          /\ \A i \in 1 .. Len(rs) + Len(add) :
               (rs \o add)[i] = IF i <= Len(rs) THEN rs[i] ELSE add[i - Len(rs)]
      BY <1>2, <2>6, ConcatProperties
    <3> HIDE DEF k
    <3>3. QED BY <2>6, <3>1, <3>2
  <2> HIDE DEF k
  <2>8. k \in Nat
    BY <1>2 DEF k
  <2>9. \A i \in 1 .. Len(qs) : RowFollows(market, qs[i])
    <3>1. TAKE i \in 1 .. Len(qs)
    <3>2. CASE i <= Len(rs)
      <4>1. i \in 1 .. Len(rs)
        BY <1>2, <2>7, <2>8, <3>2
      <4>2. QED BY <2>7, <3>2, <4>1 DEF RowsFollow
    <3>3. CASE ~ (i <= Len(rs))
      <4>1. i - Len(rs) \in 1 .. k
        BY <1>2, <2>7, <2>8, <3>3
      <4>2. QED BY <2>5, <2>7, <3>3, <4>1
    <3>4. QED BY <3>2, <3>3
  <2>10. Len(rs) <= Len(qs) /\ \A i \in 1 .. Len(rs) : i \in 1 .. Len(qs) /\ i <= Len(rs)
    BY <1>2, <2>7, <2>8
  <2>11. \A i \in 1 .. Len(rs) : qs[i] = rs[i]
    BY <2>7, <2>10
  <2>12. QED BY <2>7, <2>9, <2>10, <2>11 DEF Carries, RowsFollow, Stands
<1>5. QED BY <1>3, <1>4

\* Judging the active rows leaves the completed ones alone.
LEMMA RefreshingContinues ==
  ASSUME CandleTyped, NEW rs, RowsFollow(rs), NEW due
  PROVE  Carries(rs, RefreshAll(rs, due))
<1> DEFINE qs == RefreshAll(rs, due)
<1>1. rs \in Seq(Hypothesis) /\ Len(rs) \in Nat /\ DOMAIN rs = 1 .. Len(rs)
  BY LenProperties DEF RowsFollow
<1>2. qs = [i \in 1 .. Len(rs) |-> IF rs[i].status = "active" THEN RefreshedRow(rs[i], i \in due) ELSE rs[i]]
  BY <1>1 DEF RefreshAll
<1> HIDE DEF qs
<1>3. \A i \in 1 .. Len(rs) : /\ RowFollows(market, qs[i]) /\ Stands(rs[i], qs[i])
                              /\ rs[i].status = "completed" => qs[i] = rs[i]
  <2>1. TAKE i \in 1 .. Len(rs)
  <2>2. RowFollows(market, rs[i]) /\ (i \in due) \in BOOLEAN
    BY DEF RowsFollow
  <2>3. CASE rs[i].status = "active"
    <3>1. qs[i] = RefreshedRow(rs[i], i \in due)
      BY <1>2, <2>3
    <3>2. QED BY <2>2, <2>3, <3>1, RefreshedFollows
  <2>4. CASE rs[i].status # "active"
    <3>1. qs[i] = rs[i]
      BY <1>2, <2>4
    <3>2. QED BY <2>2, <3>1 DEF Stands
  <2>5. QED BY <2>3, <2>4
<1>4. qs \in Seq(Hypothesis) /\ Len(qs) = Len(rs)
  <2>1. \A i \in 1 .. Len(rs) : qs[i] \in Hypothesis
    BY <1>3 DEF RowFollows
  <2>2. qs \in [1 .. Len(rs) -> Hypothesis]
    BY <1>2, <2>1
  <2>3. QED BY <1>1, <2>2, SeqDef
<1>5. QED BY <1>1, <1>3, <1>4 DEF Carries, RowsFollow, qs

TrendInv == CandleTyped /\ RowsFollow(rows)

\* The first transactions of a pass and the whole of it continue the rows.
LEMMA PassContinues ==
  ASSUME TrendInv, HorizonPass
  PROVE  Carries(rows, rows') /\ market' = market /\ CandleTyped'
<1>1. PICK first \in EnsuredRows(rows), due \in SUBSET ActiveRows(rows) :
        rows' \in {first, RefreshAll(first, due)} \cup EnsuredRows(RefreshAll(first, due))
  BY DEF HorizonPass
<1> DEFINE second == RefreshAll(first, due)
<1>2. CandleTyped /\ RowsFollow(rows) /\ rows \in Seq(Hypothesis)
  BY DEF TrendInv, RowsFollow
<1>3. Carries(rows, first)
  BY <1>2, EnsuringAdds
<1>4. RowsFollow(first) /\ first \in Seq(Hypothesis)
  BY <1>3 DEF Carries, RowsFollow
<1>5. Carries(first, second)
  BY <1>2, <1>4, RefreshingContinues
<1>6. RowsFollow(second)
  BY <1>5 DEF Carries
<1>7. Carries(rows, second)
  BY <1>2, <1>3, <1>5, PassesCompose
<1>8. market' = market /\ CandleTyped'
  <2>1. market' = market /\ cached' = Len(market) /\ Len(market) \in Nat
    BY <1>2, LenProperties DEF HorizonPass, CandleTyped
  <2>2. QED BY <1>2, <2>1 DEF CandleTyped
<1>9. CASE rows' \in EnsuredRows(second)
  <2>1. Carries(second, rows')
    BY <1>2, <1>6, <1>9, EnsuringAdds
  <2>2. Carries(rows, rows')
    BY <1>2, <1>7, <2>1, PassesCompose
  <2>3. QED BY <1>8, <2>2
<1>10. QED BY <1>1, <1>3, <1>7, <1>8, <1>9

\* What the rows say of the candles stays true as candles close and passes are made.
LEMMA TrendStarts == ASSUME CandleInit, HorizonInit PROVE TrendInv
<1>1. market = <<>> /\ cached = 0 /\ rows = <<>>
  BY DEF CandleInit, HorizonInit
<1>2. market \in Seq(Shapes \cup {None}) /\ Len(market) = 0 /\ rows \in Seq(Hypothesis) /\ Len(rows) = 0
  BY <1>1
<1>3. CandleTyped
  BY <1>1, <1>2 DEF CandleTyped
<1>4. RowsFollow(rows)
  BY <1>2 DEF RowsFollow
<1>5. QED BY <1>3, <1>4 DEF TrendInv

\* A pass over the hypotheses, or a candle that closes, keeps the invariant.
LEMMA TrendContinues ==
  ASSUME TrendInv, [HorizonNext \/ (CloseBucket /\ UNCHANGED horizonVars)]_<<candleVars, horizonVars>>
  PROVE  TrendInv'
<1>1. CASE HorizonNext
  <2>1. Carries(rows, rows') /\ market' = market /\ CandleTyped'
    BY <1>1, PassContinues DEF HorizonNext
  <2>2. RowsFollow(rows)'
    BY <2>1 DEF Carries, RowsFollow
  <2>3. QED BY <2>1, <2>2 DEF TrendInv
<1>2. CASE CloseBucket /\ UNCHANGED horizonVars
  <2>1. CandleTyped /\ RowsFollow(rows)
    BY DEF TrendInv
  <2>2. rows' = rows
    BY <1>2 DEF horizonVars
  <2>3. /\ CandleTyped' /\ Len(market') = Len(market) + 1
        /\ \A b \in 1 .. Len(market) : market'[b] = market[b]
    BY <1>2, <2>1, MarketGrows
  <2>4. Len(market) \in Nat /\ Len(market') \in Nat /\ Len(market) <= Len(market')
    BY <2>1, <2>3, LenProperties DEF CandleTyped
  <2>5. \A i \in 1 .. Len(rows) : RowFollows(market', rows[i])
    <3>1. TAKE i \in 1 .. Len(rows)
    <3>2. RowFollows(market, rows[i]) /\ rows[i] \in Hypothesis
      BY <2>1 DEF RowsFollow, RowFollows
    <3>3. QED BY <2>3, <2>4, <3>2, AlikeFollow
  <2>6. RowsFollow(rows)'
    BY <2>1, <2>2, <2>5 DEF RowsFollow
  <2>7. QED BY <2>3, <2>6 DEF TrendInv
<1>3. CASE UNCHANGED <<candleVars, horizonVars>>
  <2>1. market' = market /\ cached' = cached /\ rows' = rows
    BY <1>3 DEF candleVars, horizonVars
  <2>2. QED BY <2>1 DEF TrendInv, CandleTyped, RowsFollow
<1>4. QED BY <1>1, <1>2, <1>3

\* Every row of a hypothesis follows its candles, whenever it is looked at.
LEMMA TrendInvariant == TrendSpec => []TrendInv
BY TrendStarts, TrendContinues, PTL DEF TrendSpec

\* A row that follows its candles has the verdict of the first that touched it.
LEMMA FollowingIsFirst ==
  ASSUME CandleTyped, NEW r, RowFollows(market, r)
  PROVE  /\ IF Touches(r) = {} THEN r.first = "none"
            ELSE <<r.first, r.firstAt>> = <<FirstTouch(r), Least(Touches(r))>>
         /\ r.favor = Greatest({0} \cup {r.dir * (Best(market[b], r.dir) - r.price) : b \in Followed(r)})
         /\ "soft_stop" \in r.events <=> \E b \in Followed(r) : HitsSoft(r, market[b])
         /\ r.path = "target_then_reversal" <=>
              r.first = "take_profit" /\ \E b \in Followed(r) : b > r.firstAt /\ HitsHard(r, market[b])
<1>1. /\ r \in Hypothesis /\ 1 <= r.at /\ r.at <= r.latest /\ r.at \in Nat /\ r.latest \in Nat
      /\ r.latest = r.at \/ r.latest <= Len(market)
      /\ TouchIsFirst(market, r) /\ FavorIsGreatest(market, r) /\ SoftIsKnown(market, r) /\ ReversalIsKnown(market, r)
  BY DEF RowFollows, Follows, Hypothesis
<1>2. Followed(r) = FollowedOn(market, r) /\ Touches(r) = TouchesOn(market, r)
  BY DEF Followed, FollowedOn, Touches, TouchesOn, Traded
<1>3. IF Touches(r) = {} THEN r.first = "none" ELSE <<r.first, r.firstAt>> = <<FirstTouch(r), Least(Touches(r))>>
  <2>1. CASE Touches(r) = {}
    BY <1>1, <1>2, <2>1 DEF TouchIsFirst
  <2>2. CASE Touches(r) # {}
    <3>1. /\ r.firstAt \in Touches(r) /\ r.first = Decides(r, market[r.firstAt])
          /\ \A b \in Touches(r) : r.firstAt <= b
      BY <1>1, <1>2, <2>2 DEF TouchIsFirst
    <3>2. Touches(r) \subseteq Int
      BY <1>1 DEF Touches, Followed
    <3>3. Least(Touches(r)) = r.firstAt
      BY <3>1, <3>2, LeastOf
    <3>4. FirstTouch(r) = r.first
      BY <3>1, <3>3 DEF FirstTouch, Decides
    <3>5. QED BY <2>2, <3>3, <3>4
  <2>3. QED BY <2>1, <2>2
<1>4. r.favor = Greatest({0} \cup {r.dir * (Best(market[b], r.dir) - r.price) : b \in Followed(r)})
  <2> DEFINE S == {0} \cup {Gain(r, market[b]) : b \in FollowedOn(market, r)}
  <2>1. S = {0} \cup {r.dir * (Best(market[b], r.dir) - r.price) : b \in Followed(r)}
    BY <1>2 DEF Gain
  <2>2. \A b \in FollowedOn(market, r) : Gain(r, market[b]) \in Int
    <3>1. TAKE b \in FollowedOn(market, r)
    <3>2. b \in 1 .. Len(market) /\ Traded(b)
      <4>1. Len(market) \in Nat
        BY LenProperties DEF CandleTyped
      <4>2. QED BY <1>1, <4>1 DEF FollowedOn, Traded
    <3>3. QED BY <1>1, <3>2, CandleOf, GainIsInt
  <2>3. S \subseteq Int /\ r.favor \in S /\ \A u \in S : r.favor >= u
    <3>1. r.favor \in S
      BY <1>1 DEF FavorIsGreatest
    <3>2. r.favor \in Int
      BY <1>1 DEF Hypothesis
    <3>3. S \subseteq Int
      BY <2>2
    <3>4. \A u \in S : r.favor >= u
      <4>1. TAKE u \in S
      <4>2. u \in Int /\ u <= r.favor
        BY <1>1, <3>3 DEF FavorIsGreatest
      <4>3. QED BY <3>2, <4>2
    <3>5. QED BY <3>1, <3>3, <3>4
  <2> HIDE DEF S
  <2>4. Greatest(S) = r.favor
    BY <2>3, GreatestOf
  <2>5. QED BY <2>1, <2>4
<1>5. "soft_stop" \in r.events <=> \E b \in Followed(r) : HitsSoft(r, market[b])
  BY <1>1, <1>2 DEF SoftIsKnown
<1>6. r.path = "target_then_reversal" <=>
        r.first = "take_profit" /\ \E b \in Followed(r) : b > r.firstAt /\ HitsHard(r, market[b])
  BY <1>1, <1>2 DEF ReversalIsKnown
<1>7. QED BY <1>3, <1>4, <1>5, <1>6

\* In every state, whatever the passes were and whichever failed, each hypothesis has the
\* verdict and the excursions of the candles it followed (refresh_trend_horizon_validations).
THEOREM FirstHitHolds == TrendSpec => []FirstHitIsFirst
<1>1. TrendInv => FirstHitIsFirst
  <2>1. SUFFICES ASSUME TrendInv PROVE FirstHitIsFirst
    OBVIOUS
  <2>2. CandleTyped /\ rows \in Seq(Hypothesis) /\ \A i \in 1 .. Len(rows) : RowFollows(market, rows[i])
    BY <2>1 DEF TrendInv, RowsFollow
  <2>3. DOMAIN rows = 1 .. Len(rows)
    BY <2>2, LenProperties
  <2>4. \A i \in 1 .. Len(rows) :
          LET r == rows[i] IN
          /\ IF Touches(r) = {} THEN r.first = "none"
             ELSE <<r.first, r.firstAt>> = <<FirstTouch(r), Least(Touches(r))>>
          /\ r.favor = Greatest({0} \cup {r.dir * (Best(market[b], r.dir) - r.price) : b \in Followed(r)})
          /\ "soft_stop" \in r.events <=> \E b \in Followed(r) : HitsSoft(r, market[b])
          /\ r.path = "target_then_reversal" <=>
               r.first = "take_profit" /\ \E b \in Followed(r) : b > r.firstAt /\ HitsHard(r, market[b])
    <3>1. TAKE i \in 1 .. Len(rows)
    <3>2. RowFollows(market, rows[i])
      BY <2>2
    <3>3. QED BY <2>2, <3>2, FollowingIsFirst
  <2>5. QED BY <2>3, <2>4 DEF FirstHitIsFirst
<1>2. QED BY <1>1, TrendInvariant, PTL

\* No step takes back a verdict, an event or a row that was completed.
THEOREM VerdictsStand == TrendSpec => VerdictStands
<1> DEFINE Kept == \A i \in DOMAIN rows :
       /\ rows[i].first # "none" => <<rows'[i].first, rows'[i].firstAt>> = <<rows[i].first, rows[i].firstAt>>
       /\ rows[i].events \subseteq rows'[i].events
       /\ rows[i].status = "completed" => rows'[i] = rows[i]
<1>1. TrendInv /\ [HorizonNext \/ (CloseBucket /\ UNCHANGED horizonVars)]_<<candleVars, horizonVars>>
      => [Kept]_<<market, cached, rows>>
  <2>1. SUFFICES ASSUME TrendInv,
                        [HorizonNext \/ (CloseBucket /\ UNCHANGED horizonVars)]_<<candleVars, horizonVars>>
                 PROVE  [Kept]_<<market, cached, rows>>
    OBVIOUS
  <2>2. rows \in Seq(Hypothesis) /\ DOMAIN rows = 1 .. Len(rows)
    BY <2>1, LenProperties DEF TrendInv, RowsFollow
  <2>3. CASE HorizonNext
    <3>1. \A i \in 1 .. Len(rows) : Stands(rows[i], rows'[i]) /\ (rows[i].status = "completed" => rows'[i] = rows[i])
      BY <2>1, <2>3, PassContinues DEF HorizonNext, Carries
    <3>2. Kept
      BY <2>2, <3>1 DEF Stands
    <3>3. QED BY <3>2
  <2>4. CASE CloseBucket /\ UNCHANGED horizonVars
    <3>1. rows' = rows
      BY <2>4 DEF horizonVars
    <3>2. QED BY <3>1
  <2>5. CASE UNCHANGED <<candleVars, horizonVars>>
    BY <2>5 DEF candleVars, horizonVars
  <2>6. QED BY <2>1, <2>3, <2>4, <2>5
<1>2. QED BY <1>1, TrendInvariant, PTL DEF TrendSpec, VerdictStands

-----------------------------------------------------------------------------
(* The pushes and their reviews. *)

\* What the candles m say of a review.
Up(m, b) == Reaches(m[b], 1, Continuation)
Down(m, b) == Falls(m[b], 1, 0 - Continuation)
TouchedOn(m, r) == {b \in WindowOf(r) : Up(m, b) \/ Down(m, b)}
WindowTold(m, r) ==
  r.status \in {"win", "loss", "neutral"} =>
    /\ \A b \in WindowOf(r) : b \in 1 .. Len(m) /\ m[b] # None
    /\ TouchedOn(m, r) = {} => r.status = "neutral"
    /\ TouchedOn(m, r) # {} =>
         LET b == Least(TouchedOn(m, r))
         IN (r.status = "win" <=> Up(m, b) /\ ~ Down(m, b)) /\ (r.status = "loss" <=> Down(m, b) /\ ~ Up(m, b))

\* A message announces what the table does not know, in rising phases.
Rising(k, told) == k \notin told /\ (k[2] # 0 => \A s \in told : s[1] = k[1] => s[2] < k[2])
Reviewed == [key : Int \X Int, at : Nat \ {0},
             status : {"pending", "win", "loss", "neutral", "insufficient_data"}]
Message == [keys : SUBSET (Int \X Int), review : Int \X Int, at : Nat \ {0}, tries : Nat, delivered : BOOLEAN]

BoxInv == /\ outbox # None => outbox \in Message /\ heard \subseteq outbox.keys /\ \A k \in outbox.keys : Rising(k, sent)
          /\ outbox = None => heard = {}
ReviewInv == /\ reviews \in Seq(Reviewed)
             /\ \A i \in 1 .. Len(reviews) : WindowTold(market, reviews[i])
PushInv == CandleTyped /\ BoxInv /\ ReviewInv

\* What a scan announces is new to the table.
LEMMA KeysRise ==
  ASSUME NEW item \in [bucket : Int, rank : Stages, bullish : BOOLEAN], NEW k \in StateKeys(item)
  PROVE  Rising(k, sent)
<1> DEFINE e == EpisodeOf(item.bucket)
<1>1. item.rank \in Nat /\ item.rank # 0
  BY ReviewAssumption
<1> HIDE DEF e
<1>2. (PhaseIsNew(item) /\ k = <<e, item.rank>>) \/ (BullishIsNew(item) /\ k = <<e, 0>>)
  BY DEF StateKeys, e
<1>3. Announced(item) = {s[2] : s \in {q \in sent : q[1] = e}}
  BY DEF Announced, e
<1>4. CASE PhaseIsNew(item) /\ k = <<e, item.rank>>
  <2>1. \A s \in sent : s[1] = e => s[2] < item.rank
    BY <1>3, <1>4 DEF PhaseIsNew
  <2>2. k \notin sent
    <3>1. SUFFICES ASSUME k \in sent PROVE FALSE
      OBVIOUS
    <3>2. k[1] = e /\ k[2] = item.rank
      BY <1>4
    <3>3. item.rank < item.rank
      BY <2>1, <3>1, <3>2
    <3>4. QED BY <1>1, <3>3
  <2>3. QED BY <1>4, <2>1, <2>2 DEF Rising
<1>5. CASE BullishIsNew(item) /\ k = <<e, 0>>
  <2>1. \A s \in sent : s[1] = e => s[2] # 0
    BY <1>3, <1>5 DEF BullishIsNew
  <2>2. k[1] = e /\ k[2] = 0
    BY <1>5
  <2>3. k \notin sent
    BY <2>1, <2>2
  <2>4. QED BY <2>2, <2>3 DEF Rising
<1>6. QED BY <1>2, <1>4, <1>5

\* A review that was given a verdict has its window in the candles.
LEMMA EvaluatedIsTold ==
  ASSUME CandleTyped, NEW r \in Reviewed, NEW s, s = [r EXCEPT !.status = Evaluated(r, Len(market))]
  PROVE  s \in Reviewed /\ WindowTold(market, s)
<1> DEFINE n == Len(market)
           seen == Seen(r, n)
           w == WindowOf(r)
           touch == {b \in seen : Continues(b) \/ Breaks(b)}
           first == Least(touch)
           v == Evaluated(r, n)
<1>1. n \in Nat /\ r.at \in Nat /\ ReviewWindow \in Nat \ {0} /\ DOMAIN market = 1 .. n
  BY ReviewAssumption, LenProperties DEF CandleTyped, Reviewed
<1>2. v \in {"pending", "win", "loss", "neutral", "insufficient_data"}
  BY DEF Evaluated
<1>3. s \in Reviewed /\ s.status = v /\ s.at = r.at
  <2> HIDE DEF v
  <2>1. QED BY <1>2 DEF Reviewed, v
<1>4. CASE v \in {"win", "loss", "neutral"}
  <2>1. Cardinality(seen) = ReviewWindow
    BY <1>4 DEF Evaluated
  <2>2. seen \subseteq w /\ \A b \in seen : b \in 1 .. n /\ Traded(b)
    BY DEF Seen, Tabled
  <2>3. w = (r.at + 1) .. (r.at + ReviewWindow) /\ w \subseteq Nat
    BY <1>1 DEF WindowOf
  <2>4. IsFiniteSet(w) /\ Cardinality(w) = ReviewWindow
    <3>1. r.at + 1 \in Int /\ r.at + ReviewWindow \in Int /\ ~ (r.at + 1 > r.at + ReviewWindow)
      BY <1>1
    <3>2. (r.at + ReviewWindow) - (r.at + 1) + 1 = ReviewWindow
      BY <1>1
    <3> HIDE DEF w
    <3>3. QED BY <2>3, <3>1, <3>2, FS_Interval
  <2>5. seen = w
    <3> HIDE DEF seen, w
    <3>1. seen \in SUBSET w
      BY <2>2
    <3>2. Cardinality(w) = Cardinality(seen) => w = seen
      BY <2>4, <3>1, FS_Subset
    <3>3. QED BY <2>1, <2>4, <3>2
  <2>6. touch = TouchedOn(market, s)
    <3>1. WindowOf(s) = w
      BY <1>3 DEF WindowOf
    <3>2. QED BY <2>5, <3>1 DEF TouchedOn, Continues, Breaks, Up, Down
  <2>7. touch = {} => v = "neutral"
    BY <1>4 DEF Evaluated
  <2>8. touch # {} => v = IF Continues(first) /\ Breaks(first) THEN "insufficient_data"
                          ELSE IF Continues(first) THEN "win" ELSE "loss"
    BY <1>4 DEF Evaluated
  <2>9. touch # {} => first \in touch
    <3>1. touch \subseteq Nat
      BY <2>3, <2>5
    <3> HIDE DEF touch
    <3>2. QED BY <3>1, LeastIs
  <2>10. touch # {} => Continues(first) \/ Breaks(first)
    BY <2>9
  <2> HIDE DEF touch, v, seen
  <2>11. touch # {} => /\ v = "win" <=> Continues(first) /\ ~ Breaks(first)
                       /\ v = "loss" <=> Breaks(first) /\ ~ Continues(first)
    BY <1>4, <2>8, <2>10
  <2>12. \A b : Continues(b) = Up(market, b) /\ Breaks(b) = Down(market, b)
    BY DEF Continues, Breaks, Up, Down
  <2>13. \A b \in WindowOf(s) : b \in 1 .. Len(market) /\ market[b] # None
    BY <1>3, <2>2, <2>5 DEF WindowOf, Traded
  <2>14. QED BY <1>3, <2>6, <2>7, <2>11, <2>12, <2>13 DEF WindowTold
<1>5. CASE v \notin {"win", "loss", "neutral"}
  BY <1>3, <1>5 DEF WindowTold
<1>6. QED BY <1>3, <1>4, <1>5

\* A verdict says the same when more candles are known.
LEMMA ToldStays ==
  ASSUME NEW m, NEW o, Len(m) \in Nat, Len(o) \in Nat, Len(m) <= Len(o), \A b \in 1 .. Len(m) : o[b] = m[b],
         NEW r, WindowTold(m, r)
  PROVE  WindowTold(o, r)
<1>1. SUFFICES ASSUME r.status \in {"win", "loss", "neutral"} PROVE WindowTold(o, r)
  BY DEF WindowTold
<1>2. \A b \in WindowOf(r) : b \in 1 .. Len(m) /\ m[b] # None
  BY <1>1 DEF WindowTold
<1>3. \A b \in WindowOf(r) : b \in 1 .. Len(o) /\ o[b] = m[b]
  BY <1>2
<1>4. \A b \in WindowOf(r) : Up(o, b) = Up(m, b) /\ Down(o, b) = Down(m, b)
  BY <1>3 DEF Up, Down
<1>5. TouchedOn(o, r) = TouchedOn(m, r)
  BY <1>4 DEF TouchedOn
<1>6. CASE TouchedOn(m, r) = {}
  BY <1>1, <1>2, <1>3, <1>5, <1>6 DEF WindowTold
<1>7. CASE TouchedOn(m, r) # {}
  <2> DEFINE T == TouchedOn(m, r)
             b == Least(T)
  <2>1. T \subseteq WindowOf(r)
    BY DEF TouchedOn
  <2>2. (r.status = "win" <=> Up(m, b) /\ ~ Down(m, b)) /\ (r.status = "loss" <=> Down(m, b) /\ ~ Up(m, b))
    BY <1>1, <1>7 DEF WindowTold
  <2>3. b \in WindowOf(r)
    <3>1. T \subseteq Nat
      BY <1>2, <2>1
    <3>2. T # {}
      BY <1>7
    <3> HIDE DEF T
    <3>3. QED BY <2>1, <3>1, <3>2, LeastIs
  <2>4. QED BY <1>1, <1>2, <1>3, <1>4, <1>5, <1>7, <2>2, <2>3 DEF WindowTold
<1>8. QED BY <1>6, <1>7

\* No push and no review at the start.
LEMMA PushStarts == ASSUME CandleInit, PushInit PROVE PushInv
<1>1. market = <<>> /\ cached = 0 /\ reviews = <<>> /\ outbox = None /\ heard = {}
  BY DEF CandleInit, PushInit
<1>2. market \in Seq(Shapes \cup {None}) /\ Len(market) = 0 /\ reviews \in Seq(Reviewed) /\ Len(reviews) = 0
  BY <1>1
<1>3. CandleTyped
  BY <1>1, <1>2 DEF CandleTyped
<1>4. BoxInv
  BY <1>1 DEF BoxInv
<1>5. ReviewInv
  BY <1>2 DEF ReviewInv
<1>6. QED BY <1>3, <1>4, <1>5 DEF PushInv

\* A scan fills the outbox with what is new.
LEMMA ScanKeeps == ASSUME PushInv, Scan PROVE BoxInv'
<1>1. CandleTyped /\ BoxInv /\ outbox = None /\ heard = {} /\ sent' = sent /\ heard' = heard
  BY DEF PushInv, BoxInv, Scan
<1>2. PICK item \in Items, late \in BOOLEAN :
        outbox' = IF Ready(item, late) /\ StateKeys(item) # {}
                  THEN [keys |-> StateKeys(item), review |-> ReviewKey(item),
                        at |-> Forming, tries |-> 0, delivered |-> FALSE]
                  ELSE None
  BY DEF Scan
<1>3. Forming \in Nat \ {0}
  BY <1>1, LenProperties DEF CandleTyped, Forming
<1>4. item \in [bucket : Int, rank : Stages, bullish : BOOLEAN]
  BY <1>3 DEF Items
<1>5. EpisodeOf(item.bucket) \in Int /\ item.rank \in Int
  <2>1. item.bucket \in Int /\ item.rank \in Stages
    BY <1>4
  <2>2. Episode \in Nat \ {0}
    BY ReviewAssumption
  <2>3. item.rank \in Nat
    BY <2>1, ReviewAssumption
  <2>4. QED BY <2>1, <2>2, <2>3 DEF EpisodeOf
<1>6. StateKeys(item) \in SUBSET (Int \X Int) /\ ReviewKey(item) \in Int \X Int
  BY <1>5 DEF StateKeys, ReviewKey
<1>7. \A k \in StateKeys(item) : Rising(k, sent)
  BY <1>4, KeysRise
<1>8. CASE outbox' = None
  BY <1>1, <1>8 DEF BoxInv
<1>9. CASE outbox' = [keys |-> StateKeys(item), review |-> ReviewKey(item),
                      at |-> Forming, tries |-> 0, delivered |-> FALSE]
  <2>1. outbox' \in Message /\ outbox'.keys = StateKeys(item)
    BY <1>3, <1>6, <1>9 DEF Message
  <2>2. outbox' # None
    <3>1. DOMAIN outbox' # {}
      BY <1>9
    <3>2. DOMAIN None = {}
      BY DEF None
    <3>3. QED BY <3>1, <3>2
  <2>3. QED BY <1>1, <1>7, <2>1, <2>2 DEF BoxInv
<1>10. QED BY <1>2, <1>8, <1>9

\* A delivery tells no more than the message says.
LEMMA DeliverKeeps == ASSUME PushInv, Deliver PROVE BoxInv'
<1>1. /\ BoxInv /\ outbox # None /\ sent' = sent /\ outbox \in Message
      /\ heard' \in {outbox.keys, {}} /\ \A k \in outbox.keys : Rising(k, sent)
      /\ outbox' = [outbox EXCEPT !.delivered = TRUE] \/ outbox' = [outbox EXCEPT !.tries = @ + 1]
  BY DEF PushInv, BoxInv, Deliver
<1>2. outbox' \in Message /\ outbox'.keys = outbox.keys
  <2>1. outbox.tries \in Nat /\ outbox.tries + 1 \in Nat
    BY <1>1 DEF Message
  <2>2. CASE outbox' = [outbox EXCEPT !.delivered = TRUE]
    BY <1>1, <2>2 DEF Message
  <2>3. CASE outbox' = [outbox EXCEPT !.tries = @ + 1]
    BY <1>1, <2>1, <2>3 DEF Message
  <2>4. QED BY <1>1, <2>2, <2>3
<1>3. outbox' # None
  <2>1. DOMAIN outbox' # {}
    BY <1>2 DEF Message
  <2>2. DOMAIN None = {}
    BY DEF None
  <2>3. QED BY <2>1, <2>2
<1>4. QED BY <1>1, <1>2, <1>3 DEF BoxInv

\* What is committed is a review that has no verdict yet.
LEMMA CommitKeeps == ASSUME PushInv, Commit, market' = market PROVE BoxInv' /\ ReviewInv'
<1>1. BoxInv'
  BY DEF Commit, BoxInv
<1>2. ReviewInv /\ outbox \in Message
  BY DEF PushInv, BoxInv, Commit
<1>3. CASE reviews' = reviews
  BY <1>1, <1>2, <1>3 DEF ReviewInv
<1>4. CASE reviews' = Append(reviews, NewReview(outbox.review, outbox.at))
  <2> DEFINE r == NewReview(outbox.review, outbox.at)
  <2>1. r \in Reviewed /\ WindowTold(market, r)
    BY <1>2 DEF Message, Reviewed, NewReview, WindowTold
  <2> HIDE DEF r
  <2>2. reviews \in Seq(Reviewed) /\ Len(reviews) \in Nat
    BY <1>2, LenProperties DEF ReviewInv
  <2>3. /\ reviews' \in Seq(Reviewed) /\ Len(reviews') = Len(reviews) + 1
        /\ \A i \in 1 .. Len(reviews) : reviews'[i] = reviews[i]
        /\ reviews'[Len(reviews) + 1] = r
    BY <1>4, <2>1, <2>2, AppendProperties DEF r
  <2>4. \A i \in 1 .. Len(reviews') : WindowTold(market, reviews'[i])
    <3>1. TAKE i \in 1 .. Len(reviews')
    <3>2. i \in 1 .. Len(reviews) \/ i = Len(reviews) + 1
      BY <2>2, <2>3
    <3>3. QED BY <1>2, <2>1, <2>3, <3>2 DEF ReviewInv
  <2>5. QED BY <1>1, <2>3, <2>4 DEF ReviewInv
<1>5. QED BY <1>3, <1>4 DEF Commit

\* A pass over the reviews gives each pending one what its window says.
LEMMA ReviewKeeps == ASSUME PushInv, Review, market' = market PROVE BoxInv' /\ ReviewInv'
<1>1. BoxInv'
  BY DEF PushInv, Review, BoxInv
<1>2. CandleTyped /\ ReviewInv
  BY DEF PushInv
<1>3. reviews \in Seq(Reviewed) /\ Len(reviews) \in Nat /\ DOMAIN reviews = 1 .. Len(reviews)
  BY <1>2, LenProperties DEF ReviewInv
<1>4. PICK answered \in SUBSET DOMAIN reviews :
        reviews' = [i \in DOMAIN reviews |->
          IF reviews[i].status # "pending" THEN reviews[i]
          ELSE [reviews[i] EXCEPT !.status = IF i \in answered THEN Evaluated(reviews[i], Len(market))
                                                              ELSE Unanswered(reviews[i])]]
  BY DEF Review
<1>5. \A i \in 1 .. Len(reviews) : reviews'[i] \in Reviewed /\ WindowTold(market, reviews'[i])
  <2>1. TAKE i \in 1 .. Len(reviews)
  <2> DEFINE r == reviews[i]
  <2>2. r \in Reviewed /\ WindowTold(market, r)
    BY <1>2, <1>3, ElementOfSeq DEF ReviewInv
  <2>3. reviews'[i] = IF r.status # "pending" THEN r
          ELSE [r EXCEPT !.status = IF i \in answered THEN Evaluated(r, Len(market)) ELSE Unanswered(r)]
    BY <1>3, <1>4
  <2> HIDE DEF r
  <2>4. CASE r.status # "pending"
    BY <2>2, <2>3, <2>4
  <2>5. CASE r.status = "pending" /\ i \in answered
    BY <1>2, <2>2, <2>3, <2>5, EvaluatedIsTold
  <2>6. CASE r.status = "pending" /\ i \notin answered
    <3>1. Unanswered(r) \in {"insufficient_data", "pending"}
      BY DEF Unanswered
    <3>2. reviews'[i] = [r EXCEPT !.status = Unanswered(r)]
      BY <2>3, <2>6
    <3>3. reviews'[i] \in Reviewed /\ reviews'[i].status \in {"insufficient_data", "pending"}
      BY <2>2, <3>1, <3>2 DEF Reviewed
    <3>4. QED BY <3>3 DEF WindowTold
  <2>7. QED BY <2>4, <2>5, <2>6
<1>6. reviews' \in Seq(Reviewed) /\ Len(reviews') = Len(reviews)
  <2>1. reviews' \in [1 .. Len(reviews) -> Reviewed]
    BY <1>3, <1>4, <1>5
  <2>2. QED BY <1>3, <2>1, SeqDef
<1>7. ReviewInv'
  BY <1>5, <1>6 DEF ReviewInv
<1>8. QED BY <1>1, <1>7

\* A scan, a delivery, a commit, a review, a restart or a candle keeps the invariant of the pushes.
LEMMA PushContinues ==
  ASSUME PushInv, [PushNext \/ (CloseBucket /\ UNCHANGED pushVars)]_<<candleVars, pushVars>>
  PROVE  PushInv'
<1>0. CandleTyped /\ BoxInv /\ ReviewInv
  BY DEF PushInv
<1>1. CASE PushNext
  <2>1. market' = market /\ cached' = cached /\ CandleTyped'
    BY <1>0, <1>1 DEF PushNext, candleVars, CandleTyped
  <2>2. reviews' = reviews => ReviewInv'
    BY <1>0, <2>1 DEF ReviewInv
  <2>3. CASE Scan
    BY <2>1, <2>2, <2>3, ScanKeeps DEF PushInv, Scan
  <2>4. CASE Deliver
    BY <2>1, <2>2, <2>4, DeliverKeeps DEF PushInv, Deliver
  <2>5. CASE GiveUp
    <3>1. BoxInv'
      BY <2>5 DEF GiveUp, BoxInv
    <3>2. QED BY <2>1, <2>2, <2>5, <3>1 DEF PushInv, GiveUp
  <2>6. CASE Commit
    BY <2>1, <2>6, CommitKeeps DEF PushInv
  <2>7. CASE Restart
    <3>1. BoxInv'
      BY <2>7 DEF Restart, BoxInv
    <3>2. QED BY <2>1, <2>2, <2>7, <3>1 DEF PushInv, Restart
  <2>8. CASE Review
    BY <2>1, <2>8, ReviewKeeps DEF PushInv
  <2>9. QED BY <1>1, <2>3, <2>4, <2>5, <2>6, <2>7, <2>8 DEF PushNext
<1>2. CASE CloseBucket /\ UNCHANGED pushVars
  <2>1. outbox' = outbox /\ heard' = heard /\ sent' = sent /\ reviews' = reviews
    BY <1>2 DEF pushVars
  <2>2. BoxInv'
    BY <1>0, <2>1 DEF BoxInv
  <2>3. /\ CandleTyped' /\ Len(market') = Len(market) + 1
        /\ \A b \in 1 .. Len(market) : market'[b] = market[b]
    BY <1>0, <1>2, MarketGrows
  <2>4. Len(market) \in Nat /\ Len(market') \in Nat /\ Len(market) <= Len(market')
    BY <1>0, <2>3, LenProperties DEF CandleTyped
  <2>5. \A i \in 1 .. Len(reviews) : WindowTold(market', reviews[i])
    <3>1. TAKE i \in 1 .. Len(reviews)
    <3>2. WindowTold(market, reviews[i])
      BY <1>0 DEF ReviewInv
    <3>3. QED BY <2>3, <2>4, <3>2, ToldStays
  <2>6. ReviewInv'
    BY <1>0, <2>1, <2>5 DEF ReviewInv
  <2>7. QED BY <2>2, <2>3, <2>6 DEF PushInv
<1>3. CASE UNCHANGED <<candleVars, pushVars>>
  <2>1. market' = market /\ cached' = cached /\ outbox' = outbox /\ heard' = heard /\ sent' = sent /\ reviews' = reviews
    BY <1>3 DEF candleVars, pushVars
  <2>2. QED BY <1>0, <2>1 DEF PushInv, CandleTyped, BoxInv, ReviewInv
<1>4. QED BY <1>1, <1>2, <1>3

\* Whatever answer is lost, commit fails or process dies: no delivery announces a phase the
\* table knows or one below it (scan_intraday_sudden_pumps), and every counted review has
\* the verdict of the whole window after its push (evaluate_push_signal_validation).
THEOREM PushesHonest == PushSpec => []PushesAreJudged
<1>1. PushInv => PushesAreJudged
  <2>1. SUFFICES ASSUME PushInv PROVE PushesAreJudged
    OBVIOUS
  <2>2. CandleTyped /\ BoxInv /\ ReviewInv
    BY <2>1 DEF PushInv
  <2>3. PhasesRise
    BY <2>2 DEF BoxInv, PhasesRise, Rising
  <2>4. ReviewIsItsWindow
    <3>1. DOMAIN reviews = 1 .. Len(reviews) /\ DOMAIN market = 1 .. Len(market)
      BY <2>2, LenProperties DEF ReviewInv, CandleTyped
    <3>2. \A r : FirstAfterPush(r) = TouchedOn(market, r)
      BY DEF FirstAfterPush, TouchedOn, Continues, Breaks, Up, Down
    <3>3. \A b : Continues(b) = Up(market, b) /\ Breaks(b) = Down(market, b)
      BY DEF Continues, Breaks, Up, Down
    <3>4. \A i \in 1 .. Len(reviews) : WindowTold(market, reviews[i])
      BY <2>2 DEF ReviewInv
    <3>5. \A i \in 1 .. Len(reviews) :
            LET r == reviews[i] IN
            r.status \in {"win", "loss", "neutral"} =>
              /\ WindowOf(r) \subseteq {b \in 1 .. Len(market) : Traded(b)}
              /\ IF FirstAfterPush(r) = {} THEN r.status = "neutral"
                 ELSE LET b == Least(FirstAfterPush(r))
                      IN /\ r.status = "win" <=> Continues(b) /\ ~ Breaks(b)
                         /\ r.status = "loss" <=> Breaks(b) /\ ~ Continues(b)
      BY <3>2, <3>3, <3>4 DEF WindowTold, Traded
    <3>6. QED BY <3>1, <3>5 DEF ReviewIsItsWindow
  <2>5. QED BY <2>3, <2>4 DEF PushesAreJudged
<1>2. PushInit /\ CandleInit => PushInv
  BY PushStarts
<1>3. PushInv /\ [PushNext \/ (CloseBucket /\ UNCHANGED pushVars)]_<<candleVars, pushVars>> => PushInv'
  BY PushContinues
<1>4. QED BY <1>1, <1>2, <1>3, PTL DEF PushSpec

-----------------------------------------------------------------------------
(* The plans of the trade. *)

Reasons == {"none", "stop", "take_profit", "breakeven_after_tp1", "momentum_failed", "time_exit",
            "signal_reversed", "entry_out_of_range", "entry_drifted", "structure_repriced", "plan_expired"}
Plan == [dir : {-1, 1}, entry : Int, short : BOOLEAN, created : Nat \ {0},
         status : {"planned", "open", "closed", "cancelled"}, opened : Nat, closed : Nat, exit : Int,
         reason : Reasons, seen : Nat, whole : BOOLEAN]
Tale == [status : {"planned", "open", "closed"}, opened : Nat, closed : Nat, exit : Int,
         reason : Reasons, tp1 : BOOLEAN]

\* What the candles m say of a signal's plan.
EntersAt(m, p, b) == m[b] # None /\ Enters(p, m[b])
PriorOn(m, p, o, b) == \E a \in (o + 1) .. (b - 1) : m[a] # None /\ Reaches(m[a], p.dir, TakeProfit1(p))
StoppedOn(m, p, o, b) == Falls(m[b], p.dir, IF PriorOn(m, p, o, b) THEN p.entry ELSE Stop(p))
WonOn(m, p, b) == Reaches(m[b], p.dir, TakeProfit2(p))
StaleOn(m, p, o, b) == b - o >= Momentum /\ ~ PriorOn(m, p, o, b + 1) /\ Fails(p, m[b])
EndsOn(m, p, o, b) ==
  m[b] # None /\ (StoppedOn(m, p, o, b) \/ WonOn(m, p, b) \/ StaleOn(m, p, o, b) \/ b - o >= MaxHold)
OutcomeOn(m, p, o, b) ==
  IF StoppedOn(m, p, o, b) THEN IF PriorOn(m, p, o, b) THEN <<p.entry, "breakeven_after_tp1">> ELSE <<Stop(p), "stop">>
  ELSE IF WonOn(m, p, b) THEN <<TakeProfit2(p), "take_profit">>
  ELSE IF StaleOn(m, p, o, b) THEN <<m[b].close, "momentum_failed">> ELSE <<m[b].close, "time_exit">>

\* A story r that has not begun, goes on since o, or ended at x.
Waits(r) == r.status = "planned" /\ r.opened = 0 /\ r.closed = 0 /\ r.exit = 0 /\ r.reason = "none"
Runs(r, o) == r.status = "open" /\ r.opened = o /\ r.closed = 0 /\ r.exit = 0 /\ r.reason = "none"
Ended(m, p, r, o, x) ==
  r.status = "closed" /\ r.opened = o /\ r.closed = x /\ <<r.exit, r.reason>> = OutcomeOn(m, p, o, x)
FirstIn(m, p, D, o) == o \in D /\ EntersAt(m, p, o) /\ \A b \in D : b < o => ~ EntersAt(m, p, b)
EndsFirst(m, p, o, x) == EndsOn(m, p, o, x) /\ \A b \in (o + 1) .. (x - 1) : ~ EndsOn(m, p, o, b)
Since(m, p, r, o, n) ==
  /\ (\A b \in (o + 1) .. n : ~ EndsOn(m, p, o, b)) => Runs(r, o)
  /\ \A x \in (o + 1) .. n : EndsFirst(m, p, o, x) => Ended(m, p, r, o, x)
\* r is the story of the plan when the buckets D may enter it and n have closed.
Tells(m, p, r, D, n) ==
  /\ (\A b \in D : ~ EntersAt(m, p, b)) => Waits(r)
  /\ \A o \in D : FirstIn(m, p, D, o) => Since(m, p, r, o, n)

\* The prices of a plan are numbers.
LEMMA PricesAre ==
  ASSUME NEW p \in Plan
  PROVE  p.entry \in Int /\ Stop(p) \in Int /\ TakeProfit2(p) \in Int
<1>1. p.dir \in {-1, 1} /\ p.entry \in Int /\ Risk \in Int /\ Target2 \in Int
  BY TradeAssumption DEF Plan
<1>2. p.dir * Risk \in Int /\ p.dir * Target2 \in Int
  BY <1>1
<1>3. QED BY <1>1, <1>2 DEF Stop, TakeProfit2

\* One candle makes a story of a story.
LEMMA StepIsTale ==
  ASSUME CandleTyped, NEW p \in Plan, NEW r \in Tale, NEW b \in 1 .. Len(market), Traded(b)
  PROVE  Step(p, r, b) \in Tale
<1> DEFINE c == market[b]
           stop == ProtectedStop(p, r.tp1)
           tp1 == r.tp1 \/ Reaches(c, p.dir, TakeProfit1(p))
           s == Step(p, r, b)
<1>1. p.entry \in Int /\ Stop(p) \in Int /\ TakeProfit2(p) \in Int
  BY PricesAre
<1>2. c.close \in Int
  BY CandleOf
<1>3. stop \in Int
  BY <1>1 DEF ProtectedStop
<1>4. tp1 \in BOOLEAN
  BY DEF Tale, Reaches
<1>5. b \in Nat
  BY LenProperties DEF CandleTyped
<1>6. \/ s = r
      \/ s = [r EXCEPT !.status = "open", !.opened = b]
      \/ \E v \in Int, w \in Reasons : s = Exit(r, b, v, w)
      \/ s = [r EXCEPT !.tp1 = tp1]
  <2> DEFINE w1 == IF p.short /\ r.tp1 THEN "breakeven_after_tp1" ELSE "stop"
  <2>1. /\ w1 \in Reasons /\ "take_profit" \in Reasons /\ "momentum_failed" \in Reasons /\ "time_exit" \in Reasons
    BY DEF Reasons
  <2>2. \/ s = r
        \/ s = [r EXCEPT !.status = "open", !.opened = b]
        \/ s = Exit(r, b, stop, w1) \/ s = Exit(r, b, TakeProfit2(p), "take_profit")
        \/ s = Exit(r, b, c.close, "momentum_failed") \/ s = Exit(r, b, c.close, "time_exit")
        \/ s = [r EXCEPT !.tp1 = tp1]
    <3>1. r.status \in {"planned", "open", "closed"}
      BY DEF Tale
    <3>2. CASE r.status = "closed"
      BY <3>2 DEF Step
    <3>3. CASE r.status = "planned"
      BY <3>3 DEF Step
    <3>4. CASE r.status = "open"
      <4> HIDE DEF w1, tp1, stop
      <4>1. s = IF Falls(c, p.dir, stop) THEN Exit(r, b, stop, w1)
                ELSE IF Reaches(c, p.dir, TakeProfit2(p)) THEN Exit(r, b, TakeProfit2(p), "take_profit")
                ELSE IF p.short /\ b - r.opened >= Momentum /\ ~ tp1 /\ Fails(p, c)
                     THEN Exit(r, b, c.close, "momentum_failed")
                ELSE IF p.short /\ b - r.opened >= MaxHold THEN Exit(r, b, c.close, "time_exit")
                ELSE [r EXCEPT !.tp1 = tp1]
        BY <3>4 DEF Step, w1, tp1, stop
      <4> HIDE DEF s
      <4>2. QED BY <4>1
    <3>5. QED BY <3>1, <3>2, <3>3, <3>4
  <2> HIDE DEF s, c, stop, tp1, w1
  <2>3. QED BY <1>1, <1>2, <1>3, <2>1, <2>2
<1> HIDE DEF s, tp1
<1>7. CASE s = r
  BY <1>7 DEF s
<1>8. CASE s = [r EXCEPT !.status = "open", !.opened = b]
  <2>1. s \in Tale
    BY <1>5, <1>8 DEF Tale
  <2>2. QED BY <2>1 DEF s
<1>9. CASE \E v \in Int, w \in Reasons : s = Exit(r, b, v, w)
  <2>1. PICK v \in Int, w \in Reasons : s = [r EXCEPT !.status = "closed", !.closed = b, !.exit = v, !.reason = w]
    BY <1>9 DEF Exit
  <2>2. s \in Tale
    BY <1>5, <2>1 DEF Tale
  <2>3. QED BY <2>2 DEF s
<1>10. CASE s = [r EXCEPT !.tp1 = tp1]
  <2>1. s \in Tale
    BY <1>4, <1>10 DEF Tale
  <2>2. QED BY <2>1 DEF s
<1>11. QED BY <1>6, <1>7, <1>8, <1>9, <1>10

\* One candle of a trade that goes on: it ends as the candles say, or goes on.
LEMMA StepEnds ==
  ASSUME CandleTyped, NEW p \in Plan, p.short, NEW b \in 1 .. Len(market), Traded(b), NEW o \in Nat, o < b,
         NEW r \in Tale, Runs(r, o), r.tp1 = PriorOn(market, p, o, b)
  PROVE  LET s == Step(p, r, b)
         IN /\ EndsOn(market, p, o, b) => Ended(market, p, s, o, b)
            /\ ~ EndsOn(market, p, o, b) => Runs(s, o) /\ s.tp1 = PriorOn(market, p, o, b + 1)
<1> DEFINE c == market[b]
           q == PriorOn(market, p, o, b)
           tp1 == q \/ Reaches(c, p.dir, TakeProfit1(p))
           stop == IF q THEN p.entry ELSE Stop(p)
           s == Step(p, r, b)
<1>1. b \in Nat /\ r.status = "open" /\ r.opened = o
  BY LenProperties DEF CandleTyped, Runs
<1>2. tp1 = PriorOn(market, p, o, b + 1)
  <2>1. \A a : a \in (o + 1) .. ((b + 1) - 1) <=> a \in (o + 1) .. (b - 1) \/ a = b
    BY <1>1
  <2>2. PriorOn(market, p, o, b + 1) <=> q \/ (market[b] # None /\ Reaches(market[b], p.dir, TakeProfit1(p)))
    BY <2>1 DEF PriorOn
  <2>3. q \in BOOLEAN /\ PriorOn(market, p, o, b + 1) \in BOOLEAN
    BY DEF PriorOn
  <2>4. Reaches(c, p.dir, TakeProfit1(p)) \in BOOLEAN
    BY DEF Reaches
  <2>5. QED BY <2>2, <2>3, <2>4 DEF Traded
<1>3. ProtectedStop(p, r.tp1) = stop
  BY DEF ProtectedStop
<1> HIDE DEF q, stop
<1>4. s = IF Falls(c, p.dir, stop) THEN Exit(r, b, stop, IF q THEN "breakeven_after_tp1" ELSE "stop")
          ELSE IF Reaches(c, p.dir, TakeProfit2(p)) THEN Exit(r, b, TakeProfit2(p), "take_profit")
          ELSE IF b - o >= Momentum /\ ~ tp1 /\ Fails(p, c) THEN Exit(r, b, c.close, "momentum_failed")
          ELSE IF b - o >= MaxHold THEN Exit(r, b, c.close, "time_exit")
          ELSE [r EXCEPT !.tp1 = tp1]
  <2>1. r.tp1 = q
    BY DEF q
  <2>2. QED BY <1>1, <1>3, <2>1 DEF Step
<1>5. \A v, w : LET e == Exit(r, b, v, w)
                IN e.status = "closed" /\ e.opened = o /\ e.closed = b /\ e.exit = v /\ e.reason = w
  BY <1>1 DEF Exit, Tale
<1>6. Runs([r EXCEPT !.tp1 = tp1], o) /\ [r EXCEPT !.tp1 = tp1].tp1 = tp1
  BY DEF Runs, Tale
<1>7. /\ StoppedOn(market, p, o, b) = Falls(c, p.dir, stop)
      /\ WonOn(market, p, b) = Reaches(c, p.dir, TakeProfit2(p))
      /\ StaleOn(market, p, o, b) = (b - o >= Momentum /\ ~ tp1 /\ Fails(p, c))
  BY <1>2 DEF StoppedOn, WonOn, StaleOn, q, stop
<1>8. EndsOn(market, p, o, b) = (\/ Falls(c, p.dir, stop) \/ Reaches(c, p.dir, TakeProfit2(p))
                                 \/ (b - o >= Momentum /\ ~ tp1 /\ Fails(p, c)) \/ b - o >= MaxHold)
  BY <1>7 DEF EndsOn, Traded
<1>9. OutcomeOn(market, p, o, b) =
        IF Falls(c, p.dir, stop) THEN <<stop, IF q THEN "breakeven_after_tp1" ELSE "stop">>
        ELSE IF Reaches(c, p.dir, TakeProfit2(p)) THEN <<TakeProfit2(p), "take_profit">>
        ELSE IF b - o >= Momentum /\ ~ tp1 /\ Fails(p, c) THEN <<c.close, "momentum_failed">>
        ELSE <<c.close, "time_exit">>
  BY <1>7 DEF OutcomeOn, q, stop
<1> HIDE DEF s, tp1, c
<1>10. EndsOn(market, p, o, b) => Ended(market, p, s, o, b)
  <2> DEFINE A == Falls(c, p.dir, stop)
             B == Reaches(c, p.dir, TakeProfit2(p))
             C == b - o >= Momentum /\ ~ tp1 /\ Fails(p, c)
             D == b - o >= MaxHold
  <2>1. SUFFICES ASSUME A \/ B \/ C \/ D PROVE Ended(market, p, s, o, b)
    BY <1>8
  <2>2. \E v, w : s = Exit(r, b, v, w) /\ OutcomeOn(market, p, o, b) = <<v, w>>
    <3> HIDE DEF A, B, C, D
    <3>1. CASE A
      BY <3>1, <1>4, <1>9 DEF A
    <3>2. CASE ~ A /\ B
      BY <3>2, <1>4, <1>9 DEF A, B
    <3>3. CASE ~ A /\ ~ B /\ C
      BY <3>3, <1>4, <1>9 DEF A, B, C
    <3>4. CASE ~ A /\ ~ B /\ ~ C /\ D
      BY <3>4, <1>4, <1>9 DEF A, B, C, D
    <3>5. QED BY <2>1, <3>1, <3>2, <3>3, <3>4
  <2>3. PICK v, w : s = Exit(r, b, v, w) /\ OutcomeOn(market, p, o, b) = <<v, w>>
    BY <2>2
  <2>4. QED BY <1>5, <2>3 DEF Ended
<1>11. ~ EndsOn(market, p, o, b) => Runs(s, o) /\ s.tp1 = PriorOn(market, p, o, b + 1)
  BY <1>2, <1>4, <1>6, <1>8
<1>12. QED BY <1>10, <1>11 DEF s

\* The story after each bucket up to k, of the first n; that there is such a function.
ToldUpTo(p, f, n, k) ==
  f = [b \in 0 .. k |-> IF b = 0 THEN Unfilled
                        ELSE IF b \in Shown(n) /\ b >= ReplayFrom(p) THEN Step(p, f[b - 1], b) ELSE f[b - 1]]

\* The story that a replay tells, candle by candle, exists for every length of it.
LEMMA TalesExist ==
  ASSUME NEW p, NEW n, NEW m \in Nat
  PROVE  \E f : ToldUpTo(p, f, n, m)
<1> DEFINE Judges(b) == b \in Shown(n) /\ b >= ReplayFrom(p)
           Bad == {j \in Nat : ~ \E f : ToldUpTo(p, f, n, j)}
<1>1. SUFFICES ASSUME Bad # {} PROVE FALSE
  OBVIOUS
<1>2. PICK k \in Bad : \A u \in Bad : k <= u
  BY <1>1, LeastExists
<1>3. k # 0
  <2>1. ToldUpTo(p, [j \in 0 .. 0 |-> Unfilled], n, 0)
    BY DEF ToldUpTo
  <2>2. QED BY <2>1
<1>4. k - 1 \in Nat /\ k - 1 \notin Bad
  BY <1>2, <1>3
<1>5. PICK f : ToldUpTo(p, f, n, k - 1)
  BY <1>4
<1> DEFINE g == [j \in 0 .. k |-> IF j < k THEN f[j] ELSE IF Judges(j) THEN Step(p, f[j - 1], j) ELSE f[j - 1]]
<1> HIDE DEF Judges
<1>6. ToldUpTo(p, g, n, k)
  <2>1. \A j \in 0 .. k : j < k => g[j] = f[j]
    OBVIOUS
  <2>2. ASSUME NEW j \in 0 .. k
        PROVE  g[j] = IF j = 0 THEN Unfilled ELSE IF Judges(j) THEN Step(p, g[j - 1], j) ELSE g[j - 1]
    <3>1. CASE j = k
      BY <3>1, <1>3, <1>4, <2>1
    <3>2. CASE j # k
      <4>1. j \in 0 .. k - 1 /\ j < k /\ (j # 0 => j - 1 \in 0 .. k /\ j - 1 < k)
        BY <3>2, <1>4
      <4>2. f[j] = IF j = 0 THEN Unfilled ELSE IF Judges(j) THEN Step(p, f[j - 1], j) ELSE f[j - 1]
        BY <1>5, <4>1 DEF ToldUpTo, Judges
      <4>3. QED BY <4>1, <4>2, <2>1
    <3>3. QED BY <3>1, <3>2
  <2>3. g = [j \in 0 .. k |-> IF j = 0 THEN Unfilled ELSE IF Judges(j) THEN Step(p, g[j - 1], j) ELSE g[j - 1]]
    BY <2>2
  <2>4. QED BY <2>3 DEF ToldUpTo, Judges
<1>7. QED BY <1>6

\* The buckets a replay judges: what traded since some bucket, up to the last.
Replays(p, n) == {b \in Shown(n) : b >= ReplayFrom(p)}
\* What a replay judges are traded candles without a gap: with one, every later one.
LEMMA JudgedAre ==
  ASSUME CandleTyped, NEW p \in Plan, NEW n \in 0 .. Len(market)
  PROVE  /\ \A b \in Replays(p, n) : b \in 1 .. n /\ b \in 1 .. Len(market) /\ Traded(b)
         /\ \A a \in Replays(p, n), b \in 1 .. n : a <= b /\ Traded(b) => b \in Replays(p, n)
<1>1. Len(market) \in Nat /\ n \in Nat /\ n <= Len(market) /\ Forming - Window \in Int
  BY LenProperties, TradeAssumption DEF CandleTyped, Forming
<1>2. ReplayFrom(p) \in Int
  BY DEF ReplayFrom, Plan
<1>3. \A b : b \in Replays(p, n) <=> b \in 1 .. n /\ b >= Forming - Window /\ b >= ReplayFrom(p) /\ Traded(b)
  BY DEF Replays, Shown, Tabled, Visible
<1> DEFINE low == Forming - Window
           from == ReplayFrom(p)
<1> HIDE DEF low, from
<1>4. \A b : b \in Replays(p, n) <=> b \in 1 .. n /\ b >= low /\ b >= from /\ Traded(b)
  BY <1>3 DEF low, from
<1>5. low \in Int /\ from \in Int
  BY <1>1, <1>2 DEF low, from
<1>6. \A b \in 1 .. n : b \in Int /\ b \in 1 .. Len(market)
  BY <1>1
<1>7. \A a, b \in 1 .. n : a <= b /\ a >= low /\ a >= from => b >= low /\ b >= from
  BY <1>5, <1>6
<1>8. QED BY <1>4, <1>6, <1>7

\* A replay is a story.
LEMMA StoryIsTale ==
  ASSUME CandleTyped, NEW p \in Plan, NEW n \in 0 .. Len(market)
  PROVE  Story(p, n) \in Tale
<1> DEFINE f == CHOOSE g : ToldUpTo(p, g, n, n)
           D == Replays(p, n)
<1>1. n \in Nat
  BY LenProperties DEF CandleTyped
<1>2. Story(p, n) = f[n]
  BY DEF Story, ToldUpTo
<1>3. ToldUpTo(p, f, n, n)
  BY <1>1, TalesExist
<1> HIDE DEF f
<1>4. \A b \in 0 .. n : f[b] = IF b = 0 THEN Unfilled ELSE IF b \in D THEN Step(p, f[b - 1], b) ELSE f[b - 1]
  BY <1>3 DEF ToldUpTo, Replays
<1>5. \A b \in D : b \in 1 .. Len(market) /\ Traded(b)
  BY JudgedAre
<1> HIDE DEF D
<1> DEFINE Bad == {b \in Nat : b <= n /\ f[b] \notin Tale}
<1>6. Bad = {}
  <2>1. SUFFICES ASSUME Bad # {} PROVE FALSE
    OBVIOUS
  <2>2. PICK k \in Bad : \A u \in Bad : k <= u
    BY <2>1, LeastExists
  <2>3. k \in 0 .. n /\ k \in Nat
    BY <1>1, <2>2
  <2>4. k # 0
    <3>1. Unfilled \in Tale
      BY DEF Unfilled, Tale, Reasons
    <3>2. QED BY <1>4, <2>2, <2>3, <3>1
  <2>5. k - 1 \in Nat /\ k - 1 <= n /\ k - 1 \notin Bad
    BY <1>1, <2>2, <2>3, <2>4
  <2>6. f[k - 1] \in Tale
    BY <2>5
  <2>7. f[k] \in Tale
    BY <1>4, <1>5, <2>3, <2>4, <2>6, StepIsTale
  <2>8. QED BY <2>2, <2>7
<1>7. QED BY <1>1, <1>2, <1>6

\* A replay tells what the candles say: which candle entered, and which ended the trade.
LEMMA StoryTells ==
  ASSUME CandleTyped, NEW p \in Plan, p.short, NEW n \in 0 .. Len(market)
  PROVE  Tells(market, p, Story(p, n), Replays(p, n), n)
<1> DEFINE f == CHOOSE g : ToldUpTo(p, g, n, n)
           D == Replays(p, n)
           Enter(b) == EntersAt(market, p, b)
           End(o, b) == EndsOn(market, p, o, b)
<1>1. n \in Nat
  BY LenProperties DEF CandleTyped
<1>2. Story(p, n) = f[n]
  BY DEF Story, ToldUpTo
<1>3. ToldUpTo(p, f, n, n)
  BY <1>1, TalesExist
<1> HIDE DEF f
<1>4. \A b \in 0 .. n : f[b] = IF b = 0 THEN Unfilled ELSE IF b \in D THEN Step(p, f[b - 1], b) ELSE f[b - 1]
  BY <1>3 DEF ToldUpTo, Replays
<1>5. /\ \A b \in D : b \in 1 .. n /\ b \in 1 .. Len(market) /\ Traded(b) /\ b \in Nat
      /\ \A a \in D, b \in 1 .. n : a <= b /\ Traded(b) => b \in D
  BY <1>1, JudgedAre
<1> HIDE DEF D
<1> DEFINE Quiet(k) == \A b \in D : b <= k => ~ Enter(b)
           Calm(o, k) == \A b \in (o + 1) .. k : ~ End(o, b)
           Going(k, o) == Runs(f[k], o) /\ f[k].tp1 = PriorOn(market, p, o, k + 1)
           Good(k) == /\ f[k] \in Tale
                      /\ Quiet(k) => f[k] = Unfilled
                      /\ \A o \in D : o <= k /\ FirstIn(market, p, D, o) =>
                           /\ Calm(o, k) => Going(k, o)
                           /\ \A x \in (o + 1) .. k : EndsFirst(market, p, o, x) => Ended(market, p, f[k], o, x)
           Bad == {b \in Nat : b <= n /\ ~ Good(b)}
<1>6. Bad = {}
  <2>1. SUFFICES ASSUME Bad # {} PROVE FALSE
    OBVIOUS
  <2>2. PICK k \in Bad : \A u \in Bad : k <= u
    BY <2>1, LeastExists
  <2>3. k \in 0 .. n /\ k \in Nat /\ k <= n /\ ~ Good(k)
    BY <1>1, <2>2
  <2>4. k # 0
    <3>1. SUFFICES ASSUME k = 0 PROVE FALSE
      OBVIOUS
    <3>2. f[0] = Unfilled
      BY <1>1, <1>4
    <3>3. Unfilled \in Tale
      BY DEF Unfilled, Tale, Reasons
    <3>4. \A o \in D : ~ (o <= 0)
      BY <1>5
    <3>5. Good(0)
      BY <3>2, <3>3, <3>4
    <3>6. QED BY <2>3, <3>1, <3>5
  <2>5. k - 1 \in Nat /\ k - 1 <= n /\ k - 1 \notin Bad /\ k \in 1 .. n
    BY <1>1, <2>2, <2>3, <2>4
  <2> DEFINE r == f[k - 1]
             s == f[k]
  <2>6. Good(k - 1)
    BY <2>5
  <2>7. s = IF k \in D THEN Step(p, r, k) ELSE r
    BY <1>4, <2>3, <2>4
  <2>8. r \in Tale
    BY <2>6
  <2>9. s \in Tale
    BY <1>5, <2>7, <2>8, StepIsTale
  <2>10. ASSUME Quiet(k) PROVE s = Unfilled
    <3>1. Quiet(k - 1)
      <4>1. \A b \in D : b <= k - 1 => b <= k
        BY <1>5, <2>3
      <4>2. QED BY <2>10, <4>1
    <3>2. r = Unfilled
      BY <2>6, <3>1
    <3>3. CASE k \in D
      <4>1. ~ Enters(p, market[k])
        BY <2>3, <2>10, <1>5, <3>3 DEF EntersAt, Traded
      <4>2. s = Step(p, Unfilled, k) /\ Unfilled.status = "planned"
        BY <2>7, <3>2, <3>3 DEF Unfilled
      <4>3. QED BY <4>1, <4>2 DEF Step
    <3>4. CASE k \notin D
      BY <2>7, <3>2, <3>4
    <3>5. QED BY <3>3, <3>4
  <2>11. ASSUME NEW o \in D, o <= k, FirstIn(market, p, D, o)
         PROVE  /\ Calm(o, k) => Going(k, o)
                /\ \A x \in (o + 1) .. k : EndsFirst(market, p, o, x) => Ended(market, p, s, o, x)
    <3>1. o \in Nat /\ o \in 1 .. n
      BY <1>5
    <3>2. CASE o = k
      <4>1. Quiet(k - 1)
        <5>1. \A b \in D : b <= k - 1 => b < o
          BY <1>5, <2>3, <3>2
        <5>2. QED BY <2>11, <5>1 DEF FirstIn
      <4>2. r = Unfilled /\ Unfilled.status = "planned"
        BY <2>6, <4>1 DEF Unfilled
      <4>3. Enters(p, market[k]) /\ k \in D
        BY <2>11, <3>2 DEF FirstIn, EntersAt
      <4>4. s = [Unfilled EXCEPT !.status = "open", !.opened = k]
        BY <2>7, <4>2, <4>3 DEF Step
      <4>5. Runs(s, o) /\ s.tp1 = FALSE
        BY <3>2, <4>4 DEF Runs, Unfilled
      <4>6. ~ PriorOn(market, p, o, k + 1)
        <5>1. \A a : a \notin (o + 1) .. ((k + 1) - 1)
          BY <2>3, <3>2
        <5>2. QED BY <5>1 DEF PriorOn
      <4>7. PriorOn(market, p, o, k + 1) = FALSE
        BY <4>6 DEF PriorOn
      <4>8. \A x : x \notin (o + 1) .. k
        BY <2>3, <3>2
      <4>9. QED BY <4>5, <4>7, <4>8
    <3>3. CASE o # k
      <4>1. o <= k - 1 /\ o < k
        BY <2>3, <2>11, <3>1, <3>3
      <4>2. /\ Calm(o, k - 1) => Going(k - 1, o)
            /\ \A x \in (o + 1) .. (k - 1) : EndsFirst(market, p, o, x) => Ended(market, p, r, o, x)
        BY <2>6, <2>11, <4>1
      <4>3. \A x : x \in (o + 1) .. k <=> x \in (o + 1) .. (k - 1) \/ x = k
        BY <2>3, <3>1, <4>1
      <4>4. CASE Calm(o, k - 1)
        <5>1. Going(k - 1, o) /\ (k - 1) + 1 = k
          BY <2>3, <4>2, <4>4
        <5>2. \A x \in (o + 1) .. k : EndsFirst(market, p, o, x) => x = k /\ End(o, k)
          BY <4>3, <4>4 DEF EndsFirst
        <5>3. CASE k \in D
          <6>1. /\ End(o, k) => Ended(market, p, s, o, k)
                /\ ~ End(o, k) => Going(k, o)
            <7>1. k \in 1 .. Len(market) /\ Traded(k) /\ s = Step(p, r, k)
              BY <1>5, <2>7, <5>3
            <7>2. Runs(r, o) /\ r.tp1 = PriorOn(market, p, o, k)
              BY <5>1
            <7> HIDE DEF r, s
            <7>3. /\ End(o, k) => Ended(market, p, s, o, k)
                  /\ ~ End(o, k) => Runs(s, o) /\ s.tp1 = PriorOn(market, p, o, k + 1)
              BY <2>8, <3>1, <4>1, <7>1, <7>2, StepEnds
            <7>4. QED BY <7>3 DEF s
          <6>2. Calm(o, k) => ~ End(o, k)
            BY <4>3
          <6> HIDE DEF End, Calm, Going
          <6>3. QED BY <5>2, <6>1, <6>2
        <5>4. CASE k \notin D
          <6>1. ~ Traded(k)
            BY <1>5, <2>3, <2>5, <2>11, <5>4
          <6>2. ~ End(o, k)
            BY <6>1 DEF EndsOn, Traded
          <6>3. PriorOn(market, p, o, k + 1) = PriorOn(market, p, o, k)
            <7>1. \A a : a \in (o + 1) .. ((k + 1) - 1) <=> a \in (o + 1) .. (k - 1) \/ a = k
              BY <2>3, <3>1, <4>1
            <7>2. PriorOn(market, p, o, k + 1) <=> PriorOn(market, p, o, k)
              BY <6>1, <7>1 DEF PriorOn, Traded
            <7>3. PriorOn(market, p, o, k + 1) \in BOOLEAN /\ PriorOn(market, p, o, k) \in BOOLEAN
              BY DEF PriorOn
            <7>4. QED BY <7>2, <7>3
          <6>4. Going(k, o)
            BY <2>7, <5>1, <5>4, <6>3
          <6> HIDE DEF End, Calm, Going
          <6>5. QED BY <5>2, <6>2, <6>4
        <5>5. QED BY <5>3, <5>4
      <4>5. CASE ~ Calm(o, k - 1)
        <5> DEFINE X == {b \in (o + 1) .. (k - 1) : End(o, b)}
        <5>1. X # {} /\ X \subseteq Nat
          BY <3>1, <4>5
        <5>2. PICK y \in X : \A u \in X : y <= u
          BY <5>1, LeastExists
        <5>3. y \in (o + 1) .. (k - 1) /\ End(o, y) /\ y \in Nat
          BY <5>1, <5>2
        <5>4. EndsFirst(market, p, o, y)
          <6>1. \A b \in (o + 1) .. (y - 1) : b \in (o + 1) .. (k - 1) /\ ~ (y <= b)
            BY <2>3, <3>1, <5>3
          <6>2. QED BY <5>2, <5>3, <6>1 DEF EndsFirst
        <5>5. Ended(market, p, r, o, y) /\ r.status = "closed"
          BY <4>2, <5>3, <5>4 DEF Ended
        <5>6. s = r
          BY <2>7, <5>5 DEF Step
        <5>7. \A x \in (o + 1) .. k : EndsFirst(market, p, o, x) => x = y
          <6>1. TAKE x \in (o + 1) .. k
          <6>2. x \in Nat
            BY <2>3, <3>1
          <6>3. x < y => x \in (o + 1) .. (y - 1)
            BY <3>1, <5>3, <6>2
          <6>4. y < x => y \in (o + 1) .. (x - 1)
            BY <3>1, <5>3, <6>2
          <6>5. EndsFirst(market, p, o, x) => ~ (x < y) /\ ~ (y < x)
            BY <5>3, <5>4, <6>3, <6>4 DEF EndsFirst
          <6>6. QED BY <5>3, <6>2, <6>5
        <5>8. ~ Calm(o, k)
          BY <4>3, <4>5
        <5> HIDE DEF Calm
        <5>9. QED BY <5>5, <5>6, <5>7, <5>8
      <4>6. QED BY <4>4, <4>5
    <3>4. QED BY <3>2, <3>3
  <2>12. Good(k)
    BY <2>9, <2>10, <2>11
  <2>13. QED BY <2>3, <2>12
<1>7. Good(n)
  BY <1>1, <1>6
<1>8. (\A b \in D : ~ Enter(b)) => Waits(f[n])
  <2>1. (\A b \in D : ~ Enter(b)) => f[n] = Unfilled
    BY <1>7
  <2>2. QED BY <2>1 DEF Waits, Unfilled
<1>9. \A o \in D : FirstIn(market, p, D, o) => Since(market, p, f[n], o, n)
  <2>1. \A o \in D : o <= n
    BY <1>1, <1>5
  <2>2. QED BY <1>7, <2>1 DEF Since
<1>10. QED BY <1>2, <1>8, <1>9 DEF Tells, D

\* What holds of a plan: it is no newer than the candles, a chart that no longer reaches back
\* to it never will, its signal's entry lay beyond the candle before it, and as long as the
\* chart reached back it is what the candles say since its creation.
PlanSound(m, p) ==
  /\ p \in Plan /\ p.created <= Len(m) + 1 /\ p.seen <= Len(m)
  /\ ~ p.whole => p.created + Window < Len(m) + 1
  /\ p.short => /\ p.created # 1 => ~ EntersAt(m, p, p.created - 1)
                /\ p.whole /\ p.status # "cancelled" => Tells(m, p, p, p.created .. p.seen, p.seen)

\* A story that was told has not begun, or began with the first candle that entered.
LEMMA TellsWhen ==
  ASSUME NEW m, NEW p, NEW r, NEW c \in Nat, NEW n \in Nat, Tells(m, p, r, c .. n, n)
  PROVE  \/ Waits(r) /\ \A b \in c .. n : ~ EntersAt(m, p, b)
         \/ \E o \in c .. n : /\ FirstIn(m, p, c .. n, o) /\ r.opened = o /\ r.status # "planned"
                              /\ Since(m, p, r, o, n)
<1>1. CASE \A b \in c .. n : ~ EntersAt(m, p, b)
  BY <1>1 DEF Tells
<1>2. CASE ~ \A b \in c .. n : ~ EntersAt(m, p, b)
  <2> DEFINE In == {b \in c .. n : EntersAt(m, p, b)}
  <2>1. In # {} /\ In \subseteq Nat
    BY <1>2
  <2>2. PICK o \in In : \A u \in In : o <= u
    BY <2>1, LeastExists
  <2>3. o \in c .. n /\ o \in Nat /\ EntersAt(m, p, o)
    BY <2>1, <2>2
  <2>4. FirstIn(m, p, c .. n, o)
    <3>1. \A b \in c .. n : b < o => ~ (o <= b)
      BY <2>3
    <3>2. QED BY <2>2, <2>3, <3>1 DEF FirstIn
  <2>5. Since(m, p, r, o, n)
    BY <2>3, <2>4 DEF Tells
  <2>6. r.opened = o /\ r.status # "planned"
    <3>1. CASE \A b \in (o + 1) .. n : ~ EndsOn(m, p, o, b)
      BY <2>5, <3>1 DEF Since, Runs
    <3>2. CASE ~ \A b \in (o + 1) .. n : ~ EndsOn(m, p, o, b)
      <4> DEFINE X == {b \in (o + 1) .. n : EndsOn(m, p, o, b)}
      <4>1. X # {} /\ X \subseteq Nat
        BY <2>3, <3>2
      <4>2. PICK x \in X : \A u \in X : x <= u
        BY <4>1, LeastExists
      <4>3. x \in (o + 1) .. n /\ x \in Nat /\ EndsOn(m, p, o, x)
        BY <4>1, <4>2
      <4>4. EndsFirst(m, p, o, x)
        <5>1. \A b \in (o + 1) .. (x - 1) : b \in (o + 1) .. n /\ ~ (x <= b)
          BY <2>3, <4>3
        <5>2. QED BY <4>2, <4>3, <5>1 DEF EndsFirst
      <4>5. QED BY <2>5, <4>3, <4>4 DEF Since, Ended
    <3>3. QED BY <3>1, <3>2
  <2>7. QED BY <2>3, <2>4, <2>5, <2>6
<1>3. QED BY <1>1, <1>2

\* A story says the same of more candles.
LEMMA TellsStays ==
  ASSUME NEW m, NEW k, Len(m) \in Nat, \A b \in 1 .. Len(m) : k[b] = m[b],
         NEW p, NEW r, NEW c \in Nat \ {0}, NEW n \in Nat, n <= Len(m), Tells(m, p, r, c .. n, n)
  PROVE  Tells(k, p, r, c .. n, n)
<1>1. \A b \in c .. n : b \in Nat /\ b \in 1 .. Len(m) /\ EntersAt(k, p, b) = EntersAt(m, p, b)
  BY DEF EntersAt
<1>2. \A o, b \in 1 .. n : PriorOn(k, p, o, b) = PriorOn(m, p, o, b) /\ PriorOn(k, p, o, b + 1) = PriorOn(m, p, o, b + 1)
  <2>1. TAKE o, b \in 1 .. n
  <2>2. \A a \in (o + 1) .. ((b + 1) - 1) : k[a] = m[a]
    <3>1. \A a \in (o + 1) .. ((b + 1) - 1) : a \in 1 .. Len(m)
      OBVIOUS
    <3>2. QED BY <3>1
  <2>3. \A a \in (o + 1) .. (b - 1) : k[a] = m[a]
    <3>1. \A a \in (o + 1) .. (b - 1) : a \in 1 .. Len(m)
      OBVIOUS
    <3>2. QED BY <3>1
  <2>4. QED BY <2>2, <2>3 DEF PriorOn
<1>3. \A o, b \in 1 .. n : EndsOn(k, p, o, b) = EndsOn(m, p, o, b) /\ OutcomeOn(k, p, o, b) = OutcomeOn(m, p, o, b)
  <2>1. TAKE o, b \in 1 .. n
  <2>2. k[b] = m[b]
    BY DEF EndsOn
  <2>3. /\ StoppedOn(k, p, o, b) = StoppedOn(m, p, o, b) /\ WonOn(k, p, b) = WonOn(m, p, b)
        /\ StaleOn(k, p, o, b) = StaleOn(m, p, o, b)
    BY <1>2, <2>2 DEF StoppedOn, WonOn, StaleOn
  <2>4. QED BY <1>2, <2>2, <2>3 DEF EndsOn, OutcomeOn
<1>4. \A o \in c .. n : FirstIn(k, p, c .. n, o) = FirstIn(m, p, c .. n, o)
  BY <1>1 DEF FirstIn
<1>5. \A o \in c .. n : Since(m, p, r, o, n) => Since(k, p, r, o, n)
  <2>1. TAKE o \in c .. n
  <2>2. o \in 1 .. n /\ o \in Nat
    OBVIOUS
  <2>3. \A b \in (o + 1) .. n : b \in 1 .. n
    BY <2>2
  <2>4. \A x \in (o + 1) .. n : EndsFirst(k, p, o, x) = EndsFirst(m, p, o, x)
    <3>1. \A x \in (o + 1) .. n : \A b \in (o + 1) .. (x - 1) : b \in 1 .. n
      BY <2>2
    <3>2. QED BY <1>3, <2>2, <2>3, <3>1 DEF EndsFirst
  <2>5. \A x \in (o + 1) .. n : Ended(k, p, r, o, x) = Ended(m, p, r, o, x)
    BY <1>3, <2>2, <2>3 DEF Ended
  <2>6. QED BY <1>3, <2>2, <2>3, <2>4, <2>5 DEF Since
<1>6. QED BY <1>1, <1>4, <1>5 DEF Tells

\* Candles that close later leave a sound plan sound.
LEMMA SoundStays ==
  ASSUME NEW m, NEW k, Len(m) \in Nat, Len(k) \in Nat, Len(m) <= Len(k), \A b \in 1 .. Len(m) : k[b] = m[b],
         NEW p, PlanSound(m, p)
  PROVE  PlanSound(k, p)
<1>1. p \in Plan /\ p.created \in Nat \ {0} /\ p.seen \in Nat /\ p.created <= Len(m) + 1 /\ p.seen <= Len(m) /\ Window \in Nat
  BY TradeAssumption DEF PlanSound, Plan
<1>2. p.created <= Len(k) + 1 /\ p.seen <= Len(k)
  BY <1>1
<1>3. ~ p.whole => p.created + Window < Len(k) + 1
  BY <1>1 DEF PlanSound
<1>4. p.short /\ p.created # 1 => ~ EntersAt(k, p, p.created - 1)
  <2>1. p.created # 1 => p.created - 1 \in 1 .. Len(m)
    BY <1>1
  <2>2. QED BY <2>1 DEF EntersAt, PlanSound
<1>5. p.short /\ p.whole /\ p.status # "cancelled" => Tells(k, p, p, p.created .. p.seen, p.seen)
  BY <1>1, TellsStays DEF PlanSound
<1>6. QED BY <1>1, <1>2, <1>3, <1>4, <1>5 DEF PlanSound

\* Only the buckets that enter matter.
LEMMA SameEntries ==
  ASSUME NEW m, NEW p, NEW r, NEW n, NEW D, NEW I, Tells(m, p, r, D, n),
         \A b : EntersAt(m, p, b) => (b \in D <=> b \in I)
  PROVE  Tells(m, p, r, I, n)
<1>1. \A o \in I : FirstIn(m, p, I, o) => o \in D /\ FirstIn(m, p, D, o)
  BY DEF FirstIn
<1>2. QED BY <1>1 DEF Tells

\* A replay from just before the entry tells the story since the plan's creation.
LEMMA ReplayTells ==
  ASSUME CandleTyped, NEW p, PlanSound(market, p), p.short, p.status # "cancelled", p.whole, ReachesBack(p),
         NEW n \in 0 .. Len(market)
  PROVE  Tells(market, p, Story(p, n), p.created .. n, n)
<1> DEFINE D == Replays(p, n)
           I == p.created .. n
           low == Forming - Window
           c == p.created
           e == p.opened
           E(b) == EntersAt(market, p, b)
<1>1. /\ p \in Plan /\ c \in Nat \ {0} /\ e \in Nat /\ n \in Nat /\ n <= Len(market) /\ Len(market) \in Nat
      /\ p.seen \in Nat
  BY LenProperties DEF PlanSound, Plan, CandleTyped
<1>2. low \in Int /\ low <= c
  BY <1>1, TradeAssumption DEF ReachesBack, Forming
<1>3. Tells(market, p, Story(p, n), D, n)
  BY <1>1, StoryTells
<1>4. \A b : b \in D <=> b \in 1 .. n /\ b >= low /\ b >= ReplayFrom(p) /\ Traded(b)
  BY DEF Replays, Shown, Tabled, Visible
<1>5. Tells(market, p, p, c .. p.seen, p.seen) /\ (c # 1 => ~ E(c - 1))
  BY DEF PlanSound
<1> HIDE DEF D, low, c, e
<1>6. \A b : E(b) => (b \in D <=> b \in c .. n)
  <2>1. CASE e = 0
    <3>1. ReplayFrom(p) = c
      BY <2>1 DEF ReplayFrom, e, c
    <3>2. \A b : E(b) /\ b \in D => b \in c .. n
      BY <1>1, <1>4, <3>1
    <3>3. \A b : E(b) /\ b \in c .. n => b \in D
      BY <1>1, <1>2, <1>4, <3>1 DEF EntersAt, Traded
    <3>4. QED BY <3>2, <3>3
  <2>2. CASE e # 0
    <3>1. PICK o \in c .. p.seen : FirstIn(market, p, c .. p.seen, o) /\ p.opened = o
      <4>1. ~ Waits(p)
        BY <2>2 DEF Waits, e
      <4>2. QED BY <1>1, <1>5, <4>1, TellsWhen
    <3>2. e = o /\ e >= c /\ e \in c .. p.seen /\ o = p.opened
      BY <1>1, <3>1 DEF e
    <3>3. ReplayFrom(p) = e - 1
      BY <2>2, <3>2 DEF ReplayFrom, e, c
    <3>4. \A b \in c .. (e - 1) : ~ E(b)
      <4>1. \A b \in c .. (e - 1) : b \in c .. p.seen /\ b < o
        BY <1>1, <3>2
      <4>2. QED BY <3>1, <4>1 DEF FirstIn
    <3>5. \A b : E(b) /\ b \in D => b \in c .. n
      <4>1. TAKE b
      <4>2. SUFFICES ASSUME E(b), b \in D PROVE b \in c .. n
        OBVIOUS
      <4>3. b \in 1 .. n /\ b \in Int /\ b >= e - 1
        BY <1>1, <1>4, <3>3, <4>2
      <4>4. b # c - 1
        BY <1>1, <1>5, <4>2, <4>3
      <4>5. QED BY <1>1, <3>2, <4>3, <4>4
    <3>6. \A b : E(b) /\ b \in c .. n => b \in D
      <4>1. TAKE b
      <4>2. SUFFICES ASSUME E(b), b \in c .. n PROVE b \in D
        OBVIOUS
      <4>3. b \in 1 .. n /\ b \in Int /\ b >= c /\ b \notin c .. (e - 1)
        BY <1>1, <3>4, <4>2
      <4>4. b >= e - 1 /\ b >= low
        BY <1>1, <1>2, <3>2, <4>3
      <4>5. QED BY <1>4, <3>3, <4>2, <4>3, <4>4 DEF EntersAt, Traded
    <3>7. QED BY <3>5, <3>6
  <2>3. QED BY <2>1, <2>2
<1>7. QED BY <1>3, <1>6, SameEntries DEF c, D

\* A story depends on a plan's levels alone.
LEMMA TellsAlike ==
  ASSUME NEW m, NEW p, NEW q, q.dir = p.dir, q.entry = p.entry, NEW D, NEW n, NEW r, NEW s,
         s.status = r.status, s.opened = r.opened, s.closed = r.closed, s.exit = r.exit, s.reason = r.reason,
         Tells(m, p, r, D, n)
  PROVE  Tells(m, q, s, D, n)
<1>1. /\ Stop(q) = Stop(p) /\ TakeProfit1(q) = TakeProfit1(p) /\ TakeProfit2(q) = TakeProfit2(p)
      /\ \A c : Enters(q, c) = Enters(p, c) /\ Fails(q, c) = Fails(p, c)
  BY DEF Stop, TakeProfit1, TakeProfit2, Enters, Fails
<1>2. \A b : EntersAt(m, q, b) = EntersAt(m, p, b)
  BY <1>1 DEF EntersAt
<1>3. \A o, b : PriorOn(m, q, o, b) = PriorOn(m, p, o, b)
  BY <1>1 DEF PriorOn
<1>4. \A o, b : /\ StoppedOn(m, q, o, b) = StoppedOn(m, p, o, b) /\ WonOn(m, q, b) = WonOn(m, p, b)
                /\ StaleOn(m, q, o, b) = StaleOn(m, p, o, b)
  BY <1>1, <1>3 DEF StoppedOn, WonOn, StaleOn
<1>5. \A o, b : EndsOn(m, q, o, b) = EndsOn(m, p, o, b) /\ OutcomeOn(m, q, o, b) = OutcomeOn(m, p, o, b)
  BY <1>1, <1>3, <1>4 DEF EndsOn, OutcomeOn
<1>6. \A o, x : EndsFirst(m, q, o, x) = EndsFirst(m, p, o, x) /\ Ended(m, q, s, o, x) = Ended(m, p, r, o, x)
  BY <1>5 DEF EndsFirst, Ended
<1>7. \A o : FirstIn(m, q, D, o) = FirstIn(m, p, D, o) /\ Runs(s, o) = Runs(r, o)
  BY <1>2 DEF FirstIn, Runs
<1>8. \A o : Since(m, q, s, o, n) = Since(m, p, r, o, n)
  BY <1>5, <1>6, <1>7 DEF Since
<1>9. Waits(s) = Waits(r)
  BY DEF Waits
<1>10. QED BY <1>2, <1>7, <1>8, <1>9 DEF Tells

\* The latest price is the close of a candle that traded.
LEMMA PriceIs ==
  ASSUME CandleTyped, NEW n \in 0 .. Len(market), HasPrice(n)
  PROVE  LatestPrice(n) \in Int
<1> DEFINE T == {b \in 1 .. n : Traded(b)}
<1>1. n \in Nat /\ n <= Len(market) /\ Len(market) \in Nat
  BY LenProperties DEF CandleTyped
<1>2. T # {} /\ T \subseteq Nat /\ \A y \in T : y <= n
  BY <1>1 DEF HasPrice
<1>3. Greatest(T) \in T
  BY <1>1, <1>2, GreatestIs
<1>4. Greatest(T) \in 1 .. Len(market) /\ Traded(Greatest(T))
  BY <1>1, <1>3
<1>5. market[Greatest(T)].close \in Int
  BY <1>4, CandleOf
<1>6. QED BY <1>5 DEF LatestPrice

\* A replay leaves a sound plan.
LEMMA ReplayedSound ==
  ASSUME CandleTyped, NEW p, PlanSound(market, p), p.status # "cancelled",
         NEW n \in 0 .. Len(market), p.status = "open" => n = Len(market)
  PROVE  PlanSound(market, Replayed(p, n))
<1> DEFINE back == ReachesBack(p)
           q == Replayed(p, n)
<1>1. /\ p \in Plan /\ p.created \in Nat \ {0} /\ p.seen \in Nat /\ p.created <= Len(market) + 1
      /\ p.seen <= Len(market) /\ Len(market) \in Nat /\ n \in Nat /\ n <= Len(market)
  BY LenProperties DEF PlanSound, Plan, CandleTyped
<1>2. /\ back \in BOOLEAN /\ (~ back => p.created + Window < Len(market) + 1) /\ (back => p.whole)
      /\ (back => Forming - Window <= p.created) /\ Forming \in Nat /\ Forming - Window \in Int
  <2>1. Window \in Nat /\ Forming = Len(market) + 1
    BY TradeAssumption DEF Forming
  <2>2. back <=> Forming - Window <= p.created
    BY DEF ReachesBack
  <2>3. back \in BOOLEAN
    BY DEF ReachesBack
  <2> HIDE DEF back
  <2>4. ~ back => p.created + Window < Len(market) + 1
    BY <1>1, <2>1, <2>2
  <2>5. ~ p.whole => p.created + Window < Len(market) + 1
    BY DEF PlanSound
  <2>6. back => p.whole
    BY <1>1, <2>1, <2>2, <2>5
  <2>7. Forming \in Nat /\ Forming - Window \in Int
    BY <1>1, <2>1
  <2>8. QED BY <2>2, <2>3, <2>4, <2>6, <2>7
<1> HIDE DEF back, q
\* It is enough to know its fields and, where the chart reaches back, its story.
<1>3. SUFFICES /\ q \in Plan /\ q.dir = p.dir /\ q.entry = p.entry /\ q.short = p.short /\ q.created = p.created
               /\ q.seen <= Len(market) /\ q.whole = back
               /\ p.short /\ back => Tells(market, p, q, p.created .. q.seen, q.seen)
  <2>1. ~ q.whole => q.created + Window < Len(market) + 1
    BY <1>2, <1>3
  <2>2. q.short => (q.created # 1 => ~ EntersAt(market, q, q.created - 1))
    BY <1>3 DEF PlanSound, EntersAt, Enters
  <2>3. q.short /\ q.whole => Tells(market, q, q, q.created .. q.seen, q.seen)
    BY <1>3, TellsAlike
  <2>4. q.created <= Len(market) + 1
    BY <1>1, <1>3
  <2>5. PlanSound(market, q)
    BY <1>3, <2>1, <2>2, <2>3, <2>4 DEF PlanSound
  <2>6. QED BY <2>5 DEF q
<1>4. CASE Shown(n) # {}
  <2> DEFINE r == Story(p, n)
  <2>1. r \in Tale
    BY <1>1, StoryIsTale
  <2>2. p.short /\ back => Tells(market, p, r, p.created .. n, n)
    BY <1>2, ReplayTells DEF back
  <2> HIDE DEF r
  <2>3. q = [p EXCEPT !.status = r.status, !.opened = r.opened, !.closed = r.closed,
                      !.exit = r.exit, !.reason = r.reason, !.seen = n, !.whole = back]
    BY <1>4 DEF Replayed, q, r, back
  <2>4. /\ r.status \in {"planned", "open", "closed"} /\ r.opened \in Nat /\ r.closed \in Nat /\ r.exit \in Int
        /\ r.reason \in Reasons
    BY <2>1 DEF Tale
  <2>5. /\ q \in Plan /\ q.dir = p.dir /\ q.entry = p.entry /\ q.short = p.short /\ q.created = p.created
        /\ q.seen = n /\ q.whole = back
    BY <1>1, <1>2, <2>3, <2>4 DEF Plan
  <2>6. q.status = r.status /\ q.opened = r.opened /\ q.closed = r.closed /\ q.exit = r.exit /\ q.reason = r.reason
    BY <1>1, <2>3 DEF Plan
  <2>7. p.short /\ back => Tells(market, p, q, p.created .. q.seen, q.seen)
    BY <2>2, <2>5, <2>6, TellsAlike
  <2>8. QED BY <1>1, <1>3, <2>5, <2>7 DEF q
<1>5. CASE Shown(n) = {}
  <2> DEFINE x == IF HasPrice(n) THEN RefreshedPlan(p, LatestPrice(n)) ELSE p
  <2>1. q = [x EXCEPT !.whole = back]
    BY <1>5 DEF Replayed, q, back
  <2>2. x = p \/ (p.status = "open" /\ \E v \in Int, w \in Reasons : x = Exit(p, Forming, v, w))
    <3>1. HasPrice(n) => LatestPrice(n) \in Int
      BY PriceIs
    <3>2. "stop" \in Reasons /\ "take_profit" \in Reasons
      BY DEF Reasons
    <3>3. QED BY <3>1, <3>2 DEF RefreshedPlan
  <2> HIDE DEF x
  <2>3. /\ x \in Plan /\ x.dir = p.dir /\ x.entry = p.entry /\ x.short = p.short /\ x.created = p.created
        /\ x.seen = p.seen
    <3>1. CASE x = p
      BY <1>1, <3>1
    <3>2. CASE \E v \in Int, w \in Reasons : x = Exit(p, Forming, v, w)
      <4>1. PICK v \in Int, w \in Reasons :
              x = [p EXCEPT !.status = "closed", !.closed = Forming, !.exit = v, !.reason = w]
        BY <3>2 DEF Exit
      <4>2. QED BY <1>1, <1>2, <4>1 DEF Plan
    <3>3. QED BY <2>2, <3>1, <3>2
  <2>4. /\ q \in Plan /\ q.dir = p.dir /\ q.entry = p.entry /\ q.short = p.short /\ q.created = p.created
        /\ q.seen = p.seen /\ q.whole = back
    BY <1>2, <2>1, <2>3 DEF Plan
  <2>5. ASSUME p.short, back PROVE Tells(market, p, q, p.created .. q.seen, q.seen)
    <3>1. Tells(market, p, p, p.created .. p.seen, p.seen)
      BY <1>2, <2>5 DEF PlanSound
    <3>2. p.status # "open"
      <4>1. SUFFICES ASSUME p.status = "open" PROVE FALSE
        OBVIOUS
      <4>2. ~ Waits(p)
        BY <4>1 DEF Waits
      <4>3. PICK o \in p.created .. p.seen : FirstIn(market, p, p.created .. p.seen, o)
        BY <1>1, <3>1, <4>2, TellsWhen
      <4>4. Traded(o)
        BY <4>3 DEF FirstIn, EntersAt, Traded
      <4>5. o \in 1 .. n /\ o >= Forming - Window
        BY <1>1, <1>2, <2>5, <4>1, <4>3
      <4>6. o \in Shown(n)
        BY <4>4, <4>5 DEF Shown, Tabled, Visible
      <4>7. QED BY <1>5, <4>6
    <3>3. x = p
      BY <2>2, <3>2
    <3>4. q.status = p.status /\ q.opened = p.opened /\ q.closed = p.closed /\ q.exit = p.exit /\ q.reason = p.reason
      BY <1>1, <2>1, <3>3 DEF Plan
    <3>5. QED BY <2>4, <3>1, <3>4, TellsAlike
  <2>6. QED BY <1>1, <1>3, <2>4, <2>5 DEF q
<1>6. QED BY <1>4, <1>5

\* Of finitely many numbers one is the greatest, and one the least.
LEMMA PeakExists ==
  ASSUME NEW n \in Nat, NEW S, S \subseteq 1 .. n, S # {}, NEW f, \A b \in S : f[b] \in Int
  PROVE  \E b \in S : \A y \in S : f[b] >= f[y]
<1> DEFINE Peaked(R) == \E b \in R : \A y \in R : f[b] >= f[y]
           Bad == {j \in Nat : \E R \in SUBSET S : R # {} /\ R \subseteq 1 .. j /\ ~ Peaked(R)}
<1>1. Bad = {}
  <2>1. SUFFICES ASSUME Bad # {} PROVE FALSE
    OBVIOUS
  <2>2. PICK k \in Bad : \A u \in Bad : k <= u
    BY <2>1, LeastExists
  <2>3. PICK R \in SUBSET S : R # {} /\ R \subseteq 1 .. k /\ ~ Peaked(R)
    BY <2>2
  <2>4. k \in Nat /\ k # 0
    <3>1. k \in Nat
      BY <2>2
    <3>2. 1 .. 0 = {}
      OBVIOUS
    <3>3. k # 0
      BY <2>3, <3>2
    <3>4. QED BY <3>1, <3>3
  <2>5. k - 1 \in Nat /\ k - 1 \notin Bad
    <3> HIDE DEF Bad
    <3>1. k - 1 \in Nat /\ ~ (k <= k - 1)
      BY <2>4
    <3>2. QED BY <2>2, <3>1
  <2> DEFINE Q == R \ {k}
  <2>6. Q \in SUBSET S /\ Q \subseteq 1 .. (k - 1)
    BY <2>3, <2>4
  <2>7. Q # {} => Peaked(Q)
    BY <2>5, <2>6
  <2>8. CASE Q = {}
    <3>1. R = {k}
      BY <2>3, <2>8
    <3>2. f[k] \in Int
      BY <3>1
    <3>3. Peaked(R)
      BY <3>1, <3>2
    <3>4. QED BY <2>3, <3>3
  <2>9. CASE Q # {}
    <3>1. PICK b \in Q : \A y \in Q : f[b] >= f[y]
      BY <2>7, <2>9
    <3>2. CASE k \notin R
      BY <2>3, <2>7, <2>9, <3>2
    <3>3. CASE k \in R /\ f[b] >= f[k]
      <4>1. \A y \in R : f[b] >= f[y]
        BY <3>1, <3>3
      <4>2. QED BY <2>3, <4>1
    <3>4. CASE k \in R /\ ~ (f[b] >= f[k])
      <4>1. \A y \in R : f[k] >= f[y]
        <5>1. TAKE y \in R
        <5>2. f[k] \in Int /\ f[b] \in Int /\ f[y] \in Int
          BY <3>4
        <5>3. CASE y = k
          BY <5>2, <5>3
        <5>4. CASE y # k
          <6>1. f[b] >= f[y]
            BY <3>1, <5>4
          <6>2. QED BY <3>4, <5>2, <6>1
        <5>5. QED BY <5>3, <5>4
      <4>2. QED BY <2>3, <3>4, <4>1
    <3>5. QED BY <3>2, <3>3, <3>4
  <2>10. QED BY <2>8, <2>9
<1>2. n \notin Bad
  BY <1>1
<1>3. QED BY <1>2

\* The greatest high of some candles is none below one of theirs.
LEMMA HighestIs ==
  ASSUME CandleTyped, NEW B, B # {}, \A b \in B : b \in 1 .. Len(market) /\ Traded(b)
  PROVE  LET g == Greatest({market[b].high : b \in B}) IN g \in Int /\ \A b \in B : market[b].high <= g
<1> DEFINE f == [b \in B |-> market[b].high]
           H == {market[b].high : b \in B}
<1>1. \A b \in B : market[b].high \in Int
  BY CandleOf
<1>2. B \subseteq 1 .. Len(market) /\ Len(market) \in Nat
  BY LenProperties DEF CandleTyped
<1>3. \A b \in B : f[b] = market[b].high
  OBVIOUS
<1>4. PICK t \in B : \A y \in B : f[t] >= f[y]
  <2> HIDE DEF f
  <2>1. QED BY <1>1, <1>2, <1>3, PeakExists
<1>5. H \subseteq Int /\ market[t].high \in H /\ \A u \in H : market[t].high >= u
  BY <1>1, <1>3, <1>4
<1> HIDE DEF H
<1>6. Greatest(H) = market[t].high
  BY <1>5, GreatestOf
<1>7. \A b \in B : market[b].high <= market[t].high
  <2>1. TAKE b \in B
  <2>2. market[b].high \in Int /\ market[t].high \in Int /\ market[t].high >= market[b].high
    BY <1>1, <1>3, <1>4
  <2>3. QED BY <2>2
<1>8. QED BY <1>1, <1>6, <1>7 DEF H

\* The least low of some candles is none above one of theirs.
LEMMA LowestIs ==
  ASSUME CandleTyped, NEW B, B # {}, \A b \in B : b \in 1 .. Len(market) /\ Traded(b)
  PROVE  LET g == Least({market[b].low : b \in B}) IN g \in Int /\ \A b \in B : g <= market[b].low
<1> DEFINE f == [b \in B |-> 0 - market[b].low]
           H == {market[b].low : b \in B}
<1>1. \A b \in B : market[b].low \in Int
  BY CandleOf
<1>2. B \subseteq 1 .. Len(market) /\ Len(market) \in Nat
  BY LenProperties DEF CandleTyped
<1>3. \A b \in B : f[b] = 0 - market[b].low
  OBVIOUS
<1>4. PICK t \in B : \A y \in B : f[t] >= f[y]
  <2> HIDE DEF f
  <2>1. \A b \in B : f[b] \in Int
    BY <1>1, <1>3
  <2>2. QED BY <1>2, <2>1, PeakExists
<1>5. \A b \in B : market[t].low <= market[b].low
  <2>1. TAKE b \in B
  <2>2. market[b].low \in Int /\ market[t].low \in Int /\ 0 - market[t].low >= 0 - market[b].low
    BY <1>1, <1>3, <1>4
  <2>3. QED BY <2>2
<1>6. H \subseteq Int /\ market[t].low \in H /\ \A u \in H : market[t].low <= u
  BY <1>1, <1>5
<1> HIDE DEF H
<1>7. Least(H) = market[t].low
  BY <1>6, LeastOf
<1>8. QED BY <1>1, <1>5, <1>7 DEF H

\* A new plan that its latest candle does not enter is sound.
LEMMA NewPlanSound ==
  ASSUME CandleTyped, NEW d \in {-1, 1}, NEW e \in Int, NEW short \in BOOLEAN,
         short /\ Len(market) # 0 /\ Traded(Len(market)) => ~ (d * (market[Len(market)].close - e) >= 0)
  PROVE  PlanSound(market, NewPlan(d, e, short))
<1> DEFINE p == NewPlan(d, e, short)
<1>1. Len(market) \in Nat /\ Forming = Len(market) + 1
  BY LenProperties DEF CandleTyped, Forming
<1>2. p = [dir |-> d, entry |-> e, short |-> short, created |-> Forming, status |-> "planned",
           opened |-> 0, closed |-> 0, exit |-> 0, reason |-> "none", seen |-> 0, whole |-> TRUE]
  BY DEF NewPlan
<1> HIDE DEF p
<1>3. p \in Plan
  <2>1. "none" \in Reasons
    BY DEF Reasons
  <2>2. QED BY <1>1, <1>2, <2>1 DEF Plan
<1>4. p.created <= Len(market) + 1 /\ p.seen <= Len(market) /\ p.whole
  BY <1>1, <1>2
<1>5. p.short => (p.created # 1 => ~ EntersAt(market, p, p.created - 1))
  <2>1. p.created - 1 = Len(market) /\ (p.created # 1 => Len(market) # 0)
    BY <1>1, <1>2
  <2>2. QED BY <1>2, <2>1 DEF EntersAt, Enters, Traded
<1>6. Tells(market, p, p, p.created .. p.seen, p.seen)
  <2>1. \A b : b \notin p.created .. p.seen
    BY <1>1, <1>2
  <2>2. Waits(p)
    BY <1>2 DEF Waits
  <2>3. QED BY <2>1, <2>2 DEF Tells
<1>7. QED BY <1>3, <1>4, <1>5, <1>6 DEF PlanSound, p

\* A signal is a plan whose entry the latest candles never saw.
LEMMA SignalSound ==
  ASSUME CandleTyped, NEW s \in Signals, s # None
  PROVE  PlanSound(market, s)
<1> DEFINE T == Tabled(DOMAIN market, Len(market))
           B == {b \in T : Cardinality({a \in T : a > b}) < HalfHour}
           g == Greatest({market[b].high : b \in B})
           l == Least({market[b].low : b \in B})
           L == Len(market)
<1>1. B # {} /\ s \in {NewPlan(d, IF d = 1 THEN g + 1 ELSE l - 1, TRUE) : d \in Directions}
  BY DEF Signals
<1>2. PICK d \in Directions : s = NewPlan(d, IF d = 1 THEN g + 1 ELSE l - 1, TRUE)
  BY <1>1
<1>3. d \in {-1, 1} /\ HalfHour \in Nat /\ 0 < HalfHour
  BY TradeAssumption
<1>4. L \in Nat /\ DOMAIN market = 1 .. L
  BY LenProperties DEF CandleTyped
<1>5. \A b : b \in T <=> b \in 1 .. L /\ Traded(b)
  BY <1>4 DEF Tabled
<1>6. \A b \in B : b \in 1 .. Len(market) /\ Traded(b)
  BY <1>5
<1>7. L # 0 /\ Traded(L) => L \in B
  <2> HIDE DEF T
  <2>1. SUFFICES ASSUME L # 0, Traded(L) PROVE L \in B
    OBVIOUS
  <2>2. L \in T
    BY <1>4, <1>5, <2>1
  <2>3. {a \in T : a > L} = {}
    BY <1>4, <1>5
  <2>4. Cardinality({a \in T : a > L}) = 0
    BY <2>3, FS_EmptySet
  <2>5. QED BY <1>3, <2>2, <2>4
<1> HIDE DEF B, g, l, L
<1>8. g \in Int /\ \A b \in B : market[b].high <= g
  BY <1>1, <1>6, HighestIs DEF g
<1>9. l \in Int /\ \A b \in B : l <= market[b].low
  BY <1>1, <1>6, LowestIs DEF l
<1> DEFINE e == IF d = 1 THEN g + 1 ELSE l - 1
<1>10. e \in Int
  BY <1>8, <1>9
<1>11. L # 0 /\ Traded(L) => ~ (d * (market[L].close - e) >= 0)
  <2>1. SUFFICES ASSUME L # 0, Traded(L) PROVE ~ (d * (market[L].close - e) >= 0)
    OBVIOUS
  <2>2. L \in B /\ L \in 1 .. Len(market)
    BY <1>6, <1>7, <2>1
  <2> DEFINE c == market[L]
  <2>3. c.low \in Int /\ c.close \in Int /\ c.high \in Int /\ c.low <= c.close /\ c.close <= c.high
    BY <2>1, <2>2, CandleOf
  <2>4. c.high <= g /\ l <= c.low
    BY <1>8, <1>9, <2>2
  <2> HIDE DEF c
  <2>5. CASE d = 1
    BY <1>8, <2>3, <2>4, <2>5 DEF c
  <2>6. CASE d = -1
    <3>1. e = l - 1
      BY <2>6
    <3>2. c.close \in Int /\ e \in Int /\ e < c.close
      BY <1>9, <2>3, <2>4, <3>1
    <3> HIDE DEF e
    <3>3. ~ (-1 * (c.close - e) >= 0)
      BY <3>2
    <3>4. ~ (d * (c.close - e) >= 0)
      BY <1>3, <2>6, <3>2, <3>3
    <3>5. QED BY <3>4 DEF c
  <2>7. QED BY <1>3, <2>5, <2>6
<1> HIDE DEF e
<1>12. PlanSound(market, NewPlan(d, e, TRUE))
  BY <1>3, <1>10, <1>11, NewPlanSound DEF L
<1>13. QED BY <1>2, <1>12 DEF e

PlansSound(ps) == ps \in Seq(Plan) /\ \A i \in 1 .. Len(ps) : PlanSound(market, ps[i])

\* A signal that is made a plan comes last.
LEMMA MadeSound ==
  ASSUME CandleTyped, NEW ps, PlansSound(ps), NEW s \in Signals
  PROVE  PlansSound(ps \o (IF s = None THEN <<>> ELSE <<s>>))
<1>1. ps \in Seq(Plan) /\ Len(ps) \in Nat
  BY LenProperties DEF PlansSound
<1>2. CASE s = None
  <2>1. ps \o <<>> = ps
    BY <1>1, ConcatEmptySeq
  <2>2. QED BY <1>2, <2>1
<1>3. CASE s # None
  <2>1. PlanSound(market, s) /\ s \in Plan
    BY <1>3, SignalSound DEF PlanSound
  <2>2. <<s>> \in Seq(Plan) /\ Len(<<s>>) = 1 /\ <<s>>[1] = s
    BY <2>1
  <2> DEFINE qs == ps \o <<s>>
  <2>3. /\ qs \in Seq(Plan) /\ Len(qs) = Len(ps) + 1
        /\ \A i \in 1 .. Len(ps) + 1 : qs[i] = IF i <= Len(ps) THEN ps[i] ELSE <<s>>[i - Len(ps)]
    BY <1>1, <2>2, ConcatProperties
  <2> HIDE DEF qs
  <2>4. \A i \in 1 .. Len(qs) : PlanSound(market, qs[i])
    <3>1. TAKE i \in 1 .. Len(qs)
    <3>2. CASE i <= Len(ps)
      <4>1. i \in 1 .. Len(ps) /\ qs[i] = ps[i]
        BY <1>1, <2>3, <3>2
      <4>2. QED BY <4>1 DEF PlansSound
    <3>3. CASE ~ (i <= Len(ps))
      <4>1. i - Len(ps) = 1 /\ i \in 1 .. Len(ps) + 1
        BY <1>1, <2>3, <3>3
      <4>2. qs[i] = s
        BY <2>2, <2>3, <3>3, <4>1
      <4>3. QED BY <2>1, <4>2
    <3>4. QED BY <3>2, <3>3
  <2>5. PlansSound(qs)
    BY <2>3, <2>4 DEF PlansSound
  <2>6. QED BY <1>3, <2>5 DEF qs
<1>4. QED BY <1>2, <1>3

\* Replacing a plan by a sound one.
LEMMA OneReplaced ==
  ASSUME NEW ps, PlansSound(ps), NEW i \in 1 .. Len(ps), NEW q, PlanSound(market, q)
  PROVE  PlansSound([ps EXCEPT ![i] = q])
<1>1. ps \in Seq(Plan) /\ Len(ps) \in Nat /\ DOMAIN ps = 1 .. Len(ps) /\ q \in Plan
  BY LenProperties DEF PlansSound, PlanSound
<1>2. [ps EXCEPT ![i] = q] \in Seq(Plan) /\ Len([ps EXCEPT ![i] = q]) = Len(ps)
  BY <1>1, ExceptSeq
<1>3. \A j \in 1 .. Len(ps) : [ps EXCEPT ![i] = q][j] = IF j = i THEN q ELSE ps[j]
  BY <1>1
<1>4. QED BY <1>2, <1>3 DEF PlansSound

\* A waiting plan that is cancelled keeps its levels.
LEMMA CancelledSound ==
  ASSUME CandleTyped, NEW p, PlanSound(market, p), NEW w \in Reasons
  PROVE  PlanSound(market, [p EXCEPT !.status = "cancelled", !.closed = Forming, !.exit = 0, !.reason = w])
<1> DEFINE q == [p EXCEPT !.status = "cancelled", !.closed = Forming, !.exit = 0, !.reason = w]
<1>1. p \in Plan
  BY DEF PlanSound
<1>2. Forming \in Nat
  BY LenProperties DEF Forming, CandleTyped
<1>3. /\ q \in Plan /\ q.status = "cancelled" /\ q.dir = p.dir /\ q.entry = p.entry /\ q.short = p.short
      /\ q.created = p.created /\ q.seen = p.seen /\ q.whole = p.whole
  <2>1. PICK st \in {"planned", "open", "closed", "cancelled"}, f \in Nat, v \in Int :
          st = "cancelled" /\ f = Forming /\ v = 0
    BY <1>2
  <2>2. q = [p EXCEPT !.status = st, !.closed = f, !.exit = v, !.reason = w]
    BY <2>1
  <2> HIDE DEF q
  <2>3. /\ q \in Plan /\ q.status = st /\ q.dir = p.dir /\ q.entry = p.entry /\ q.short = p.short
        /\ q.created = p.created /\ q.seen = p.seen /\ q.whole = p.whole
    BY <1>1, <2>2 DEF Plan
  <2>4. QED BY <2>1, <2>3
<1> HIDE DEF q
<1>4. \A b : EntersAt(market, q, b) = EntersAt(market, p, b)
  BY <1>3 DEF EntersAt, Enters
<1>5. PlanSound(market, q)
  BY <1>3, <1>4 DEF PlanSound
<1>6. QED BY <1>5 DEF q

\* What a page makes of sound plans is sound: a waiting plan may be cancelled, a signal follow.
LEMMA EnsuredSound ==
  ASSUME CandleTyped, NEW ps, PlansSound(ps), NEW qs \in EnsuredPlans(ps)
  PROVE  PlansSound(qs)
<1> DEFINE active == {i \in DOMAIN ps : Active(ps[i])}
           i == Least(active)
           made(s) == IF s = None THEN <<>> ELSE <<s>>
           cancelled(r) == [ps EXCEPT ![i].status = "cancelled", ![i].closed = Forming, ![i].exit = 0, ![i].reason = r]
<1>1. ps \in Seq(Plan) /\ Len(ps) \in Nat /\ DOMAIN ps = 1 .. Len(ps)
  BY LenProperties DEF PlansSound
<1>2. CASE active = {}
  <2>1. PICK s \in Signals : qs = ps \o made(s)
    BY <1>2 DEF EnsuredPlans
  <2>2. QED BY <2>1, MadeSound
<1>3. CASE active # {} /\ ps[i].status = "open"
  <2>1. qs = ps
    BY <1>3 DEF EnsuredPlans
  <2>2. QED BY <2>1
<1>4. CASE active # {} /\ ps[i].status # "open"
  <2>1. PICK s \in Signals :
          qs = IF CancelReason(ps[i], s) = "none" THEN ps ELSE cancelled(CancelReason(ps[i], s)) \o made(s)
    BY <1>4 DEF EnsuredPlans
  <2> DEFINE w == CancelReason(ps[i], s)
  <2>2. w \in Reasons
    BY DEF CancelReason, Reasons
  <2>3. i \in 1 .. Len(ps)
    <3>1. active \subseteq Nat /\ active # {}
      BY <1>1, <1>4
    <3> HIDE DEF active
    <3>2. i \in active
      BY <3>1, LeastIs
    <3>3. QED BY <1>1, <3>2 DEF active
  <2> HIDE DEF w, i
  <2> DEFINE p == ps[i]
             q == [p EXCEPT !.status = "cancelled", !.closed = Forming, !.exit = 0, !.reason = w]
  <2>4. PlanSound(market, p) /\ p \in Plan
    BY <2>3 DEF PlansSound, PlanSound
  <2>5. cancelled(w) = [ps EXCEPT ![i] = q]
    BY <1>1, <2>3
  <2> HIDE DEF p
  <2> HIDE DEF q
  <2>8. PlanSound(market, q)
    BY <2>2, <2>4, CancelledSound DEF q
  <2>9. PlansSound([ps EXCEPT ![i] = q])
    BY <2>3, <2>8, OneReplaced
  <2>10. qs = ps \/ qs = [ps EXCEPT ![i] = q] \o made(s)
    BY <2>1, <2>5 DEF w
  <2>11. QED BY <2>9, <2>10, MadeSound
<1>5. QED BY <1>2, <1>3, <1>4

TradeInv == CandleTyped /\ PlansSound(plans)

\* No plan at the start, or the seeded one, which is sound.
LEMMA TradeStarts == ASSUME CandleInit, TradeInit PROVE TradeInv
<1>1. market = <<>> /\ cached = 0
  BY DEF CandleInit
<1>2. market \in Seq(Shapes \cup {None}) /\ Len(market) = 0
  BY <1>1
<1>3. CandleTyped
  BY <1>1, <1>2 DEF CandleTyped
<1>4. CASE plans = <<>>
  <2>1. plans \in Seq(Plan) /\ Len(plans) = 0
    BY <1>4
  <2>2. QED BY <1>3, <2>1 DEF TradeInv, PlansSound
<1>5. CASE plans = <<NewPlan(1, 1, FALSE)>>
  <2> DEFINE p == NewPlan(1, 1, FALSE)
  <2>1. PlanSound(market, p)
    <3>1. 1 \in {-1, 1} /\ 1 \in Int /\ FALSE \in BOOLEAN
      OBVIOUS
    <3>2. QED BY <1>3, <3>1, NewPlanSound
  <2>2. p \in Plan
    BY <2>1 DEF PlanSound
  <2> HIDE DEF p
  <2>3. plans = <<p>>
    BY <1>5 DEF p
  <2>4. plans \in Seq(Plan) /\ Len(plans) = 1 /\ plans[1] = p
    BY <2>2, <2>3
  <2>5. QED BY <1>3, <2>1, <2>4 DEF TradeInv, PlansSound
<1>6. QED BY <1>4, <1>5 DEF TradeInit

\* A page replays the active plans on all candles.
LEMMA PageSound == ASSUME TradeInv, TradePage PROVE TradeInv'
<1> DEFINE replayed == [i \in DOMAIN plans |-> IF Active(plans[i]) THEN Replayed(plans[i], Len(market)) ELSE plans[i]]
<1>1. CandleTyped /\ PlansSound(plans) /\ Len(market) \in Nat
  BY LenProperties DEF TradeInv, CandleTyped
<1>2. plans \in Seq(Plan) /\ Len(plans) \in Nat /\ DOMAIN plans = 1 .. Len(plans)
  BY <1>1, LenProperties DEF PlansSound
<1>3. \A i \in 1 .. Len(plans) : PlanSound(market, replayed[i])
  <2>1. TAKE i \in 1 .. Len(plans)
  <2>2. PlanSound(market, plans[i])
    BY <1>1 DEF PlansSound
  <2>3. CASE Active(plans[i])
    <3>1. plans[i].status # "cancelled"
      BY <2>3 DEF Active
    <3>2. Len(market) \in 0 .. Len(market)
      BY <1>1
    <3>3. PlanSound(market, Replayed(plans[i], Len(market)))
      BY <1>1, <2>2, <3>1, <3>2, ReplayedSound
    <3>4. QED BY <1>2, <2>3, <3>3
  <2>4. CASE ~ Active(plans[i])
    BY <1>2, <2>2, <2>4
  <2>5. QED BY <2>3, <2>4
<1>4. PlansSound(replayed)
  <2>1. \A i \in 1 .. Len(plans) : replayed[i] \in Plan
    BY <1>3 DEF PlanSound
  <2>2. replayed = [i \in 1 .. Len(plans) |-> replayed[i]]
    BY <1>2
  <2> HIDE DEF replayed
  <2>3. replayed \in [1 .. Len(plans) -> Plan]
    BY <2>1, <2>2
  <2>4. replayed \in Seq(Plan) /\ Len(replayed) = Len(plans)
    BY <1>2, <2>3, SeqDef
  <2>5. QED BY <1>3, <2>4 DEF PlansSound
<1>5. /\ market' = market /\ cached' \in {cached, Len(market)}
      /\ plans' = replayed \/ plans' \in EnsuredPlans(replayed)
  BY DEF TradePage
<1> HIDE DEF replayed
<1>6. PlansSound(plans')
  BY <1>1, <1>4, <1>5, EnsuredSound
<1>7. PlansSound(plans)'
  BY <1>5, <1>6 DEF PlansSound
<1>8. CandleTyped'
  BY <1>1, <1>5 DEF CandleTyped
<1>9. QED BY <1>7, <1>8 DEF TradeInv

\* A detail request replays one plan, an ended one on what the table has.
LEMMA DetailSound == ASSUME TradeInv, TradeDetail PROVE TradeInv'
<1>1. CandleTyped /\ PlansSound(plans) /\ Len(market) \in Nat /\ cached \in 0 .. Len(market)
  BY LenProperties DEF TradeInv, CandleTyped
<1>2. plans \in Seq(Plan) /\ Len(plans) \in Nat /\ DOMAIN plans = 1 .. Len(plans)
  BY <1>1, LenProperties DEF PlansSound
<1>3. PICK i \in DOMAIN plans :
        LET n == IF Active(plans[i]) THEN Len(market) ELSE cached
        IN /\ plans[i].status # "cancelled"
           /\ plans' = [plans EXCEPT ![i] = Replayed(@, n)]
           /\ cached' = n
  BY DEF TradeDetail
<1> DEFINE n == IF Active(plans[i]) THEN Len(market) ELSE cached
           q == Replayed(plans[i], n)
<1>4. n \in 0 .. Len(market) /\ (plans[i].status = "open" => n = Len(market))
  BY <1>1 DEF Active
<1>5. plans' = [plans EXCEPT ![i] = q] /\ cached' = n /\ market' = market
  BY <1>3 DEF TradeDetail
<1> HIDE DEF n
<1>6. PlanSound(market, q)
  <2>1. PlanSound(market, plans[i])
    BY <1>1, <1>2 DEF PlansSound
  <2>2. QED BY <1>1, <1>3, <1>4, <2>1, ReplayedSound
<1> HIDE DEF q
<1>7. PlansSound(plans')
  BY <1>1, <1>2, <1>5, <1>6, OneReplaced
<1>8. PlansSound(plans)'
  BY <1>5, <1>7 DEF PlansSound
<1>9. CandleTyped'
  BY <1>1, <1>4, <1>5 DEF CandleTyped
<1>10. QED BY <1>8, <1>9 DEF TradeInv

\* A page, a detail page or a candle keeps every plan sound.
LEMMA TradeContinues ==
  ASSUME TradeInv, [TradeNext \/ (CloseBucket /\ UNCHANGED tradeVars)]_<<candleVars, tradeVars>>
  PROVE  TradeInv'
<1>1. CASE TradeNext
  BY <1>1, PageSound, DetailSound DEF TradeNext
<1>2. CASE CloseBucket /\ UNCHANGED tradeVars
  <2>1. CandleTyped /\ PlansSound(plans)
    BY DEF TradeInv
  <2>2. plans' = plans
    BY <1>2 DEF tradeVars
  <2>3. /\ CandleTyped' /\ Len(market') = Len(market) + 1
        /\ \A b \in 1 .. Len(market) : market'[b] = market[b]
    BY <1>2, <2>1, MarketGrows
  <2>4. Len(market) \in Nat /\ Len(market') \in Nat /\ Len(market) <= Len(market')
    BY <2>1, <2>3, LenProperties DEF CandleTyped
  <2>5. \A i \in 1 .. Len(plans) : PlanSound(market', plans[i])
    <3>1. TAKE i \in 1 .. Len(plans)
    <3>2. PlanSound(market, plans[i])
      BY <2>1 DEF PlansSound
    <3>3. QED BY <2>3, <2>4, <3>2, SoundStays
  <2>6. PlansSound(plans)'
    BY <2>1, <2>2, <2>5 DEF PlansSound
  <2>7. QED BY <2>3, <2>6 DEF TradeInv
<1>3. CASE UNCHANGED <<candleVars, tradeVars>>
  <2>1. market' = market /\ cached' = cached /\ plans' = plans
    BY <1>3 DEF candleVars, tradeVars
  <2>2. QED BY <2>1 DEF TradeInv, CandleTyped, PlansSound
<1>4. QED BY <1>1, <1>2, <1>3

\* A plan that tells what its candles say has the verdict they give.
LEMMA TellingIsVerdict ==
  ASSUME NEW p, p.short, p.created \in Nat, p.seen \in Nat,
         Tells(market, p, p, p.created .. p.seen, p.seen)
  PROVE  <<p.status, p.opened, p.closed, p.exit, p.reason>> = Verdict(p)
<1> DEFINE c == p.created
           n == p.seen
           C == {b \in c .. n : Traded(b)}
           In == {b \in C : Enters(p, market[b])}
           o == Least(In)
           X == {b \in C : b > o /\ Ends(p, o, b)}
<1>1. Verdict(p) = IF In = {} THEN <<"planned", 0, 0, 0, "none">>
                   ELSE IF X = {} THEN <<"open", o, 0, 0, "none">>
                   ELSE <<"closed", o, Least(X)>> \o Outcome(p, o, Least(X))
  BY DEF Verdict
<1>2. In = {b \in c .. n : EntersAt(market, p, b)} /\ In \subseteq Nat
  BY DEF EntersAt, Traded
<1> HIDE DEF In, o
<1>3. CASE In = {}
  <2>1. Waits(p)
    BY <1>2, <1>3 DEF Tells
  <2>2. QED BY <1>1, <1>3, <2>1 DEF Waits
<1>4. CASE In # {}
  <2>1. o \in In /\ \A y \in In : o <= y
    BY <1>2, <1>4, LeastIs DEF o
  <2>2. o \in c .. n /\ o \in Nat /\ EntersAt(market, p, o)
    BY <1>2, <2>1
  <2>3. FirstIn(market, p, c .. n, o)
    <3>1. \A b \in c .. n : b < o => ~ (o <= b)
      BY <2>2
    <3>2. QED BY <1>2, <2>1, <2>2, <3>1 DEF FirstIn
  <2>4. Since(market, p, p, o, n)
    BY <2>2, <2>3 DEF Tells
  <2>5. \A b : PriorOn(market, p, o, b) = Prior(p, o, b)
    BY DEF PriorOn, Prior, Traded
  <2>6. \A b : /\ StoppedOn(market, p, o, b) <=> Stopped(p, o, b)
               /\ WonOn(market, p, b) <=> Won(p, b)
               /\ StaleOn(market, p, o, b) <=> Stale(p, o, b)
               /\ b - o >= MaxHold <=> Overlong(p, o, b)
    <3>1. TAKE b
    <3>2. StoppedOn(market, p, o, b) <=> Stopped(p, o, b)
      BY <2>5 DEF StoppedOn, Stopped
    <3>3. WonOn(market, p, b) <=> Won(p, b)
      BY DEF WonOn, Won
    <3>4. StaleOn(market, p, o, b) <=> Stale(p, o, b)
      BY <2>5 DEF StaleOn, Stale
    <3>5. b - o >= MaxHold <=> Overlong(p, o, b)
      BY DEF Overlong
    <3>6. QED BY <3>2, <3>3, <3>4, <3>5
  <2>7. \A b : EndsOn(market, p, o, b) <=> Traded(b) /\ Ends(p, o, b)
    BY <2>6 DEF EndsOn, Ends, Traded
  <2>8. X = {b \in (o + 1) .. n : EndsOn(market, p, o, b)} /\ X \subseteq Nat
    <3>1. \A b : b \in c .. n /\ b > o <=> b \in (o + 1) .. n
      BY <2>2
    <3>2. QED BY <2>2, <2>7, <3>1
  <2> HIDE DEF X
  <2>9. CASE X = {}
    <3>1. Runs(p, o)
      BY <2>4, <2>8, <2>9 DEF Since
    <3>2. QED BY <1>1, <1>4, <2>9, <3>1 DEF Runs
  <2>10. CASE X # {}
    <3> DEFINE x == Least(X)
    <3>1. x \in X /\ \A y \in X : x <= y
      BY <2>8, <2>10, LeastIs
    <3> HIDE DEF x
    <3>2. x \in (o + 1) .. n /\ x \in Nat /\ EndsOn(market, p, o, x)
      BY <2>8, <3>1
    <3>3. EndsFirst(market, p, o, x)
      <4>1. \A b \in (o + 1) .. (x - 1) : b \in (o + 1) .. n /\ ~ (x <= b)
        BY <2>2, <3>2
      <4>2. QED BY <2>8, <3>1, <3>2, <4>1 DEF EndsFirst
    <3>4. /\ p.status = "closed" /\ p.opened = o /\ p.closed = x
          /\ <<p.exit, p.reason>> = OutcomeOn(market, p, o, x)
      BY <2>4, <3>2, <3>3 DEF Since, Ended
    <3>5. OutcomeOn(market, p, o, x) = Outcome(p, o, x)
      BY <2>5, <2>6 DEF OutcomeOn, Outcome
    <3>6. <<p.status, p.opened, p.closed, p.exit, p.reason>> = <<"closed", o, x>> \o <<p.exit, p.reason>>
      BY <3>4
    <3>7. Verdict(p) = <<"closed", o, x>> \o Outcome(p, o, x)
      BY <1>1, <1>4, <2>10 DEF x
    <3>8. QED BY <3>4, <3>5, <3>6, <3>7
  <2>11. QED BY <2>9, <2>10
<1>5. QED BY <1>3, <1>4

\* However often, late or partially a page or a detail replayed it, the plan of a signal has
\* the verdict of the candles since its creation, while the chart reaches back to it
\* (replay_validation_plan).
THEOREM PlansAreTheirCandles == TradeSpec => []PlanIsItsCandles
<1>1. TradeInv => PlanIsItsCandles
  <2>1. SUFFICES ASSUME TradeInv PROVE PlanIsItsCandles
    OBVIOUS
  <2>2. DOMAIN plans = 1 .. Len(plans) /\ \A i \in 1 .. Len(plans) : PlanSound(market, plans[i])
    BY <2>1, LenProperties DEF TradeInv, PlansSound
  <2>3. \A i \in 1 .. Len(plans) :
          plans[i].short /\ plans[i].status # "cancelled" /\ plans[i].seen # 0 /\ plans[i].whole =>
            <<plans[i].status, plans[i].opened, plans[i].closed, plans[i].exit, plans[i].reason>> = Verdict(plans[i])
    <3>1. TAKE i \in 1 .. Len(plans)
    <3> DEFINE p == plans[i]
    <3>2. PlanSound(market, p) /\ p.created \in Nat /\ p.seen \in Nat
      BY <2>2 DEF PlanSound, Plan
    <3> HIDE DEF p
    <3>3. p.short /\ p.status # "cancelled" /\ p.whole => Tells(market, p, p, p.created .. p.seen, p.seen)
      BY <3>2 DEF PlanSound
    <3>4. p.short /\ p.status # "cancelled" /\ p.whole =>
            <<p.status, p.opened, p.closed, p.exit, p.reason>> = Verdict(p)
      BY <3>2, <3>3, TellingIsVerdict
    <3>5. QED BY <3>4 DEF p
  <2>4. QED BY <2>2, <2>3 DEF PlanIsItsCandles
<1>2. TradeInit /\ CandleInit => TradeInv
  BY TradeStarts
<1>3. TradeInv /\ [TradeNext \/ (CloseBucket /\ UNCHANGED tradeVars)]_<<candleVars, tradeVars>> => TradeInv'
  BY TradeContinues
<1>4. QED BY <1>1, <1>2, <1>3, PTL DEF TradeSpec

==============================================================================
