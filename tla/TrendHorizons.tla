---------------------------- MODULE TrendHorizons ----------------------------
(***************************************************************************)
(* The trend hypotheses of one symbol (app.py): for each horizon a direction, *)
(* a target, a soft and a hard stop, anchored at a price and followed candle  *)
(* by candle until the horizon ends, then renewed. One background thread      *)
(* passes once a minute, in three transactions: renew what is missing, judge  *)
(* the new candles, renew again. Any of them may fail, which ends the pass.   *)
(***************************************************************************)
EXTENDS Candles

CONSTANTS Horizons,          \* TREND_HORIZON_META
          Expires, Reviews,  \* [Horizons -> buckets]
          Distance,          \* [target, soft, hard, near]: from the anchor; near: 70 % of
                             \* the target
          MaxRows            \* bound: rows the model has

ASSUME HorizonAssumption ==
  /\ IsFiniteSet(Horizons)
  /\ \A h \in Horizons : Expires[h] \in Nat \ {0} /\ Reviews[h] \in 0 .. Expires[h]
  /\ {Distance.target, Distance.soft, Distance.hard, Distance.near} \subseteq Nat
  /\ Distance.near <= Distance.target /\ MaxRows \in Nat

VARIABLE rows                \* table trend_horizon_validation with its events

horizonVars == <<rows>>
HorizonInit == rows = <<>>

Target(r) == r.price + r.dir * Distance.target
Soft(r) == r.price - r.dir * Distance.soft
Hard(r) == r.price - r.dir * Distance.hard
TakesProfit(r, c) == Reaches(c, r.dir, Target(r))
HitsSoft(r, c) == Falls(c, r.dir, Soft(r))
HitsHard(r, c) == Falls(c, r.dir, Hard(r))
Behind(r, c) == r.dir * (c.close - r.price) < 0

-----------------------------------------------------------------------------
\* create_ake_horizon_template: a hypothesis anchored at the current price, in the
\* bucket that is forming.
NewRow(h, dir, price) ==
  [horizon |-> h, dir |-> dir, price |-> price, at |-> Forming, latest |-> Forming,
   status |-> "active", first |-> "none", firstAt |-> 0, events |-> {}, favor |-> 0,
   adverse |-> 0, path |-> "observing", interim |-> FALSE]

ActiveRows(rs) == {i \in DOMAIN rs : rs[i].status = "active"}
Missing(rs) == Horizons \ {rs[i].horizon : i \in ActiveRows(rs)}

\* ensure_ake_horizon_validation: the missing horizons together, if there are candles.
EnsuredRows(rs) ==
  LET new == SetToSeq(Missing(rs))
  IN IF new = <<>> THEN {rs}
     ELSE IF ~ \E b \in DOMAIN market : Traded(b) THEN {}
     ELSE LET price == market[Greatest({b \in DOMAIN market : Traded(b)})].close
          IN {rs \o [i \in DOMAIN new |-> NewRow(new[i], dir[new[i]], price)] :
                dir \in [Missing(rs) -> {-1, 1}]}

-----------------------------------------------------------------------------
Hit(r, b, what) == [r EXCEPT !.events = @ \cup {what},
                             !.first = IF @ = "none" THEN what ELSE @,
                             !.firstAt = IF r.first = "none" THEN b ELSE @]

\* The touches of one candle; a candle that covers target and hard stop before any other
\* touch tells nothing of their order.
TargetFirst(r, b) ==
  LET c == market[b] IN
  LET s == IF TakesProfit(r, c) /\ "take_profit" \notin r.events THEN Hit(r, b, "take_profit") ELSE r
  IN IF HitsHard(r, c) /\ "hard_stop" \notin r.events THEN Hit(s, b, "hard_stop") ELSE s
Touched(r, b) ==
  LET c == market[b] IN
  IF TakesProfit(r, c) /\ HitsHard(r, c) /\ r.first = "none" THEN Hit(r, b, "ambiguous_same_candle")
  ELSE LET s == IF TakesProfit(r, c) /\ "take_profit" \notin r.events THEN Hit(r, b, "take_profit")
                                                                    ELSE r
       IN IF HitsHard(r, c) /\ "hard_stop" \notin r.events THEN Hit(s, b, "hard_stop") ELSE s

Widened(r, c) == [r EXCEPT !.favor = Greatest({@, r.dir * (Best(c, r.dir) - r.price)}),
                           !.adverse = Greatest({@, r.dir * (r.price - Worst(c, r.dir))})]
Softened(r, c) == IF HitsSoft(r, c) THEN [r EXCEPT !.events = @ \cup {"soft_stop"}] ELSE r

\* How the path went on after the first touch, or turned before any.
Pathed(r, c) ==
  CASE r.first = "hard_stop" ->
         IF TakesProfit(r, c) THEN [r EXCEPT !.path = "stop_then_target"]
         ELSE IF r.dir * (c.close - r.price) >= 0 THEN [r EXCEPT !.path = "stop_then_recovery"]
         ELSE r
    [] r.first = "take_profit" -> IF HitsHard(r, c) THEN [r EXCEPT !.path = "target_then_reversal"]
                                                    ELSE r
    [] r.first = "none" ->
         IF r.favor >= Distance.near /\ Behind(r, c)
         THEN [r EXCEPT !.path = "near_target_then_reversal",
                        !.events = @ \cup {"near_target_then_reversal"}]
         ELSE r
    [] OTHER -> r

Judged(r, b) == LET c == market[b]
                IN [Pathed(Softened(Touched(Widened(r, c), b), c), c) EXCEPT !.latest = b]

\* refresh_trend_horizon_validations of one active row; `due`: the minute of the pass is
\* past the row's own in the bucket of its end.
FromLatest(r) == {b \in DOMAIN market : b >= r.latest}
Unjudged(r) == {b \in DOMAIN market : b > r.latest}
JudgedOn(r) ==
  LET judged[b \in 0 .. Len(market)] ==
        IF b = 0 THEN r
        ELSE IF b \in Tabled(Unjudged(r), Len(market)) THEN Judged(judged[b - 1], b) ELSE judged[b - 1]
  IN judged[Len(market)]
RefreshedRow(r, due) ==
  LET s == JudgedOn(r)
      age == Forming - r.at
  IN [s EXCEPT !.interim = @ \/ age > Reviews[r.horizon] \/ (due /\ age = Reviews[r.horizon]),
               !.status = IF age > Expires[r.horizon] \/ (due /\ age = Expires[r.horizon])
                          THEN "completed" ELSE @]
RefreshEvery(rs, due) == [i \in DOMAIN rs |-> RefreshedRow(rs[i], i \in due)]
RefreshAll(rs, due) == [i \in DOMAIN rs |-> IF rs[i].status = "active" THEN RefreshedRow(rs[i], i \in due)
                                                                    ELSE rs[i]]

\* background_trend_horizon_validation: one pass, up to the transaction that fails.
HorizonPass ==
  /\ \E first \in EnsuredRows(rows), due \in SUBSET ActiveRows(rows) :
       rows' \in {first, RefreshAll(first, due)} \cup EnsuredRows(RefreshAll(first, due))
  /\ Len(rows') <= MaxRows
  /\ cached' = Len(market) /\ market' = market

HorizonNext == HorizonPass
TrendSpec == /\ CandleInit /\ HorizonInit
             /\ [][HorizonNext \/ (CloseBucket /\ UNCHANGED horizonVars)]_<<candleVars, horizonVars>>

-----------------------------------------------------------------------------
Followed(r) == {b \in (r.at + 1) .. r.latest : Traded(b)}
Touches(r) == {b \in Followed(r) : TakesProfit(r, market[b]) \/ HitsHard(r, market[b])}
FirstTouch(r) == LET c == market[Least(Touches(r))]
                 IN IF ~ HitsHard(r, c) THEN "take_profit"
                    ELSE IF ~ TakesProfit(r, c) THEN "hard_stop" ELSE "ambiguous_same_candle"

\* However the passes were spaced, delayed or cut short, the verdict of a hypothesis is
\* that of the first candle since its anchor that touched target or hard stop, and its
\* excursions are those of all candles it followed, none skipped or judged twice.
FirstHitIsFirst ==
  \A i \in DOMAIN rows :
    LET r == rows[i] IN
    /\ IF Touches(r) = {} THEN r.first = "none" ELSE <<r.first, r.firstAt>> = <<FirstTouch(r), Least(Touches(r))>>
    /\ r.favor = Greatest({0} \cup {r.dir * (Best(market[b], r.dir) - r.price) : b \in Followed(r)})
    /\ "soft_stop" \in r.events <=> \E b \in Followed(r) : HitsSoft(r, market[b])
    /\ r.path = "target_then_reversal" <=>
         r.first = "take_profit" /\ \E b \in Followed(r) : b > r.firstAt /\ HitsHard(r, market[b])

\* "A touched target or stop is neither deleted nor overwritten": a verdict, an event and a
\* completed row stay what they are.
VerdictStands ==
  [][\A i \in DOMAIN rows :
       /\ rows[i].first # "none" => <<rows'[i].first, rows'[i].firstAt>> = <<rows[i].first, rows[i].firstAt>>
       /\ rows[i].events \subseteq rows'[i].events
       /\ rows[i].status = "completed" => rows'[i] = rows[i]]_<<market, cached, rows>>
=============================================================================
