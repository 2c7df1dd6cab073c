----------------------------- MODULE TradePlans -----------------------------
(***************************************************************************)
(* The trade validations of one automatic symbol (app.py): a page request     *)
(* replays every planned or open plan on the cached candles, commits, and     *)
(* then cancels, renews or creates the automatic plan; a detail request       *)
(* replays one plan. Both rewrite the row with what the replay found. The     *)
(* requests of one process are taken one at a time. A signal is any direction *)
(* whose entry lies just beyond the extremes of the latest half hour; stop    *)
(* and targets lie at fixed distances from the entry.                         *)
(***************************************************************************)
EXTENDS Candles

CONSTANTS Directions,   \* of signals: subset of {-1, 1}
          Seeded,       \* whether the table begins with the plan of an older scheme
          Risk, Target1, Target2,       \* distances of stop and targets from the entry
          HalfHour,     \* 6: buckets of the extremes an entry must exceed
          Window,       \* TRADE_VALIDATION_CHART_SECONDS: what a replay looks at
          Momentum,     \* 12: buckets until a plan must have reached a target
          MaxHold,      \* max_hold_minutes of automatic plans
          Cooldown,     \* 6: buckets between a closed plan and the next
          ReverseAge, RepriceAge, DriftAge, ExpireAge,   \* 3, 9, 12, 48
          Drift, FarAway, Reprice,      \* distances that invalidate a waiting plan
          MaxPlans      \* bound: plans the model has

ASSUME TradeAssumption ==
  /\ Directions \subseteq {-1, 1} /\ Seeded \in BOOLEAN
  /\ {Risk, Target1, Target2, Momentum, MaxHold, Window} \subseteq Nat
  /\ 0 < Risk /\ 0 < Target1 /\ Target1 < Target2 /\ MaxHold <= Window /\ HalfHour \in Nat \ {0}

VARIABLE plans          \* table trade_validation, in the order of creation

tradeVars == <<plans>>

NewPlan(dir, entry, short) ==
  [dir |-> dir, entry |-> entry, short |-> short, created |-> Forming, status |-> "planned",
   opened |-> 0, closed |-> 0, exit |-> 0, reason |-> "none",
   seen |-> 0, whole |-> TRUE]   \* history: the latest replay, and whether it reached back to
                                 \* the plan's creation

\* seed_trade_validation, and the automatic plans.
TradeInit == plans \in {<<>>} \cup (IF Seeded THEN {<<NewPlan(1, 1, FALSE)>>} ELSE {})

Active(p) == p.status \in {"planned", "open"}
Stop(p) == p.entry - p.dir * Risk
TakeProfit1(p) == p.entry + p.dir * Target1
TakeProfit2(p) == p.entry + p.dir * Target2

-----------------------------------------------------------------------------
\* replay_validation_plan. A plan that was opened is replayed from the bucket before
\* that; the opening of an older scheme may lie before the plan's creation.
ReplayFrom(p) == IF p.opened # 0 /\ p.opened >= p.created THEN p.opened - 1 ELSE p.created

Enters(p, c) == p.dir * (c.close - p.entry) >= 0
ProtectedStop(p, tp1) == IF p.short /\ tp1 THEN p.entry ELSE Stop(p)
Fails(p, c) == p.dir * (c.close - p.entry) <= 0

Exit(r, b, price, reason) ==
  [r EXCEPT !.status = "closed", !.closed = b, !.exit = price, !.reason = reason]

\* A replay that would judge the candle of the entry as well.
JudgesEntry(p, r, b) ==
  LET c == market[b] IN
  IF r.status = "closed" THEN r
  ELSE IF Falls(c, p.dir, Stop(p)) /\ (r.status = "open" \/ Enters(p, c)) THEN Exit(r, b, Stop(p), "stop")
  ELSE IF r.status = "planned" /\ Enters(p, c) THEN [r EXCEPT !.status = "open", !.opened = b] ELSE r

\* One candle: the entry is confirmed by a close and that candle judged no further; of
\* what one candle reaches the stop comes first.
Step(p, r, b) ==
  LET c    == market[b]
      stop == ProtectedStop(p, r.tp1)
      tp1  == r.tp1 \/ Reaches(c, p.dir, TakeProfit1(p))
  IN CASE r.status = "closed" -> r
       [] r.status = "planned" -> IF Enters(p, c) THEN [r EXCEPT !.status = "open", !.opened = b]
                                                  ELSE r
       [] r.status = "open" /\ Falls(c, p.dir, stop) ->
            Exit(r, b, stop, IF p.short /\ r.tp1 THEN "breakeven_after_tp1" ELSE "stop")
       [] r.status = "open" /\ ~ Falls(c, p.dir, stop) /\ Reaches(c, p.dir, TakeProfit2(p)) ->
            Exit(r, b, TakeProfit2(p), "take_profit")
       [] OTHER ->
            IF p.short /\ b - r.opened >= Momentum /\ ~ tp1 /\ Fails(p, c)
            THEN Exit(r, b, c.close, "momentum_failed")
            ELSE IF p.short /\ b - r.opened >= MaxHold THEN Exit(r, b, c.close, "time_exit")
            ELSE [r EXCEPT !.tp1 = tp1]

Unfilled == [status |-> "planned", opened |-> 0, closed |-> 0, exit |-> 0, reason |-> "none",
             tp1 |-> FALSE]

Visible(n) == {b \in 1 .. n : b >= Forming - Window}

\* refresh_validation_plan: without candles an open plan is still held against the latest
\* price known.
RefreshedPlan(p, price) ==
  IF p.status # "open" THEN p
  ELSE IF p.dir * (price - Stop(p)) <= 0 THEN Exit(p, Forming, price, "stop")
  ELSE IF p.dir * (price - TakeProfit2(p)) >= 0 THEN Exit(p, Forming, price, "take_profit")
  ELSE p

HasPrice(n) == \E b \in 1 .. n : Traded(b)
LatestPrice(n) == market[Greatest({b \in 1 .. n : Traded(b)})].close

Shown(n) == Tabled(Visible(n), n)
Story(p, n) ==
  LET told[b \in 0 .. n] ==
        IF b = 0 THEN Unfilled
        ELSE IF b \in Shown(n) /\ b >= ReplayFrom(p) THEN Step(p, told[b - 1], b) ELSE told[b - 1]
  IN told[n]
ReachesBack(p) == Forming - Window <= p.created
Replayed(p, n) ==
  LET r == Story(p, n)
  IN IF Shown(n) = {}
     THEN [(IF HasPrice(n) THEN RefreshedPlan(p, LatestPrice(n)) ELSE p) EXCEPT !.whole = ReachesBack(p)]
     ELSE [p EXCEPT !.status = r.status, !.opened = r.opened, !.closed = r.closed,
                    !.exit = r.exit, !.reason = r.reason,
                    !.seen = n, !.whole = ReachesBack(p)]

-----------------------------------------------------------------------------
\* validation_signal_plan: nothing, or a plan whose entry the last half hour never saw.
Signals ==
  LET T == Tabled(DOMAIN market, Len(market))
      B == {b \in T : Cardinality({a \in T : a > b}) < HalfHour}
  IN {None} \cup (IF B = {} THEN {}
                  ELSE {NewPlan(d, IF d = 1 THEN Greatest({market[b].high : b \in B}) + 1
                                           ELSE Least({market[b].low : b \in B}) - 1, TRUE) :
                        d \in Directions})

\* planned_validation_cancel_reason.
CancelReason(p, signal) ==
  LET age  == Forming - p.created
      away == IF HasPrice(Len(market)) THEN p.dir * (p.entry - LatestPrice(Len(market))) ELSE 0
  IN IF age >= ReverseAge /\ signal # None /\ signal.dir # p.dir THEN "signal_reversed"
     ELSE IF away >= FarAway THEN "entry_out_of_range"
     ELSE IF age >= DriftAge /\ away >= Drift THEN "entry_drifted"
     ELSE IF age >= RepriceAge /\ signal # None /\ signal.dir = p.dir
             /\ (signal.entry - p.entry >= Reprice \/ p.entry - signal.entry >= Reprice)
          THEN "structure_repriced"
     ELSE IF age >= ExpireAge THEN "plan_expired" ELSE "none"

CoolingDown(ps) ==
  LET ended == {ps[i].closed : i \in {j \in DOMAIN ps : ps[j].status = "closed"}}
  IN ended # {} /\ Forming - Greatest(ended) < Cooldown

\* ensure_trade_validation_auto_plans on the plans a page has replayed: what it may make
\* of them. A symbol without candles has no metrics and so no signal.
EnsuredPlans(ps) ==
  LET active == {i \in DOMAIN ps : Active(ps[i])}
      i      == Least(active)
      made(s) == IF s = None THEN <<>> ELSE <<s>>
  IN IF active = {}
     THEN {ps \o made(s) : s \in Signals}
     ELSE IF ps[i].status = "open" THEN {ps}
     ELSE {LET reason == CancelReason(ps[i], s)
           IN IF reason = "none" THEN ps
              ELSE [ps EXCEPT ![i].status = "cancelled", ![i].closed = Forming,
                              ![i].exit = 0, ![i].reason = reason] \o made(s) : s \in Signals}

\* GET /api/trade-validation. Replaying and ensuring are two transactions: when the
\* exchange fails in between, only the first is kept.
SomeActive(ps) == \E i \in DOMAIN ps : Active(ps[i])
TradePage ==
  LET replayed == [i \in DOMAIN plans |-> IF Active(plans[i]) THEN Replayed(plans[i], Len(market))
                                                           ELSE plans[i]]
  IN /\ \/ /\ plans' = replayed
           /\ cached' = IF SomeActive(plans) THEN Len(market) ELSE cached
        \/ /\ SomeActive(replayed) \/ ~ CoolingDown(replayed)
           /\ plans' \in {ps \in EnsuredPlans(replayed) : Len(ps) <= MaxPlans}
           /\ cached' = Len(market)
     /\ market' = market

\* GET /api/trade-validation/<id>/detail: ended plans are replayed as well, on what the
\* table has.
TradeDetail ==
  /\ \E i \in DOMAIN plans :
       LET n == IF Active(plans[i]) THEN Len(market) ELSE cached
       IN /\ plans[i].status # "cancelled"
          /\ plans' = [plans EXCEPT ![i] = Replayed(@, n)]
          /\ cached' = n
  /\ market' = market

TradeNext == TradePage \/ TradeDetail
TradeSpec == /\ CandleInit /\ TradeInit
             /\ [][TradeNext \/ (CloseBucket /\ UNCHANGED tradeVars)]_<<candleVars, tradeVars>>

-----------------------------------------------------------------------------
\* What a plan's candles say, at once: it is entered by the first close beyond the entry
\* since its creation; the first later candle that reaches the stop, which is the entry
\* once a target was reached before, or the second target, or that ends a stale or too
\* long trade, closes it.
Prior(p, o, b) == \E a \in (o + 1) .. (b - 1) : Traded(a) /\ Reaches(market[a], p.dir, TakeProfit1(p))
Stopped(p, o, b) == Falls(market[b], p.dir, IF p.short /\ Prior(p, o, b) THEN p.entry ELSE Stop(p))
Won(p, b) == Reaches(market[b], p.dir, TakeProfit2(p))
Stale(p, o, b) == /\ p.short /\ b - o >= Momentum /\ ~ Prior(p, o, b + 1) /\ Fails(p, market[b])
Overlong(p, o, b) == p.short /\ b - o >= MaxHold
Ends(p, o, b) == Stopped(p, o, b) \/ Won(p, b) \/ Stale(p, o, b) \/ Overlong(p, o, b)

Outcome(p, o, b) ==
  CASE Stopped(p, o, b) -> IF p.short /\ Prior(p, o, b) THEN <<p.entry, "breakeven_after_tp1">>
                                                        ELSE <<Stop(p), "stop">>
    [] ~ Stopped(p, o, b) /\ Won(p, b) -> <<TakeProfit2(p), "take_profit">>
    [] ~ Stopped(p, o, b) /\ ~ Won(p, b) /\ Stale(p, o, b) -> <<market[b].close, "momentum_failed">>
    [] OTHER -> <<market[b].close, "time_exit">>

Verdict(p) ==
  LET C  == {b \in p.created .. p.seen : Traded(b)}
      In == {b \in C : Enters(p, market[b])}
      o  == Least(In)
      X  == {b \in C : b > o /\ Ends(p, o, b)}
  IN IF In = {} THEN <<"planned", 0, 0, 0, "none">>
     ELSE IF X = {} THEN <<"open", o, 0, 0, "none">>
     ELSE <<"closed", o, Least(X)>> \o Outcome(p, o, Least(X))

\* "Replay in the order of the candles": whenever and however often a signal's plan was
\* looked at, it is what its candles say since its creation, no older candle entered it,
\* and no visit replaced its story by another, as long as the chart reaches back to it.
PlanIsItsCandles ==
  \A i \in DOMAIN plans :
    LET p == plans[i] IN
    p.short /\ p.status # "cancelled" /\ p.seen # 0 /\ p.whole =>
      <<p.status, p.opened, p.closed, p.exit, p.reason>> = Verdict(p)

\* The docstring of replay_validation_plan: no false story of a stop followed by a target.
\* A closed plan stays the way it closed.
StopIsFinal ==
  [][\A i \in DOMAIN plans : plans[i].status = "closed" =>
       <<plans'[i].status, plans'[i].closed, plans'[i].reason>> =
       <<plans[i].status, plans[i].closed, plans[i].reason>>]_<<market, cached, plans>>
=============================================================================
