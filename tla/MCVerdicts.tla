------------------------------ MODULE MCVerdicts ------------------------------
(* TLC instance: the three kinds of verdict, each alone with the candles. *)
EXTENDS TradePlans, TrendHorizons, PushReviews

CONSTANT Subjects            \* those whose behaviours are explored
VARIABLE subject

vars == <<candleVars, tradeVars, horizonVars, pushVars, subject>>

Candle(l, c, h) == [low |-> l, close |-> c, high |-> h]
\* Bound: the candles and the buckets each subject sees.
Kinds == [plans    |-> {Candle(0, 0, 0), Candle(0, 1, 1), Candle(1, 1, 2), Candle(1, 2, 3)},
          horizons |-> {Candle(0, 0, 0), Candle(0, 1, 1), Candle(0, 0, 2), Candle(-2, -1, 0), Candle(-2, 0, 2)},
          reviews  |-> {Candle(0, 0, 0), Candle(0, 1, 2), Candle(-2, -1, 0), Candle(-2, 0, 2)}]
Length == [plans |-> 5, horizons |-> 4, reviews |-> 4]
All == UNION {Kinds[s] : s \in Subjects}

Both == {-1, 1}
Expiry == [h \in Horizons |-> IF h = "short" THEN 1 ELSE 3]
Middle == [h \in Horizons |-> IF h = "short" THEN 1 ELSE 2]
Apart == [target |-> 2, soft |-> 1, hard |-> 2, near |-> 1]

Init == CandleInit /\ TradeInit /\ HorizonInit /\ PushInit /\ subject \in Subjects

Time == CloseBucket /\ Len(market') <= Length[subject] /\ Last(market') \in Kinds[subject] \cup {None}

Next == /\ \/ Time /\ UNCHANGED <<tradeVars, horizonVars, pushVars>>
           \/ subject = "plans" /\ TradeNext /\ UNCHANGED <<horizonVars, pushVars>>
           \/ subject = "horizons" /\ HorizonNext /\ UNCHANGED <<tradeVars, pushVars>>
           \/ subject = "reviews" /\ PushNext /\ UNCHANGED <<tradeVars, horizonVars>>
        /\ subject' = subject

Spec == Init /\ [][Next]_vars
===============================================================================
