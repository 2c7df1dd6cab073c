------------------------------- MODULE Candles -------------------------------
(***************************************************************************)
(* The five-minute candles of one symbol and the table that caches them       *)
(* (sync_trade_validation_candles). Time is counted in buckets: `market`      *)
(* holds the closed ones, the next is still forming. A request that fails     *)
(* writes nothing, so the table always holds a prefix of the market; only a   *)
(* symbol that has stopped trading has buckets without a candle.              *)
(***************************************************************************)
EXTENDS Integers, SequencesExt

CONSTANTS Shapes,       \* the candles the market may form: low, close and high
          MayHalt,      \* whether the symbol may stop trading
          Buckets       \* bound: buckets that close

ASSUME CandleAssumption ==
  /\ \A c \in Shapes : /\ {c.low, c.close, c.high} \subseteq Int
                        /\ c.low <= c.close /\ c.close <= c.high
  /\ Buckets \in Nat /\ MayHalt \in BOOLEAN

VARIABLES market,       \* the candle of each closed bucket, or None
          cached        \* closed buckets the table has seen

candleVars == <<market, cached>>

None == <<>>
Forming == Len(market) + 1
Traded(b) == market[b] # None
Least(S) == CHOOSE x \in S : \A y \in S : x <= y
Greatest(S) == CHOOSE x \in S : \A y \in S : x >= y

CandleInit == market = <<>> /\ cached = 0

\* A bucket closes.
CloseBucket ==
  /\ Len(market) < Buckets
  /\ \E c \in Shapes \cup (IF MayHalt THEN {None} ELSE {}) :
       /\ market # <<>> /\ Last(market) = None => c = None
       /\ market' = Append(market, c)
  /\ cached' = cached

\* The traded buckets of S the table has after n of them closed.
Tabled(S, n) == {b \in S : b \in 1 .. n /\ Traded(b)}

\* In direction d: how far a candle goes, and how far against it.
Best(c, d) == IF d = 1 THEN c.high ELSE c.low
Worst(c, d) == IF d = 1 THEN c.low ELSE c.high
Reaches(c, d, level) == d * (Best(c, d) - level) >= 0
Falls(c, d, level) == d * (Worst(c, d) - level) <= 0
==============================================================================
