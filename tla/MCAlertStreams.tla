--------------------------- MODULE MCAlertStreams ---------------------------
(***************************************************************************)
(* Instances of AlertStreams: a spot/futures path, with and without a mark    *)
(* price, whose books are confirmed over REST; and a path that moves between  *)
(* the books of one shard.                                                    *)
(***************************************************************************)
EXTENDS AlertStreams, TLC

CONSTANTS spot, future, extra, p1, w1, w2, spread, basis

Interchangeable == Permutations(Workers) \cup Permutations(Metrics)

BookRoute(long, short) == [long |-> long, short |-> short, mark |-> {}, threshold |-> 1]

OnePerShard == [f \in {"bn_spot", "bn_future"} |-> 1]
OneStrategy == [p \in {p1} |-> "spot_futures"]

\* Binance spot, whose books carry no exchange time, against the future.
BookKeys == {spot, future}
BookFeedOf == (spot :> "bn_spot") @@ (future :> "bn_future")
BookRoutes == [p \in {p1} |-> {BookRoute(spot, future)}]

\* The same; or with the mark price read off the future's own quote: it never
\* disagrees with that side, so the two books diverge whenever they are apart.
SplitRoutes ==
  [p \in {p1} |-> {[long |-> spot, short |-> future, mark |-> m, threshold |-> 1] : m \in {{}, {future}}}]

\* Three books that fit one shard, and one path that discovery may move from the
\* first two of them to the last two.
SharedKeys == {spot, future, extra}
SharedFeedOf == [k \in SharedKeys |-> "bybit"]
ThreePerShard == [f \in {"bybit"} |-> 3]
MovingRoute == [p \in {p1} |-> {BookRoute(spot, future), BookRoute(future, extra)}]
=============================================================================
