----------------------------- MODULE ShardPlan -----------------------------
(***************************************************************************)
(* What AlertStreamHub.reconcile promises about the shards it leaves       *)
(* behind: every subscribed key in exactly one shard of its own feed, no    *)
(* shard above its limit, and nothing restarted that need not be.  A shard  *)
(* is the set of keys one PublicWorker subscribes; the order of its         *)
(* `symbols` tuple only changes when its set does (retained symbols keep    *)
(* their order, additions go to the end), so the set is all that decides    *)
(* whether a worker is replaced.                                            *)
(***************************************************************************)
EXTENDS Integers, FiniteSets

CONSTANTS Keys,        \* (feed, raw exchange symbol) pairs
          FeedOf,      \* FeedOf[k]: the feed a key belongs to
          ShardSize    \* ShardSize[f]: 40 symbols for bitget, 100 elsewhere

ASSUME ShardSizeAssumption ==
         \A k \in Keys : /\ FeedOf[k] \in DOMAIN ShardSize
                         /\ ShardSize[FeedOf[k]] \in Nat \ {0}

OneFeed(s) == \A k, l \in s : FeedOf[k] = FeedOf[l]

Limit(s) == ShardSize[FeedOf[CHOOSE k \in s : TRUE]]

IsSharding(shards, wanted) ==
  /\ UNION shards = wanted
  /\ \A s \in shards : s # {} /\ OneFeed(s) /\ Cardinality(s) <= Limit(s)
  /\ \A s, t \in shards : s # t => s \cap t = {}

\* Shards of `new` that carry nothing over from `old`.
Added(old, new) == {t \in new : \A s \in old : s \cap t = {}}

\* What is still wanted of a shard stays in one shard, two shards are never
\* merged, a shard is opened only when the kept ones of its feed are full, and
\* of those opened together at most one is not.
IsPlan(old, new, wanted) ==
  /\ IsSharding(new, wanted)
  /\ \A s \in old : s \cap wanted # {} => \E t \in new : s \cap wanted \subseteq t
  /\ \A t \in new : Cardinality({s \in old : s \cap t # {}}) <= 1
  /\ \A t \in Added(old, new) : \A u \in new \ {t} :
        OneFeed(t \cup u) => \/ Cardinality(u) = Limit(u)
                             \/ u \in Added(old, new) /\ Cardinality(t) = Limit(t)
=============================================================================
