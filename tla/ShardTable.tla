----------------------------- MODULE ShardTable -----------------------------
(***************************************************************************)
(* The plan AlertStreamHub.reconcile computes for one feed (feeds do not     *)
(* share shards): hub.workers as a table from shard number to the tuple of   *)
(* symbols its worker subscribes, and the universe discovery asks for.       *)
(***************************************************************************)
EXTENDS ShardPlan, SequencesExt

CONSTANT Feed       \* the one feed all Keys belong to, here numbers: their order
                    \* is the alphabetical order of the symbols

ASSUME FeedAssumption == /\ Keys \subseteq Nat /\ IsFiniteSet(Keys)
                         /\ \A k \in Keys : FeedOf[k] = Feed
                         /\ ShardSize[Feed] \in Nat \ {0}

VARIABLES shards,   \* shard number -> symbols, in the order they were added
          wanted    \* by_key of this feed when reconcile last ran

size == ShardSize[Feed]
Sorted(S) == [n \in 1 .. Cardinality(S) |->
                CHOOSE x \in S : Cardinality({y \in S : y < x}) = n - 1]
\* What is still wanted of a tuple, in its order.
Still(symbols, S) ==
  LET at == Sorted({n \in DOMAIN symbols : symbols[n] \in S})
  IN [m \in DOMAIN at |-> symbols[at[m]]]
Slice(symbols, from, n) == SubSeq(symbols, from + 1, Min({from + n, Len(symbols)}))

\* What established shards keep: a shard with nothing left is dropped.
Retained(S) == [i \in {j \in DOMAIN shards : Still(shards[j], S) # <<>>} |-> Still(shards[i], S)]

\* The additions, in order, go to the free places of the kept shards, lowest number first:
\* each takes those after the free places of the shards before it.
Places(kept, I) == Cardinality({p \in I \X (1 .. size) : p[2] > Len(kept[p[1]])})
PlacesBefore(kept, i) == Places(kept, {j \in DOMAIN kept : j < i})
NotFilled(kept, additions) == [table |-> kept, left |-> additions]
Filled(kept, additions) ==
  [table |-> [i \in DOMAIN kept |->
                kept[i] \o Slice(additions, PlacesBefore(kept, i), size - Len(kept[i]))],
   left  |-> Slice(additions, Places(kept, DOMAIN kept), Len(additions))]

\* Whatever is left opens shards of `size` under the lowest unused numbers.
Opened(table, left) ==
  LET opened == [n \in {m \in DOMAIN left : (m - 1) * size < Len(left)} |->
                   Slice(left, (n - 1) * size, size)]
      unused == Sorted((0 .. (Cardinality(Keys) + Cardinality(DOMAIN table))) \ DOMAIN table)
  IN [i \in DOMAIN table \cup {unused[n] : n \in DOMAIN opened} |->
        IF i \in DOMAIN table THEN table[i]
        ELSE opened[CHOOSE n \in DOMAIN opened : unused[n] = i]]

DesiredAfresh(S) == Opened(<<>>, Sorted(S))
Desired(S) ==
  LET kept   == Retained(S)
      filled == Filled(kept, Sorted(S \ UNION {ToSet(kept[i]) : i \in DOMAIN kept}))
  IN Opened(filled.table, filled.left)

TableInit == shards = <<>> /\ wanted = {}

reconcile == \E S \in SUBSET Keys : wanted' = S /\ shards' = Desired(S)

TableNext == reconcile

TableSpec == TableInit /\ [][TableNext]_<<shards, wanted>>

-----------------------------------------------------------------------------
Sets(table) == {ToSet(table[i]) : i \in DOMAIN table}

\* Every step of the table is a step the plan allows: AlertStreams, which takes
\* any such plan, covers what the code does.
TableFollowsPlan == [][IsPlan(Sets(shards), Sets(shards'), wanted')]_<<shards, wanted>>

\* A worker is restarted only when its shard really changes: one that loses and
\* gains no symbol keeps its number and its tuple, whatever is listed elsewhere.
UntouchedShardsStay ==
  [][\A i \in DOMAIN shards :
       (\E j \in DOMAIN shards' : ToSet(shards'[j]) = ToSet(shards[i]))
         => i \in DOMAIN shards' /\ shards'[i] = shards[i]]_<<shards, wanted>>

\* The table follows the plan with the fewest restarts.
ShardsFollow == TableFollowsPlan /\ UntouchedShardsStay
=============================================================================
