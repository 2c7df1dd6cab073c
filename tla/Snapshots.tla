------------------------------ MODULE Snapshots ------------------------------
(***************************************************************************)
(* spot_futures_snapshot and dual_futures_snapshot of app.py after their      *)
(* payloads have arrived: each of the two threads pairs symbols by the alias  *)
(* list, publishes a snapshot to the pages and saves it at times, while an     *)
(* administrator edits the aliases and the process may restart. A snapshot is *)
(* the set of its paths.                                                      *)
(***************************************************************************)
EXTENDS Integers

CONSTANTS Lanes,          \* the refresh threads
          Pruning,        \* those whose save deletes the paths it no longer has
          Markets,        \* all paths
          Aliased,        \* those that exist only by an alias
          Seeded,         \* SEEDED_SYMBOL_ALIASES
          AliasTTL,       \* 30 s
          QueryTime,      \* the longest between a consistent read and its rows' arrival
          PersistEvery,   \* MARKET_DB_PERSIST_SECONDS
          MaxClock, MaxEdits, MaxSnapshotRestarts  \* bounds

ASSUME SnapshotAssumption ==
  /\ Seeded \subseteq Aliased /\ Aliased \subseteq Markets /\ Pruning \subseteq Lanes
  /\ {AliasTTL, QueryTime, PersistEvery} \subseteq Nat \ {0}

VARIABLES clock,
          passes,      \* the running pass of each lane
          aliasTable,  \* the rows of symbol_alias
          aliasCache,  \* SYMBOL_ALIAS_CACHE
          editor,      \* how far the request that edits an alias is
          snapshots,   \* SPOT_FUTURES_CACHE and DUAL_FUTURES_CACHE
          tables,      \* the paths of the latest-snapshot tables
          lastSaved,   \* LAST_MARKET_DB_PERSIST_AT
          removedAt,   \* history: when each pairing last left the table
          goodAt,      \* history: the end of the lane's latest complete pass
          wroteAt,     \* history: its latest save
          edits, snapshotRestarts

aliasVars == <<aliasTable, aliasCache, editor, removedAt, edits>>
saved == <<tables, lastSaved, wroteAt>>
snapshotVars == <<clock, passes, aliasVars, snapshots, saved, goodAt, snapshotRestarts>>

Nothing == <<>>
Never == -1
NoneYet == [l \in Lanes |-> Never]
Cleared == [l \in Lanes |-> Nothing]
LaneIdle == [at |-> "idle"]
AllIdle == [l \in Lanes |-> LaneIdle]

SnapshotInit ==
  /\ clock = 0 /\ passes = AllIdle
  /\ aliasTable \in {A \in SUBSET Aliased : Seeded \subseteq A} /\ aliasCache = Nothing
  /\ editor = "idle" /\ snapshots = Cleared /\ tables = [l \in Lanes |-> {}]
  /\ lastSaved = NoneYet /\ removedAt = [p \in Aliased |-> Never]
  /\ goodAt = NoneYet /\ wroteAt = NoneYet /\ edits = 0 /\ snapshotRestarts = 0

Become(l, pass) == passes' = [passes EXCEPT ![l] = pass]
EndPass(l, good) == /\ Become(l, LaneIdle)
                    /\ goodAt' = IF good THEN [goodAt EXCEPT ![l] = clock] ELSE goodAt

-----------------------------------------------------------------------------
\* A pass whose payloads have arrived (without the required ones it ends and nothing
\* changes) asks symbol_alias_rows: the cached list while it is valid, or a query, whose
\* failure means the seeded list; what it gives is cached when it has arrived.
AlwaysValid == aliasCache # Nothing
AliasesValid == IF aliasCache = Nothing THEN FALSE ELSE clock < aliasCache.expires
PairFromCache(l) ==
  /\ passes[l].at = "idle" /\ AliasesValid
  /\ Become(l, [at |-> "building", rows |-> aliasCache.rows, looked |-> clock])
  /\ UNCHANGED <<clock, aliasVars, snapshots, saved, goodAt, snapshotRestarts>>

QueryAliases(l) ==
  /\ passes[l].at = "idle" /\ ~ AliasesValid
  /\ \E rows \in {aliasTable, Seeded} :
       Become(l, [at |-> "querying", asked |-> clock, rows |-> rows])
  /\ UNCHANGED <<clock, aliasVars, snapshots, saved, goodAt, snapshotRestarts>>

CacheAliases(l) ==
  /\ passes[l].at = "querying"
  /\ aliasCache' = [rows |-> passes[l].rows, expires |-> clock + AliasTTL]
  /\ Become(l, [at |-> "building", rows |-> passes[l].rows, looked |-> clock])
  /\ UNCHANGED <<clock, aliasTable, editor, removedAt, edits, snapshots, saved, goodAt, snapshotRestarts>>

-----------------------------------------------------------------------------
\* Rows are built of the paths that have quotes; alerts, trackings and ledgers are fed
\* before the snapshot is published, and may raise.
Pairable(rows) == (Markets \ Aliased) \cup rows
SaveDue(l) == lastSaved[l] = Never \/ clock - lastSaved[l] >= PersistEvery
PublishTable(l) ==
  /\ passes[l].at = "building"
  /\ \E paths \in SUBSET Pairable(passes[l].rows) :
       /\ snapshots' = [snapshots EXCEPT ![l] = [paths |-> paths, looked |-> passes[l].looked]]
       /\ IF SaveDue(l) THEN Become(l, [at |-> "saving", paths |-> paths]) /\ UNCHANGED goodAt
          ELSE EndPass(l, TRUE)
  /\ UNCHANGED <<clock, aliasVars, saved, snapshotRestarts>>

\* An exception ends the pass; the thread rolls back and comes again.
Saving(l) == lastSaved' = [lastSaved EXCEPT ![l] = clock]
Unsaved(l) == UNCHANGED lastSaved
Raise(l) ==
  /\ passes[l].at \in {"building", "saving"} /\ EndPass(l, FALSE) /\ Unsaved(l)
  /\ UNCHANGED <<clock, aliasVars, snapshots, tables, wroteAt, snapshotRestarts>>

\* save_latest_market_snapshot and save_latest_dual_futures_snapshot, one transaction;
\* the time of the save is kept only when it has been committed.
Remaining(l, paths) == IF l \in Pruning THEN paths ELSE paths \cup tables[l]
Save(l) ==
  /\ passes[l].at = "saving" /\ EndPass(l, TRUE) /\ Saving(l)
  /\ tables' = [tables EXCEPT ![l] = Remaining(l, passes[l].paths)]
  /\ wroteAt' = [wroteAt EXCEPT ![l] = clock]
  /\ UNCHANGED <<clock, aliasVars, snapshots, snapshotRestarts>>

-----------------------------------------------------------------------------
\* create_symbol_alias and delete_symbol_alias: commit, invalidate, clear both snapshots.
Add(p) == p \notin aliasTable /\ aliasTable' = aliasTable \cup {p} /\ UNCHANGED removedAt
Delete(p) == /\ p \in aliasTable \ Seeded /\ aliasTable' = aliasTable \ {p}
             /\ removedAt' = [removedAt EXCEPT ![p] = clock]
EditAlias ==
  /\ editor = "idle" /\ edits < MaxEdits /\ edits' = edits + 1 /\ editor' = "committed"
  /\ \E p \in Aliased : Add(p) \/ Delete(p)
  /\ UNCHANGED <<clock, passes, aliasCache, snapshots, saved, goodAt, snapshotRestarts>>
Invalidate ==
  /\ editor = "committed" /\ editor' = "invalidated" /\ aliasCache' = Nothing
  /\ UNCHANGED <<clock, passes, aliasTable, removedAt, edits, snapshots, saved, goodAt, snapshotRestarts>>
ClearSnapshots ==
  /\ editor = "invalidated" /\ editor' = "idle" /\ snapshots' = Cleared
  /\ UNCHANGED <<clock, passes, aliasTable, aliasCache, removedAt, edits, saved, goodAt, snapshotRestarts>>

\* The process ends and begins again: the tables stay.
SnapshotRestart ==
  /\ snapshotRestarts < MaxSnapshotRestarts /\ snapshotRestarts' = snapshotRestarts + 1
  /\ passes' = AllIdle /\ aliasCache' = Nothing /\ editor' = "idle" /\ snapshots' = Cleared
  /\ lastSaved' = NoneYet /\ goodAt' = NoneYet
  /\ UNCHANGED <<clock, aliasTable, removedAt, edits, tables, wroteAt>>

\* No query outlives the timeout of its connection.
Overdue(l) == IF passes[l].at = "querying" THEN clock >= passes[l].asked + QueryTime ELSE FALSE
Elapsed == /\ clock < MaxClock /\ (\A l \in Lanes : ~ Overdue(l)) /\ clock' = clock + 1
           /\ UNCHANGED <<passes, aliasVars, snapshots, saved, goodAt, snapshotRestarts>>

SnapshotNext ==
  \/ \E l \in Lanes : \/ PairFromCache(l) \/ QueryAliases(l) \/ CacheAliases(l)
                      \/ PublishTable(l) \/ Raise(l) \/ Save(l)
  \/ EditAlias \/ Invalidate \/ ClearSnapshots \/ SnapshotRestart \/ Elapsed
SnapshotSpec == SnapshotInit /\ [][SnapshotNext]_snapshotVars

-----------------------------------------------------------------------------
\* While passes complete, the saved snapshot is not older than the interval of saves,
\* whatever saves failed before and however often the process restarted: a save that
\* failed is tried again by the next pass.
TableKeepsUp ==
  \A l \in Lanes : goodAt[l] # Never =>
    wroteAt[l] # Never /\ goodAt[l] - wroteAt[l] < PersistEvery

\* A pairing leaves the snapshots some time after it leaves the table: whatever reads
\* race with the edit and its invalidation, no pass pairs by an alias removed longer
\* ago than the list is cached and a query may take.
AliasesExpire ==
  \A l \in Lanes : snapshots[l] # Nothing =>
    \A p \in snapshots[l].paths \cap Aliased :
      \/ p \in aliasTable
      \/ /\ removedAt[p] # Never
         /\ snapshots[l].looked < removedAt[p] + AliasTTL + QueryTime

\* Neither what is saved nor how it is paired is left behind by failed saves, restarts
\* and edits that race with a pass.
SnapshotsKeepUp == TableKeepsUp /\ AliasesExpire
=============================================================================
