------------------------------- MODULE Cohorts -------------------------------
(***************************************************************************)
(* opportunity_validation.ValidationLedger: a path's score is frozen once and *)
(* followed over fixed horizons, then a new cohort may begin. Market threads  *)
(* observe; the history thread restores, expires, funds, enrolls and persists *)
(* in turn. Observations of different paths do not interact: a call with many *)
(* quotes is here many calls with one. Values, costs and sizes are left out.  *)
(***************************************************************************)
EXTENDS Integers, FiniteSetsExt

CONSTANTS Routes,            \* the paths: strategy, symbol, long and short exchange
          Spans,             \* HORIZONS
          Share,             \* [Spans -> time]: 80 % of each
          Grace, Adjacent, MaxHole,      \* GRACE, and the gaps of 20 s and 300 s
          FundingDelay, FundingWait,     \* 120 s, 3600 s
          Flush,             \* ordinary progress is written every 300 s
          ActiveLimit, RecordLimit,      \* limit, max_records
          LastMoment, MaxBreaks          \* bounds: time; failures and deaths

ASSUME CohortAssumption ==
  /\ Spans \subseteq Nat \ {0} /\ Spans # {} /\ IsFiniteSet(Spans) /\ Share \in [Spans -> Nat]
  /\ {Grace, Adjacent, MaxHole, FundingDelay, FundingWait, Flush, ActiveLimit, RecordLimit,
      LastMoment, MaxBreaks} \subseteq Nat
  /\ Adjacent <= MaxHole

VARIABLES moment,
          open,       \* ValidationLedger.ready
          active,     \* .active: the record of each path
          total,      \* .total
          flushed,    \* .last_flush
          saving,     \* persist()'s copies by path, or None
          recorded,     \* and whether they are committed
          cohorts,    \* table cohorts, by id: the path and the moment it was entered
          outcomes,   \* table outcomes, by id and horizon
          researched, \* when funding was last asked for
          watched,    \* history: when each path was really observed
          breaks

memory == <<open, active, total, flushed>>
tables == <<cohorts, outcomes>>
cohortVars == <<moment, memory, saving, recorded, tables, researched, watched, breaks>>

Nothing == <<>>                           \* None
IdOf(p) == <<p, active[p].entered>>

CohortInit ==
  /\ moment = 0 /\ open = FALSE /\ active = <<>> /\ total = 0 /\ flushed = 0 - Flush
  /\ saving = Nothing /\ recorded = FALSE /\ cohorts = <<>> /\ outcomes = <<>>
  /\ researched = -1 /\ watched = [p \in Routes |-> {}] /\ breaks = 0

-----------------------------------------------------------------------------
\* What is in a dict or table after an update.
Atop(f, g) == [x \in DOMAIN f \cup DOMAIN g |-> IF x \in DOMAIN f THEN f[x] ELSE g[x]]
Progress(r) == [last |-> r.last, covered |-> r.covered, hole |-> r.hole, results |-> r.results]
AllFinal(r) == \A h \in DOMAIN r.results : r.results[h].final
Finished(r) == DOMAIN r.results = Spans /\ \A h \in Spans : r.results[h].final

\* ValidationLedger.enroll of one candidate. The id is a hash of path and time, which is
\* finer than a moment: no two cohorts have the same.
Enroll(p) ==
  /\ open /\ saving = Nothing
  /\ p \notin DOMAIN active /\ <<p, moment>> \notin DOMAIN cohorts
  /\ Cardinality(DOMAIN active) < ActiveLimit /\ total < RecordLimit
  /\ active' = Atop([q \in {p} |-> [entered |-> moment, last |-> moment,
                                    covered |-> [h \in Spans |-> 0], hole |-> [h \in Spans |-> 0],
                                    results |-> <<>>, revision |-> 1, saved |-> 0, urgent |-> 1,
                                    new |-> TRUE]], active)
  /\ total' = total + 1
  /\ UNCHANGED <<moment, open, flushed, saving, recorded, tables, researched, watched, breaks>>

\* ValidationLedger.observe of one record. `seen`: whether a quote of
\* this moment serves it; `moved`: the path's route is no longer that of its entry.
Clip(t, due) == Min({t, due})
Unfunded(r) == {h \in Spans : IF h \in DOMAIN r.results THEN ~ r.results[h].final ELSE TRUE}
UnjudgedSpans(r) == Spans \ DOMAIN r.results
Observed(r, seen, moved) ==
  LET value == seen /\ ~ moved
      fresh == value /\ moment > r.last
      due(h) == r.entered + h
      waiting == UnjudgedSpans(r)
      elapsed(h) == Max({0, Clip(moment, due(h)) - Clip(r.last, due(h))})
      near == fresh /\ moment - r.last <= Adjacent
      covered == [h \in Spans |-> r.covered[h] + (IF near /\ h \in waiting THEN elapsed(h) ELSE 0)]
      terminal(h) == value /\ due(h) <= moment /\ moment <= due(h) + Grace
      closing == {h \in waiting : terminal(h) \/ moment > due(h) + Grace \/ moved}
      hole == [h \in Spans |->
                 Max({r.hole[h]} \cup (IF fresh /\ ~ near /\ h \in waiting THEN {elapsed(h)} ELSE {})
                     \cup (IF h \in closing /\ ~ terminal(h) THEN {Clip(moment, due(h)) - r.last} ELSE {}))]
      valid(h) == terminal(h) /\ covered[h] >= Share[h] /\ hole[h] <= MaxHole
      result(h) == [status |-> IF valid(h) THEN "observed" ELSE "insufficient",
                    moved |-> moved, final |-> moved]
      judged == r.revision + Cardinality(closing)
  IN [r EXCEPT !.covered = covered, !.hole = hole,
               !.results = Atop([h \in closing |-> result(h)], @),
               !.urgent = IF closing = {} THEN @ ELSE judged,
               !.last = IF fresh THEN moment ELSE @,
               !.revision = IF fresh THEN judged + 1 ELSE judged]

ObserveRoutes(p, seen, moved) ==
  /\ open /\ p \in DOMAIN active /\ active' = [active EXCEPT ![p] = Observed(@, seen, moved)]
  /\ active' # active
  /\ watched' = [watched EXCEPT ![p] = IF seen /\ ~ moved THEN @ \cup {moment} ELSE @]
  /\ UNCHANGED <<moment, open, total, flushed, saving, recorded, tables, researched, breaks>>

\* refresh_opportunity_quality: the settled funding of the horizons that are due, complete
\* or not. Once in a moment: it runs every 120 s.
Requests == {x \in (DOMAIN active) \X Spans :
               LET r == active[x[1]]
               IN IF x[2] \in DOMAIN r.results
                  THEN ~ r.results[x[2]].final /\ moment >= r.entered + x[2] + FundingDelay ELSE FALSE}
Fund ==
  /\ open /\ saving = Nothing /\ Requests # {} /\ researched < moment /\ researched' = moment
  /\ \E complete \in SUBSET Requests :
       LET of(p) == {h \in Spans : <<p, h>> \in Requests}
           final(p, h) == <<p, h>> \in complete \/ moment - (active[p].entered + h) >= FundingWait
           rev(p) == active[p].revision + Cardinality(of(p))
       IN active' = [p \in DOMAIN active |->
                       IF of(p) = {} THEN active[p]
                       ELSE [active[p] EXCEPT
                               !.results = [h \in DOMAIN @ |-> IF h \in of(p) THEN [@[h] EXCEPT !.final = final(p, h)]
                                                                              ELSE @[h]],
                               !.revision = rev(p), !.urgent = rev(p)]]
  /\ UNCHANGED <<moment, open, total, flushed, saving, recorded, tables, watched, breaks>>

-----------------------------------------------------------------------------
\* restore: the unfinished cohorts.
ResumedNow(row) == moment
Resumed(row) == row.last
Revive(id) == [entered |-> id[2], last |-> Resumed(cohorts[id]), covered |-> cohorts[id].covered, hole |-> cohorts[id].hole,
               results |-> cohorts[id].results, revision |-> 0, saved |-> 0, urgent |-> 0, new |-> FALSE]
Unfinished == {id \in DOMAIN cohorts : ~ cohorts[id].finished}
RestoreCohorts ==
  /\ ~ open /\ open' = TRUE
  /\ \E S \in SUBSET Unfinished :
       /\ Cardinality(S) = Min({ActiveLimit, Cardinality(Unfinished)})
       /\ active' = [p \in {id[1] : id \in S} |-> Revive(CHOOSE id \in S : id[1] = p)]
  /\ total' = Cardinality(DOMAIN cohorts)
  /\ UNCHANGED <<moment, flushed, saving, recorded, tables, researched, watched, breaks>>

\* persist: new records and verdicts at once, ordinary progress with the flush.
ChangedRows(p) == LET r == active[p]
                  IN /\ r.revision # r.saved
                     /\ r.new \/ r.urgent > r.saved \/ moment - flushed >= Flush
CopyCohorts ==
  /\ open /\ saving = Nothing /\ \E p \in DOMAIN active : ChangedRows(p)
  /\ saving' = [p \in {q \in DOMAIN active : ChangedRows(q)} |-> active[p]]
  /\ UNCHANGED <<moment, memory, recorded, tables, researched, watched, breaks>>

\* INSERT OR IGNORE under two unique keys, UPDATE, and the outcomes, whose status and net
\* stay those of the first insert.
Row(r) == [finished |-> Finished(r), last |-> r.last, covered |-> r.covered, hole |-> r.hole,
           results |-> r.results]
Ignored(id, r) == ~ Finished(r) /\ \E other \in Unfinished : other[1] = id[1] /\ other # id
CommitCohorts ==
  /\ saving # Nothing /\ ~ recorded /\ recorded' = TRUE
  /\ LET idOf(p) == <<p, saving[p].entered>>
         written == {p \in DOMAIN saving : idOf(p) \in DOMAIN cohorts \/ ~ Ignored(idOf(p), saving[p])}
         known(p) == IF idOf(p) \in DOMAIN outcomes THEN outcomes[idOf(p)] ELSE <<>>
         outcome(p, h) == [status |-> IF h \in DOMAIN known(p) THEN known(p)[h].status
                                                             ELSE saving[p].results[h].status,
                           payload |-> saving[p].results[h]]
     IN /\ cohorts' = Atop([id \in {idOf(p) : p \in written} |-> Row(saving[id[1]])], cohorts)
        /\ outcomes' = Atop([id \in {idOf(p) : p \in DOMAIN saving} |->
                              Atop([h \in DOMAIN saving[id[1]].results |-> outcome(id[1], h)], known(id[1]))],
                            outcomes)
  /\ UNCHANGED <<moment, memory, saving, researched, watched, breaks>>

FailCohorts ==
  /\ saving # Nothing /\ breaks < MaxBreaks /\ breaks' = breaks + 1
  /\ saving' = Nothing /\ recorded' = FALSE
  /\ UNCHANGED <<moment, memory, tables, researched, watched>>

\* The records are saved up to the revision that was copied; a finished one leaves.
SavedAll(live, copy) == live.revision
SavedUpTo(live, copy) == copy.revision
Leaves(live, copy) == Finished(copy) /\ live.revision = copy.revision
AcknowledgeCohorts ==
  /\ saving # Nothing /\ recorded
  /\ LET left == {p \in DOMAIN saving : Leaves(active[p], saving[p])}
     IN active' = [p \in DOMAIN active \ left |->
                     IF p \in DOMAIN saving
                     THEN [active[p] EXCEPT !.saved = SavedUpTo(active[p], saving[p]), !.new = FALSE]
                     ELSE active[p]]
  /\ flushed' = IF moment - flushed >= Flush THEN moment ELSE flushed
  /\ saving' = Nothing /\ recorded' = FALSE
  /\ UNCHANGED <<moment, open, total, tables, researched, watched, breaks>>

CohortsDie ==
  /\ breaks < MaxBreaks /\ breaks' = breaks + 1
  /\ open' = FALSE /\ active' = <<>> /\ total' = 0 /\ flushed' = 0 - Flush
  /\ saving' = Nothing /\ recorded' = FALSE
  /\ UNCHANGED <<moment, tables, researched, watched>>

LaterMoment == moment < LastMoment /\ moment' = moment + 1
               /\ UNCHANGED <<memory, saving, recorded, tables, researched, watched, breaks>>

CohortNext ==
  \/ \E p \in Routes : Enroll(p)
  \/ \E p \in Routes, seen, moved \in BOOLEAN : ObserveRoutes(p, seen, moved)
  \/ Fund \/ RestoreCohorts \/ CopyCohorts \/ CommitCohorts \/ FailCohorts \/ AcknowledgeCohorts
  \/ CohortsDie \/ LaterMoment

-----------------------------------------------------------------------------
\* A result counts as observed only when the path really was: a quote at its end, enough
\* of it between adjacent quotes, and never too long without one, however many processes
\* took part. No second is counted twice and none that nobody watched.
Looked(id, h) == {id[2]} \cup {t \in watched[id[1]] : id[2] <= t /\ t <= id[2] + h + Grace}
Seen(id, h, t) == \E a, b \in Looked(id, h) : a <= t /\ t < b /\ b - a <= Adjacent
ObservedIsWatched ==
  \A id \in DOMAIN outcomes : \A h \in DOMAIN outcomes[id] :
    outcomes[id][h].status = "observed" =>
      /\ \E t \in Looked(id, h) : t >= id[2] + h
      /\ Cardinality({t \in id[2] .. (id[2] + h - 1) : Seen(id, h, t)}) >= Share[h]
      /\ \A t \in id[2] .. (id[2] + h - MaxHole - 1) : \E u \in Looked(id, h) : t < u /\ u <= t + MaxHole + 1

\* "Observe for seven days, then permit a new cohort": the cohorts of a path follow each
\* other, each judged over all its horizons before the next is entered, except when its
\* route changed.
CohortsFollow ==
  \A a, b \in DOMAIN cohorts :
    a[1] = b[1] /\ a[2] < b[2] =>
      /\ cohorts[a].finished /\ a \in DOMAIN outcomes /\ DOMAIN outcomes[a] = Spans
      /\ \A h \in Spans : b[2] >= a[2] + h \/ outcomes[a][h].payload.moved

\* What a record takes for saved is in the table, and the outcomes of every cohort in it
\* are those of its progress: no insert was ignored and no later revision acknowledged.
SavedIsStored ==
  /\ \A p \in DOMAIN active :
       ~ active[p].new /\ active[p].saved = active[p].revision =>
         IdOf(p) \in DOMAIN cohorts /\ cohorts[IdOf(p)] = Row(active[p])
  /\ \A id \in DOMAIN outcomes :
       /\ id \in DOMAIN cohorts
       /\ cohorts[id].results = [h \in DOMAIN outcomes[id] |-> outcomes[id][h].payload]
       /\ \A h \in DOMAIN outcomes[id] : outcomes[id][h].status = outcomes[id][h].payload.status

\* A verdict in the table stays: only its funding evidence may still be completed.
OutcomeStands ==
  [][\A id \in DOMAIN outcomes : \A h \in DOMAIN outcomes[id] :
       /\ outcomes'[id][h].status = outcomes[id][h].status
       /\ outcomes'[id][h].payload \in
            {[outcomes[id][h].payload EXCEPT !.final = f] : f \in {outcomes[id][h].payload.final, TRUE}}]_cohortVars

\* A result in the table was watched, saved as it stands, and final before the next cohort.
CohortsAreSound == ObservedIsWatched /\ CohortsFollow /\ SavedIsStored
=============================================================================
