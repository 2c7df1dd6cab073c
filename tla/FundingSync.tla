----------------------------- MODULE FundingSync -----------------------------
(***************************************************************************)
(* The collector of one exchange's settled funding (funding_history.py and    *)
(* run_funding_sync_batch of app.py): a batch plans which contracts to ask    *)
(* for, reads their history page by page, commits it and notes in a checkpoint *)
(* what has been audited. A settlement is published at its time or later.     *)
(* Rates, names of one contract and the two seconds of grace are left out.    *)
(***************************************************************************)
EXTENDS Integers, FiniteSets

CONSTANTS Contracts,        \* 1 .. n, numbered as their names sort
          Period,           \* the settlement interval
          RefreshEvery, AuditEvery, CleanEvery, \* 900 s, a day, an hour
          Lately, Window, SummedOf,  \* 2, 31 and 30 days
          LongestPause,     \* 300 s
          AnswerSize, Pages,  \* rows per answer, answers per history
          AtOnce,           \* contracts per batch
          FirstTime, LastTime, \* bounds
          MaxFailures, MaxCrashes

ASSUME FundingAssumption ==
  /\ Contracts \subseteq Nat /\ {Period, Window, AnswerSize, Pages, AtOnce} \subseteq Nat \ {0}
  /\ {Lately, SummedOf, LongestPause, FirstTime, LastTime} \subseteq Nat
  /\ SummedOf < Window /\ Lately < SummedOf /\ AuditEvery <= FirstTime /\ FirstTime <= LastTime

VARIABLES t,
          published,   \* per contract, the settlements its exchange serves
          stored,      \* per contract, the rows of the table
          states,      \* FundingSyncSchedule.states
          checkpoint,  \* the file it is saved to
          batch,       \* the running batch: latest, fetches
          cleanedAt,   \* schedule.last_cleanup
          failed, crashed

fundingVars == <<t, published, stored, states, checkpoint, batch, cleanedAt, failed, crashed>>

\* vouch: history, what had been published when the audit noted in `full` began.
NeverSynced == [attempt |-> 0, success |-> 0, full |-> 0, retry |-> 0, failures |-> 0,
                missing |-> 0, expected |-> -1, vouch |-> {}]
NoBatch == [began |-> 0, latest |-> [k \in {} |-> 0], fetches |-> [k \in {} |-> 0]]
Settlements(now) == {s \in 1 .. now : s % Period = 0}
Largest(S, least) == CHOOSE s \in S \cup {least} : \A u \in S \cup {least} : u <= s
Smallest(S, most) == CHOOSE s \in S \cup {most} : \A u \in S \cup {most} : u >= s

FundingInit ==
  /\ t = FirstTime /\ published \in [Contracts -> SUBSET Settlements(FirstTime)]
  /\ stored = [k \in Contracts |-> {}] /\ states = [k \in Contracts |-> NeverSynced]
  /\ checkpoint = states /\ batch = NoBatch /\ cleanedAt = 0 /\ failed = 0 /\ crashed = 0

-----------------------------------------------------------------------------
\* The schedule: what is missing first, then new histories, then whatever was not asked
\* for of late; and one slot for a daily audit.
Expected(now) == (now \div Period) * Period
Latest(k) == Largest(stored[k], 0)
Missing(k) == Latest(k) < Expected(t)
New(k, s) == s.full = 0 /\ Smallest(stored[k], t) > t - SummedOf
Pausing(s) == s.retry > t /\ s.expected = Expected(t)
Hot(k, s) == Missing(k) \/ New(k, s) \/ t - s.success >= RefreshEvery
Due(s) == t - s.full >= AuditEvery

Below(a, b) == \E i \in DOMAIN a : a[i] < b[i] /\ \A j \in 1 .. i - 1 : a[j] = b[j]
FirstOf(K, Rank(_)) == CHOOSE k \in K : \A j \in K \ {k} : Below(Rank(k), Rank(j))
LastOf(K, Rank(_)) == CHOOSE k \in K : \A j \in K \ {k} : Below(Rank(j), Rank(k))

Urgency(k, s) == IF Missing(k) THEN 0 ELSE IF New(k, s) THEN 1 ELSE 2
Askable(S) == {k \in DOMAIN S : ~ Pausing(S[k])}
DueIn(S) == {k \in Askable(S) : Due(S[k])}
PlanOf(S) ==
  LET ByUrgency(k) == <<Urgency(k, S[k]), S[k].attempt, k>>
      ByAudit(k) == <<S[k].full, S[k].attempt, k>>
      hot == {k \in Askable(S) : Hot(k, S[k])}
      chosen == {k \in hot : Cardinality({j \in hot : Below(ByUrgency(j), ByUrgency(k))}) < AtOnce}
      rest == DueIn(S) \ chosen
      audited == CASE DueIn(S) = {} -> {}
                   [] rest # {} -> {FirstOf(rest, ByAudit)}
                   [] OTHER -> {LastOf(chosen, ByUrgency)}
  IN [k \in chosen \cup audited |-> k \in audited \/ New(k, S[k])]

\* funding_sync_catalog: the contracts of the latest snapshots, which may miss some, or
\* all, for a while; the states of those it misses go.
Catalogues == SUBSET Contracts
Plan ==
  /\ batch = NoBatch
  /\ \E listed \in Catalogues :
       /\ states' = [k \in Contracts |-> IF k \in listed THEN states[k] ELSE NeverSynced]
       /\ batch' = [began |-> t, latest |-> [k \in listed |-> Latest(k)],
                    fetches |-> [k \in DOMAIN PlanOf([j \in listed |-> states[j]]) |->
                      [full |-> PlanOf([j \in listed |-> states[j]])[k], at |-> "queued",
                       end |-> 0, cursor |-> 0, pages |-> 0, got |-> {}, basis |-> {}]]]
  /\ UNCHANGED <<t, published, stored, checkpoint, cleanedAt, failed, crashed>>

-----------------------------------------------------------------------------
\* FundingHistoryClient.fetch: pages from the newest back, until one is short or reaches
\* the start of the period.
Fetch(k) == batch.fetches[k]
Since(f) == f.end - (IF f.full THEN Window ELSE Lately)
AnyPage(f, page) == TRUE
PageSuffices(f, page) == Cardinality(page) < AnswerSize \/ Smallest(page, f.end) <= Since(f)
Asked(k) == IF Fetch(k).at = "queued"
            THEN [Fetch(k) EXCEPT !.at = "asking", !.end = t, !.cursor = t + 1, !.basis = published[k]]
            ELSE Fetch(k)
PageOf(k, f) == LET older == {s \in published[k] : s < f.cursor}
                IN {s \in older : Cardinality({u \in older : u > s}) < AnswerSize}
Ask(k) ==
  LET f == Asked(k)
      page == PageOf(k, f)
      read == [f EXCEPT !.pages = @ + 1, !.got = @ \cup {s \in page : s >= Since(f)},
                        !.cursor = Smallest(page, f.end)]
  IN /\ Fetch(k).at \in {"queued", "asking"}
     /\ batch' = [batch EXCEPT !.fetches[k] =
                    [read EXCEPT !.at = IF PageSuffices(f, page) THEN "read"
                                       ELSE IF read.pages < Pages THEN "asking" ELSE "out_of_pages"]]
     /\ UNCHANGED <<t, published, stored, states, checkpoint, cleanedAt, failed, crashed>>

\* The exchange does not know the name: what was read of it is dropped, and the empty
\* history is stored and noted as any other. Such an audit vouches for nothing.
NameRefused(k) ==
  /\ Fetch(k).at \in {"queued", "asking"}
  /\ batch' = [batch EXCEPT !.fetches[k] = [Asked(k) EXCEPT !.at = "read", !.got = {}, !.basis = {}]]
  /\ UNCHANGED <<t, published, stored, states, checkpoint, cleanedAt, failed, crashed>>

WithoutFetch(k) == [batch EXCEPT !.fetches = [j \in DOMAIN @ \ {k} |-> @[j]]]
Shorter(a, b) == IF a < b THEN a ELSE b
PauseOf(n) == Shorter(LongestPause, n)

\* store_settled_funding commits what the table lacks, and the schedule notes it.
InWindow(rows) == {s \in rows : t - Window <= s /\ s <= t}
Store(k) ==
  LET f == Fetch(k)
      s == states[k]
      misses == IF Largest(f.got, batch.latest[k]) < Expected(t) THEN s.missing + 1 ELSE 0
  IN /\ f.at = "read"
     /\ stored' = [stored EXCEPT ![k] = @ \cup InWindow(f.got)]
     /\ states' = [states EXCEPT ![k] =
          [attempt |-> t, success |-> t, full |-> IF f.full THEN t ELSE s.full, failures |-> 0,
           retry |-> IF misses > 0 THEN t + PauseOf(misses) ELSE 0, missing |-> misses,
           expected |-> Expected(t), vouch |-> IF f.full THEN f.basis ELSE s.vouch]]
     /\ batch' = WithoutFetch(k)
     /\ UNCHANGED <<t, published, checkpoint, cleanedAt, failed, crashed>>

\* A request is refused, conflicts with itself or runs out of pages, or the commit fails.
RefuseFetch(k) ==
  LET s == states[k] IN
  /\ IF Fetch(k).at = "out_of_pages" THEN UNCHANGED failed
     ELSE failed < MaxFailures /\ failed' = failed + 1
  /\ states' = [states EXCEPT ![k] = [s EXCEPT !.attempt = t, !.expected = Expected(t),
                  !.failures = @ + 1, !.retry = t + PauseOf(s.failures + 1)]]
  /\ batch' = WithoutFetch(k)
  /\ UNCHANGED <<t, published, stored, checkpoint, cleanedAt, crashed>>

\* The end of the batch: old rows go once an hour; the checkpoint may fail to be written.
Finish ==
  /\ batch # NoBatch /\ DOMAIN batch.fetches = {}
  /\ IF batch.began - cleanedAt >= CleanEvery
     THEN /\ stored' = [k \in Contracts |-> {s \in stored[k] : s >= batch.began - Window}]
          /\ cleanedAt' = batch.began
     ELSE UNCHANGED <<stored, cleanedAt>>
  /\ checkpoint' \in {states, checkpoint} /\ batch' = NoBatch
  /\ UNCHANGED <<t, published, states, failed, crashed>>

\* background_binance_settlement_tail: the newest rows of all contracts together.
Pairs(f) == UNION {{<<k, s>> : s \in f[k]} : k \in Contracts}
TailBatch ==
  /\ stored' = [k \in Contracts |-> stored[k] \cup InWindow({s \in published[k] :
                  Cardinality({row \in Pairs(published) : row[2] > s}) < AnswerSize})]
  /\ UNCHANGED <<t, published, states, checkpoint, batch, cleanedAt, failed, crashed>>

Crash ==
  /\ crashed < MaxCrashes /\ crashed' = crashed + 1
  /\ states' = checkpoint /\ batch' = NoBatch /\ cleanedAt' = 0
  /\ UNCHANGED <<t, published, stored, checkpoint, failed>>

\* The exchange publishes, and time passes.
SettleRate(k, s) == /\ s \notin published[k] /\ published' = [published EXCEPT ![k] = @ \cup {s}]
                    /\ UNCHANGED <<t, stored, states, checkpoint, batch, cleanedAt, failed, crashed>>
Wait == /\ t < LastTime /\ t' = t + 1
        /\ UNCHANGED <<published, stored, states, checkpoint, batch, cleanedAt, failed, crashed>>

FundingNext ==
  \/ Plan \/ Finish \/ TailBatch \/ Crash \/ Wait
  \/ \E k \in DOMAIN batch.fetches : Ask(k) \/ NameRefused(k) \/ Store(k) \/ RefuseFetch(k)
  \/ \E k \in Contracts, s \in Settlements(t) : SettleRate(k, s)
FundingSpec == FundingInit /\ [][FundingNext]_fundingVars

-----------------------------------------------------------------------------
Kept == INSTANCE SettledFacts WITH
           Facts <- Contracts \X (1 .. LastTime), SummedFor <- SummedOf, date <- t,
           known <- Pairs(published), kept <- Pairs(stored),
           vouched <- Pairs([k \in Contracts |-> states[k].vouch])

\* The collector keeps the promise of the table: whatever pages, batches, failures, late
\* publications and restarts overlap, only published settlements are stored, none that is
\* still summed leaves, and a contract noted as fully audited, by an audit whose questions
\* were answered, misses nothing that had been published when that audit began.
AuditsAreComplete == Kept!FactsSpec
=============================================================================
