----------------------------- MODULE PulseStore -----------------------------
(***************************************************************************)
(* How the evidence of pulses becomes durable. The stream threads replace the *)
(* evidence queued in hub.pending; the single writer background_alert_pulses  *)
(* takes a batch, commits it with the reminder bounds in one transaction, and *)
(* acknowledges what it took. A commit may fail or may succeed unheard, the   *)
(* process may die anywhere; only `stored` and `scopes` survive that.         *)
(***************************************************************************)
EXTENDS PulseLife, Reminders, FiniteSets

CONSTANTS Limit,        \* pulses in one batch (500)
          Checkpoint,   \* PULSE_CHECKPOINT_SECONDS
          Watermarks,   \* persisted_checkpoints kept (20000)
          MaxFailures,  \* bound: failing writes
          MayCrash      \* bound: whether the process may die (once)

ASSUME StoreAssumption == /\ IsFiniteSet(Pulses)
                          /\ Limit \in Nat \ {0} /\ Watermarks \in Nat \ {0}
                          /\ Checkpoint \in Nat /\ Window \in Nat
                          /\ MaxFailures \in Nat /\ MayCrash \in BOOLEAN

VARIABLES pending,     \* hub.pending: queued evidence, in the dict's order
          checkpoints, \* hub.persisted_checkpoints, in the dict's order
          writer,      \* what background_alert_pulses is doing
          taken,       \* its batch
          stored,      \* table alert_pulse: evidence with the notices granted
          scopes,      \* table alert_reminder_state
          failures,
          lost,        \* history: the pulses of processes that died
          passed       \* history: batches taken past a due pulse since its last turn

storeVars == <<pending, checkpoints, writer, taken, stored, scopes>>
vars == <<now, life, held, storeVars, failures, lost, passed>>

Ids(s) == {e.id : e \in ToSet(s)}
Of(s, p) == s[CHOOSE i \in DOMAIN s : s[i].id = p]
Others(s, P) == Only(s, {e \in ToSet(s) : e.id \notin P})

Init == /\ LifeInit
        /\ pending = <<>> /\ checkpoints = <<>> /\ writer = "idle" /\ taken = <<>>
        /\ stored = <<>> /\ scopes = [s \in Scopes |-> EmptyScope]
        /\ failures = 0 /\ lost = {} /\ passed = [p \in Pulses |-> 0]

-----------------------------------------------------------------------------
\* The evidence a step changed. Assigning to an existing key of a dict keeps its place; new
\* keys go last, the pulse that ends before the one that replaces it.
Changed == {p \in DOMAIN life' : p \notin DOMAIN life \/ life'[p] # life[p]}
Queued == LET added == Changed \ Ids(pending)
          IN [i \in DOMAIN pending |-> IF pending[i].id \in Changed THEN life'[pending[i].id] ELSE pending[i]]
             \o [i \in 1 .. Cardinality(added) |->
                   life'[(SetToSeq(added \cap DOMAIN life) \o SetToSeq(added \ DOMAIN life))[i]]]

\* One tick or one reset of the detector, under the hub's lock.
Observe == /\ Observation /\ pending' = Queued
           /\ UNCHANGED <<now, checkpoints, writer, taken, stored, scopes,
                          failures, lost, passed>>

-----------------------------------------------------------------------------
Watermark(e) == [id |-> e.id, at |-> now, state |-> e.state, notice |-> e.notice,
                 ended |-> e.ended, peak |-> e.peak]

DueByAgeOrPeak(e) ==
  e.id \in Ids(checkpoints) =>
    LET mark == Of(checkpoints, e.id)
    IN now - mark.at >= Checkpoint \/ Abs(e.peak - mark.peak) >= 2
WriteDue(e) ==
  \/ e.id \notin Ids(checkpoints)
  \/ LET mark == Of(checkpoints, e.id)
     IN \/ now - mark.at >= Checkpoint
        \/ <<mark.state, mark.notice, mark.ended>> # <<e.state, e.notice, e.ended>>
        \/ Abs(e.peak - mark.peak) >= 2

\* The first due pulses, which then queue up behind all the others.
Due == Only(pending, {e \in ToSet(pending) : WriteDue(e)})
BatchOf(due) == SubSeq(due, 1, IF Len(due) < Limit THEN Len(due) ELSE Limit)
RequeuedInPlace(queue, chosen) == queue
Requeued(queue, chosen) == Others(queue, Ids(chosen)) \o chosen

Take ==
  /\ writer = "idle" /\ Due # <<>>
  /\ writer' = "writing" /\ taken' = BatchOf(Due)
  /\ pending' = Requeued(pending, BatchOf(Due))
  /\ passed' = [p \in Pulses |-> IF p \in Ids(BatchOf(Due)) \/ p \notin Ids(Due) THEN 0
                                 ELSE passed[p] + 1]
  /\ UNCHANGED <<lifeVars, checkpoints, stored, scopes, failures, lost>>

\* persist_alert_pulses: the batch in the order of its peaks, one transaction.
Rank(s) == [i \in DOMAIN s |->
              Cardinality({j \in DOMAIN s :
                 \/ s[j].peakAt < s[i].peakAt
                 \/ s[j].peakAt = s[i].peakAt /\ s[j].triggeredAt < s[i].triggeredAt
                 \/ /\ s[j].peakAt = s[i].peakAt /\ s[j].triggeredAt = s[i].triggeredAt
                    /\ j <= i})]
InPeakOrder(s) == [n \in DOMAIN s |-> s[CHOOSE i \in DOMAIN s : Rank(s)[i] = n]]

OnlyLatest(e, notices) ==
  [evidence |-> e, notices |-> IF notices = <<>> THEN <<>> ELSE <<notices[Len(notices)]>>]
Evidenced(e, notices) == [evidence |-> e, notices |-> notices]

Written(db, e) ==
  LET known    == e.id \in DOMAIN db.stored
      previous == IF known THEN db.stored[e.id].evidence ELSE <<>>
      notices  == IF known THEN db.stored[e.id].notices ELSE <<>>
      s        == ScopeOf[e.id]
      shown    == Admit(s, db.scopes[s], notices, e, previous)
  IN IF known /\ e.version <= previous.version THEN db
     ELSE [stored |-> [p \in DOMAIN db.stored \cup {e.id} |->
                         IF p = e.id THEN Evidenced(e, shown.notices) ELSE db.stored[p]],
           scopes |-> [db.scopes EXCEPT ![s] = shown.scope]]

\* The tables after the first n of the batch.
After[n \in 0 .. Len(taken)] ==
  IF n = 0 THEN [stored |-> stored, scopes |-> scopes]
  ELSE Written(After[n - 1], InPeakOrder(taken)[n])
Committed == After[Len(taken)]

CommitApart ==
  /\ writer = "writing" /\ scopes' = Committed.scopes
  /\ \/ writer' = "committed" /\ stored' = Committed.stored /\ UNCHANGED <<taken, failures>>
     \/ /\ failures < MaxFailures /\ failures' = failures + 1
        /\ writer' = "idle" /\ taken' = <<>> /\ UNCHANGED stored
  /\ UNCHANGED <<lifeVars, pending, checkpoints, lost, passed>>
Commit ==
  /\ writer = "writing" /\ writer' = "committed"
  /\ stored' = Committed.stored /\ scopes' = Committed.scopes
  /\ UNCHANGED <<lifeVars, pending, checkpoints, taken, failures, lost, passed>>

\* The transaction fails, or commits but the caller gets an error: the batch is
\* dropped without an acknowledgement and what is queued is tried again.
Fail ==
  /\ writer \in {"writing", "committed"} /\ failures < MaxFailures
  /\ failures' = failures + 1 /\ writer' = "idle" /\ taken' = <<>>
  /\ UNCHANGED <<lifeVars, pending, checkpoints, stored, scopes, lost, passed>>

\* hub.acknowledge: what was queued meanwhile stays queued.
Superseded(e) == e.id \in Ids(pending) /\ Of(pending, e.id).version # e.version
WatermarkOfQueued(e) == Watermark(IF e.id \in Ids(pending) THEN Of(pending, e.id) ELSE e)
Marked(e) == Watermark(e)
AckedAll(batch) == Ids(batch)
Acked(batch) == {p \in Ids(batch) : ~ Superseded(Of(batch, p))}

Acknowledge ==
  /\ writer = "committed" /\ writer' = "idle" /\ taken' = <<>>
  /\ LET marks == Others(checkpoints, Ids(taken)) \o [i \in DOMAIN taken |-> Marked(taken[i])]
         excess == IF Len(marks) > Watermarks THEN Len(marks) - Watermarks ELSE 0
     IN checkpoints' = SubSeq(marks, excess + 1, Len(marks))
  /\ pending' = Others(pending, Acked(taken))
  /\ UNCHANGED <<lifeVars, stored, scopes, failures, lost, passed>>

\* The process dies and starts again: its memory is gone, pulses in flight with it.
Crash ==
  /\ MayCrash /\ life # <<>> /\ lost = {} /\ lost' = DOMAIN life
  /\ held' = {} /\ pending' = <<>> /\ checkpoints' = <<>>
  /\ writer' = "idle" /\ taken' = <<>> /\ passed' = [p \in Pulses |-> 0]
  /\ UNCHANGED <<now, life, stored, scopes, failures>>

Time == Tick /\ UNCHANGED <<life, held, storeVars, failures, lost, passed>>

Next == Observe \/ Take \/ Commit \/ Fail \/ Acknowledge \/ Crash \/ Time
Spec == Init /\ [][Next]_vars
\* The writer's loop always comes round; a database that fails forever is excluded
\* by the bound on failures.
StoreFairness == WF_vars(Take) /\ WF_vars(Commit) /\ WF_vars(Acknowledge)
FairSpec == Spec /\ StoreFairness

-----------------------------------------------------------------------------
StoredVersion(p) == IF p \in DOMAIN stored THEN stored[p].evidence.version ELSE 0

\* "Pending observations retained": whatever the database does not have yet is queued
\* in its newest version, through failing commits, lost answers, and acknowledgements
\* of a batch that was overtaken while it was written. Only a death of the process
\* loses it.
UnsavedIsQueued ==
  \A p \in DOMAIN life \ lost :
     \/ StoredVersion(p) = life[p].version
     \/ p \in Ids(pending) /\ Of(pending, p) = life[p]

\* What a crash can lose is small: evidence that is queued but not due differs from the
\* durable evidence by no stage, no notice, no end and less than a fifth of a point.
NotDueIsCovered ==
  \A e \in ToSet(pending) : ~ WriteDue(e) =>
     /\ e.id \in DOMAIN stored
     /\ LET old == stored[e.id].evidence
        IN /\ <<old.state, old.notice, old.ended>> = <<e.state, e.notice, e.ended>>
           /\ Abs(e.peak - old.peak) < 2

\* "A busy first batch must not starve later pulses": a due pulse is passed over at most
\* once for each batch the other pulses fill.
NobodyStarves == \A p \in Pulses : passed[p] * Limit <= Cardinality(Pulses) - 1

\* The notices granted in a scope, over all its pulses.
Granted(s) == UNION {{<<p, i>> : i \in DOMAIN stored[p].notices} :
                       p \in {q \in DOMAIN stored : ScopeOf[q] = s}}
NoticeAt(g) == stored[g[1]].notices[g[2]]

\* The two tables agree: a notice young enough to count is a level its scope knows, and
\* a level the scope knows is a notice or the baseline of one. A retry, a restart or a
\* failure between the two writes would break it.
BoundsMatchNotices ==
  \A s \in Scopes :
     LET levels == {<<p.at, p.value>> : p \in ToSet(scopes[s].points)}
         told   == {<<NoticeAt(g).at, NoticeAt(g).value>> : g \in Granted(s)}
     IN /\ \A t \in told : scopes[s].last - Window <= t[1] => t \in levels
        /\ \A l \in levels : \/ l \in told
                              \/ \E t \in told : t[1] = l[1]

\* Nobody is told the same level twice: a notice is a breakthrough step beyond every
\* notice of its direction the scope still counts, those of other pulses included.
\* Elapsing time, a new stage, a retry, a late batch and a restart of the pulse or of the
\* process bring none by themselves.
NoRepeatedReminder ==
  [][\A s \in Scopes : \A new \in Granted(s)' \ Granted(s), old \in Granted(s) :
       LET a == NoticeAt(old)
           b == NoticeAt(new)'
       IN a.dir = b.dir /\ scopes'[s].last - Window <= a.at => a.dir * (b.value - a.value) >= 2]_vars

\* Durable evidence never goes back: no older version, no notice withdrawn or changed,
\* no ended pulse alive again.
EvidenceOnlyGrows ==
  [][\A p \in DOMAIN stored :
       /\ p \in DOMAIN stored'
       /\ stored[p].evidence.version <= stored'[p].evidence.version
       /\ stored[p].evidence.ended => stored'[p].evidence = stored[p].evidence
       /\ IsPrefix(stored[p].notices, stored'[p].notices)]_vars

\* A stage, a notice or an end bypasses the batching: it becomes durable, unless the
\* process dies first.
Settled(p) == \/ p \notin DOMAIN life \/ p \in lost
              \/ /\ p \in DOMAIN stored
                 /\ LET old == stored[p].evidence
                    IN <<old.state, old.notice, old.ended>> =
                       <<life[p].state, life[p].notice, life[p].ended>>
TransitionsBecomeDurable == \A p \in Pulses : []<>Settled(p)

\* What is told and what is kept agree at any moment a process may die: in the queue, in
\* the evidence that is not yet due and between the two tables.
NothingIsLost == UnsavedIsQueued /\ NotDueIsCovered /\ BoundsMatchNotices

\* No step takes back or repeats what was stored and told.
NothingIsTakenBack == EvidenceOnlyGrows /\ NoRepeatedReminder
=============================================================================
