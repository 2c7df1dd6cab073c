---------------------------- MODULE AlertHistory ----------------------------
(***************************************************************************)
(* alert_history_index.AlertHistoryIndex, the process's projection of the     *)
(* committed alert rows, and the session hooks of app.py that invalidate it.  *)
(* One application session writes, with a savepoint; a second process writes  *)
(* unseen; readers refresh the projection one at a time with queries that may *)
(* fail. A row is the version of its content; what is screened out of it and  *)
(* the payload projected from it are functions of that version.               *)
(***************************************************************************)
EXTENDS Integers, Sequences, FiniteSetsExt

CONSTANTS Events,       \* ids of alert_event rows
          CreatedAt,    \* [Events -> time], created_at: may be ahead of the clock
          Window,       \* the rolling day a request asks for
          DirtyLimit,   \* ids remembered before a full reload (10000)
          MaxNow,       \* bound: the end of time
          MaxWrites,    \* bound: committed changes of rows
          MaxFaults     \* bound: failing reads and schema events

ASSUME IndexAssumption == /\ CreatedAt \in [Events -> Nat] /\ Window \in Nat
                          /\ DirtyLimit \in Nat /\ MaxNow \in Nat /\ MaxWrites \in Nat
                          /\ MaxFaults \in Nat

VARIABLES now,
          log,        \* committed history of a row: for each version, whether it exists
          session,    \* the uncommitted transaction and session.info
          hook,       \* a committed transaction whose after_commit hook has yet to run
          index,      \* the fields of AlertHistoryIndex
          reader,     \* the locals of the snapshot() in progress, or None
          published,  \* history: version of each row its hook has announced
          answer,     \* what the latest snapshot() returned
          faults

db == <<now, log>>
vars == <<db, session, hook, index, reader, published, answer, faults>>

None == <<>>
Version(e) == Len(log[e])
Exists(e) == log[e] # <<>> /\ log[e][Len(log[e])]
Bigger(a, b) == IF a < b THEN b ELSE a

NoSession == [outer |-> {}, inner |-> {}, nested |-> FALSE, changes |-> {}, reset |-> FALSE]

Init == /\ now = 0 /\ log = [e \in Events |-> <<>>] /\ session = NoSession /\ hook = None
        /\ index = [generation |-> 0, full |-> TRUE, dirty |-> {}, rows |-> <<>>,
                    revisions |-> <<>>, lastNow |-> -1]
        /\ reader = None /\ published = [e \in Events |-> 0]
        /\ answer = [rows |-> <<>>, at |-> -1, floor |-> [e \in Events |-> 0],
                    seen |-> [e \in Events |-> 0]]
        /\ faults = 0

-----------------------------------------------------------------------------
\* A transaction writes rows: inserts, changes or deletes them (each row once).
Written == session.outer \cup session.inner
Versions == FoldSet(LAMBDA e, n : n + Len(log[e]), 0, Events)
Writable(e) == e \notin {w[1] : w \in Written} /\ Versions + Cardinality(Written) < MaxWrites
Changes(e) == {<<e, TRUE>>} \cup (IF Exists(e) THEN {<<e, FALSE>>} ELSE {})
Add(s, W) == IF s.nested THEN [s EXCEPT !.inner = @ \cup W] ELSE [s EXCEPT !.outer = @ \cup W]

\* collect_alert_history_changes after a flush.
Flush == \E e \in Events : \E w \in Changes(e) :
           /\ Writable(e) /\ hook = None
           /\ session' = [Add(session, {w}) EXCEPT !.changes = @ \cup {e}]
           /\ UNCHANGED <<db, hook, index, reader, published, answer, faults>>

\* A bulk UPDATE or DELETE names no rows: invalidate_bulk_alert_history_changes.
Bulk == \E e \in Events : \E w \in Changes(e) :
          /\ Writable(e) /\ hook = None /\ Exists(e)
          /\ session' = [Add(session, {w}) EXCEPT !.reset = TRUE]
          /\ UNCHANGED <<db, hook, index, reader, published, answer, faults>>

Savepoint == /\ Written # {} /\ ~ session.nested
             /\ session' = [session EXCEPT !.nested = TRUE]
             /\ UNCHANGED <<db, hook, index, reader, published, answer, faults>>

\* A released savepoint is not durable: nothing is announced.
Release == /\ session.nested
           /\ session' = [session EXCEPT !.nested = FALSE, !.inner = {}, !.outer = Written]
           /\ UNCHANGED <<db, hook, index, reader, published, answer, faults>>

\* rollback_alert_history_changes: the queued ids are gone, those of the outer
\* transaction too, so its commit is to rebuild everything.
LostQueue == [session EXCEPT !.changes = {}]
Forgotten == [session EXCEPT !.changes = {}, !.reset = TRUE]
RollbackNested == /\ session.nested
                  /\ session' = [Forgotten EXCEPT !.nested = FALSE, !.inner = {}]
                  /\ UNCHANGED <<db, hook, index, reader, published, answer, faults>>
Rollback == /\ Written # {} /\ ~ session.nested /\ session' = NoSession
            /\ UNCHANGED <<db, hook, index, reader, published, answer, faults>>

Apply(W) == log' = [e \in Events |-> IF \E w \in W : w[1] = e
                                     THEN Append(log[e], (CHOOSE w \in W : w[1] = e)[2])
                                     ELSE log[e]]

\* The database commits; the hook runs after it.
Commit == /\ session.outer # {} /\ ~ session.nested /\ hook = None
          /\ Apply(session.outer) /\ session' = NoSession
          /\ hook' = [changes |-> session.changes, reset |-> session.reset,
                      rows |-> [e \in {w[1] : w \in session.outer} |-> Version(e) + 1]]
          /\ UNCHANGED <<now, index, reader, published, answer, faults>>

Reset(i) == [i EXCEPT !.generation = @ + 1, !.full = TRUE, !.dirty = {}]
Invalidate(i, ids) ==
  IF i.full THEN i
  ELSE IF Cardinality(i.dirty \cup ids) > DirtyLimit THEN [i EXCEPT !.full = TRUE, !.dirty = {}]
  ELSE [i EXCEPT !.dirty = @ \cup ids]

\* publish_alert_history_changes.
Publish == /\ hook # None /\ hook' = None
           /\ index' = Invalidate(IF hook.reset THEN Reset(index) ELSE index, hook.changes)
           /\ published' = [e \in Events |-> IF e \in DOMAIN hook.rows THEN hook.rows[e] ELSE published[e]]
           /\ UNCHANGED <<db, session, reader, answer, faults>>

\* Another process commits; and a table is created or dropped here.
Elsewhere == \E e \in Events : \E w \in Changes(e) :
               /\ Writable(e)
               /\ Apply({w})
               /\ UNCHANGED <<now, session, hook, index, reader, published, answer, faults>>
SchemaEvent == /\ faults < MaxFaults /\ faults' = faults + 1 /\ index' = Reset(index)
               /\ UNCHANGED <<db, session, hook, reader, published, answer>>

-----------------------------------------------------------------------------
Visible(e, at) == at - Window <= CreatedAt[e] /\ CreatedAt[e] <= at
Selected(E, at) == {e \in E : Exists(e) /\ Visible(e, at)}

\* snapshot(): the request read its clock before it got read_lock. The refresh takes
\* what is dirty; an older clock than the last one's rebuilds.
Begin ==
  /\ reader = None
  /\ \E at \in {now - 1, now} : at >= 0 /\
       reader' = [at |-> at, phase |-> "taken", generation |-> index.generation,
                  full |-> index.full \/ index.lastNow = -1 \/ at < index.lastNow,
                  dirty |-> index.dirty, loaded |-> <<>>, audited |-> FALSE, revisions |-> <<>>,
                  floor |-> published, seen |-> published]
  /\ index' = [index EXCEPT !.full = FALSE, !.dirty = {}]
  /\ UNCHANGED <<db, session, hook, published, answer, faults>>

\* Once a minute, all revisions of the window: what differs is dirty as well.
OnlyAdded(known, found) == DOMAIN found \ DOMAIN known
Stale(known, found) ==
  {e \in DOMAIN found : e \notin DOMAIN known \/ known[e] # found[e]}
  \cup (DOMAIN known \ DOMAIN found)
Audit ==
  LET revisions == [e \in Selected(Events, reader.at) |-> Version(e)]
  IN /\ reader # None /\ reader.phase = "taken" /\ ~ reader.full
     /\ reader' = [reader EXCEPT !.phase = "audited", !.audited = TRUE, !.revisions = revisions,
                                 !.dirty = @ \cup Stale(index.revisions, revisions),
                                 !.seen = [e \in Events |-> Version(e)]]
     /\ UNCHANGED <<db, session, hook, index, published, answer, faults>>

\* load(): everything, or the dirty rows by id ...
VersionsOf(E) == [e \in E |-> Version(e)]
Over(f, g) == [e \in DOMAIN f \cup DOMAIN g |-> IF e \in DOMAIN g THEN g[e] ELSE f[e]]
Load ==
  /\ reader # None /\ reader.phase \in {"taken", "audited"}
  /\ reader' = [reader EXCEPT
       !.phase = IF reader.full THEN "loaded" ELSE "by id",
       !.loaded = VersionsOf(Selected(IF reader.full THEN Events ELSE reader.dirty, reader.at)),
       !.seen = IF reader.full THEN [e \in Events |-> Version(e)] ELSE @]
  /\ UNCHANGED <<db, session, hook, index, published, answer, faults>>
\* ... and then those the clock has reached since the last refresh.
Reached == {e \in Selected(Events, reader.at) : CreatedAt[e] > index.lastNow}
LoadReached ==
  /\ reader # None /\ reader.phase = "by id"
  /\ reader' = [reader EXCEPT !.phase = "loaded", !.loaded = Over(@, VersionsOf(Reached))]
  /\ UNCHANGED <<db, session, hook, index, published, answer, faults>>

\* The refreshed projection; a reset since the refresh began forbids it.
Without(f, E) == [e \in DOMAIN f \ E |-> f[e]]
OnlyVisible(f, at) == [e \in {x \in DOMAIN f : Visible(x, at)} |-> f[e]]
Merge(f) == IF reader.full THEN reader.loaded ELSE Over(Without(f, reader.dirty), reader.loaded)
SameGeneration == index.generation = reader.generation

Finish ==
  /\ reader # None /\ reader.phase = "loaded" /\ SameGeneration
  /\ LET rows == OnlyVisible(Merge(index.rows), reader.at)
         expired == DOMAIN Merge(index.rows) \ DOMAIN rows
     IN /\ index' = [index EXCEPT !.rows = rows, !.lastNow = reader.at,
                       !.revisions = IF reader.audited THEN reader.revisions
                                     ELSE Without(Merge(index.revisions), expired)]
        /\ answer' = [rows |-> rows, at |-> reader.at, floor |-> reader.floor, seen |-> reader.seen]
  /\ reader' = None
  /\ UNCHANGED <<db, session, hook, published, faults>>

\* A failed read gives back what it took, on top of what came in meanwhile.
LostTaken(i, r) == i
GivenBack(i, r) == [i EXCEPT !.full = @ \/ r.full, !.dirty = @ \cup r.dirty]
Fail ==
  /\ reader # None /\ faults < MaxFaults /\ faults' = faults + 1
  /\ index' = GivenBack(index, reader) /\ reader' = None
  /\ UNCHANGED <<db, session, hook, published, answer>>
Overtaken ==
  /\ reader # None /\ reader.phase = "loaded" /\ ~ SameGeneration
  /\ index' = [GivenBack(index, reader) EXCEPT !.full = TRUE] /\ reader' = None
  /\ UNCHANGED <<db, session, hook, published, answer, faults>>

Tick == /\ now < MaxNow /\ now' = now + 1
        /\ UNCHANGED <<log, session, hook, index, reader, published, answer, faults>>

Write == Flush \/ Bulk \/ Savepoint \/ Release \/ RollbackNested \/ Rollback \/ Commit \/ Publish
Read == Begin \/ Audit \/ Load \/ LoadReached \/ Finish \/ Fail \/ Overtaken
Next == Write \/ Read \/ Elsewhere \/ SchemaEvent \/ Tick
Spec == Init /\ [][Next]_vars

-----------------------------------------------------------------------------
\* The answer shows, of every row in its window, a content the row had after everything
\* announced before the request began. A committed alert is not lost or shown in an older
\* version, whatever failed, was rolled back or raced.
Shows(a, e, v) == IF v > 0 /\ log[e][v] THEN e \in DOMAIN a.rows /\ a.rows[e] = v
                                        ELSE e \notin DOMAIN a.rows
ShowsSince(e, from) == Visible(e, answer.at) => \E v \in from[e] .. Version(e) : Shows(answer, e, v)
AnswerIsFresh == \A e \in Events : ShowsSince(e, answer.floor)

\* "Database revision audits catch other writers": an answer that audited, or rebuilt
\* everything, misses nothing that was committed before that query, of the rows that
\* were never deleted.
NeverDeleted(e) == \A v \in DOMAIN log[e] : log[e][v]
AuditCatchesOthers == \A e \in Events : NeverDeleted(e) => ShowsSince(e, answer.seen)

\* What is announced but not in the projection is remembered: full, dirty, or taken by
\* the reader. No interleaving of hooks and refreshes forgets a change.
Remembered(e) == \/ index.full \/ e \in index.dirty
                 \/ reader # None /\ (reader.full \/ e \in reader.dirty)
NothingForgotten ==
  \A e \in Events :
     /\ Visible(e, index.lastNow) /\ index.lastNow >= 0
     /\ published[e] > (IF e \in DOMAIN index.rows THEN index.rows[e] ELSE 0)
     /\ \A v \in published[e] .. Version(e) : log[e][v]
     => Remembered(e)

\* No change that was announced is forgotten on its way to an answer, and none that an
\* audit could see is.
AnswersAreWhole == AnswerIsFresh /\ AuditCatchesOthers /\ NothingForgotten
=============================================================================
