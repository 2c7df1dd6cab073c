-------------------------- MODULE AlertHistory_proof --------------------------
(***************************************************************************)
(* Two tables kept up to date by difference. No change that was announced is   *)
(* forgotten by the index of alerts, and no answer shows a row as it was       *)
(* before it, for any rows, windows and clock; and the shards of a feed follow *)
(* the plan with the fewest restarts, for any symbols and limit.               *)
(***************************************************************************)
EXTENDS AlertHistory, ShardTable, FiniteSetTheorems, SequenceTheorems, NaturalsInduction,
        WellFoundedInduction, TLAPS

(* The index                                                                *)

-----------------------------------------------------------------------------

\* What tables of rows hold, and what a table tells of a row in a log: the content of some
\* version from a given one on, or that there was none.
Tables == UNION {[E -> Nat] : E \in SUBSET Events}
Logs == [Events -> Seq(BOOLEAN)]
Known(l, f) == \A e \in DOMAIN f : f[e] \in 1 .. Len(l[e])
ShownAs(l, f, e, v) == IF v > 0 /\ l[e][v] THEN e \in DOMAIN f /\ f[e] = v ELSE e \notin DOMAIN f
Fits(l, f, e, from) == \E v \in from .. Len(l[e]) : ShownAs(l, f, e, v)
Undeleted(l, e) == \A v \in DOMAIN l[e] : l[e][v]
Covers(f, revisions, e) == e \in DOMAIN revisions => e \in DOMAIN f /\ f[e] >= revisions[e]

Sessions == [outer : SUBSET (Events \X BOOLEAN), inner : SUBSET (Events \X BOOLEAN),
             nested : BOOLEAN, changes : SUBSET Events, reset : BOOLEAN]
Announcements == [changes : SUBSET Events, reset : BOOLEAN, rows : Tables]
Indexes == [generation : Nat, full : BOOLEAN, dirty : SUBSET Events, rows : Tables,
            revisions : Tables, lastNow : Nat \cup {-1}]
Refreshes == [at : Nat, phase : {"taken", "audited", "by id", "loaded"}, generation : Nat,
              full : BOOLEAN, dirty : SUBSET Events, loaded : Tables, audited : BOOLEAN,
              revisions : Tables, floor : [Events -> Nat], seen : [Events -> Nat]]
Answers == [rows : Tables, at : Nat \cup {-1}, floor : [Events -> Nat], seen : [Events -> Nat]]
TypeCorrect ==
  /\ now \in Nat /\ log \in Logs /\ published \in [Events -> Nat]
  /\ session \in Sessions /\ (hook = None \/ hook \in Announcements)
  /\ index \in Indexes /\ (reader = None \/ reader \in Refreshes) /\ answer \in Answers

\* Every change waits in the session, and then in the hook, for its announcement: by name, or
\* because everything is to be reset.
NamesOf(W) == {w[1] : w \in W}
ChangesAwaited ==
  /\ session.reset \/ NamesOf(session.outer \cup session.inner) \subseteq session.changes
  /\ hook # None => /\ hook.reset \/ DOMAIN hook.rows \subseteq hook.changes
                    /\ \A e \in DOMAIN hook.rows : hook.rows[e] <= Len(log[e])
  /\ \A e \in Events : published[e] <= Len(log[e])

\* The projection is current but for what is remembered, and names no row but of its window.
ProjectionSound ==
  /\ Known(log, index.rows) /\ \A e \in DOMAIN index.rows : Visible(e, index.lastNow)
  /\ \A e \in Events : Visible(e, index.lastNow) =>
                          Remembered(e) \/ Fits(log, index.rows, e, published[e])
\* A revision of a row that was never deleted is one the projection has, or an older one.
RevisionsCovered ==
  \A e \in Events : Undeleted(log, e) => Covers(index.rows, index.revisions, e)

\* What a refresh took is what was announced before it; what is announced since is dirty.
TakenSound ==
  /\ \A e \in Events : reader.floor[e] <= Len(log[e]) /\ reader.seen[e] <= Len(log[e])
  /\ \A e \in Events : published[e] = reader.floor[e] \/ index.full \/ e \in index.dirty
  /\ Known(log, reader.loaded)
  /\ ~ reader.full =>
       /\ index.lastNow <= reader.at
       /\ \A e \in Events \ reader.dirty :
            Visible(e, index.lastNow) => Fits(log, index.rows, e, reader.floor[e])
  /\ reader.phase = "by id" => ~ reader.full
  /\ reader.full => ~ reader.audited
\* What the refresh read of the rows it had to read is no older than what it took ...
LoadedSound ==
  /\ reader.phase \in {"by id", "loaded"} =>
       \A e \in Events : (reader.full \/ e \in reader.dirty) /\ Visible(e, reader.at) =>
          Fits(log, reader.loaded, e, reader.floor[e])
  /\ reader.phase \in {"by id", "loaded"} /\ ~ reader.full =>
       \A e \in Events \ reader.dirty :
          IF reader.phase = "by id" \/ CreatedAt[e] <= index.lastNow THEN e \notin DOMAIN reader.loaded
          ELSE Visible(e, reader.at) => Fits(log, reader.loaded, e, reader.floor[e])
  /\ reader.phase = "loaded" /\ reader.full =>
       \A e \in Events : Visible(e, reader.at) => Fits(log, reader.loaded, e, reader.seen[e])
  /\ ~ reader.full /\ ~ reader.audited => reader.seen = reader.floor
\* ... and neither is it older than what the audit saw.
AuditedRow(e) ==
  /\ Visible(e, reader.at) /\ reader.seen[e] > 0 => e \in DOMAIN reader.revisions
  /\ e \in DOMAIN reader.revisions =>
       /\ Visible(e, reader.at) /\ reader.revisions[e] = reader.seen[e] /\ reader.seen[e] > 0
       /\ e \notin reader.dirty => Covers(index.rows, reader.revisions, e)
       /\ e \in reader.dirty /\ reader.phase # "audited" => e \in DOMAIN reader.loaded
       /\ e \in DOMAIN reader.loaded /\ reader.phase # "audited" =>
            reader.loaded[e] >= reader.revisions[e]
AuditSound == reader.audited => /\ reader.phase # "taken"
                                /\ \A e \in Events : Undeleted(log, e) => AuditedRow(e)

AnswerSound ==
  \A e \in Events : Visible(e, answer.at) =>
    /\ Fits(log, answer.rows, e, answer.floor[e])
    /\ Undeleted(log, e) => Fits(log, answer.rows, e, answer.seen[e])

\* The inductive invariant.
RefreshSound == TakenSound /\ LoadedSound /\ AuditSound
IndexInv == /\ TypeCorrect /\ ChangesAwaited /\ ProjectionSound /\ RevisionsCovered
            /\ (reader # None => RefreshSound) /\ AnswerSound

-----------------------------------------------------------------------------
(* Tables and logs                                                          *)

\* A log that only has more versions than another.
Grows(l, m) == \A e \in Events : /\ Len(l[e]) <= Len(m[e])
                                 /\ \A v \in 1 .. Len(l[e]) : m[e][v] = l[e][v]
Same(f, g, e) == (e \in DOMAIN f <=> e \in DOMAIN g) /\ (e \in DOMAIN f => f[e] = g[e])

\* What a table shows it still shows when the log has grown.
LEMMA FitsGrown ==
  ASSUME NEW l \in Logs, NEW m \in Logs, Grows(l, m), NEW f, NEW e \in Events, NEW from \in Int
  PROVE  /\ Fits(l, f, e, from) => Fits(m, f, e, from)
         /\ Undeleted(m, e) => Undeleted(l, e)
         /\ Len(l[e]) \in Nat /\ Len(m[e]) \in Nat /\ Len(l[e]) <= Len(m[e])
<1>1. l[e] \in Seq(BOOLEAN) /\ m[e] \in Seq(BOOLEAN)
  BY DEF Logs
<1>2. Len(l[e]) \in Nat /\ Len(m[e]) \in Nat /\ DOMAIN l[e] = 1 .. Len(l[e]) /\ DOMAIN m[e] = 1 .. Len(m[e])
  BY <1>1
<1>3. Len(l[e]) <= Len(m[e]) /\ \A v \in 1 .. Len(l[e]) : m[e][v] = l[e][v]
  BY DEF Grows
<1>4. Undeleted(m, e) => Undeleted(l, e)
  BY <1>2, <1>3 DEF Undeleted
<1>5. ASSUME Fits(l, f, e, from) PROVE Fits(m, f, e, from)
  <2>1. PICK v \in from .. Len(l[e]) : ShownAs(l, f, e, v)
    BY <1>5 DEF Fits
  <2>2. v \in from .. Len(m[e]) /\ (v > 0 => m[e][v] = l[e][v])
    BY <1>2, <1>3
  <2>3. ShownAs(m, f, e, v)
    BY <2>1, <2>2 DEF ShownAs
  <2>4. QED BY <2>2, <2>3 DEF Fits
<1>6. QED BY <1>2, <1>3, <1>4, <1>5

\* A table that shows the latest version fits.
LEMMA FitsNow ==
  ASSUME NEW l \in Logs, NEW f, NEW e \in Events, NEW from \in Nat, from <= Len(l[e]),
         IF l[e] # <<>> /\ l[e][Len(l[e])] THEN e \in DOMAIN f /\ f[e] = Len(l[e]) ELSE e \notin DOMAIN f
  PROVE  Fits(l, f, e, from)
<1>1. l[e] \in Seq(BOOLEAN)
  BY DEF Logs
<1>2. Len(l[e]) \in Nat /\ Len(l[e]) \in from .. Len(l[e]) /\ (l[e] = <<>> <=> Len(l[e]) = 0)
  BY <1>1
<1>3. QED BY <1>2 DEF Fits, ShownAs

\* A table that agrees with one that fits, fits.
LEMMA FitsSame ==
  ASSUME NEW l, NEW f, NEW g, NEW e, NEW from, Same(f, g, e), Fits(l, f, e, from)
  PROVE  Fits(l, g, e, from)
BY DEF Fits, ShownAs, Same

\* Of a row that was never deleted, any version it has fits.
LEMMA FitsUndeleted ==
  ASSUME NEW l \in Logs, NEW f, NEW e \in Events, NEW from \in Nat, Undeleted(l, e),
         e \in DOMAIN f, f[e] \in 1 .. Len(l[e]), f[e] >= from
  PROVE  Fits(l, f, e, from)
<1>1. l[e] \in Seq(BOOLEAN)
  BY DEF Logs
<1>2. f[e] \in from .. Len(l[e]) /\ l[e][f[e]] /\ f[e] > 0
  BY <1>1 DEF Undeleted
<1>3. QED BY <1>2 DEF Fits, ShownAs

\* What is a table, and what the operators on them make.
LEMMA IsTable ==
  ASSUME NEW E \in SUBSET Events, NEW f \in [E -> Nat]
  PROVE  f \in Tables
BY DEF Tables
\* A table is a function from rows to natural numbers.
LEMMA TableIs ==
  ASSUME NEW f \in Tables
  PROVE  DOMAIN f \subseteq Events /\ f \in [DOMAIN f -> Nat]
BY DEF Tables
\* One table written over another.
LEMMA OverTable ==
  ASSUME NEW f \in Tables, NEW g \in Tables
  PROVE  /\ Over(f, g) \in Tables /\ DOMAIN Over(f, g) = DOMAIN f \cup DOMAIN g
         /\ \A e \in DOMAIN Over(f, g) : Over(f, g)[e] = IF e \in DOMAIN g THEN g[e] ELSE f[e]
<1>1. DOMAIN f \cup DOMAIN g \subseteq Events /\ Over(f, g) \in [DOMAIN f \cup DOMAIN g -> Nat]
  BY TableIs DEF Over
<1>2. QED BY <1>1, IsTable DEF Over
\* A table without some rows.
LEMMA WithoutTable ==
  ASSUME NEW f \in Tables, NEW E
  PROVE  /\ Without(f, E) \in Tables /\ DOMAIN Without(f, E) = DOMAIN f \ E
         /\ \A e \in DOMAIN f \ E : Without(f, E)[e] = f[e]
<1>1. DOMAIN f \ E \subseteq Events /\ Without(f, E) \in [DOMAIN f \ E -> Nat]
  BY TableIs DEF Without
<1>2. QED BY <1>1, IsTable DEF Without
\* The rows of a table that a window shows.
LEMMA VisibleTable ==
  ASSUME NEW f \in Tables, NEW at
  PROVE  /\ OnlyVisible(f, at) \in Tables
         /\ DOMAIN OnlyVisible(f, at) = {e \in DOMAIN f : Visible(e, at)}
         /\ \A e \in DOMAIN f : Visible(e, at) => OnlyVisible(f, at)[e] = f[e]
<1>1. {e \in DOMAIN f : Visible(e, at)} \subseteq Events
      /\ OnlyVisible(f, at) \in [{e \in DOMAIN f : Visible(e, at)} -> Nat]
  BY TableIs DEF OnlyVisible
<1>2. QED BY <1>1, IsTable DEF OnlyVisible

\* A query reads the latest version of the rows it selects.
LEMMA QueryReads ==
  ASSUME log \in Logs, NEW E \in SUBSET Events, NEW at
  PROVE  /\ VersionsOf(Selected(E, at)) \in Tables /\ Known(log, VersionsOf(Selected(E, at)))
         /\ \A e \in Events : /\ e \in DOMAIN VersionsOf(Selected(E, at)) <=>
                                   e \in E /\ log[e] # <<>> /\ log[e][Len(log[e])] /\ Visible(e, at)
                              /\ e \in DOMAIN VersionsOf(Selected(E, at)) =>
                                   VersionsOf(Selected(E, at))[e] = Len(log[e])
<1> DEFINE S == Selected(E, at)
<1>1. S \subseteq Events /\ \A e \in Events : log[e] \in Seq(BOOLEAN)
  BY DEF Selected, Logs
<1>2. VersionsOf(S) \in [S -> Nat] /\ DOMAIN VersionsOf(S) = S
  BY <1>1 DEF VersionsOf, Version
<1>3. \A e \in S : VersionsOf(S)[e] = Len(log[e]) /\ Len(log[e]) \in 1 .. Len(log[e])
  BY <1>1 DEF VersionsOf, Version, Selected, Exists
<1>4. Known(log, VersionsOf(S))
  BY <1>2, <1>3 DEF Known
<1>5. QED BY <1>1, <1>2, <1>3, <1>4, IsTable DEF Selected, Exists

-----------------------------------------------------------------------------
(* Steps of the session                                                     *)

\* A step of the session alone keeps the invariant, if what it leaves uncommitted is named in
\* its changes or is to be reset.
LEMMA SessionKeeps ==
  ASSUME IndexInv, UNCHANGED <<db, hook, index, reader, published, answer>>, session' \in Sessions,
         session'.reset \/ NamesOf(session'.outer \cup session'.inner) \subseteq session'.changes
  PROVE  IndexInv'
<1>1. TypeCorrect' /\ ChangesAwaited'
  BY DEF IndexInv, TypeCorrect, ChangesAwaited, db
<1>2. ProjectionSound' /\ RevisionsCovered' /\ AnswerSound'
  BY DEF IndexInv, ProjectionSound, RevisionsCovered, AnswerSound, Remembered, db
<1>3. (reader # None => RefreshSound)'
  BY DEF IndexInv, RefreshSound, TakenSound, LoadedSound, AuditSound, AuditedRow, db
<1>4. QED BY <1>1, <1>2, <1>3 DEF IndexInv

\* A change is of the row it names.
LEMMA ChangeIs ==
  \A e \in Events : \A w \in Changes(e) : w \in Events \X BOOLEAN /\ w[1] = e
<1>1. \A e \in Events : \A w \in Changes(e) : w = <<e, TRUE>> \/ w = <<e, FALSE>>
  BY DEF Changes
<1>2. \A e \in Events : <<e, TRUE>> \in Events \X BOOLEAN /\ <<e, FALSE>> \in Events \X BOOLEAN
  OBVIOUS
<1>3. \A e \in Events : <<e, TRUE>>[1] = e /\ <<e, FALSE>>[1] = e
  OBVIOUS
<1>4. QED BY <1>1, <1>2, <1>3

\* What a flush or a bulk statement writes is named, or everything is to be reset.
LEMMA FlushStep == IndexInv /\ (Flush \/ Bulk) => IndexInv'
<1> SUFFICES ASSUME IndexInv, Flush \/ Bulk PROVE IndexInv'
  OBVIOUS
<1>1. PICK e \in Events, w \in Events \X BOOLEAN :
        /\ w[1] = e
        /\ session' = [Add(session, {w}) EXCEPT !.changes = @ \cup {e}]
           \/ session' = [Add(session, {w}) EXCEPT !.reset = TRUE]
        /\ UNCHANGED <<db, hook, index, reader, published, answer, faults>>
  <2>2. PICK e \in Events : \E w \in Changes(e) :
           /\ session' = [Add(session, {w}) EXCEPT !.changes = @ \cup {e}]
              \/ session' = [Add(session, {w}) EXCEPT !.reset = TRUE]
           /\ UNCHANGED <<db, hook, index, reader, published, answer, faults>>
    BY DEF Flush, Bulk
  <2>3. QED BY <2>2, ChangeIs
<1>2. session \in Sessions /\ (session.reset \/ NamesOf(session.outer \cup session.inner) \subseteq session.changes)
  BY DEF IndexInv, TypeCorrect, ChangesAwaited
<1> DEFINE s == Add(session, {w})
<1>4. s \in Sessions /\ s.changes = session.changes /\ s.reset = session.reset
      /\ s.outer \cup s.inner = session.outer \cup session.inner \cup {w}
  BY <1>1, <1>2 DEF Add, Sessions
<1>5. NamesOf(s.outer \cup s.inner) = NamesOf(session.outer \cup session.inner) \cup {e}
  BY <1>1, <1>4 DEF NamesOf
<1>6. session' = [s EXCEPT !.changes = session.changes \cup {e}] \/ session' = [s EXCEPT !.reset = TRUE]
  BY <1>1, <1>4
<1> HIDE DEF s
<1>7. /\ session' \in Sessions /\ session'.outer = s.outer /\ session'.inner = s.inner
      /\ session'.reset \/ (session'.changes = session.changes \cup {e} /\ session'.reset = session.reset)
  <2>1. CASE session' = [s EXCEPT !.changes = session.changes \cup {e}]
    <3>1. session.changes \cup {e} \in SUBSET Events
      BY <1>1, <1>2 DEF Sessions
    <3>2. QED BY <2>1, <3>1, <1>4 DEF Sessions
  <2>2. CASE session' = [s EXCEPT !.reset = TRUE]
    <3>1. session' \in Sessions
      BY <2>2, <1>4 DEF Sessions
    <3>2. session'.outer = s.outer /\ session'.inner = s.inner
      BY <2>2, <1>4 DEF Sessions
    <3>3. session'.reset
      BY <2>2, <1>4 DEF Sessions
    <3>4. QED BY <3>1, <3>2, <3>3
  <2>3. QED BY <2>1, <2>2, <1>6
<1>8. session'.reset \/ NamesOf(session'.outer \cup session'.inner) \subseteq session'.changes
  BY <1>2, <1>5, <1>7
<1>9. QED BY <1>1, <1>7, <1>8, SessionKeeps

\* A savepoint names nothing new, and a rollback either empties the session or asks for a reset.
LEMMA SavepointStep == IndexInv /\ (Savepoint \/ Release \/ RollbackNested \/ Rollback) => IndexInv'
<1> SUFFICES ASSUME IndexInv, Savepoint \/ Release \/ RollbackNested \/ Rollback PROVE IndexInv'
  OBVIOUS
<1>1. session \in Sessions /\ (session.reset \/ NamesOf(session.outer \cup session.inner) \subseteq session.changes)
  BY DEF IndexInv, TypeCorrect, ChangesAwaited
<1>2. UNCHANGED <<db, hook, index, reader, published, answer>>
  BY DEF Savepoint, Release, RollbackNested, Rollback
<1>3. session' \in Sessions
  <2>1. CASE Savepoint
    BY <2>1, <1>1 DEF Savepoint, Sessions
  <2>2. CASE Release
    BY <2>2, <1>1 DEF Release, Sessions, Written
  <2>3. CASE RollbackNested
    BY <2>3, <1>1 DEF RollbackNested, Forgotten, Sessions
  <2>4. CASE Rollback
    BY <2>4, <1>1 DEF Rollback, NoSession, Sessions
  <2>5. QED BY <2>1, <2>2, <2>3, <2>4
<1>4. session'.reset \/ NamesOf(session'.outer \cup session'.inner) \subseteq session'.changes
  <2>1. CASE Savepoint \/ Release
    <3>1. session'.outer \cup session'.inner = session.outer \cup session.inner
          /\ session'.changes = session.changes /\ session'.reset = session.reset
      BY <2>1, <1>1 DEF Savepoint, Release, Sessions, Written
    <3>2. QED BY <3>1, <1>1
  <2>2. CASE RollbackNested
    BY <2>2, <1>1 DEF RollbackNested, Forgotten, Sessions
  <2>3. CASE Rollback
    BY <2>3 DEF Rollback, NoSession, NamesOf
  <2>4. QED BY <2>1, <2>2, <2>3
<1>5. QED BY <1>2, <1>3, <1>4, SessionKeeps

-----------------------------------------------------------------------------
(* Commits                                                                  *)

\* A commit appends a version to each row it names.
LEMMA ApplyAppends ==
  ASSUME log \in Logs, NEW W \in SUBSET (Events \X BOOLEAN), Apply(W)
  PROVE  /\ log' \in Logs /\ Grows(log, log')
         /\ \A e \in Events : /\ Len(log[e]) \in Nat /\ Len(log'[e]) >= Len(log[e])
                              /\ e \in NamesOf(W) => Len(log'[e]) = Len(log[e]) + 1
<1> DEFINE of(e) == (CHOOSE w \in W : w[1] = e)[2]
<1>1. \A e \in Events : log[e] \in Seq(BOOLEAN)
  BY DEF Logs
<1>2. \A e \in Events : (\E w \in W : w[1] = e) => of(e) \in BOOLEAN
  <2>1. SUFFICES ASSUME NEW e \in Events, \E w \in W : w[1] = e PROVE of(e) \in BOOLEAN
    OBVIOUS
  <2>2. (CHOOSE w \in W : w[1] = e) \in W
    BY <2>1
  <2>3. QED BY <2>2
<1>3. \A e \in Events : log'[e] = IF \E w \in W : w[1] = e THEN Append(log[e], of(e)) ELSE log[e]
  BY DEF Apply
<1>4. log' = [e \in Events |-> log'[e]]
  BY DEF Apply
<1> HIDE DEF of
<1>5. ASSUME NEW e \in Events
      PROVE  /\ log'[e] \in Seq(BOOLEAN) /\ Len(log[e]) \in Nat /\ Len(log'[e]) >= Len(log[e])
             /\ \A v \in 1 .. Len(log[e]) : log'[e][v] = log[e][v]
             /\ e \in NamesOf(W) => Len(log'[e]) = Len(log[e]) + 1
  <2>1. CASE \E w \in W : w[1] = e
    <3>1. log'[e] = Append(log[e], of(e)) /\ of(e) \in BOOLEAN /\ log[e] \in Seq(BOOLEAN)
      BY <2>1, <1>1, <1>2, <1>3
    <3>2. QED BY <3>1
  <2>2. CASE ~ \E w \in W : w[1] = e
    <3>1. log'[e] = log[e] /\ log[e] \in Seq(BOOLEAN) /\ e \notin NamesOf(W)
      BY <2>2, <1>1, <1>3 DEF NamesOf
    <3>2. QED BY <3>1
  <2>3. QED BY <2>1, <2>2
<1>6. QED BY <1>4, <1>5 DEF Logs, Grows

\* What is known of a log that grew, is known still.
LEMMA KnownGrown ==
  ASSUME NEW l \in Logs, NEW m \in Logs, Grows(l, m), NEW f \in Tables, Known(l, f)
  PROVE  Known(m, f)
<1>1. DOMAIN f \subseteq Events
  BY TableIs
<1>2. \A e \in DOMAIN f : Len(l[e]) \in Nat /\ Len(m[e]) \in Nat /\ Len(l[e]) <= Len(m[e])
  BY <1>1 DEF Grows, Logs
<1>3. QED BY <1>2 DEF Known

\* A commit changes neither what the projection has nor what a refresh took and read.
LEMMA CommitKeeps ==
  ASSUME IndexInv, log' \in Logs, Grows(log, log'),
         UNCHANGED <<index, reader, published, answer>>
  PROVE  /\ ProjectionSound' /\ RevisionsCovered' /\ AnswerSound' /\ (reader # None => RefreshSound)'
         /\ \A e \in Events : published'[e] <= Len(log'[e])
<1>1. /\ TypeCorrect /\ ChangesAwaited /\ ProjectionSound /\ RevisionsCovered /\ AnswerSound
      /\ reader # None => RefreshSound
  BY DEF IndexInv
<1>2. /\ log \in Logs /\ published \in [Events -> Nat] /\ index \in Indexes
      /\ answer \in Answers /\ (reader = None \/ reader \in Refreshes)
  BY <1>1 DEF TypeCorrect
<1>3. \A e \in Events : \A f : \A from \in Int :
         /\ Fits(log, f, e, from) => Fits(log', f, e, from)
         /\ Undeleted(log', e) => Undeleted(log, e)
  BY <1>2, FitsGrown
<1>4. \A f \in Tables : Known(log, f) => Known(log', f)
  BY <1>2, KnownGrown
<1>5. \A e \in Events : Len(log[e]) \in Nat /\ Len(log'[e]) \in Nat /\ Len(log[e]) <= Len(log'[e])
  BY <1>2 DEF Grows, Logs
<1>6. ProjectionSound'
  <2>1. Known(log', index.rows)
    BY <1>1, <1>2, <1>4 DEF ProjectionSound, Indexes
  <2>2. QED BY <2>1, <1>1, <1>2, <1>3 DEF ProjectionSound, Remembered
<1>7. RevisionsCovered'
  BY <1>1, <1>2, <1>3 DEF RevisionsCovered
<1>8. AnswerSound'
  BY <1>1, <1>2, <1>3 DEF AnswerSound, Answers
<1>9. ASSUME reader # None PROVE RefreshSound'
  <2>1. TakenSound /\ LoadedSound /\ AuditSound /\ reader \in Refreshes
    BY <1>1, <1>2, <1>9 DEF RefreshSound
  <2>2. /\ \A e \in Events : reader.floor[e] \in Nat /\ reader.seen[e] \in Nat
        /\ reader.loaded \in Tables
    BY <2>1 DEF Refreshes
  <2>3. \A e \in Events : \A f :
          /\ Fits(log, f, e, reader.floor[e]) => Fits(log', f, e, reader.floor[e])
          /\ Fits(log, f, e, reader.seen[e]) => Fits(log', f, e, reader.seen[e])
    BY <2>2, <1>3
  <2>4. TakenSound'
    <3>1. Known(log', reader.loaded)
      BY <2>1, <2>2, <1>4 DEF TakenSound
    <3>2. \A e \in Events : reader.floor[e] <= Len(log[e]) /\ reader.seen[e] <= Len(log[e])
      BY <2>1 DEF TakenSound
    <3>3. \A e \in Events : reader.floor[e] <= Len(log'[e]) /\ reader.seen[e] <= Len(log'[e])
      BY <3>2, <2>2, <1>5
    <3>4. \A e \in Events : published'[e] = reader.floor[e] \/ index.full \/ e \in index.dirty
      BY <2>1 DEF TakenSound
    <3>5. ~ reader.full => /\ index.lastNow <= reader.at
                           /\ \A e \in Events \ reader.dirty :
                                Visible(e, index.lastNow) => Fits(log', index.rows, e, reader.floor[e])
      BY <2>1, <2>3 DEF TakenSound
    <3>6. QED BY <3>1, <3>3, <3>4, <3>5, <2>1 DEF TakenSound
  <2>5. LoadedSound'
    <3>1. reader.phase \in {"by id", "loaded"} =>
            \A e \in Events : (reader.full \/ e \in reader.dirty) /\ Visible(e, reader.at) =>
               Fits(log', reader.loaded, e, reader.floor[e])
      BY <2>1, <2>3 DEF LoadedSound
    <3>2. reader.phase \in {"by id", "loaded"} /\ ~ reader.full =>
            \A e \in Events \ reader.dirty :
               IF reader.phase = "by id" \/ CreatedAt[e] <= index.lastNow THEN e \notin DOMAIN reader.loaded
               ELSE Visible(e, reader.at) => Fits(log', reader.loaded, e, reader.floor[e])
      BY <2>1, <2>3 DEF LoadedSound
    <3>3. reader.phase = "loaded" /\ reader.full =>
            \A e \in Events : Visible(e, reader.at) => Fits(log', reader.loaded, e, reader.seen[e])
      BY <2>1, <2>3 DEF LoadedSound
    <3>4. QED BY <3>1, <3>2, <3>3, <2>1 DEF LoadedSound
  <2>6. AuditSound'
    BY <2>1, <2>2, <1>3 DEF AuditSound, AuditedRow
  <2>7. QED BY <2>4, <2>5, <2>6 DEF RefreshSound
<1>10. \A e \in Events : published'[e] <= Len(log'[e])
  BY <1>1, <1>2, <1>5 DEF ChangesAwaited
<1>11. QED BY <1>6, <1>7, <1>8, <1>9, <1>10

\* A commit hands to its hook what the session had, and appends the versions the hook will announce.
LEMMA CommitStep == IndexInv /\ Commit => IndexInv'
<1> SUFFICES ASSUME IndexInv, Commit PROVE IndexInv'
  OBVIOUS
<1>1. TypeCorrect /\ ChangesAwaited
  BY DEF IndexInv
<1> DEFINE W == session.outer
<1>2. /\ W \in SUBSET (Events \X BOOLEAN) /\ Apply(W) /\ log \in Logs /\ session \in Sessions
      /\ published \in [Events -> Nat]
  BY <1>1 DEF Commit, TypeCorrect, Sessions
<1>3. /\ log' \in Logs /\ Grows(log, log')
      /\ \A e \in Events : /\ Len(log[e]) \in Nat /\ Len(log'[e]) >= Len(log[e])
                           /\ e \in NamesOf(W) => Len(log'[e]) = Len(log[e]) + 1
  BY <1>2, ApplyAppends
<1>4. UNCHANGED <<now, index, reader, published, answer>> /\ session' = NoSession
  BY DEF Commit
<1>5. NamesOf(W) \subseteq Events
  BY <1>2 DEF NamesOf
<1>6. hook' = [changes |-> session.changes, reset |-> session.reset,
               rows |-> [e \in NamesOf(W) |-> Len(log[e]) + 1]]
  BY DEF Commit, NamesOf, Version
<1>7. hook' \in Announcements
  <2>1. [e \in NamesOf(W) |-> Len(log[e]) + 1] \in [NamesOf(W) -> Nat]
    BY <1>3, <1>5
  <2>2. [e \in NamesOf(W) |-> Len(log[e]) + 1] \in Tables
    BY <2>1, <1>5, IsTable
  <2>3. session.changes \in SUBSET Events /\ session.reset \in BOOLEAN
    BY <1>2 DEF Sessions
  <2>4. QED BY <1>6, <2>2, <2>3 DEF Announcements
<1>8. session' \in Sessions
  BY <1>4 DEF NoSession, Sessions
<1>9. TypeCorrect'
  BY <1>1, <1>3, <1>4, <1>7, <1>8 DEF TypeCorrect
<1>10. /\ hook'.reset \/ DOMAIN hook'.rows \subseteq hook'.changes
       /\ \A e \in DOMAIN hook'.rows : hook'.rows[e] <= Len(log'[e])
  <2>1. DOMAIN hook'.rows = NamesOf(W) /\ \A e \in NamesOf(W) : hook'.rows[e] = Len(log[e]) + 1
    BY <1>6
  <2>2. session.reset \/ NamesOf(W) \subseteq session.changes
    BY <1>1 DEF ChangesAwaited, NamesOf
  <2>3. hook'.reset = session.reset /\ hook'.changes = session.changes
    BY <1>6
  <2>4. QED BY <2>1, <2>2, <2>3, <1>3, <1>5
<1>11. NamesOf(session'.outer \cup session'.inner) = {}
  BY <1>4 DEF NoSession, NamesOf
<1>12. QED BY <1>3, <1>4, <1>9, <1>10, <1>11, CommitKeeps DEF IndexInv, ChangesAwaited

\* Another process only adds versions.
LEMMA ElsewhereStep == IndexInv /\ Elsewhere => IndexInv'
<1> SUFFICES ASSUME IndexInv, Elsewhere PROVE IndexInv'
  OBVIOUS
<1>1. TypeCorrect /\ ChangesAwaited
  BY DEF IndexInv
<1>2. PICK e \in Events : \E w \in Changes(e) :
         Apply({w}) /\ UNCHANGED <<now, session, hook, index, reader, published, answer>>
  BY DEF Elsewhere
<1>3. PICK w \in Changes(e) :
         Apply({w}) /\ UNCHANGED <<now, session, hook, index, reader, published, answer>>
  BY <1>2
<1>4. {w} \in SUBSET (Events \X BOOLEAN)
  BY <1>3, ChangeIs
<1>5. /\ log \in Logs /\ log' \in Logs /\ Grows(log, log')
      /\ \A x \in Events : Len(log[x]) \in Nat /\ Len(log'[x]) >= Len(log[x])
  BY <1>1, <1>3, <1>4, ApplyAppends DEF TypeCorrect
<1>6. TypeCorrect'
  BY <1>1, <1>3, <1>5 DEF TypeCorrect
<1>7. \A x \in Events : Len(log'[x]) \in Nat
  BY <1>5 DEF Logs
<1>8. ASSUME hook # None
      PROVE  \A x \in DOMAIN hook.rows : hook.rows[x] <= Len(log'[x])
  <2>1. hook.rows \in Tables
    BY <1>1, <1>8 DEF TypeCorrect, Announcements
  <2>2. \A x \in DOMAIN hook.rows : x \in Events /\ hook.rows[x] \in Nat
    BY <2>1, TableIs
  <2>3. QED BY <1>1, <1>8, <2>2, <1>5, <1>7 DEF ChangesAwaited
<1>9. QED BY <1>1, <1>3, <1>5, <1>6, <1>8, CommitKeeps DEF IndexInv, ChangesAwaited

-----------------------------------------------------------------------------
(* Announcements                                                            *)

Noted(i, e) == i.full \/ e \in i.dirty

\* A step that only adds to what is remembered keeps the invariant, if what it announces is
\* remembered.
LEMMA RemindedKeeps ==
  ASSUME IndexInv, UNCHANGED <<db, reader, answer>>, index'.rows = index.rows,
         index'.revisions = index.revisions, index'.lastNow = index.lastNow,
         \A e \in Events : Noted(index, e) => Noted(index', e),
         \A e \in Events : published'[e] = published[e] \/ Noted(index', e)
  PROVE  ProjectionSound' /\ RevisionsCovered' /\ AnswerSound' /\ (reader # None => RefreshSound)'
<1>1. /\ ProjectionSound /\ RevisionsCovered /\ AnswerSound
      /\ reader # None => RefreshSound
  BY DEF IndexInv
<1>2. log' = log /\ reader' = reader /\ answer' = answer
  BY DEF db
<1>3. ProjectionSound'
  <2>1. Known(log', index'.rows) /\ \A e \in DOMAIN index'.rows : Visible(e, index'.lastNow)
    BY <1>1, <1>2 DEF ProjectionSound
  <2>2. ASSUME NEW e \in Events, Visible(e, index'.lastNow)
        PROVE  Remembered(e)' \/ Fits(log', index'.rows, e, published'[e])
    <3>1. Remembered(e) \/ Fits(log, index.rows, e, published[e])
      BY <1>1, <2>2 DEF ProjectionSound
    <3>2. CASE Remembered(e)
      BY <3>2, <1>2 DEF Remembered, Noted
    <3>3. CASE Fits(log, index.rows, e, published[e])
      <4>1. CASE published'[e] = published[e]
        BY <4>1, <3>3, <1>2
      <4>2. CASE Noted(index', e)
        BY <4>2 DEF Remembered, Noted
      <4>3. QED BY <4>1, <4>2
    <3>4. QED BY <3>1, <3>2, <3>3
  <2>3. QED BY <2>1, <2>2 DEF ProjectionSound
<1>4. RevisionsCovered' /\ AnswerSound'
  BY <1>1, <1>2 DEF RevisionsCovered, AnswerSound
<1>5. ASSUME reader # None PROVE RefreshSound'
  <2>1. TakenSound /\ LoadedSound /\ AuditSound
    BY <1>1, <1>5 DEF RefreshSound
  <2>2. \A e \in Events : published'[e] = reader'.floor[e] \/ index'.full \/ e \in index'.dirty
    <3>1. SUFFICES ASSUME NEW e \in Events
                   PROVE  published'[e] = reader.floor[e] \/ Noted(index', e)
      BY <1>2 DEF Noted
    <3>2. published[e] = reader.floor[e] \/ Noted(index, e)
      BY <2>1 DEF TakenSound, Noted
    <3>3. QED BY <3>2
  <2>3. TakenSound'
    BY <2>1, <2>2, <1>2 DEF TakenSound
  <2>4. LoadedSound'
    BY <2>1, <1>2 DEF LoadedSound
  <2>5. AuditSound'
    BY <2>1, <1>2 DEF AuditSound, AuditedRow
  <2>6. QED BY <2>3, <2>4, <2>5 DEF RefreshSound
<1>6. QED BY <1>2, <1>3, <1>4, <1>5

\* What a reset and an invalidation make of the index.
LEMMA ResetIs ==
  ASSUME NEW i \in Indexes
  PROVE  /\ Reset(i) \in Indexes /\ Reset(i).full /\ Reset(i).dirty = {} /\ Reset(i).rows = i.rows
         /\ Reset(i).revisions = i.revisions /\ Reset(i).lastNow = i.lastNow
<1>1. i.generation + 1 \in Nat
  BY DEF Indexes
<1>2. Reset(i) \in Indexes
  BY <1>1 DEF Reset, Indexes
<1>3. QED BY <1>2 DEF Reset, Indexes

\* An invalidation keeps what was remembered and adds what it is told, or forces a full load.
LEMMA InvalidateIs ==
  ASSUME NEW i \in Indexes, NEW ids \in SUBSET Events
  PROVE  /\ Invalidate(i, ids) \in Indexes /\ Invalidate(i, ids).rows = i.rows
         /\ Invalidate(i, ids).revisions = i.revisions /\ Invalidate(i, ids).lastNow = i.lastNow
         /\ \A e \in Events : Noted(i, e) \/ e \in ids => Noted(Invalidate(i, ids), e)
<1>1. CASE i.full
  BY <1>1 DEF Invalidate, Noted
<1>2. CASE ~ i.full /\ Cardinality(i.dirty \cup ids) > DirtyLimit
  <2>1. Invalidate(i, ids) = [i EXCEPT !.full = TRUE, !.dirty = {}]
    BY <1>2 DEF Invalidate
  <2>2. [i EXCEPT !.full = TRUE, !.dirty = {}] \in Indexes
    BY DEF Indexes
  <2>3. Invalidate(i, ids).full
    BY <2>1 DEF Indexes
  <2>4. QED BY <2>1, <2>2, <2>3 DEF Indexes, Noted
<1>3. CASE ~ i.full /\ ~ (Cardinality(i.dirty \cup ids) > DirtyLimit)
  <2>1. Invalidate(i, ids) = [i EXCEPT !.dirty = i.dirty \cup ids]
    BY <1>3 DEF Invalidate
  <2>2. i.dirty \cup ids \in SUBSET Events
    BY DEF Indexes
  <2>3. [i EXCEPT !.dirty = i.dirty \cup ids] \in Indexes
    BY <2>2 DEF Indexes
  <2>4. Invalidate(i, ids).dirty = i.dirty \cup ids
    BY <2>1 DEF Indexes
  <2>5. QED BY <1>3, <2>1, <2>3, <2>4 DEF Indexes, Noted
<1>4. QED BY <1>1, <1>2, <1>3

\* What a hook announces is remembered: by name, or because it resets everything.
LEMMA PublishStep == IndexInv /\ Publish => IndexInv'
<1> SUFFICES ASSUME IndexInv, Publish PROVE IndexInv'
  OBVIOUS
<1>1. TypeCorrect /\ ChangesAwaited
  BY DEF IndexInv
<1>2. /\ hook # None /\ hook' = None
      /\ published' = [e \in Events |-> IF e \in DOMAIN hook.rows THEN hook.rows[e] ELSE published[e]]
      /\ UNCHANGED <<db, session, reader, answer>>
  BY DEF Publish
<1>3. hook \in Announcements /\ index \in Indexes /\ log \in Logs /\ published \in [Events -> Nat]
  BY <1>1, <1>2 DEF TypeCorrect
<1>4. hook.changes \in SUBSET Events /\ hook.rows \in Tables
  BY <1>3 DEF Announcements
<1>5. \A e \in DOMAIN hook.rows : hook.rows[e] \in Nat /\ hook.rows[e] <= Len(log[e])
  BY <1>1, <1>2, <1>4, TableIs DEF ChangesAwaited
<1>6. PICK i \in Indexes : /\ index' = Invalidate(i, hook.changes) /\ (hook.reset => i.full)
                           /\ i.rows = index.rows /\ i.revisions = index.revisions
                           /\ i.lastNow = index.lastNow
                           /\ \A e \in Events : Noted(index, e) => Noted(i, e)
  <2>1. CASE hook.reset
    <3>1. index' = Invalidate(Reset(index), hook.changes)
      BY <2>1 DEF Publish
    <3>2. QED BY <3>1, <1>3, ResetIs DEF Noted
  <2>2. CASE ~ hook.reset
    <3>1. index' = Invalidate(index, hook.changes)
      BY <2>2 DEF Publish
    <3>2. QED BY <3>1, <2>2, <1>3
  <2>3. QED BY <2>1, <2>2
<1>7. /\ index' \in Indexes /\ index'.rows = index.rows /\ index'.revisions = index.revisions
      /\ index'.lastNow = index.lastNow
      /\ \A e \in Events : Noted(i, e) \/ e \in hook.changes => Noted(index', e)
  BY <1>4, <1>6, InvalidateIs
<1>8. \A e \in Events : published'[e] = published[e] \/ Noted(index', e)
  <2>1. SUFFICES ASSUME NEW e \in Events, e \in DOMAIN hook.rows PROVE Noted(index', e)
    BY <1>2
  <2>2. CASE hook.reset
    BY <2>2, <1>6, <1>7 DEF Noted
  <2>3. CASE ~ hook.reset
    BY <2>1, <2>3, <1>1, <1>2, <1>7 DEF ChangesAwaited
  <2>4. QED BY <2>2, <2>3
<1>9. \A e \in Events : published'[e] \in Nat /\ published'[e] <= Len(log'[e])
  BY <1>1, <1>2, <1>3, <1>5 DEF ChangesAwaited, db
<1>10. TypeCorrect' /\ ChangesAwaited'
  <2>1. published' \in [Events -> Nat]
    BY <1>2, <1>9
  <2>2. QED BY <1>1, <1>2, <1>7, <1>9, <2>1 DEF TypeCorrect, ChangesAwaited, db
<1>11. QED BY <1>2, <1>6, <1>7, <1>8, <1>10, RemindedKeeps DEF IndexInv

\* A schema event only adds to what is remembered.
LEMMA SchemaStep == IndexInv /\ SchemaEvent => IndexInv'
<1> SUFFICES ASSUME IndexInv, SchemaEvent PROVE IndexInv'
  OBVIOUS
<1>1. TypeCorrect /\ ChangesAwaited
  BY DEF IndexInv
<1>2. index' = Reset(index) /\ UNCHANGED <<db, session, hook, reader, published, answer>>
  BY DEF SchemaEvent
<1>3. /\ index' \in Indexes /\ index'.full /\ index'.rows = index.rows
      /\ index'.revisions = index.revisions /\ index'.lastNow = index.lastNow
  BY <1>1, <1>2, ResetIs DEF TypeCorrect
<1>4. TypeCorrect' /\ ChangesAwaited'
  BY <1>1, <1>2, <1>3 DEF TypeCorrect, ChangesAwaited, db
<1>5. QED BY <1>2, <1>3, <1>4, RemindedKeeps DEF IndexInv, Noted

\* Only the clock moves.
LEMMA TickStep == IndexInv /\ Tick => IndexInv'
<1> SUFFICES ASSUME IndexInv, Tick PROVE IndexInv'
  OBVIOUS
<1>1. now' \in Nat /\ UNCHANGED <<log, session, hook, index, reader, published, answer>>
  BY DEF Tick, IndexInv, TypeCorrect
<1>2. TypeCorrect' /\ ChangesAwaited' /\ ProjectionSound' /\ RevisionsCovered' /\ AnswerSound'
  BY <1>1 DEF IndexInv, TypeCorrect, ChangesAwaited, ProjectionSound, RevisionsCovered, AnswerSound, Remembered
<1>3. (reader # None => RefreshSound)'
  BY <1>1 DEF IndexInv, RefreshSound, TakenSound, LoadedSound, AuditSound, AuditedRow
<1>4. QED BY <1>2, <1>3 DEF IndexInv

-----------------------------------------------------------------------------
(* The refresh                                                              *)

\* A step of the refresh that changes no row of the projection keeps what is said of it, if
\* it forgets nothing.
LEMMA ReadKeeps ==
  ASSUME IndexInv, UNCHANGED <<db, session, hook, published, answer>>, index' \in Indexes,
         reader' = None \/ reader' \in Refreshes, index'.rows = index.rows,
         index'.revisions = index.revisions, index'.lastNow = index.lastNow,
         \A e \in Events : Remembered(e) => Remembered(e)'
  PROVE  TypeCorrect' /\ ChangesAwaited' /\ ProjectionSound' /\ RevisionsCovered' /\ AnswerSound'
<1>1. TypeCorrect' /\ ChangesAwaited'
  BY DEF IndexInv, TypeCorrect, ChangesAwaited, db
<1>2. ProjectionSound'
  <2>1. ProjectionSound /\ log' = log /\ published' = published
    BY DEF IndexInv, db
  <2>2. \A e \in Events : Visible(e, index.lastNow) => Remembered(e)' \/ Fits(log, index.rows, e, published[e])
    BY <2>1 DEF ProjectionSound
  <2>3. QED BY <2>1, <2>2 DEF ProjectionSound
<1>3. RevisionsCovered' /\ AnswerSound'
  BY DEF IndexInv, RevisionsCovered, AnswerSound, db
<1>4. QED BY <1>1, <1>2, <1>3

\* The empty table.
LEMMA NoTable == <<>> \in Tables /\ \A l : Known(l, <<>>)
<1>1. DOMAIN <<>> = {} /\ <<>> \in [{} -> Nat]
  OBVIOUS
<1>2. QED BY <1>1, IsTable DEF Known

\* A refresh in progress is not None.
LEMMA RefreshIs == \A r \in Refreshes : r # None
<1>1. \A r \in Refreshes : "at" \in DOMAIN r
  BY DEF Refreshes
<1>2. "at" \notin DOMAIN <<>>
  OBVIOUS
<1>3. QED BY <1>1, <1>2 DEF None

\* A refresh takes over what was remembered; what it does not take, the projection has.
LEMMA BeginStep == IndexInv /\ Begin => IndexInv'
<1> SUFFICES ASSUME IndexInv, Begin PROVE IndexInv'
  OBVIOUS
<1>1. TypeCorrect /\ ChangesAwaited /\ ProjectionSound
  BY DEF IndexInv
<1>2. /\ reader = None /\ index' = [index EXCEPT !.full = FALSE, !.dirty = {}]
      /\ UNCHANGED <<db, session, hook, published, answer>>
  BY DEF Begin
<1>3. PICK at \in {now - 1, now} :
         /\ at >= 0
         /\ reader' = [at |-> at, phase |-> "taken", generation |-> index.generation,
                       full |-> index.full \/ index.lastNow = -1 \/ at < index.lastNow,
                       dirty |-> index.dirty, loaded |-> <<>>, audited |-> FALSE, revisions |-> <<>>,
                       floor |-> published, seen |-> published]
  BY DEF Begin
<1>4. /\ index \in Indexes /\ published \in [Events -> Nat] /\ at \in Nat /\ log \in Logs
      /\ index.lastNow \in Nat \cup {-1}
  BY <1>1, <1>3 DEF TypeCorrect, Indexes
<1>5. index' \in Indexes /\ index'.rows = index.rows /\ index'.revisions = index.revisions
      /\ index'.lastNow = index.lastNow
  BY <1>2, <1>4 DEF Indexes
<1>6. reader' \in Refreshes
  BY <1>3, <1>4, NoTable DEF Refreshes, Indexes
<1>7. /\ reader'.at = at /\ reader'.phase = "taken" /\ reader'.dirty = index.dirty
      /\ reader'.loaded = <<>> /\ reader'.audited = FALSE /\ reader'.floor = published
      /\ reader'.seen = published
      /\ reader'.full = (index.full \/ index.lastNow = -1 \/ at < index.lastNow)
  BY <1>3
<1>8. reader' # None
  BY <1>6, RefreshIs
<1>9. \A e \in Events : Remembered(e) => Remembered(e)'
  BY <1>2, <1>7, <1>8 DEF Remembered
<1>10. TakenSound'
  <2>1. \A e \in Events : published[e] <= Len(log[e])
    BY <1>1 DEF ChangesAwaited
  <2>2. ~ reader'.full => /\ index'.lastNow <= reader'.at
                          /\ \A e \in Events \ reader'.dirty :
                               Visible(e, index'.lastNow) => Fits(log', index'.rows, e, reader'.floor[e])
    <3>1. SUFFICES ASSUME ~ reader'.full
                   PROVE /\ index.lastNow <= at
                         /\ \A e \in Events \ index.dirty :
                               Visible(e, index.lastNow) => Fits(log, index.rows, e, published[e])
      BY <1>2, <1>5, <1>7 DEF db
    <3>2. ~ index.full /\ ~ (at < index.lastNow)
      BY <3>1, <1>7
    <3>3. index.lastNow <= at
      BY <3>2, <1>4
    <3>4. \A e \in Events \ index.dirty : ~ Remembered(e)
      BY <3>2, <1>2 DEF Remembered
    <3>5. QED BY <3>3, <3>4, <1>1 DEF ProjectionSound
  <2>3. Known(log', reader'.loaded)
    BY <1>7, NoTable
  <2>4. QED BY <2>1, <2>2, <2>3, <1>2, <1>7 DEF TakenSound, db
<1>11. LoadedSound'
  BY <1>7 DEF LoadedSound
<1>12. AuditSound'
  BY <1>7 DEF AuditSound
<1>13. QED BY <1>2, <1>5, <1>6, <1>9, <1>10, <1>11, <1>12, ReadKeeps DEF IndexInv, RefreshSound

\* A refresh that fails or is overtaken gives back what it took.
LEMMA GiveBackStep == IndexInv /\ (Fail \/ Overtaken) => IndexInv'
<1> SUFFICES ASSUME IndexInv, Fail \/ Overtaken PROVE IndexInv'
  OBVIOUS
<1>1. TypeCorrect
  BY DEF IndexInv
<1>2. /\ reader # None /\ reader' = None /\ UNCHANGED <<db, session, hook, published, answer>>
      /\ index' = GivenBack(index, reader) \/ index' = [GivenBack(index, reader) EXCEPT !.full = TRUE]
  BY DEF Fail, Overtaken
<1>3. index \in Indexes /\ reader \in Refreshes
  BY <1>1, <1>2 DEF TypeCorrect
<1>4. (index.full \/ reader.full) \in BOOLEAN /\ (index.dirty \cup reader.dirty) \in SUBSET Events
  BY <1>3 DEF Indexes, Refreshes
<1> DEFINE i == GivenBack(index, reader)
<1>5. i = [index EXCEPT !.full = (index.full \/ reader.full), !.dirty = index.dirty \cup reader.dirty]
  BY DEF GivenBack
<1>6. i \in Indexes
  BY <1>3, <1>4, <1>5 DEF Indexes
<1>7. /\ i.rows = index.rows /\ i.revisions = index.revisions /\ i.lastNow = index.lastNow
      /\ (i.full <=> index.full \/ reader.full) /\ i.dirty = index.dirty \cup reader.dirty
  BY <1>3, <1>5 DEF Indexes
<1>8. index' = i \/ index' = [i EXCEPT !.full = TRUE]
  BY <1>2
<1> HIDE DEF i
<1>9. /\ index' \in Indexes /\ index'.rows = index.rows /\ index'.revisions = index.revisions
      /\ index'.lastNow = index.lastNow /\ index'.dirty = index.dirty \cup reader.dirty
      /\ index.full \/ reader.full => index'.full
  <2>1. CASE index' = i
    BY <2>1, <1>6, <1>7
  <2>2. CASE index' = [i EXCEPT !.full = TRUE]
    <3>1. index' \in Indexes
      BY <2>2, <1>6 DEF Indexes
    <3>2. index'.full
      BY <2>2, <1>6 DEF Indexes
    <3>3. QED BY <3>1, <3>2, <2>2, <1>6, <1>7 DEF Indexes
  <2>3. QED BY <2>1, <2>2, <1>8
<1>10. \A e \in Events : Remembered(e) => Remembered(e)'
  BY <1>2, <1>9 DEF Remembered
<1>11. QED BY <1>2, <1>9, <1>10, ReadKeeps DEF IndexInv

\* A row that was never deleted and has a version exists.
LEMMA UndeletedExists ==
  ASSUME log \in Logs, NEW e \in Events, Undeleted(log, e), NEW n \in Nat, n > 0, n <= Len(log[e])
  PROVE  log[e] # <<>> /\ log[e][Len(log[e])] /\ Len(log[e]) \in Nat
<1>1. log[e] \in Seq(BOOLEAN)
  BY DEF Logs
<1>2. Len(log[e]) \in Nat /\ Len(log[e]) > 0
  BY <1>1
<1>3. Len(log[e]) \in DOMAIN log[e] /\ log[e] # <<>>
  BY <1>1, <1>2
<1>4. QED BY <1>2, <1>3 DEF Undeleted

\* An audit makes dirty each row whose revision is not the one it found.
LEMMA AuditStep == IndexInv /\ Audit => IndexInv'
<1> SUFFICES ASSUME IndexInv, Audit PROVE IndexInv'
  OBVIOUS
<1> DEFINE revs == VersionsOf(Selected(Events, reader.at))
           stale == Stale(index.revisions, revs)
           newest == [e \in Events |-> Len(log[e])]
<1>1. TypeCorrect /\ RevisionsCovered
  BY DEF IndexInv
<1>2. /\ reader # None /\ reader.phase = "taken" /\ ~ reader.full
      /\ UNCHANGED <<db, session, hook, index, published, answer>>
  BY DEF Audit
<1>3. reader' = [reader EXCEPT !.phase = "audited", !.audited = TRUE, !.revisions = revs,
                               !.dirty = reader.dirty \cup stale, !.seen = newest]
  BY DEF Audit, VersionsOf, Version
<1>4. index \in Indexes /\ reader \in Refreshes /\ log \in Logs
  BY <1>1, <1>2 DEF TypeCorrect
<1>5. TakenSound /\ LoadedSound
  BY <1>2 DEF IndexInv, RefreshSound
<1>6. /\ revs \in Tables
      /\ \A e \in Events : /\ e \in DOMAIN revs <=> log[e] # <<>> /\ log[e][Len(log[e])] /\ Visible(e, reader.at)
                           /\ e \in DOMAIN revs => revs[e] = Len(log[e])
  BY <1>4, QueryReads
<1>7. index.revisions \in Tables /\ DOMAIN index.revisions \subseteq Events /\ DOMAIN revs \subseteq Events
  BY <1>4, <1>6, TableIs DEF Indexes
<1>8. stale \subseteq Events /\ \A e \in DOMAIN revs \ stale :
                                  e \in DOMAIN index.revisions /\ index.revisions[e] = revs[e]
  BY <1>7 DEF Stale
<1>9. newest \in [Events -> Nat] /\ \A e \in Events : newest[e] = Len(log[e]) /\ Len(log[e]) \in Nat
  BY <1>4 DEF Logs
<1> HIDE DEF revs, stale, newest
<1>10. reader.dirty \cup stale \in SUBSET Events
  BY <1>4, <1>8 DEF Refreshes
<1>11. reader' \in Refreshes
  BY <1>3, <1>4, <1>6, <1>9, <1>10 DEF Refreshes
<1>12. /\ reader'.phase = "audited" /\ reader'.audited = TRUE /\ reader'.revisions = revs
       /\ reader'.dirty = reader.dirty \cup stale /\ reader'.seen = newest
       /\ reader'.at = reader.at /\ reader'.full = reader.full /\ reader'.floor = reader.floor
       /\ reader'.loaded = reader.loaded
  BY <1>3, <1>4 DEF Refreshes
<1>13. \A e \in Events : Remembered(e) => Remembered(e)'
  BY <1>2, <1>11, <1>12, RefreshIs DEF Remembered
<1>14. TakenSound'
  <2>1. \A e \in Events : newest[e] <= Len(log[e])
    BY <1>9
  <2>2. QED BY <2>1, <1>2, <1>5, <1>12 DEF TakenSound, db
<1>15. LoadedSound'
  BY <1>12 DEF LoadedSound
<1>16. AuditSound'
  <2>1. SUFFICES ASSUME NEW e \in Events, Undeleted(log, e) PROVE AuditedRow(e)'
    BY <1>2, <1>12 DEF AuditSound, db
  <2>2. Visible(e, reader.at) /\ newest[e] > 0 => e \in DOMAIN revs
    BY <2>1, <1>4, <1>6, <1>9, UndeletedExists
  <2>3. ASSUME e \in DOMAIN revs
        PROVE  /\ Visible(e, reader.at) /\ revs[e] = newest[e] /\ newest[e] > 0
               /\ e \notin stale => Covers(index.rows, revs, e)
    <3>1. revs[e] = Len(log[e]) /\ log[e] # <<>> /\ Visible(e, reader.at)
      BY <2>3, <1>6
    <3>2. Len(log[e]) > 0
      BY <3>1, <1>4 DEF Logs
    <3>3. Covers(index.rows, index.revisions, e)
      BY <2>1, <1>1 DEF RevisionsCovered
    <3>4. QED BY <3>1, <3>2, <3>3, <2>3, <1>8, <1>9 DEF Covers
  <2>4. QED BY <2>2, <2>3, <1>2, <1>12 DEF AuditedRow
<1>17. QED BY <1>2, <1>4, <1>11, <1>13, <1>14, <1>15, <1>16, ReadKeeps DEF IndexInv, RefreshSound

\* A query of everything, or of the dirty rows, finds their latest versions.
LEMMA LoadStep == IndexInv /\ Load => IndexInv'
<1> SUFFICES ASSUME IndexInv, Load PROVE IndexInv'
  OBVIOUS
<1> DEFINE E == IF reader.full THEN Events ELSE reader.dirty
           L == VersionsOf(Selected(E, reader.at))
           newest == [e \in Events |-> Len(log[e])]
           seen == IF reader.full THEN newest ELSE reader.seen
           phase == IF reader.full THEN "loaded" ELSE "by id"
<1>1. TypeCorrect
  BY DEF IndexInv
<1>2. /\ reader # None /\ reader.phase \in {"taken", "audited"}
      /\ UNCHANGED <<db, session, hook, index, published, answer>>
  BY DEF Load
<1>3. reader' = [reader EXCEPT !.phase = phase, !.loaded = L, !.seen = seen]
  BY DEF Load, Version
<1>4. index \in Indexes /\ reader \in Refreshes /\ log \in Logs
  BY <1>1, <1>2 DEF TypeCorrect
<1>5. TakenSound /\ LoadedSound /\ AuditSound
  BY <1>2 DEF IndexInv, RefreshSound
<1>6. E \in SUBSET Events
  BY <1>4 DEF Refreshes
<1>7. /\ L \in Tables /\ Known(log, L)
      /\ \A e \in Events : /\ e \in DOMAIN L <=> e \in E /\ log[e] # <<>> /\ log[e][Len(log[e])] /\ Visible(e, reader.at)
                           /\ e \in DOMAIN L => L[e] = Len(log[e])
  BY <1>4, <1>6, QueryReads
<1>8. newest \in [Events -> Nat] /\ \A e \in Events : newest[e] = Len(log[e]) /\ Len(log[e]) \in Nat
  BY <1>4 DEF Logs
<1>9. seen \in [Events -> Nat] /\ reader.floor \in [Events -> Nat]
  BY <1>4, <1>8 DEF Refreshes
<1>10. \A e \in Events : seen[e] <= Len(log[e]) /\ reader.floor[e] <= Len(log[e])
  <2>1. \A e \in Events : reader.floor[e] <= Len(log[e]) /\ reader.seen[e] <= Len(log[e])
    BY <1>5 DEF TakenSound
  <2>2. \A e \in Events : newest[e] <= Len(log[e])
    BY <1>8
  <2>3. CASE reader.full
    BY <2>1, <2>2, <2>3
  <2>4. CASE ~ reader.full
    BY <2>1, <2>4
  <2>5. QED BY <2>3, <2>4
<1>11. phase \in {"taken", "audited", "by id", "loaded"} /\ reader.full \in BOOLEAN
  BY <1>4 DEF Refreshes
<1>12. /\ reader.full => E = Events /\ seen = newest /\ phase = "loaded"
       /\ ~ reader.full => E = reader.dirty /\ seen = reader.seen /\ phase = "by id"
  OBVIOUS
<1> HIDE DEF L, newest, seen, phase, E
<1>13. reader' \in Refreshes
  BY <1>3, <1>4, <1>7, <1>9, <1>11 DEF Refreshes
<1>14. /\ reader'.phase = phase /\ reader'.loaded = L /\ reader'.seen = seen
       /\ reader'.audited = reader.audited /\ reader'.revisions = reader.revisions
       /\ reader'.dirty = reader.dirty /\ reader'.at = reader.at /\ reader'.full = reader.full
       /\ reader'.floor = reader.floor
  BY <1>3, <1>4 DEF Refreshes
<1>15. \A e \in Events : Remembered(e) => Remembered(e)'
  BY <1>2, <1>13, <1>14, RefreshIs DEF Remembered
<1>16. TakenSound'
  BY <1>2, <1>5, <1>7, <1>10, <1>12, <1>14 DEF TakenSound, db
<1>17. ASSUME NEW e \in E, Visible(e, reader.at), NEW from \in Nat, from <= Len(log[e])
       PROVE  Fits(log, L, e, from)
  BY <1>17, <1>4, <1>6, <1>7, FitsNow
<1>18. LoadedSound'
  <2>1. \A e \in Events : (reader.full \/ e \in reader.dirty) /\ Visible(e, reader.at) =>
           Fits(log, L, e, reader.floor[e])
    BY <1>9, <1>10, <1>12, <1>17
  <2>2. reader.full => \A e \in Events : Visible(e, reader.at) => Fits(log, L, e, seen[e])
    BY <1>9, <1>10, <1>12, <1>17
  <2>3. ~ reader.full => \A e \in Events \ reader.dirty : e \notin DOMAIN L
    BY <1>7, <1>12
  <2>4. ~ reader.full /\ ~ reader.audited => seen = reader.floor
    BY <1>5, <1>12 DEF LoadedSound
  <2>5. QED BY <2>1, <2>2, <2>3, <2>4, <1>2, <1>12, <1>14 DEF LoadedSound, db
<1>19. AuditSound'
  <2>1. SUFFICES ASSUME reader.audited PROVE AuditSound'
    BY <1>14 DEF AuditSound
  <2>2. ~ reader.full /\ seen = reader.seen /\ E = reader.dirty /\ phase = "by id"
    BY <2>1, <1>5, <1>12 DEF TakenSound
  <2>3. ASSUME NEW e \in Events, Undeleted(log, e) PROVE AuditedRow(e)'
    <3>1. AuditedRow(e)
      BY <2>1, <2>3, <1>5 DEF AuditSound
    <3>2. ASSUME e \in DOMAIN reader.revisions
          PROVE  /\ log[e] # <<>> /\ log[e][Len(log[e])] /\ Visible(e, reader.at)
                 /\ reader.revisions[e] <= Len(log[e])
      <4>1. Visible(e, reader.at) /\ reader.revisions[e] = reader.seen[e] /\ reader.seen[e] > 0
        BY <3>1, <3>2 DEF AuditedRow
      <4>2. reader.seen[e] \in Nat /\ reader.seen[e] <= Len(log[e])
        BY <2>2, <1>9, <1>10
      <4>3. QED BY <4>1, <4>2, <2>3, <1>4, UndeletedExists
    <3>3. ASSUME e \in DOMAIN reader.revisions
          PROVE  /\ e \in reader.dirty => e \in DOMAIN L
                 /\ e \in DOMAIN L => L[e] >= reader.revisions[e]
      <4>1. reader.revisions[e] \in Nat /\ Len(log[e]) \in Nat
        BY <3>3, <1>4, <1>8, TableIs DEF Refreshes
      <4>2. QED BY <3>2, <3>3, <4>1, <2>2, <1>7
    <3>4. QED BY <3>1, <3>3, <2>2, <1>2, <1>14 DEF AuditedRow
  <2>4. QED BY <2>2, <2>3, <1>2, <1>14 DEF AuditSound, db
<1>20. QED BY <1>2, <1>4, <1>13, <1>15, <1>16, <1>18, <1>19, ReadKeeps DEF IndexInv, RefreshSound

\* The query of the rows the clock has reached finds their latest versions; no other row is read.
LEMMA LoadReachedStep == IndexInv /\ LoadReached => IndexInv'
<1> SUFFICES ASSUME IndexInv, LoadReached PROVE IndexInv'
  OBVIOUS
<1> DEFINE E == {e \in Events : CreatedAt[e] > index.lastNow}
           N == VersionsOf(Selected(E, reader.at))
           L == Over(reader.loaded, N)
<1>1. TypeCorrect
  BY DEF IndexInv
<1>2. /\ reader # None /\ reader.phase = "by id"
      /\ UNCHANGED <<db, session, hook, index, published, answer>>
  BY DEF LoadReached
<1>3. reader' = [reader EXCEPT !.phase = "loaded", !.loaded = L]
  <2>1. Reached = Selected(E, reader.at)
    BY DEF Reached, Selected
  <2>2. QED BY <2>1 DEF LoadReached
<1>4. index \in Indexes /\ reader \in Refreshes /\ log \in Logs
  BY <1>1, <1>2 DEF TypeCorrect
<1>5. TakenSound /\ LoadedSound /\ AuditSound /\ ~ reader.full
  BY <1>2 DEF IndexInv, RefreshSound, TakenSound
<1>6. /\ N \in Tables /\ Known(log, N)
      /\ \A e \in Events : /\ e \in DOMAIN N <=> e \in E /\ log[e] # <<>> /\ log[e][Len(log[e])] /\ Visible(e, reader.at)
                           /\ e \in DOMAIN N => N[e] = Len(log[e])
  <2>1. E \in SUBSET Events
    OBVIOUS
  <2>2. QED BY <2>1, <1>4, QueryReads
<1>7. /\ L \in Tables /\ DOMAIN L = DOMAIN reader.loaded \cup DOMAIN N
      /\ \A e \in DOMAIN L : L[e] = IF e \in DOMAIN N THEN N[e] ELSE reader.loaded[e]
  <2>1. reader.loaded \in Tables
    BY <1>4 DEF Refreshes
  <2> HIDE DEF N
  <2>2. QED BY <2>1, <1>6, OverTable
<1>8. reader.floor \in [Events -> Nat] /\ \A e \in Events : reader.floor[e] <= Len(log[e]) /\ Len(log[e]) \in Nat
  <2>1. reader.floor \in [Events -> Nat]
    BY <1>4 DEF Refreshes
  <2>2. \A e \in Events : Len(log[e]) \in Nat
    BY <1>4 DEF Logs
  <2>3. \A e \in Events : reader.floor[e] <= Len(log[e])
    BY <1>5 DEF TakenSound
  <2>4. QED BY <2>1, <2>2, <2>3
<1>9. \A e \in Events : CreatedAt[e] \in Nat /\ (e \notin E => CreatedAt[e] <= index.lastNow)
  BY <1>4, IndexAssumption DEF Indexes
<1>10. \A e \in E : ~ (CreatedAt[e] <= index.lastNow)
  BY <1>4, IndexAssumption DEF Indexes
<1> HIDE DEF L, N, E
<1>11. reader' \in Refreshes
  BY <1>3, <1>4, <1>7 DEF Refreshes
<1>12. /\ reader'.phase = "loaded" /\ reader'.loaded = L /\ reader'.seen = reader.seen
       /\ reader'.audited = reader.audited /\ reader'.revisions = reader.revisions
       /\ reader'.dirty = reader.dirty /\ reader'.at = reader.at /\ reader'.full = reader.full
       /\ reader'.floor = reader.floor
  BY <1>3, <1>4 DEF Refreshes
<1>13. \A e \in Events : Remembered(e) => Remembered(e)'
  BY <1>2, <1>11, <1>12, RefreshIs DEF Remembered
<1>14. TakenSound'
  <2>1. Known(log, L)
    BY <1>5, <1>6, <1>7 DEF Known, TakenSound
  <2>2. QED BY <2>1, <1>2, <1>5, <1>12 DEF TakenSound, db
\* Of the rows the clock reached the second query is current; the others are as they were.
<1>15. ASSUME NEW e \in Events, Visible(e, reader.at), e \in E
       PROVE  e \notin DOMAIN reader.loaded \/ e \in DOMAIN N => Fits(log, L, e, reader.floor[e])
  <2>1. SUFFICES ASSUME e \notin DOMAIN reader.loaded \/ e \in DOMAIN N
                 PROVE  Fits(log, L, e, reader.floor[e])
    OBVIOUS
  <2>2. IF log[e] # <<>> /\ log[e][Len(log[e])] THEN e \in DOMAIN L /\ L[e] = Len(log[e]) ELSE e \notin DOMAIN L
    BY <1>6, <1>7, <1>15, <2>1
  <2>3. QED BY <2>2, <1>4, <1>8, FitsNow
<1>16. ASSUME NEW e \in Events, e \notin DOMAIN N, NEW from, Fits(log, reader.loaded, e, from)
       PROVE  Fits(log, L, e, from)
  BY <1>7, <1>16, FitsSame DEF Same
<1>17. LoadedSound'
  <2>1. ASSUME NEW e \in reader.dirty, Visible(e, reader.at) PROVE Fits(log, L, e, reader.floor[e])
    <3>1. Fits(log, reader.loaded, e, reader.floor[e]) /\ e \in Events
      BY <2>1, <1>2, <1>4, <1>5 DEF LoadedSound, Refreshes
    <3>2. CASE e \in DOMAIN N
      BY <3>1, <3>2, <2>1, <1>6, <1>15
    <3>3. CASE e \notin DOMAIN N
      BY <3>1, <3>3, <1>16
    <3>4. QED BY <3>2, <3>3
  <2>2. ASSUME NEW e \in Events \ reader.dirty
        PROVE  IF CreatedAt[e] <= index.lastNow THEN e \notin DOMAIN L
               ELSE Visible(e, reader.at) => Fits(log, L, e, reader.floor[e])
    <3>1. e \notin DOMAIN reader.loaded
      BY <2>2, <1>2, <1>5 DEF LoadedSound
    <3>2. QED BY <3>1, <1>6, <1>7, <1>9, <1>10, <1>15
  <2>3. ~ reader.audited => reader.seen = reader.floor
    BY <1>5 DEF LoadedSound
  <2>4. QED BY <2>1, <2>2, <2>3, <1>2, <1>5, <1>12 DEF LoadedSound, db
<1>18. AuditSound'
  <2>1. SUFFICES ASSUME reader.audited PROVE AuditSound'
    BY <1>12 DEF AuditSound
  <2>2. ASSUME NEW e \in Events, Undeleted(log, e) PROVE AuditedRow(e)'
    <3>1. AuditedRow(e)
      BY <2>1, <2>2, <1>5 DEF AuditSound
    <3>2. ASSUME e \in DOMAIN reader.revisions
          PROVE  /\ e \in reader.dirty => e \in DOMAIN L
                 /\ e \in DOMAIN L => L[e] >= reader.revisions[e]
      <4>1. /\ e \in reader.dirty => e \in DOMAIN reader.loaded
            /\ e \in DOMAIN reader.loaded => reader.loaded[e] >= reader.revisions[e]
            /\ reader.revisions[e] = reader.seen[e]
        BY <3>1, <3>2, <1>2 DEF AuditedRow
      <4>2. reader.seen[e] <= Len(log[e]) /\ reader.seen[e] \in Nat
        BY <1>4, <1>5 DEF TakenSound, Refreshes
      <4>3. QED BY <4>1, <4>2, <1>6, <1>7, <1>8
    <3>3. QED BY <3>1, <3>2, <1>2, <1>12 DEF AuditedRow
  <2>3. QED BY <2>1, <2>2, <1>2, <1>12 DEF AuditSound, db
<1>19. QED BY <1>2, <1>4, <1>11, <1>13, <1>14, <1>17, <1>18, ReadKeeps DEF IndexInv, RefreshSound

-----------------------------------------------------------------------------
(* The end of a refresh                                                     *)

\* What the merged table tells of a row: all of what a full load read; else what was read of it,
\* nothing of a dirty row that was not found, and what the projection had of any other.
LEMMA MergeIs ==
  ASSUME reader \in Refreshes, NEW f \in Tables
  PROVE  /\ Merge(f) \in Tables
         /\ reader.full => Merge(f) = reader.loaded
         /\ ~ reader.full => \A e \in Events :
              /\ e \in DOMAIN reader.loaded => e \in DOMAIN Merge(f) /\ Merge(f)[e] = reader.loaded[e]
              /\ e \notin DOMAIN reader.loaded /\ e \in reader.dirty => e \notin DOMAIN Merge(f)
              /\ e \notin DOMAIN reader.loaded /\ e \notin reader.dirty => Same(f, Merge(f), e)
<1>1. reader.loaded \in Tables
  BY DEF Refreshes
<1>2. CASE reader.full
  BY <1>1, <1>2 DEF Merge
<1>3. CASE ~ reader.full
  <2> DEFINE g == Without(f, reader.dirty)
  <2>1. g \in Tables /\ DOMAIN g = DOMAIN f \ reader.dirty /\ \A e \in DOMAIN f \ reader.dirty : g[e] = f[e]
    BY WithoutTable
  <2>2. Merge(f) = Over(g, reader.loaded)
    BY <1>3 DEF Merge
  <2> HIDE DEF g
  <2> DEFINE L == reader.loaded
  <2>0. L \in Tables
    BY <1>1
  <2> HIDE DEF L
  <2>3. /\ Over(g, L) \in Tables /\ DOMAIN Over(g, L) = DOMAIN g \cup DOMAIN L
        /\ \A e \in DOMAIN Over(g, L) : Over(g, L)[e] = IF e \in DOMAIN L THEN L[e] ELSE g[e]
    BY <2>0, <2>1, OverTable
  <2>4. QED BY <1>3, <2>1, <2>2, <2>3 DEF Same, L
<1>4. QED BY <1>2, <1>3

\* The clocks and rows a refresh compares.
LEMMA VisibleBefore ==
  ASSUME NEW e \in Events, NEW a \in Nat \cup {-1}, NEW b \in Nat, a <= b, Visible(e, b)
  PROVE  CreatedAt[e] <= a <=> Visible(e, a)
BY IndexAssumption DEF Visible

\* The rows of the new projection, and so of the answer, fit the log from what was announced
\* before the refresh began ...
LEMMA MergedFits ==
  ASSUME IndexInv, reader # None, reader.phase = "loaded", NEW e \in Events, Visible(e, reader.at)
  PROVE  Fits(log, Merge(index.rows), e, reader.floor[e])
<1> DEFINE M == Merge(index.rows)
<1>1. /\ log \in Logs /\ reader \in Refreshes /\ index \in Indexes /\ ProjectionSound
      /\ TakenSound /\ LoadedSound
  BY DEF IndexInv, TypeCorrect, RefreshSound
<1>2. /\ index.rows \in Tables /\ index.lastNow \in Nat \cup {-1} /\ reader.at \in Nat
  BY <1>1 DEF Indexes, Refreshes
<1>3. /\ reader.full => M = reader.loaded
      /\ ~ reader.full =>
              /\ e \in DOMAIN reader.loaded => Same(reader.loaded, M, e)
              /\ e \notin DOMAIN reader.loaded /\ e \in reader.dirty => e \notin DOMAIN M
              /\ e \notin DOMAIN reader.loaded /\ e \notin reader.dirty => Same(index.rows, M, e)
  BY <1>1, <1>2, MergeIs DEF Same
<1> HIDE DEF M
<1>4. CASE reader.full
  <2>1. Fits(log, reader.loaded, e, reader.floor[e])
    BY <1>4, <1>1 DEF LoadedSound
  <2>2. QED BY <2>1, <1>3, <1>4 DEF M
<1>5. CASE ~ reader.full /\ e \in reader.dirty
  <2>1. Fits(log, reader.loaded, e, reader.floor[e])
    BY <1>5, <1>1 DEF LoadedSound
  <2>2. Same(reader.loaded, M, e)
    BY <1>3, <1>5 DEF Same
  <2>3. QED BY <2>1, <2>2, FitsSame DEF M
<1>6. CASE ~ reader.full /\ e \notin reader.dirty
  <2>1. index.lastNow <= reader.at
    BY <1>6, <1>1 DEF TakenSound
  <2>2. CreatedAt[e] <= index.lastNow <=> Visible(e, index.lastNow)
    BY <2>1, <1>2, VisibleBefore
  <2>3. CASE Visible(e, index.lastNow)
    <3>1. Fits(log, index.rows, e, reader.floor[e])
      BY <1>6, <2>3, <1>1 DEF TakenSound
    <3>2. e \notin DOMAIN reader.loaded
      BY <1>6, <2>2, <2>3, <1>1 DEF LoadedSound
    <3>3. QED BY <3>1, <3>2, <1>3, <1>6, FitsSame DEF M
  <2>4. CASE ~ Visible(e, index.lastNow)
    <3>1. Fits(log, reader.loaded, e, reader.floor[e])
      BY <1>6, <2>2, <2>4, <1>1 DEF LoadedSound
    <3>2. e \notin DOMAIN index.rows
      BY <2>4, <1>1 DEF ProjectionSound
    <3>3. Same(reader.loaded, M, e)
      BY <3>2, <1>3, <1>6 DEF Same
    <3>4. QED BY <3>1, <3>3, FitsSame DEF M
  <2>5. QED BY <2>3, <2>4
<1>7. QED BY <1>4, <1>5, <1>6 DEF M

\* ... and what an audit found of a row that was never deleted, the projection now has.
LEMMA MergedCovers ==
  ASSUME IndexInv, reader # None, reader.phase = "loaded", reader.audited, NEW e \in Events,
         Undeleted(log, e), e \in DOMAIN reader.revisions
  PROVE  /\ Covers(Merge(index.rows), reader.revisions, e) /\ Visible(e, reader.at)
         /\ reader.revisions[e] = reader.seen[e]
<1> DEFINE M == Merge(index.rows)
<1>1. /\ reader \in Refreshes /\ index \in Indexes /\ TakenSound /\ LoadedSound /\ AuditedRow(e)
  BY DEF IndexInv, TypeCorrect, RefreshSound, AuditSound
<1>2. ~ reader.full /\ index.rows \in Tables
  BY <1>1 DEF TakenSound, Indexes
<1>3. /\ e \in DOMAIN reader.loaded => Same(reader.loaded, M, e)
      /\ e \notin DOMAIN reader.loaded /\ e \notin reader.dirty => Same(index.rows, M, e)
  BY <1>1, <1>2, MergeIs DEF Same
<1>4. /\ Visible(e, reader.at) /\ reader.revisions[e] = reader.seen[e]
      /\ e \notin reader.dirty => Covers(index.rows, reader.revisions, e)
      /\ e \in reader.dirty => e \in DOMAIN reader.loaded
      /\ e \in DOMAIN reader.loaded => reader.loaded[e] >= reader.revisions[e]
  BY <1>1 DEF AuditedRow
<1> HIDE DEF M
<1>5. Covers(M, reader.revisions, e)
  BY <1>3, <1>4 DEF Covers, Same
<1>6. QED BY <1>4, <1>5 DEF M

\* The new projection is what was read over what the projection had, cut to the window.
LEMMA FinishStep == IndexInv /\ Finish => IndexInv'
<1> SUFFICES ASSUME IndexInv, Finish PROVE IndexInv'
  OBVIOUS
<1> DEFINE M == Merge(index.rows)
           rows == OnlyVisible(M, reader.at)
           V == Merge(index.revisions)
           kept == Without(V, DOMAIN M \ DOMAIN rows)
           revs == IF reader.audited THEN reader.revisions ELSE kept
<1>1. /\ TypeCorrect /\ ChangesAwaited /\ ProjectionSound /\ RevisionsCovered /\ TakenSound
      /\ LoadedSound /\ AuditSound /\ reader # None
  BY DEF IndexInv, RefreshSound, Finish
<1>2. /\ index \in Indexes /\ reader \in Refreshes /\ log \in Logs /\ published \in [Events -> Nat]
  BY <1>1 DEF TypeCorrect
<1>3. /\ reader.phase = "loaded" /\ reader' = None /\ UNCHANGED <<db, session, hook, published>>
      /\ index' = [index EXCEPT !.rows = rows, !.lastNow = reader.at, !.revisions = revs]
      /\ answer' = [rows |-> rows, at |-> reader.at, floor |-> reader.floor, seen |-> reader.seen]
  BY DEF Finish
<1>4. /\ index.rows \in Tables /\ index.revisions \in Tables /\ reader.loaded \in Tables
      /\ reader.revisions \in Tables /\ reader.at \in Nat
      /\ reader.floor \in [Events -> Nat] /\ reader.seen \in [Events -> Nat]
      /\ DOMAIN index.rows \subseteq Events /\ DOMAIN reader.loaded \subseteq Events
      /\ reader.audited \in BOOLEAN
  <2>1. /\ index.rows \in Tables /\ index.revisions \in Tables
    BY <1>2 DEF Indexes
  <2>2. /\ reader.loaded \in Tables /\ reader.revisions \in Tables /\ reader.at \in Nat
        /\ reader.floor \in [Events -> Nat] /\ reader.seen \in [Events -> Nat]
        /\ reader.audited \in BOOLEAN
    BY <1>2 DEF Refreshes
  <2>3. QED BY <2>1, <2>2, TableIs
<1>5. M \in Tables /\ V \in Tables
  BY <1>2, <1>4, MergeIs
<1>6. DOMAIN M \subseteq Events /\ DOMAIN V \subseteq Events
  BY <1>5, TableIs
<1>7. Known(log, M)
  <2>1. ASSUME NEW e \in DOMAIN M
        PROVE  \/ e \in DOMAIN reader.loaded /\ M[e] = reader.loaded[e]
               \/ e \in DOMAIN index.rows /\ M[e] = index.rows[e]
    <3>1. CASE reader.full
      <4>1. M = reader.loaded
        BY <3>1, <1>2, <1>4, MergeIs
      <4> HIDE DEF M
      <4>2. QED BY <4>1, <2>1
    <3>2. CASE ~ reader.full
      <4>1. e \in Events
        BY <1>6, <2>1
      <4>2. /\ e \in DOMAIN reader.loaded => e \in DOMAIN M /\ M[e] = reader.loaded[e]
            /\ e \notin DOMAIN reader.loaded /\ e \in reader.dirty => e \notin DOMAIN M
            /\ e \notin DOMAIN reader.loaded /\ e \notin reader.dirty => Same(index.rows, M, e)
        BY <4>1, <3>2, <1>2, <1>4, MergeIs
      <4> HIDE DEF M
      <4>3. QED BY <4>2, <2>1 DEF Same
    <3>3. QED BY <3>1, <3>2
  <2>2. Known(log, reader.loaded) /\ Known(log, index.rows)
    BY <1>1 DEF TakenSound, ProjectionSound
  <2> HIDE DEF M
  <2>3. QED BY <2>1, <2>2 DEF Known
<1>8. \A e \in Events : Visible(e, reader.at) => Fits(log, M, e, reader.floor[e])
  BY <1>1, <1>3, MergedFits
<1>9. \A e \in Events : reader.audited /\ Undeleted(log, e) /\ e \in DOMAIN reader.revisions =>
         /\ Covers(M, reader.revisions, e) /\ Visible(e, reader.at)
         /\ reader.revisions[e] = reader.seen[e]
  BY <1>1, <1>3, MergedCovers
\* What is kept of the revisions is covered by the merged rows.
<1>10. \A e \in Events : Undeleted(log, e) /\ e \in DOMAIN V => e \in DOMAIN M /\ M[e] >= V[e]
  <2>1. SUFFICES ASSUME NEW e \in Events, Undeleted(log, e), e \in DOMAIN V
                 PROVE  e \in DOMAIN M /\ M[e] >= V[e]
    OBVIOUS
  <2>2. M[e] = V[e] /\ V[e] \in Nat /\ e \in DOMAIN M => M[e] >= V[e]
    <3> HIDE DEF M, V
    <3>1. QED OBVIOUS
  <2>3. V[e] \in Nat
    BY <2>1, <1>5, TableIs
  <2>4. CASE reader.full
    <3>1. M = reader.loaded /\ V = reader.loaded
      BY <2>4, <1>2, <1>4, MergeIs
    <3>2. QED BY <3>1, <2>1, <2>2, <2>3
  <2>5. CASE ~ reader.full /\ e \in DOMAIN reader.loaded
    <3>1. e \in DOMAIN M /\ M[e] = reader.loaded[e] /\ V[e] = reader.loaded[e]
      BY <2>5, <1>2, <1>4, MergeIs
    <3>2. QED BY <3>1, <2>2, <2>3
  <2>6. CASE ~ reader.full /\ e \notin DOMAIN reader.loaded
    <3>1. e \notin reader.dirty
      BY <2>1, <2>6, <1>2, <1>4, MergeIs
    <3>2. Same(index.rows, M, e) /\ Same(index.revisions, V, e)
      BY <2>6, <3>1, <1>2, <1>4, MergeIs
    <3>3. Covers(index.rows, index.revisions, e)
      BY <2>1, <1>1 DEF RevisionsCovered
    <3> HIDE DEF M, V
    <3>4. QED BY <3>2, <3>3, <2>1 DEF Same, Covers
  <2>7. QED BY <2>4, <2>5, <2>6
<1> HIDE DEF M, V
<1>11. /\ rows \in Tables /\ DOMAIN rows = {e \in DOMAIN M : Visible(e, reader.at)}
       /\ \A e \in DOMAIN M : Visible(e, reader.at) => rows[e] = M[e]
  BY <1>5, VisibleTable
<1> HIDE DEF rows
<1>12. /\ kept \in Tables /\ DOMAIN kept = DOMAIN V \ (DOMAIN M \ DOMAIN rows)
       /\ \A e \in DOMAIN kept : kept[e] = V[e]
  BY <1>5, WithoutTable
<1> HIDE DEF kept
<1>13. revs \in Tables
  BY <1>4, <1>12
<1>14. /\ reader.audited => revs = reader.revisions
       /\ ~ reader.audited => revs = kept
  OBVIOUS
<1> HIDE DEF revs
<1>15. /\ index' \in Indexes /\ index'.rows = rows /\ index'.revisions = revs
       /\ index'.lastNow = reader.at /\ index'.full = index.full /\ index'.dirty = index.dirty
  BY <1>2, <1>3, <1>4, <1>11, <1>13 DEF Indexes
<1>16. answer' \in Answers
  BY <1>3, <1>4, <1>11 DEF Answers
<1>17. /\ answer'.rows = rows /\ answer'.at = reader.at /\ answer'.floor = reader.floor
       /\ answer'.seen = reader.seen
  BY <1>3
<1>18. \A e \in Events : Visible(e, reader.at) => Same(M, rows, e)
  BY <1>11 DEF Same
<1>19. \A e \in Events : Visible(e, reader.at) => Fits(log, rows, e, reader.floor[e])
  BY <1>8, <1>18, FitsSame
<1>20. Known(log, rows)
  BY <1>7, <1>11 DEF Known
<1>21. TypeCorrect' /\ ChangesAwaited'
  BY <1>1, <1>3, <1>15, <1>16 DEF TypeCorrect, ChangesAwaited, db
<1>22. ProjectionSound'
  <2>1. ASSUME NEW e \in Events, Visible(e, reader.at), ~ (index.full \/ e \in index.dirty)
        PROVE  Fits(log, rows, e, published[e])
    <3>1. published[e] = reader.floor[e]
      BY <2>1, <1>1 DEF TakenSound
    <3>2. QED BY <2>1, <3>1, <1>19
  <2>2. \A e \in DOMAIN rows : Visible(e, reader.at)
    BY <1>11
  <2>3. QED BY <2>1, <2>2, <1>3, <1>15, <1>20 DEF ProjectionSound, Remembered, db
<1>23. RevisionsCovered'
  <2>1. ASSUME NEW e \in Events, Undeleted(log, e) PROVE Covers(rows, revs, e)
    <3>1. CASE reader.audited
      BY <2>1, <3>1, <1>9, <1>11, <1>14 DEF Covers
    <3>2. CASE ~ reader.audited
      BY <2>1, <3>2, <1>10, <1>11, <1>12, <1>14 DEF Covers
    <3>3. QED BY <3>1, <3>2
  <2>2. QED BY <2>1, <1>3, <1>15 DEF RevisionsCovered, db
<1>24. AnswerSound'
  <2>1. ASSUME NEW e \in Events, Visible(e, reader.at), Undeleted(log, e)
        PROVE  Fits(log, rows, e, reader.seen[e])
    <3>1. CASE reader.full
      <4>1. Fits(log, reader.loaded, e, reader.seen[e])
        BY <2>1, <3>1, <1>1, <1>3 DEF LoadedSound
      <4>2. M = reader.loaded
        BY <3>1, <1>2, <1>4, MergeIs DEF M
      <4>3. QED BY <4>1, <4>2, <2>1, <1>18, FitsSame
    <3>2. CASE ~ reader.full /\ ~ reader.audited
      BY <2>1, <3>2, <1>1, <1>19 DEF LoadedSound
    <3>3. CASE reader.audited /\ reader.seen[e] > 0
      <4>1. e \in DOMAIN reader.revisions
        BY <2>1, <3>3, <1>1 DEF AuditSound, AuditedRow
      <4>2. e \in DOMAIN rows /\ rows[e] >= reader.seen[e]
        BY <4>1, <2>1, <3>3, <1>9, <1>11 DEF Covers
      <4>3. rows[e] \in 1 .. Len(log[e]) /\ reader.seen[e] \in Nat
        BY <4>2, <1>4, <1>20 DEF Known
      <4>4. QED BY <4>2, <4>3, <2>1, <1>2, FitsUndeleted
    <3>4. CASE reader.audited /\ ~ (reader.seen[e] > 0)
      <4>1. reader.seen[e] = 0 /\ reader.floor[e] \in Nat
        BY <3>4, <1>4
      <4>2. PICK v \in reader.floor[e] .. Len(log[e]) : ShownAs(log, rows, e, v)
        BY <2>1, <1>19 DEF Fits
      <4>3. v \in reader.seen[e] .. Len(log[e])
        BY <4>1, <4>2, <1>2 DEF Logs
      <4>4. QED BY <4>2, <4>3 DEF Fits
    <3>5. QED BY <3>1, <3>2, <3>3, <3>4
  <2>2. QED BY <2>1, <1>3, <1>17, <1>19 DEF AnswerSound, db
<1>25. QED BY <1>3, <1>21, <1>22, <1>23, <1>24 DEF IndexInv

-----------------------------------------------------------------------------
\* The invariant holds at the start: nothing is visible before the clock starts.
LEMMA IndexStarts == Init => IndexInv
<1> SUFFICES ASSUME Init PROVE IndexInv
  OBVIOUS
<1>1. /\ now = 0 /\ log = [e \in Events |-> <<>>] /\ session = NoSession /\ hook = None
      /\ index = [generation |-> 0, full |-> TRUE, dirty |-> {}, rows |-> <<>>,
                   revisions |-> <<>>, lastNow |-> -1]
      /\ reader = None /\ published = [e \in Events |-> 0]
      /\ answer = [rows |-> <<>>, at |-> -1, floor |-> [e \in Events |-> 0],
                   seen |-> [e \in Events |-> 0]]
  BY DEF Init
<1>2. \A e \in Events : log[e] = <<>> /\ Len(log[e]) = 0 /\ published[e] = 0
  BY <1>1
<1>3. \A e \in Events : ~ Visible(e, -1)
  BY IndexAssumption DEF Visible
<1>4. log \in Logs
  <2>1. <<>> \in Seq(BOOLEAN)
    OBVIOUS
  <2>2. QED BY <2>1, <1>1 DEF Logs
<1>5. index \in Indexes /\ answer \in Answers /\ session \in Sessions
  <2>1. [e \in Events |-> 0] \in [Events -> Nat]
    OBVIOUS
  <2>2. -1 \in Nat \cup {-1} /\ 0 \in Nat
    OBVIOUS
  <2>3. index \in Indexes
    BY <1>1, <2>2, NoTable DEF Indexes
  <2>4. answer \in Answers
    BY <1>1, <2>1, <2>2, NoTable DEF Answers
  <2>5. session \in Sessions
    BY <1>1 DEF NoSession, Sessions
  <2>6. QED BY <2>3, <2>4, <2>5
<1>6. TypeCorrect
  <2>1. published \in [Events -> Nat]
    BY <1>1
  <2>2. QED BY <2>1, <1>1, <1>4, <1>5 DEF TypeCorrect
<1>7. NamesOf(session.outer \cup session.inner) = {}
  BY <1>1 DEF NoSession, NamesOf
<1>8. ChangesAwaited
  <2>1. \A e \in Events : published[e] <= Len(log[e])
    BY <1>2
  <2>2. QED BY <2>1, <1>1, <1>7 DEF ChangesAwaited
<1>9. index.rows = <<>> /\ index.revisions = <<>> /\ index.lastNow = -1 /\ answer.at = -1 /\ DOMAIN <<>> = {}
  BY <1>1
<1>10. ProjectionSound
  BY <1>3, <1>9, NoTable DEF ProjectionSound
<1>11. RevisionsCovered /\ AnswerSound
  BY <1>3, <1>9 DEF RevisionsCovered, AnswerSound, Covers
<1>12. QED BY <1>1, <1>6, <1>8, <1>10, <1>11 DEF IndexInv

\* Every step keeps the invariant.
LEMMA IndexSteps == IndexInv /\ [Next]_vars => IndexInv'
<1> SUFFICES ASSUME IndexInv, [Next]_vars PROVE IndexInv'
  OBVIOUS
<1>1. CASE Flush \/ Bulk
  BY <1>1, FlushStep
<1>2. CASE Savepoint \/ Release \/ RollbackNested \/ Rollback
  BY <1>2, SavepointStep
<1>3. CASE Commit
  BY <1>3, CommitStep
<1>4. CASE Publish
  BY <1>4, PublishStep
<1>5. CASE Begin
  BY <1>5, BeginStep
<1>6. CASE Audit
  BY <1>6, AuditStep
<1>7. CASE Load
  BY <1>7, LoadStep
<1>8. CASE LoadReached
  BY <1>8, LoadReachedStep
<1>9. CASE Finish
  BY <1>9, FinishStep
<1>10. CASE Fail \/ Overtaken
  BY <1>10, GiveBackStep
<1>11. CASE Elsewhere
  BY <1>11, ElsewhereStep
<1>12. CASE SchemaEvent
  BY <1>12, SchemaStep
<1>13. CASE Tick
  BY <1>13, TickStep
<1>14. CASE UNCHANGED vars
  <2>1. /\ UNCHANGED <<db, session, hook, index, reader, published, answer>>
        /\ now' = now /\ log' = log
    BY <1>14 DEF vars, db
  <2>2. session' \in Sessions
    BY <2>1 DEF IndexInv, TypeCorrect
  <2>3. session'.reset \/ NamesOf(session'.outer \cup session'.inner) \subseteq session'.changes
    BY <2>1 DEF IndexInv, ChangesAwaited
  <2>4. QED BY <2>1, <2>2, <2>3, SessionKeeps
<1>15. QED BY <1>1, <1>2, <1>3, <1>4, <1>5, <1>6, <1>7, <1>8, <1>9, <1>10, <1>11, <1>12, <1>13, <1>14
           DEF Next, Write, Read

\* The invariant says what is promised.
LEMMA IndexSafe == IndexInv => AnswersAreWhole
<1> SUFFICES ASSUME IndexInv PROVE AnswersAreWhole
  OBVIOUS
<1>1. TypeCorrect /\ ProjectionSound /\ AnswerSound
  BY DEF IndexInv
<1>2. \A e \in Events : \A from : Fits(log, answer.rows, e, from) =>
                                  \E v \in from .. Version(e) : Shows(answer, e, v)
  BY DEF Fits, ShownAs, Shows, Version
<1>3. AnswerIsFresh
  BY <1>1, <1>2 DEF AnswerIsFresh, ShowsSince, AnswerSound
<1>4. AuditCatchesOthers
  BY <1>1, <1>2 DEF AuditCatchesOthers, ShowsSince, AnswerSound, NeverDeleted, Undeleted
<1>5. NothingForgotten
  <2>1. SUFFICES ASSUME NEW e \in Events, Visible(e, index.lastNow),
                        published[e] > (IF e \in DOMAIN index.rows THEN index.rows[e] ELSE 0),
                        \A v \in published[e] .. Version(e) : log[e][v],
                        ~ Remembered(e)
                 PROVE  FALSE
    BY DEF NothingForgotten
  <2>2. PICK v \in published[e] .. Len(log[e]) : ShownAs(log, index.rows, e, v)
    BY <2>1, <1>1 DEF ProjectionSound, Fits
  <2>3. log[e][v]
    BY <2>1, <2>2 DEF Version
  <2>4. published[e] \in Nat /\ index.rows \in Tables
    BY <1>1 DEF TypeCorrect, Indexes
  <2>5. published[e] > 0 /\ (e \in DOMAIN index.rows => index.rows[e] \in Nat /\ published[e] > index.rows[e])
    BY <2>1, <2>4, TableIs
  <2>6. v \in Int /\ v >= published[e] /\ v > 0
    BY <2>2, <2>4, <2>5
  <2>7. e \in DOMAIN index.rows /\ index.rows[e] = v
    BY <2>2, <2>3, <2>6 DEF ShownAs
  <2>8. QED BY <2>4, <2>5, <2>6, <2>7
<1>6. QED BY <1>3, <1>4, <1>5 DEF AnswersAreWhole

\* No change that was announced is forgotten on its way to an answer, and none that an audit
\* could see is, however sessions, hooks, refreshes and failing queries interleave.
THEOREM AnswersWhole == Spec => []AnswersAreWhole
<1>1. Init => IndexInv
  BY IndexStarts
<1>2. IndexInv /\ [Next]_vars => IndexInv'
  BY IndexSteps
<1>3. IndexInv => AnswersAreWhole
  BY IndexSafe
<1>4. QED BY <1>1, <1>2, <1>3, PTL DEF Spec

(* The shards                                                               *)

-----------------------------------------------------------------------------
\* What is known of the feed.
LEMMA FeedIs ==
  /\ Keys \subseteq Nat /\ IsFiniteSet(Keys)
  /\ size \in Nat \ {0} /\ \A k \in Keys : FeedOf[k] = Feed
BY FeedAssumption DEF size

\* A set of numbers that is not empty has a least one: what induction on numbers needs.
LEMMA LeastExists ==
  ASSUME NEW S, S \subseteq Nat, S # {}
  PROVE  \E m \in S : \A u \in S : m <= u
<1>1. PICK m \in S : \A u \in S : ~ (<<u, m>> \in OpToRel(<, Nat))
  BY NatLessThanWellFounded, WFMin
<1>2. \A u \in S : ~ (u < m)
  BY <1>1 DEF OpToRel
<1>3. QED BY <1>2

\* The lesser of two numbers.
LEMMA LesserIs ==
  ASSUME NEW a \in Int, NEW b \in Int
  PROVE  Min({a, b}) = IF a <= b THEN a ELSE b
<1> DEFINE m == IF a <= b THEN a ELSE b
<1>1. m \in {a, b} /\ \A y \in {a, b} : m <= y
  OBVIOUS
<1>2. \A x \in {a, b} : (\A y \in {a, b} : x <= y) => x = m
  OBVIOUS
<1> HIDE DEF m
<1>3. (CHOOSE x \in {a, b} : \A y \in {a, b} : x <= y) = m
  BY <1>1, <1>2
<1>4. Min({a, b}) = m
  BY <1>3 DEF Min
<1>5. QED BY <1>4 DEF m

\* How many of a set come before a number.
Rank(T, t) == Cardinality({u \in T : u < t})

\* The rank tells them apart, and is between nothing and all.
LEMMA RankGrows ==
  ASSUME NEW T, T \subseteq Nat, IsFiniteSet(T), NEW t \in T
  PROVE  /\ Rank(T, t) \in Nat /\ Rank(T, t) < Cardinality(T)
         /\ \A u \in T : t < u => Rank(T, t) < Rank(T, u)
<1>0. T \subseteq Nat /\ IsFiniteSet(T) /\ Cardinality(T) \in Nat
  BY FS_CardinalityType
<1> DEFINE B(x) == {u \in T : u < x}
<1>1. \A S \in SUBSET T : IsFiniteSet(S) /\ Cardinality(S) \in Nat
  BY <1>0, FS_Subset, FS_CardinalityType
<1>2. ASSUME NEW S \in SUBSET T, B(t) \subseteq S, t \in S
      PROVE  Rank(T, t) < Cardinality(S)
  <2>1. t \notin B(t) /\ B(t) \in SUBSET S /\ B(t) \in SUBSET T
    BY <1>0, <1>2
  <2>2. Cardinality(B(t)) <= Cardinality(S) /\ (Cardinality(S) = Cardinality(B(t)) => S = B(t))
    BY <2>1, <1>1, FS_Subset
  <2>3. Cardinality(B(t)) \in Nat /\ Cardinality(S) \in Nat
    BY <1>1, <2>1
  <2> HIDE DEF B
  <2>4. Cardinality(B(t)) < Cardinality(S)
    BY <2>1, <2>2, <2>3, <1>2
  <2>5. QED BY <2>4 DEF Rank, B
<1>3. Rank(T, t) \in Nat
  BY <1>1 DEF Rank
<1>4. Rank(T, t) < Cardinality(T)
  BY <1>2
<1>5. ASSUME NEW u \in T, t < u
      PROVE  Rank(T, t) < Rank(T, u)
  <2>1. B(t) \subseteq B(u) /\ t \in B(u) /\ B(u) \in SUBSET T
    <3>1. \A x \in T : x < t => x < u
      BY <1>0, <1>5
    <3>2. QED BY <3>1, <1>5
  <2>2. Rank(T, t) < Cardinality(B(u))
    BY <2>1, <1>2
  <2>3. QED BY <2>2 DEF Rank
<1>6. QED BY <1>3, <1>4, <1>5

\* Every number below all is the rank of one of them.
LEMMA RankExists ==
  ASSUME NEW T, T \subseteq Nat, IsFiniteSet(T), NEW n \in 1 .. Cardinality(T)
  PROVE  \E t \in T : Rank(T, t) = n - 1
<1>0. T \subseteq Nat /\ IsFiniteSet(T) /\ Cardinality(T) \in Nat
  BY FS_CardinalityType
<1> DEFINE c == Cardinality(T)
           f == [t \in T |-> Rank(T, t) + 1]
<1>1. IsFiniteSet(1 .. c) /\ Cardinality(1 .. c) = c
  BY <1>0, FS_Interval
<1>r. \A x \in T : /\ Rank(T, x) \in Nat /\ Rank(T, x) < c
                  /\ \A u \in T : x < u => Rank(T, x) < Rank(T, u)
  BY <1>0, RankGrows
<1>2. f \in [T -> 1 .. c]
  <2>1. \A x \in T : Rank(T, x) + 1 \in 1 .. c
    BY <1>0, <1>r
  <2>2. QED BY <2>1
<1>3. ASSUME NEW x \in T, NEW y \in T, f[x] = f[y] PROVE x = y
  <2>1. Rank(T, x) = Rank(T, y) /\ Rank(T, x) \in Nat
    BY <1>3, <1>r
  <2>2. ~ (x < y) /\ ~ (y < x)
    BY <2>1, <1>r
  <2>3. QED BY <2>2, <1>0
<1>4. f \in Injection(T, 1 .. c)
  BY <1>2, <1>3 DEF Injection, IsInjective
<1> HIDE DEF f
<1>5. f \in Surjection(T, 1 .. c)
  BY <1>1, <1>4, FS_Injection
<1>6. PICK t \in T : f[t] = n
  BY <1>5 DEF Surjection
<1>7. Rank(T, t) + 1 = n /\ Rank(T, t) \in Nat
  BY <1>6, <1>r DEF f
<1>8. QED BY <1>7

\* The sorted list has every member of the set once, in order.
LEMMA SortedIs ==
  ASSUME NEW T, T \subseteq Nat, IsFiniteSet(T)
  PROVE  /\ Sorted(T) \in [1 .. Cardinality(T) -> T]
         /\ Sorted(T) \in Seq(T) /\ Len(Sorted(T)) = Cardinality(T)
         /\ \A n \in 1 .. Cardinality(T) : Rank(T, Sorted(T)[n]) = n - 1
<1>1. \A n \in 1 .. Cardinality(T) : \E t \in T : Cardinality({u \in T : u < t}) = n - 1
  BY RankExists DEF Rank
<1>2. ASSUME NEW n \in 1 .. Cardinality(T)
      PROVE  Sorted(T)[n] \in T /\ Rank(T, Sorted(T)[n]) = n - 1
  <2>1. Sorted(T)[n] = CHOOSE t \in T : Cardinality({u \in T : u < t}) = n - 1
    BY DEF Sorted
  <2>2. QED BY <2>1, <1>1 DEF Rank
<1> DEFINE e(n) == CHOOSE t \in T : Cardinality({u \in T : u < t}) = n - 1
<1>3. Sorted(T) = [n \in 1 .. Cardinality(T) |-> e(n)]
  BY DEF Sorted
<1> HIDE DEF e
<1>4. Sorted(T) \in [1 .. Cardinality(T) -> T]
  BY <1>2, <1>3
<1>5. Cardinality(T) \in Nat
  BY FS_CardinalityType
<1>6. QED BY <1>2, <1>4, <1>5, SeqDef

\* A number is listed at its rank.
LEMMA SortedAt ==
  ASSUME NEW T, T \subseteq Nat, IsFiniteSet(T), NEW t \in T
  PROVE  Rank(T, t) + 1 \in 1 .. Cardinality(T) /\ Sorted(T)[Rank(T, t) + 1] = t
<1>1. Rank(T, t) \in Nat /\ Rank(T, t) < Cardinality(T) /\ Cardinality(T) \in Nat /\ T \subseteq Nat
  BY RankGrows, FS_CardinalityType
<1>2. Rank(T, t) + 1 \in 1 .. Cardinality(T)
  BY <1>1
<1>3. PICK x \in T : x = Sorted(T)[Rank(T, t) + 1] /\ Rank(T, x) = (Rank(T, t) + 1) - 1
  BY <1>2, SortedIs
<1>4. Rank(T, x) = Rank(T, t)
  BY <1>1, <1>3
<1>5. ~ (x < t) /\ ~ (t < x)
  <2>1. \A y \in T : \A u \in T : y < u => Rank(T, y) < Rank(T, u)
    BY <1>1, RankGrows
  <2>2. QED BY <2>1, <1>1, <1>4
<1>6. QED BY <1>1, <1>2, <1>3, <1>5

-----------------------------------------------------------------------------
\* A list names nothing twice.
Distinct(s) == \A m, n \in DOMAIN s : s[m] = s[n] => m = n

\* Such a list is as long as the set it lists.
LEMMA DistinctCounts ==
  ASSUME NEW S, NEW s \in Seq(S), Distinct(s)
  PROVE  IsFiniteSet(ToSet(s)) /\ Cardinality(ToSet(s)) = Len(s) /\ ToSet(s) \subseteq S
<1>1. Len(s) \in Nat /\ s \in [1 .. Len(s) -> S] /\ DOMAIN s = 1 .. Len(s)
  BY LenProperties
<1>2. s \in Injection(1 .. Len(s), ToSet(s)) /\ s \in Surjection(1 .. Len(s), ToSet(s))
  <2>1. s \in [1 .. Len(s) -> ToSet(s)]
    BY <1>1 DEF ToSet
  <2>2. \A a, b \in 1 .. Len(s) : s[a] = s[b] => a = b
    BY <1>1 DEF Distinct
  <2>3. \A t \in ToSet(s) : \E n \in 1 .. Len(s) : s[n] = t
    BY <1>1 DEF ToSet
  <2>4. QED BY <2>1, <2>2, <2>3 DEF Injection, IsInjective, Surjection
<1>3. IsFiniteSet(1 .. Len(s)) /\ Cardinality(1 .. Len(s)) = Len(s)
  BY <1>1, FS_Interval
<1>4. IsFiniteSet(ToSet(s)) /\ Cardinality(ToSet(s)) = Len(s)
  BY <1>2, <1>3, FS_Surjection
<1>5. QED BY <1>1, <1>4 DEF ToSet

\* The sorted list is one.
LEMMA SortedLists ==
  ASSUME NEW T, T \subseteq Nat, IsFiniteSet(T)
  PROVE  /\ Sorted(T) \in Seq(T) /\ Len(Sorted(T)) = Cardinality(T)
         /\ Distinct(Sorted(T)) /\ ToSet(Sorted(T)) = T
<1>1. /\ Sorted(T) \in Seq(T) /\ Len(Sorted(T)) = Cardinality(T) /\ Cardinality(T) \in Nat
      /\ DOMAIN Sorted(T) = 1 .. Cardinality(T)
      /\ \A n \in 1 .. Cardinality(T) : Sorted(T)[n] \in T /\ Rank(T, Sorted(T)[n]) = n - 1
  BY SortedIs, FS_CardinalityType
<1>2. Distinct(Sorted(T))
  <2>1. SUFFICES ASSUME NEW m \in 1 .. Cardinality(T), NEW n \in 1 .. Cardinality(T),
                        Sorted(T)[m] = Sorted(T)[n]
                 PROVE  m = n
    BY <1>1 DEF Distinct
  <2>2. m - 1 = n - 1
    BY <2>1, <1>1
  <2>3. QED BY <2>2
<1>3. \A t \in T : \E n \in 1 .. Cardinality(T) : Sorted(T)[n] = t
  BY SortedAt
<1>4. ToSet(Sorted(T)) = T
  BY <1>1, <1>3 DEF ToSet
<1>5. QED BY <1>1, <1>2, <1>4

\* Numbers from one on are sorted already.
LEMMA SortedNumbers ==
  ASSUME NEW N \in Nat
  PROVE  Cardinality(1 .. N) = N /\ \A m \in 1 .. N : Sorted(1 .. N)[m] = m
<1>1. 1 .. N \subseteq Nat /\ IsFiniteSet(1 .. N) /\ Cardinality(1 .. N) = N
  BY FS_Interval
<1>2. ASSUME NEW m \in 1 .. N PROVE Rank(1 .. N, m) = m - 1
  <2>1. {u \in 1 .. N : u < m} = 1 .. (m - 1)
    OBVIOUS
  <2>2. Cardinality(1 .. (m - 1)) = m - 1
    BY FS_Interval
  <2>3. QED BY <2>1, <2>2 DEF Rank
<1>3. ASSUME NEW m \in 1 .. N PROVE Sorted(1 .. N)[m] = m
  <2>1. Sorted(1 .. N)[Rank(1 .. N, m) + 1] = m
    BY <1>1, SortedAt
  <2>2. Rank(1 .. N, m) + 1 = m
    BY <1>2
  <2>3. QED BY <2>1, <2>2
<1>4. QED BY <1>1, <1>3

\* What stays of a list: the members that are still wanted, each once; all of it when all are.
LEMMA StillIs ==
  ASSUME NEW s \in Seq(Keys), Distinct(s), NEW S
  PROVE  /\ Still(s, S) \in Seq(Keys) /\ Distinct(Still(s, S))
         /\ ToSet(Still(s, S)) = ToSet(s) \cap S
         /\ Len(Still(s, S)) \in Nat /\ Len(Still(s, S)) <= Len(s)
         /\ ToSet(s) \subseteq S => Still(s, S) = s
<1> DEFINE I == {n \in DOMAIN s : s[n] \in S}
           at == Sorted(I)
           c == Cardinality(I)
<1>1. Len(s) \in Nat /\ s \in [1 .. Len(s) -> Keys] /\ DOMAIN s = 1 .. Len(s)
  BY LenProperties
<1>2. I \in SUBSET (1 .. Len(s)) /\ I \subseteq Nat
  BY <1>1
<1>3. IsFiniteSet(1 .. Len(s)) /\ Cardinality(1 .. Len(s)) = Len(s)
  BY <1>1, FS_Interval
<1>4. IsFiniteSet(I) /\ c <= Len(s) /\ c \in Nat
  BY <1>2, <1>3, FS_Subset, FS_CardinalityType
<1>5. /\ at \in [1 .. c -> I] /\ DOMAIN at = 1 .. c /\ Distinct(at) /\ ToSet(at) = I
  BY <1>2, <1>4, SortedIs, SortedLists
<1>6. Still(s, S) = [m \in 1 .. c |-> s[at[m]]]
  BY <1>5 DEF Still
<1>d. I = {n \in DOMAIN s : s[n] \in S}
  OBVIOUS
<1>7. ToSet(s) \subseteq S => Still(s, S) = s
  <2>1. SUFFICES ASSUME ToSet(s) \subseteq S PROVE Still(s, S) = s
    OBVIOUS
  <2>2. I = 1 .. Len(s)
    BY <2>1, <1>1 DEF ToSet
  <2>3. c = Len(s) /\ \A m \in 1 .. c : at[m] = m
    BY <2>2, <1>1, SortedNumbers
  <2> HIDE DEF c, at, I
  <2>4. Still(s, S) = [m \in 1 .. Len(s) |-> s[m]]
    BY <2>3, <1>6
  <2>5. s = [m \in 1 .. Len(s) |-> s[m]]
    BY <1>1
  <2>6. QED BY <2>4, <2>5
<1> HIDE DEF c, at, I
<1>8. Still(s, S) \in [1 .. c -> Keys]
  <2>1. \A m \in 1 .. c : s[at[m]] \in Keys
    BY <1>1, <1>2, <1>5
  <2>2. QED BY <2>1, <1>6
<1>9. Still(s, S) \in Seq(Keys) /\ Len(Still(s, S)) = c
  BY <1>4, <1>8, SeqDef
<1>10. Distinct(Still(s, S))
  <2>1. DOMAIN Still(s, S) = 1 .. c
    BY <1>8
  <2>2. SUFFICES ASSUME NEW m \in 1 .. c, NEW n \in 1 .. c, Still(s, S)[m] = Still(s, S)[n]
                 PROVE  m = n
    BY <2>1 DEF Distinct
  <2>3. s[at[m]] = s[at[n]] /\ at[m] \in DOMAIN s /\ at[n] \in DOMAIN s
    BY <2>2, <1>1, <1>2, <1>5, <1>6
  <2>4. at[m] = at[n]
    BY <2>3 DEF Distinct
  <2>5. QED BY <2>4, <1>5 DEF Distinct
<1>11. ToSet(Still(s, S)) = ToSet(s) \cap S
  <2>1. ToSet(Still(s, S)) = {s[at[m]] : m \in 1 .. c}
    BY <1>6 DEF ToSet
  <2>2. \A n \in I : \E m \in 1 .. c : at[m] = n
    BY <1>5 DEF ToSet
  <2>3. {s[at[m]] : m \in 1 .. c} = {s[n] : n \in I}
    BY <2>2, <1>5
  <2>4. {s[n] : n \in I} = ToSet(s) \cap S
    BY <1>d DEF ToSet
  <2>5. QED BY <2>1, <2>3, <2>4
<1>12. QED BY <1>4, <1>7, <1>9, <1>10, <1>11

\* A slice has the members at its places, each once.
LEMMA SliceIs ==
  ASSUME NEW s \in Seq(Keys), Distinct(s), NEW from \in Nat, NEW n \in Nat
  PROVE  /\ Slice(s, from, n) \in Seq(Keys) /\ Distinct(Slice(s, from, n))
         /\ ToSet(Slice(s, from, n)) = {s[k] : k \in {l \in 1 .. Len(s) : from < l /\ l <= from + n}}
         /\ Len(Slice(s, from, n)) \in Nat /\ Len(Slice(s, from, n)) <= n
         /\ from + n <= Len(s) => Len(Slice(s, from, n)) = n
<1> DEFINE to == IF from + n <= Len(s) THEN from + n ELSE Len(s)
           q == Slice(s, from, n)
<1>1. Len(s) \in Nat /\ s \in [1 .. Len(s) -> Keys] /\ DOMAIN s = 1 .. Len(s)
  BY LenProperties
<1>2. q = SubSeq(s, from + 1, to) /\ to \in Nat /\ to <= Len(s) /\ to <= from + n
  BY <1>1, LesserIs DEF Slice
<1>3. to = from + n \/ (to = Len(s) /\ Len(s) < from + n)
  <2>1. Len(s) \in Nat /\ from + n \in Nat
    BY <1>1
  <2>2. CASE from + n <= Len(s)
    BY <2>2
  <2>3. CASE Len(s) < from + n
    BY <2>1, <2>3
  <2>4. QED BY <2>1, <2>2, <2>3
<1>4. from + n <= Len(s) => to = from + n
  OBVIOUS
<1> HIDE DEF to, q
<1>5. \A i \in (from + 1) .. to : s[i] \in Keys
  BY <1>1, <1>2
<1>6. /\ q \in Seq(Keys)
      /\ Len(q) = IF from + 1 <= to THEN to - (from + 1) + 1 ELSE 0
      /\ \A i \in 1 .. to - (from + 1) + 1 : q[i] = s[(from + 1) + i - 1]
  BY <1>2, <1>5, SubSeqProperties
<1>7. Len(q) \in Nat /\ Len(q) <= n /\ (from + n <= Len(s) => Len(q) = n)
  <2>1. from \in Nat /\ n \in Nat /\ Len(s) \in Nat /\ to \in Nat
    BY <1>1, <1>2
  <2>2. CASE from + 1 <= to
    BY <2>1, <2>2, <1>2, <1>4, <1>6
  <2>3. CASE ~ (from + 1 <= to)
    BY <2>1, <2>3, <1>2, <1>4, <1>6
  <2>4. QED BY <2>2, <2>3
<1>8. DOMAIN q = 1 .. Len(q)
  BY <1>6, LenProperties
<1>9. \A i \in 1 .. Len(q) : from + i \in 1 .. Len(s) /\ from + i <= to /\ q[i] = s[from + i]
  <2>1. ASSUME NEW i \in 1 .. Len(q)
        PROVE  i \in 1 .. to - (from + 1) + 1 /\ from + i \in 1 .. Len(s) /\ from + i <= to
               /\ (from + 1) + i - 1 = from + i
    BY <1>1, <1>2, <1>6
  <2>2. QED BY <2>1, <1>6
<1>10. Distinct(q)
  <2>1. SUFFICES ASSUME NEW a \in 1 .. Len(q), NEW b \in 1 .. Len(q), q[a] = q[b]
                 PROVE  a = b
    BY <1>8 DEF Distinct
  <2>2. from + a = from + b
    BY <2>1, <1>1, <1>9 DEF Distinct
  <2>3. QED BY <2>2, <1>7
<1>11. ToSet(q) = {s[k] : k \in {l \in 1 .. Len(s) : from < l /\ l <= from + n}}
  <2>1. ASSUME NEW i \in 1 .. Len(q)
        PROVE  from + i \in {l \in 1 .. Len(s) : from < l /\ l <= from + n}
    BY <1>2, <1>7, <1>9
  <2>2. ASSUME NEW l \in 1 .. Len(s), from < l, l <= from + n
        PROVE  \E i \in 1 .. Len(q) : q[i] = s[l]
    <3>1. l - from \in 1 .. Len(q) /\ from + (l - from) = l
      BY <2>2, <1>1, <1>3, <1>6
    <3>2. QED BY <3>1, <1>9
  <2>3. ToSet(q) = {q[i] : i \in 1 .. Len(q)}
    BY <1>8 DEF ToSet
  <2> DEFINE J == {l \in 1 .. Len(s) : from < l /\ l <= from + n}
  <2>4. \A i \in 1 .. Len(q) : \E l \in J : q[i] = s[l]
    BY <2>1, <1>9
  <2>5. \A l \in J : \E i \in 1 .. Len(q) : q[i] = s[l]
    BY <2>2
  <2> HIDE DEF J
  <2>6. {q[i] : i \in 1 .. Len(q)} = {s[l] : l \in J}
    BY <2>4, <2>5
  <2>7. QED BY <2>3, <2>6 DEF J
<1>12. QED BY <1>6, <1>7, <1>10, <1>11 DEF q

-----------------------------------------------------------------------------
\* What a shard may hold, and a table of shards; what it lists in all, and once.
Rows == {s \in Seq(Keys) : s # <<>> /\ Len(s) <= size /\ Distinct(s)}
Proper(t) == t \in [DOMAIN t -> Rows] /\ DOMAIN t \subseteq Nat /\ IsFiniteSet(DOMAIN t)
Members(t) == UNION {ToSet(t[i]) : i \in DOMAIN t}
ListsOnce(t) == \A i, j \in DOMAIN t : \A k : k \in ToSet(t[i]) /\ k \in ToSet(t[j]) => i = j
Room(t, i) == size - Len(t[i])

\* A row is a list, and has room for some number more.
LEMMA RowIs ==
  ASSUME NEW t, Proper(t), NEW i \in DOMAIN t
  PROVE  /\ t[i] \in Seq(Keys) /\ t[i] # <<>> /\ Distinct(t[i]) /\ i \in Nat
         /\ Len(t[i]) \in Nat /\ Len(t[i]) >= 1 /\ Len(t[i]) <= size
         /\ Room(t, i) \in Nat /\ size \in Nat
         /\ ToSet(t[i]) \subseteq Keys /\ ToSet(t[i]) # {}
         /\ IsFiniteSet(ToSet(t[i])) /\ Cardinality(ToSet(t[i])) = Len(t[i])
<1>1. t[i] \in Seq(Keys) /\ t[i] # <<>> /\ Distinct(t[i]) /\ Len(t[i]) <= size /\ i \in Nat
  BY DEF Proper, Rows
<1>2. Len(t[i]) \in Nat \ {0} /\ size \in Nat /\ DOMAIN t[i] = 1 .. Len(t[i])
  BY <1>1, EmptySeq, LenProperties, FeedIs
<1>3. Room(t, i) \in Nat
  BY <1>1, <1>2 DEF Room
<1>4. t[i][1] \in ToSet(t[i])
  BY <1>2 DEF ToSet
<1>5. ToSet(t[i]) \subseteq Keys /\ IsFiniteSet(ToSet(t[i])) /\ Cardinality(ToSet(t[i])) = Len(t[i])
  BY <1>1, DistinctCounts
<1>6. QED BY <1>1, <1>2, <1>3, <1>4, <1>5

\* The free places of some rows, and of one more.
LEMMA PlacesAre ==
  ASSUME NEW t, Proper(t), NEW I \in SUBSET DOMAIN t
  PROVE  /\ Places(t, I) \in Nat
         /\ \A i \in DOMAIN t \ I : Places(t, I \cup {i}) = Places(t, I) + Room(t, i)
         /\ \A J \in SUBSET I : Places(t, J) <= Places(t, I)
<1> DEFINE F(J) == {p \in J \X (1 .. size) : p[2] > Len(t[p[1]])}
<1>0. size \in Nat
  BY FeedIs
<1>1. ASSUME NEW J \in SUBSET DOMAIN t
      PROVE  IsFiniteSet(F(J)) /\ Cardinality(F(J)) \in Nat /\ Places(t, J) = Cardinality(F(J))
  <2>1. IsFiniteSet(J) /\ IsFiniteSet(1 .. size)
    BY <1>0, FS_Subset, FS_Interval DEF Proper
  <2>2. IsFiniteSet(J \X (1 .. size))
    BY <2>1, FS_Product
  <2>3. IsFiniteSet(F(J)) /\ Cardinality(F(J)) \in Nat
    BY <2>2, FS_Subset, FS_CardinalityType
  <2>4. QED BY <2>3 DEF Places
<1>2. ASSUME NEW i \in DOMAIN t
      PROVE  Cardinality(F({i})) = Room(t, i)
  <2> DEFINE low == Len(t[i]) + 1
             f == [m \in low .. size |-> <<i, m>>]
  <2>1. Len(t[i]) \in Nat /\ Len(t[i]) <= size
    BY <1>2, RowIs
  <2>2. IsFiniteSet(low .. size) /\ Cardinality(low .. size) = Room(t, i)
    <3>1. low \in Int /\ size \in Int /\ (low > size => Room(t, i) = 0) /\ (~ low > size => size - low + 1 = Room(t, i))
      BY <1>0, <2>1 DEF Room
    <3> HIDE DEF low
    <3>2. QED BY <3>1, FS_Interval
  <2>3. \A m \in low .. size : <<i, m>> \in F({i})
    BY <1>0, <2>1
  <2>4. \A p \in F({i}) : p[1] = i /\ p[2] \in low .. size /\ p = <<p[1], p[2]>>
    BY <1>0, <2>1
  <2>5. f \in Surjection(low .. size, F({i}))
    <3>1. f \in [low .. size -> F({i})]
      BY <2>3
    <3>2. \A p \in F({i}) : f[p[2]] = p /\ p[2] \in low .. size
      BY <2>4
    <3> HIDE DEF F, f, low
    <3>3. QED BY <3>1, <3>2 DEF Surjection
  <2>6. f \in Injection(low .. size, F({i}))
    <3>1. f \in [low .. size -> F({i})]
      BY <2>3
    <3>2. \A a, b \in low .. size : f[a] = f[b] => a = b
      OBVIOUS
    <3> HIDE DEF F, f, low
    <3>3. QED BY <3>1, <3>2 DEF Injection, IsInjective
  <2> HIDE DEF F, f, low
  <2>7. QED BY <2>2, <2>5, <2>6, FS_Surjection
<1>3. ASSUME NEW i \in DOMAIN t \ I
      PROVE  Places(t, I \cup {i}) = Places(t, I) + Room(t, i)
  <2>1. F(I \cup {i}) = F(I) \cup F({i}) /\ F(I) \cap F({i}) = {}
    BY <1>3
  <2>2. I \cup {i} \in SUBSET DOMAIN t /\ {i} \in SUBSET DOMAIN t /\ Room(t, i) \in Nat
    BY <1>3, RowIs
  <2>3. /\ IsFiniteSet(F(I)) /\ IsFiniteSet(F({i})) /\ Cardinality(F({i})) = Room(t, i)
        /\ Places(t, I) = Cardinality(F(I)) /\ Cardinality(F(I)) \in Nat
        /\ Places(t, I \cup {i}) = Cardinality(F(I \cup {i}))
    BY <1>1, <1>2, <1>3, <2>2
  <2> HIDE DEF F
  <2>4. Cardinality(F(I) \cup F({i})) = Cardinality(F(I)) + Cardinality(F({i})) - Cardinality(F(I) \cap F({i}))
    BY <2>3, FS_Union
  <2>5. Cardinality(F(I) \cap F({i})) = 0
    BY <2>1, FS_EmptySet
  <2>6. Cardinality(F(I \cup {i})) = Cardinality(F(I) \cup F({i}))
    BY <2>1
  <2>7. QED BY <2>2, <2>3, <2>4, <2>5, <2>6
<1>4. ASSUME NEW J \in SUBSET I
      PROVE  Places(t, J) <= Places(t, I)
  <2>1. F(J) \in SUBSET F(I) /\ J \in SUBSET DOMAIN t
    BY <1>4
  <2>2. IsFiniteSet(F(I)) /\ Places(t, I) = Cardinality(F(I)) /\ Places(t, J) = Cardinality(F(J))
    BY <1>1, <2>1
  <2> HIDE DEF F
  <2>3. QED BY <2>1, <2>2, FS_Subset
<1>5. Places(t, I) \in Nat
  BY <1>1
<1>6. QED BY <1>3, <1>4, <1>5

\* No places at all.
LEMMA NoPlaces == \A t : Places(t, {}) = 0
<1>1. \A t : {p \in {} \X (1 .. size) : p[2] > Len(t[p[1]])} = {}
  OBVIOUS
<1>2. QED BY <1>1, FS_EmptySet DEF Places

\* The places of the rows lie one after the other, and every place is of one row.
LEMMA PlacesFollow ==
  ASSUME NEW t, Proper(t)
  PROVE  /\ Places(t, DOMAIN t) \in Nat
         /\ \A i \in DOMAIN t :
              /\ PlacesBefore(t, i) \in Nat /\ Room(t, i) \in Nat
              /\ PlacesBefore(t, i) + Room(t, i) <= Places(t, DOMAIN t)
              /\ \A j \in DOMAIN t : i < j => PlacesBefore(t, i) + Room(t, i) <= PlacesBefore(t, j)
         /\ \A k \in 1 .. Places(t, DOMAIN t) : \E i \in DOMAIN t :
              PlacesBefore(t, i) < k /\ k <= PlacesBefore(t, i) + Room(t, i)
<1> DEFINE D == DOMAIN t
           B(n) == {j \in D : j < n}
<1>0. D \subseteq Nat /\ IsFiniteSet(D)
  BY DEF Proper
<1>1. \A n : B(n) \in SUBSET D /\ Places(t, B(n)) \in Nat
  BY PlacesAre
<1>2. Places(t, D) \in Nat
  BY PlacesAre
<1>3. ASSUME NEW i \in D
      PROVE  /\ PlacesBefore(t, i) = Places(t, B(i)) /\ Room(t, i) \in Nat
             /\ i \notin B(i) /\ Places(t, B(i) \cup {i}) = PlacesBefore(t, i) + Room(t, i)
  <2>1. PlacesBefore(t, i) = Places(t, B(i))
    BY DEF PlacesBefore
  <2>2. i \notin B(i)
    BY <1>0
  <2>3. B(i) \in SUBSET D /\ i \in D \ B(i) /\ Room(t, i) \in Nat
    BY <1>3, <2>2, RowIs
  <2> HIDE DEF B
  <2>4. Places(t, B(i) \cup {i}) = Places(t, B(i)) + Room(t, i)
    BY <2>3, PlacesAre
  <2>5. QED BY <2>1, <2>2, <2>3, <2>4
<1>4. ASSUME NEW i \in D, NEW J \in SUBSET D, B(i) \cup {i} \subseteq J
      PROVE  PlacesBefore(t, i) + Room(t, i) <= Places(t, J)
  <2>1. Places(t, B(i) \cup {i}) <= Places(t, J)
    BY <1>4, PlacesAre
  <2>2. QED BY <1>3, <2>1
<1>5. ASSUME NEW i \in D, NEW j \in D, i < j
      PROVE  PlacesBefore(t, i) + Room(t, i) <= PlacesBefore(t, j)
  <2>1. B(i) \cup {i} \subseteq B(j)
    BY <1>0, <1>5
  <2>2. B(j) \in SUBSET D /\ PlacesBefore(t, j) = Places(t, B(j))
    BY <1>3
  <2>3. QED BY <1>4, <2>1, <2>2
<1>6. ASSUME NEW k \in 1 .. Places(t, D)
      PROVE  \E i \in D : PlacesBefore(t, i) < k /\ k <= PlacesBefore(t, i) + Room(t, i)
  <2> DEFINE X == {n \in Nat : k <= Places(t, B(n))}
  <2>1. \E N \in Nat : B(N) = D
    <3>1. CASE D = {}
      <4>1. B(0) = D
        BY <3>1
      <4>2. QED BY <4>1
    <3>2. CASE D # {}
      <4>1. Cardinality(D) \in Nat /\ Cardinality(D) # 0
        BY <1>0, <3>2, FS_EmptySet, FS_CardinalityType
      <4>2. PICK m \in D : Rank(D, m) = Cardinality(D) - 1
        BY <1>0, <4>1, RankExists
      <4>3. \A u \in D : ~ (m < u)
        <5>1. \A u \in D : m < u => Rank(D, m) < Rank(D, u) /\ Rank(D, u) < Cardinality(D) /\ Rank(D, u) \in Nat
          BY <1>0, <4>2, RankGrows
        <5>2. QED BY <4>1, <4>2, <5>1
      <4>4. m + 1 \in Nat /\ \A u \in D : u < m + 1
        BY <1>0, <4>3
      <4>5. B(m + 1) = D
        BY <4>4
      <4>6. QED BY <4>4, <4>5
    <3>3. QED BY <3>1, <3>2
  <2>2. X # {} /\ X \subseteq Nat
    <3>1. PICK N \in Nat : B(N) = D
      BY <2>1
    <3>2. k <= Places(t, B(N))
      BY <1>2, <1>6, <3>1
    <3>3. QED BY <3>2
  <2>3. PICK n \in X : \A u \in X : n <= u
    BY <2>2, LeastExists
  <2>4. n \in Nat /\ k <= Places(t, B(n)) /\ k \in Nat /\ k >= 1
    BY <2>3, <1>2
  <2>5. n # 0
    <3>1. B(0) = {}
      BY <1>0
    <3>2. Places(t, B(0)) = 0
      BY <3>1, NoPlaces
    <3>3. QED BY <2>4, <3>2
  <2>6. n - 1 \in Nat /\ n - 1 \notin X
    BY <2>3, <2>4, <2>5
  <2>7. Places(t, B(n - 1)) < k
    BY <1>1, <2>4, <2>6
  <2>8. B(n) \subseteq B(n - 1) \cup {n - 1} /\ B(n - 1) \subseteq B(n)
    <3>1. \A u \in D : (u < n => u < n - 1 \/ u = n - 1) /\ (u < n - 1 => u < n)
      BY <1>0, <2>4
    <3>2. QED BY <3>1
  <2>9. n - 1 \in D
    <3>1. SUFFICES ASSUME n - 1 \notin D PROVE FALSE
      OBVIOUS
    <3>2. B(n) = B(n - 1)
      BY <2>8, <3>1
    <3>3. Places(t, B(n)) = Places(t, B(n - 1))
      BY <3>2
    <3> HIDE DEF B
    <3>4. QED BY <1>1, <2>4, <2>7, <3>3
  <2>10. B(n) = B(n - 1) \cup {n - 1}
    <3>1. n - 1 < n
      BY <2>4
    <3>2. QED BY <2>8, <2>9, <3>1
  <2>11. Places(t, B(n)) = PlacesBefore(t, n - 1) + Room(t, n - 1) /\ PlacesBefore(t, n - 1) = Places(t, B(n - 1))
    BY <1>3, <2>9, <2>10
  <2> HIDE DEF B, X, D
  <2>12. QED BY <2>4, <2>7, <2>9, <2>11
<1>7. \A i \in D : /\ PlacesBefore(t, i) \in Nat /\ Room(t, i) \in Nat
                   /\ PlacesBefore(t, i) + Room(t, i) <= Places(t, D)
  BY <1>1, <1>3, <1>4
<1>8. QED BY <1>2, <1>5, <1>6, <1>7

-----------------------------------------------------------------------------
\* Two lists that share nothing, one after the other.
LEMMA JoinedIs ==
  ASSUME NEW r \in Seq(Keys), NEW q \in Seq(Keys), Distinct(r), Distinct(q),
         \A k \in ToSet(r) : k \notin ToSet(q)
  PROVE  /\ r \o q \in Seq(Keys) /\ Distinct(r \o q) /\ Len(r \o q) = Len(r) + Len(q)
         /\ ToSet(r \o q) = ToSet(r) \cup ToSet(q)
<1> DEFINE c == r \o q
<1>1. Len(r) \in Nat /\ DOMAIN r = 1 .. Len(r) /\ Len(q) \in Nat /\ DOMAIN q = 1 .. Len(q)
  BY LenProperties
<1>2. /\ c \in Seq(Keys) /\ Len(c) = Len(r) + Len(q)
      /\ \A i \in 1 .. Len(r) + Len(q) : c[i] = IF i <= Len(r) THEN r[i] ELSE q[i - Len(r)]
  BY ConcatProperties
<1>3. DOMAIN c = 1 .. Len(r) + Len(q)
  BY <1>2, LenProperties
<1> HIDE DEF c
<1>4. \A i \in 1 .. Len(r) : i \in DOMAIN c /\ c[i] = r[i] /\ c[i] \in ToSet(r)
  BY <1>1, <1>2, <1>3 DEF ToSet
<1>5. ASSUME NEW i \in DOMAIN c, ~ (i <= Len(r))
      PROVE  i - Len(r) \in 1 .. Len(q) /\ c[i] = q[i - Len(r)] /\ c[i] \in ToSet(q)
  <2>1. i - Len(r) \in 1 .. Len(q) /\ i \in 1 .. Len(r) + Len(q)
    BY <1>1, <1>3, <1>5
  <2>2. QED BY <1>1, <1>2, <1>5, <2>1 DEF ToSet
<1>6. \A i \in 1 .. Len(q) : Len(r) + i \in DOMAIN c /\ c[Len(r) + i] = q[i]
  <2>1. ASSUME NEW i \in 1 .. Len(q)
        PROVE  Len(r) + i \in 1 .. Len(r) + Len(q) /\ ~ (Len(r) + i <= Len(r)) /\ (Len(r) + i) - Len(r) = i
    BY <1>1
  <2>2. QED BY <1>2, <1>3, <2>1
<1>7. \A i \in DOMAIN c : i <= Len(r) => i \in 1 .. Len(r)
  BY <1>1, <1>3
<1>8. Distinct(c)
  <2>1. SUFFICES ASSUME NEW a \in DOMAIN c, NEW b \in DOMAIN c, c[a] = c[b]
                 PROVE  a = b
    BY DEF Distinct
  <2>2. CASE a <= Len(r) /\ b <= Len(r)
    BY <1>1, <1>4, <1>7, <2>1, <2>2 DEF Distinct
  <2>3. CASE ~ (a <= Len(r)) /\ ~ (b <= Len(r))
    <3>1. a - Len(r) = b - Len(r)
      BY <1>1, <1>5, <2>1, <2>3 DEF Distinct
    <3>2. QED BY <1>1, <1>3, <3>1
  <2>4. ~ (a <= Len(r) /\ ~ (b <= Len(r))) /\ ~ (b <= Len(r) /\ ~ (a <= Len(r)))
    BY <1>4, <1>5, <1>7, <2>1
  <2>5. QED BY <2>2, <2>3, <2>4
<1>9. ToSet(c) = ToSet(r) \cup ToSet(q)
  <2>1. \A i \in DOMAIN c : c[i] \in ToSet(r) \cup ToSet(q)
    BY <1>4, <1>5, <1>7
  <2>2. \A i \in DOMAIN r : \E j \in DOMAIN c : c[j] = r[i]
    BY <1>1, <1>4
  <2>3. \A i \in DOMAIN q : \E j \in DOMAIN c : c[j] = q[i]
    BY <1>1, <1>6
  <2>4. QED BY <2>1, <2>2, <2>3 DEF ToSet
<1>10. QED BY <1>2, <1>8, <1>9 DEF c

\* Filling up: no row loses, every addition finds one place, and none is left unless the rows are full.
LEMMA FilledIs ==
  ASSUME NEW t, Proper(t), ListsOnce(t), NEW a \in Seq(Keys), Distinct(a),
         \A k \in ToSet(a) : k \notin Members(t)
  PROVE  LET f == Filled(t, a).table
             l == Filled(t, a).left
         IN  /\ Proper(f) /\ ListsOnce(f) /\ DOMAIN f = DOMAIN t
             /\ l \in Seq(Keys) /\ Distinct(l) /\ \A k \in ToSet(l) : k \notin Members(f)
             /\ Members(f) \cup ToSet(l) = Members(t) \cup ToSet(a)
             /\ \A i \in DOMAIN t : /\ ToSet(t[i]) \subseteq ToSet(f[i])
                                    /\ l # <<>> => Len(f[i]) = size
                                    /\ ToSet(f[i]) = ToSet(t[i]) => f[i] = t[i]
<1> DEFINE D == DOMAIN t
           f == Filled(t, a).table
           l == Filled(t, a).left
           T == Places(t, D)
           P(i) == PlacesBefore(t, i)
           R(i) == Room(t, i)
           sl(i) == Slice(a, P(i), R(i))
           At(i) == {k \in 1 .. Len(a) : P(i) < k /\ k <= P(i) + R(i)}
           After == {k \in 1 .. Len(a) : T < k /\ k <= T + Len(a)}
<1>1. Len(a) \in Nat /\ DOMAIN a = 1 .. Len(a) /\ size \in Nat
  BY LenProperties, FeedIs
<1>2. T \in Nat
  BY PlacesFollow
<1>3. \A i \in D : P(i) \in Nat /\ R(i) \in Nat /\ P(i) + R(i) <= T
  BY PlacesFollow
<1>4. \A i, j \in D : i < j => P(i) + R(i) <= P(j)
  BY PlacesFollow
<1>5. \A k \in 1 .. T : \E i \in D : P(i) < k /\ k <= P(i) + R(i)
  BY PlacesFollow
<1>6. f = [i \in D |-> t[i] \o sl(i)] /\ DOMAIN f = D
  BY DEF Filled, Room
<1>7. l = Slice(a, T, Len(a))
  BY DEF Filled
<1>8. ASSUME NEW i \in D
      PROVE  /\ sl(i) \in Seq(Keys) /\ Distinct(sl(i)) /\ ToSet(sl(i)) = {a[k] : k \in At(i)}
             /\ Len(sl(i)) \in Nat /\ Len(sl(i)) <= R(i)
             /\ P(i) + R(i) <= Len(a) => Len(sl(i)) = R(i)
  BY <1>3, SliceIs
<1>9. /\ l \in Seq(Keys) /\ Distinct(l) /\ ToSet(l) = {a[k] : k \in After}
  <2> HIDE DEF l, T
  <2>1. /\ Slice(a, T, Len(a)) \in Seq(Keys) /\ Distinct(Slice(a, T, Len(a)))
        /\ ToSet(Slice(a, T, Len(a))) = {a[k] : k \in {m \in 1 .. Len(a) : T < m /\ m <= T + Len(a)}}
    BY <1>1, <1>2, SliceIs
  <2>2. QED BY <1>7, <2>1
<1>10. \A k \in DOMAIN a : a[k] \in ToSet(a)
  BY DEF ToSet
<1>a. \A i \in D : At(i) \subseteq DOMAIN a
  BY <1>1
<1>b. After \subseteq DOMAIN a
  BY <1>1
<1>11. \A i, j \in D : \A k : k \in At(i) /\ k \in At(j) => i = j
  <2>1. SUFFICES ASSUME NEW i \in D, NEW j \in D, NEW k, k \in At(i), k \in At(j) PROVE i = j
    OBVIOUS
  <2>2. ~ (i < j) /\ ~ (j < i)
    BY <1>1, <1>3, <1>4, <2>1
  <2>3. i \in Nat /\ j \in Nat
    BY DEF Proper
  <2>4. QED BY <2>2, <2>3
<1>12. \A i \in D : \A k : ~ (k \in At(i) /\ k \in After)
  BY <1>1, <1>2, <1>3
<1>13. \A k \in DOMAIN a : k \in After \/ \E i \in D : k \in At(i)
  <2>1. SUFFICES ASSUME NEW k \in 1 .. Len(a), ~ (k \in After) PROVE \E i \in D : k \in At(i)
    BY <1>1
  <2>2. k \in 1 .. T
    BY <1>1, <1>2, <2>1
  <2>3. QED BY <1>5, <2>2
<1>14. l # <<>> => T < Len(a)
  <2>1. SUFFICES ASSUME l # <<>> PROVE T < Len(a)
    OBVIOUS
  <2>2. Len(l) \in Nat \ {0} /\ DOMAIN l = 1 .. Len(l)
    BY <1>9, <2>1, EmptySeq, LenProperties
  <2>3. l[1] \in ToSet(l)
    BY <2>2 DEF ToSet
  <2>4. PICK k \in After : TRUE
    BY <1>9, <2>3
  <2>5. QED BY <1>1, <1>2, <2>4
<1> HIDE DEF f, l, T, P, R, sl, At, After
<1>15. ASSUME NEW i \in D
       PROVE  /\ t[i] \in Seq(Keys) /\ Distinct(t[i]) /\ Len(t[i]) \in Nat /\ R(i) = size - Len(t[i])
              /\ t[i] # <<>> /\ \A k \in ToSet(t[i]) : k \in Members(t) /\ k \notin ToSet(sl(i))
  <2>1. t[i] \in Seq(Keys) /\ Distinct(t[i]) /\ Len(t[i]) \in Nat /\ R(i) = size - Len(t[i]) /\ t[i] # <<>>
    BY <1>15, RowIs DEF R, Room
  <2>2. \A k \in ToSet(t[i]) : k \in Members(t)
    BY <1>15 DEF Members
  <2>3. ToSet(sl(i)) \subseteq ToSet(a)
    BY <1>8, <1>10, <1>15, <1>a
  <2>4. QED BY <2>1, <2>2, <2>3
<1>16. ASSUME NEW i \in D
       PROVE  /\ f[i] \in Seq(Keys) /\ Distinct(f[i]) /\ Len(f[i]) = Len(t[i]) + Len(sl(i))
              /\ ToSet(f[i]) = ToSet(t[i]) \cup ToSet(sl(i)) /\ f[i] = t[i] \o sl(i)
  <2>1. f[i] = t[i] \o sl(i)
    BY <1>6
  <2>2. QED BY <2>1, <1>8, <1>15, JoinedIs
<1>17. Proper(f)
  <2>1. ASSUME NEW i \in D PROVE f[i] \in Rows
    <3>1. Len(f[i]) <= size
      BY <1>1, <1>3, <1>8, <1>15, <1>16
    <3>2. f[i] # <<>>
      BY <1>8, <1>15, <1>16, ConcatEqualIffEmpty
    <3>3. QED BY <3>1, <3>2, <1>16 DEF Rows
  <2>2. f \in [D -> Rows]
    BY <1>6, <2>1
  <2>3. QED BY <2>2, <1>6 DEF Proper
<1>18. ListsOnce(f)
  <2>1. SUFFICES ASSUME NEW i \in D, NEW j \in D, NEW k, k \in ToSet(f[i]), k \in ToSet(f[j])
                 PROVE  i = j
    BY <1>6 DEF ListsOnce
  <2>2. \A x \in D : k \in ToSet(sl(x)) => k \in ToSet(a) /\ \E m \in At(x) : k = a[m] /\ m \in DOMAIN a
    BY <1>8, <1>10, <1>a
  <2>3. CASE k \in ToSet(a)
    <3>1. k \notin ToSet(t[i]) /\ k \notin ToSet(t[j])
      BY <1>15, <2>3
    <3>2. k \in ToSet(sl(i)) /\ k \in ToSet(sl(j))
      BY <1>16, <2>1, <3>1
    <3>3. PICK m \in At(i) : k = a[m] /\ m \in DOMAIN a
      BY <2>2, <3>2
    <3>4. PICK n \in At(j) : k = a[n] /\ n \in DOMAIN a
      BY <2>2, <3>2
    <3>5. m = n
      BY <3>3, <3>4 DEF Distinct
    <3>6. QED BY <1>11, <3>5
  <2>4. CASE k \notin ToSet(a)
    <3>1. k \in ToSet(t[i]) /\ k \in ToSet(t[j])
      BY <1>16, <2>1, <2>2, <2>4
    <3>2. QED BY <3>1 DEF ListsOnce
  <2>5. QED BY <2>3, <2>4
<1>19. Members(f) = Members(t) \cup UNION {ToSet(sl(i)) : i \in D}
  <2>1. Members(f) = UNION {ToSet(f[i]) : i \in D}
    BY <1>6 DEF Members
  <2>2. Members(t) = UNION {ToSet(t[i]) : i \in D}
    BY DEF Members
  <2>3. QED BY <1>16, <2>1, <2>2
<1>20. \A k \in ToSet(l) : k \notin Members(f)
  <2>1. SUFFICES ASSUME NEW k \in ToSet(l), k \in Members(f) PROVE FALSE
    OBVIOUS
  <2>2. PICK m \in After : k = a[m]
    BY <1>9, <2>1
  <2>3. m \in DOMAIN a /\ k \in ToSet(a)
    BY <1>10, <1>b, <2>2
  <2>4. PICK i \in D : k \in ToSet(sl(i))
    BY <1>19, <2>1, <2>3
  <2>5. PICK n \in At(i) : k = a[n]
    BY <1>8, <2>4
  <2>6. m = n
    BY <1>a, <2>2, <2>3, <2>5 DEF Distinct
  <2>7. QED BY <1>12, <2>2, <2>5, <2>6
<1>21. Members(f) \cup ToSet(l) = Members(t) \cup ToSet(a)
  <2>1. \A i \in D : ToSet(sl(i)) \subseteq ToSet(a)
    BY <1>8, <1>10, <1>a
  <2>2. ToSet(l) \subseteq ToSet(a)
    BY <1>9, <1>10, <1>b
  <2>3. ASSUME NEW k \in ToSet(a) PROVE k \in ToSet(l) \/ \E i \in D : k \in ToSet(sl(i))
    <3>1. PICK m \in DOMAIN a : k = a[m]
      BY <2>3 DEF ToSet
    <3>2. QED BY <1>8, <1>9, <1>13, <3>1
  <2>4. QED BY <1>19, <2>1, <2>2, <2>3
<1>22. ASSUME NEW i \in D
       PROVE  /\ ToSet(t[i]) \subseteq ToSet(f[i])
              /\ l # <<>> => Len(f[i]) = size
              /\ ToSet(f[i]) = ToSet(t[i]) => f[i] = t[i]
  <2>1. ToSet(t[i]) \subseteq ToSet(f[i])
    BY <1>16
  <2>2. l # <<>> => Len(f[i]) = size
    <3>1. SUFFICES ASSUME l # <<>> PROVE Len(f[i]) = size
      OBVIOUS
    <3>2. P(i) + R(i) <= Len(a)
      BY <1>1, <1>2, <1>3, <1>14, <3>1
    <3>3. Len(f[i]) = Len(t[i]) + (size - Len(t[i]))
      BY <1>8, <1>15, <1>16, <3>2
    <3>4. QED BY <1>1, <1>15, <3>3
  <2>3. ToSet(f[i]) = ToSet(t[i]) => f[i] = t[i]
    <3>1. SUFFICES ASSUME ToSet(f[i]) = ToSet(t[i]) PROVE f[i] = t[i]
      OBVIOUS
    <3>2. ToSet(sl(i)) = {}
      BY <1>15, <1>16, <3>1
    <3>3. sl(i) = <<>>
      <4>1. SUFFICES ASSUME sl(i) # <<>> PROVE FALSE
        OBVIOUS
      <4>2. sl(i)[1] \in ToSet(sl(i))
        BY <1>8, <4>1, EmptySeq, LenProperties DEF ToSet
      <4>3. QED BY <3>2, <4>2
    <3>4. t[i] \o <<>> = t[i]
      BY <1>15, ConcatEmptySeq
    <3>5. QED BY <1>16, <3>3, <3>4
  <2>4. QED BY <2>1, <2>2, <2>3
<1>23. DOMAIN f = DOMAIN t
  BY <1>6
<1> HIDE DEF D
<1>24. QED BY <1>9, <1>17, <1>18, <1>20, <1>21, <1>22, <1>23 DEF f, l, D

-----------------------------------------------------------------------------
\* Where the chunks of a list begin.
LEMMA ChunksFollow ==
  ASSUME NEW m \in Nat \ {0}, NEW w \in Nat \ {0}
  PROVE  /\ (m - 1) * w \in Nat /\ (m - 1) * w + w = m * w /\ m <= m * w
         /\ \A n \in Nat \ {0} : m < n => (m - 1) * w + w <= (n - 1) * w
<1>1. (m - 1) * w \in Nat /\ (m - 1) * w + w = m * w
  OBVIOUS
<1>2. m <= m * w
  <2>1. m * (w - 1) \in Nat /\ m * w = m * (w - 1) + m
    OBVIOUS
  <2>2. QED BY <2>1
<1>3. ASSUME NEW n \in Nat \ {0}, m < n PROVE (m - 1) * w + w <= (n - 1) * w
  <2>1. PICK d \in Nat : n - 1 = m + d
    <3>1. n - 1 - m \in Nat /\ n - 1 = m + (n - 1 - m)
      BY <1>3
    <3>2. QED BY <3>1
  <2>2. d * w \in Nat /\ (m + d) * w = m * w + d * w /\ m * w \in Nat
    OBVIOUS
  <2>3. (n - 1) * w = m * w + d * w
    BY <2>1, <2>2
  <2>4. QED BY <1>1, <2>2, <2>3
<1>4. QED BY <1>1, <1>2, <1>3

\* Opening: the shards there are stay, what is left is each in one new shard under a number not in
\* use, and of two new shards one is full.
LEMMA OpenedIs ==
  ASSUME NEW t, Proper(t), ListsOnce(t), NEW l \in Seq(Keys), Distinct(l),
         \A k \in ToSet(l) : k \notin Members(t)
  PROVE  LET o == Opened(t, l)
         IN  /\ Proper(o) /\ ListsOnce(o) /\ Members(o) = Members(t) \cup ToSet(l)
             /\ DOMAIN t \subseteq DOMAIN o /\ \A i \in DOMAIN t : o[i] = t[i]
             /\ DOMAIN o # DOMAIN t => l # <<>>
             /\ \A i, j \in DOMAIN o \ DOMAIN t : i = j \/ Len(o[i]) = size \/ Len(o[j]) = size
<1> DEFINE D == DOMAIN t
           N == {m \in DOMAIN l : (m - 1) * size < Len(l)}
           top == Cardinality(Keys) + Cardinality(D)
           U == (0 .. top) \ D
           unused == Sorted(U)
           ch(n) == Slice(l, (n - 1) * size, size)
           opened == [n \in N |-> ch(n)]
           New == {unused[n] : n \in N}
           o == [i \in D \cup New |-> IF i \in D THEN t[i] ELSE opened[CHOOSE n \in N : unused[n] = i]]
           At(n) == {k \in 1 .. Len(l) : (n - 1) * size < k /\ k <= (n - 1) * size + size}
<1>1. Opened(t, l) = o
  BY DEF Opened
<1>2. size \in Nat \ {0} /\ Len(l) \in Nat /\ DOMAIN l = 1 .. Len(l)
  BY LenProperties, FeedIs
<1>3. N \subseteq Nat \ {0} /\ \A n \in N : n \in 1 .. Len(l) /\ (n - 1) * size < Len(l)
  BY <1>2
<1>4. /\ U \subseteq Nat /\ IsFiniteSet(U) /\ Cardinality(U) \in Nat /\ Len(l) <= Cardinality(U)
  <2>1. IsFiniteSet(Keys) /\ IsFiniteSet(D) /\ Cardinality(Keys) \in Nat /\ Cardinality(D) \in Nat
    BY FeedIs, FS_CardinalityType DEF Proper
  <2>2. top \in Nat /\ top = Cardinality(Keys) + Cardinality(D)
    BY <2>1
  <2> HIDE DEF top
  <2>3. IsFiniteSet(0 .. top) /\ Cardinality(0 .. top) = top + 1
    BY <2>2, FS_Interval
  <2>4. IsFiniteSet(U) /\ Cardinality(U) = Cardinality(0 .. top) - Cardinality((0 .. top) \cap D)
    BY <2>3, FS_Difference
  <2>5. Cardinality((0 .. top) \cap D) <= Cardinality(D) /\ Cardinality((0 .. top) \cap D) \in Nat
    <3>1. (0 .. top) \cap D \in SUBSET D
      OBVIOUS
    <3>2. QED BY <2>1, <3>1, FS_Subset, FS_CardinalityType
  <2>6. Len(l) <= Cardinality(Keys)
    <3>1. ToSet(l) \subseteq Keys /\ Cardinality(ToSet(l)) = Len(l)
      BY DistinctCounts
    <3>2. Cardinality(ToSet(l)) <= Cardinality(Keys)
      BY <2>1, <3>1, FS_Subset
    <3>3. QED BY <3>1, <3>2
  <2>7. Cardinality(U) \in Nat
    BY <2>4, FS_CardinalityType
  <2>8. U \subseteq Nat
    BY <2>2
  <2>9. Len(l) <= Cardinality(U)
    BY <1>2, <2>1, <2>2, <2>3, <2>4, <2>5, <2>6, <2>7
  <2>10. QED BY <2>4, <2>7, <2>8, <2>9
<1>5. ASSUME NEW n \in N PROVE n \in 1 .. Cardinality(U)
  BY <1>2, <1>3, <1>4
<1>6. /\ \A n \in N : unused[n] \in U
      /\ \A m, n \in N : unused[m] = unused[n] => m = n
  <2>1. Sorted(U) \in [1 .. Cardinality(U) -> U] /\ Distinct(Sorted(U)) /\ DOMAIN Sorted(U) = 1 .. Cardinality(U)
    BY <1>4, SortedIs, SortedLists
  <2> HIDE DEF U, N
  <2>2. QED BY <1>5, <2>1 DEF Distinct
<1>7. New \subseteq Nat /\ \A i \in New : i \notin D
  BY <1>4, <1>6
<1>8. IsFiniteSet(New)
  <2>1. New \in SUBSET U
    BY <1>6
  <2>2. QED BY <1>4, <2>1, FS_Subset
<1>9. \A n \in N : o[unused[n]] = ch(n) /\ unused[n] \in New
  <2>1. SUFFICES ASSUME NEW n \in N PROVE o[unused[n]] = ch(n) /\ unused[n] \in New
    OBVIOUS
  <2>2. unused[n] \in New /\ unused[n] \notin D
    BY <1>7
  <2>3. (CHOOSE m \in N : unused[m] = unused[n]) = n
    BY <1>6
  <2>4. QED BY <2>2, <2>3
<1>10. \A i \in New : \E n \in N : i = unused[n] /\ o[i] = ch(n)
  BY <1>9
<1>11. DOMAIN o = D \cup New /\ \A i \in D : o[i] = t[i]
  OBVIOUS
<1>c. \A n \in N : /\ (n - 1) * size \in Nat /\ (n - 1) * size + size = n * size
                   /\ \A m \in N : n < m => (n - 1) * size + size <= (m - 1) * size
  BY <1>2, <1>3, ChunksFollow
<1>12. ASSUME NEW n \in N
       PROVE  /\ ch(n) \in Seq(Keys) /\ Distinct(ch(n)) /\ ToSet(ch(n)) = {l[k] : k \in At(n)}
              /\ Len(ch(n)) \in Nat /\ Len(ch(n)) <= size
              /\ (n - 1) * size + size <= Len(l) => Len(ch(n)) = size
  BY <1>2, <1>c, SliceIs
<1>13. \A n \in N : \E k \in At(n) : TRUE
  <2>1. SUFFICES ASSUME NEW n \in N PROVE \E k \in At(n) : TRUE
    OBVIOUS
  <2>2. (n - 1) * size + 1 \in At(n)
    BY <1>2, <1>3, <1>c
  <2>3. QED BY <2>2
<1>14. \A m, n \in N : \A k : k \in At(m) /\ k \in At(n) => m = n
  <2>1. SUFFICES ASSUME NEW m \in N, NEW n \in N, NEW k, k \in At(m), k \in At(n) PROVE m = n
    OBVIOUS
  <2>2. ~ (m < n)
    BY <1>2, <1>c, <2>1
  <2>3. ~ (n < m)
    BY <1>2, <1>c, <2>1
  <2>4. QED BY <1>3, <2>2, <2>3
<1>15. \A k \in 1 .. Len(l) : \E n \in N : k \in At(n)
  <2>1. SUFFICES ASSUME NEW k \in 1 .. Len(l) PROVE \E n \in N : k \in At(n)
    OBVIOUS
  <2> DEFINE X == {n \in Nat : k <= n * size}
  <2>2. k \in X /\ X \subseteq Nat
    BY <1>2, ChunksFollow
  <2>3. PICK n \in X : \A u \in X : n <= u
    BY <2>2, LeastExists
  <2>4. n \in Nat /\ k <= n * size /\ n <= k
    BY <2>2, <2>3
  <2>5. n # 0
    <3>1. n = 0 => n * size = 0
      BY <1>2
    <3>2. QED BY <1>2, <2>4, <3>1
  <2>6. n - 1 \in Nat /\ ~ (n - 1 \in X)
    BY <2>3, <2>4, <2>5
  <2>7. (n - 1) * size \in Nat /\ (n - 1) * size + size = n * size
    BY <1>2, <2>4, <2>5, ChunksFollow
  <2>8. (n - 1) * size < k
    BY <2>6, <2>7
  <2>9. n \in N
    BY <1>2, <2>4, <2>5, <2>7, <2>8
  <2>10. QED BY <2>4, <2>7, <2>8, <2>9
<1>16. \A n \in N : At(n) \subseteq DOMAIN l
  BY <1>2
<1>17. \A m, n \in N : m < n => Len(ch(m)) = size
  BY <1>2, <1>3, <1>12, <1>c
<1> HIDE DEF o, N, unused, ch, New, At, U, top
<1>18. ASSUME NEW i \in New
       PROVE  o[i] \in Rows /\ ToSet(o[i]) \subseteq ToSet(l)
  <2>1. PICK n \in N : i = unused[n] /\ o[i] = ch(n)
    BY <1>10
  <2>2. PICK k \in At(n) : TRUE
    BY <1>13
  <2>3. l[k] \in ToSet(ch(n))
    BY <1>12, <2>2
  <2>4. ch(n) # <<>>
    <3>1. ToSet(<<>>) = {}
      BY DEF ToSet
    <3>2. QED BY <2>3, <3>1
  <2>5. ToSet(ch(n)) \subseteq ToSet(l)
    <3>1. \A x \in At(n) : l[x] \in ToSet(l)
      BY <1>16 DEF ToSet
    <3>2. ToSet(ch(n)) = {l[x] : x \in At(n)}
      BY <1>12
    <3>3. QED BY <3>1, <3>2
  <2>6. QED BY <1>12, <2>1, <2>4, <2>5 DEF Rows
<1>19. Proper(o)
  <2>1. \A i \in D : t[i] \in Rows
    BY DEF Proper
  <2>2. \A i \in DOMAIN o : o[i] \in Rows
    BY <1>11, <1>18, <2>1
  <2>3. o = [i \in DOMAIN o |-> o[i]]
    BY DEF o
  <2>4. IsFiniteSet(D) /\ D \subseteq Nat
    BY DEF Proper
  <2>5. DOMAIN o \subseteq Nat /\ IsFiniteSet(DOMAIN o)
    BY <1>7, <1>8, <1>11, <2>4, FS_Union
  <2>6. o \in [DOMAIN o -> Rows]
    BY <2>2, <2>3
  <2>7. QED BY <2>5, <2>6 DEF Proper
<1>20. \A i \in D : \A k \in ToSet(o[i]) : k \in Members(t) /\ k \notin ToSet(l)
  BY <1>11 DEF Members
<1>21. ListsOnce(o)
  <2>1. SUFFICES ASSUME NEW i \in DOMAIN o, NEW j \in DOMAIN o, NEW k, k \in ToSet(o[i]), k \in ToSet(o[j])
                 PROVE  i = j
    BY DEF ListsOnce
  <2>2. CASE i \in D /\ j \in D
    BY <1>11, <2>1, <2>2 DEF ListsOnce
  <2>3. CASE i \in New /\ j \in New
    <3>1. PICK m \in N : i = unused[m] /\ o[i] = ch(m)
      BY <1>10, <2>3
    <3>2. PICK n \in N : j = unused[n] /\ o[j] = ch(n)
      BY <1>10, <2>3
    <3>3. PICK x \in At(m) : k = l[x]
      BY <1>12, <2>1, <3>1
    <3>4. PICK y \in At(n) : k = l[y]
      BY <1>12, <2>1, <3>2
    <3>5. x = y
      BY <1>16, <3>3, <3>4 DEF Distinct
    <3>6. QED BY <1>14, <3>1, <3>2, <3>5
  <2>4. ~ (i \in D /\ j \in New) /\ ~ (i \in New /\ j \in D)
    BY <1>18, <1>20, <2>1
  <2>5. QED BY <1>11, <2>1, <2>2, <2>3, <2>4
<1>22. Members(o) = Members(t) \cup ToSet(l)
  <2>1. ASSUME NEW k \in ToSet(l) PROVE \E i \in New : k \in ToSet(o[i])
    <3>1. PICK x \in 1 .. Len(l) : k = l[x]
      BY <1>2, <2>1 DEF ToSet
    <3>2. PICK n \in N : x \in At(n)
      BY <1>15
    <3>3. k \in ToSet(ch(n))
      BY <1>12, <3>1, <3>2
    <3>4. QED BY <1>9, <3>3
  <2>2. \A i \in New : ToSet(o[i]) \subseteq ToSet(l)
    BY <1>18
  <2>3. Members(o) = (UNION {ToSet(o[i]) : i \in D}) \cup (UNION {ToSet(o[i]) : i \in New})
    BY <1>11 DEF Members
  <2>4. UNION {ToSet(o[i]) : i \in D} = Members(t)
    BY <1>11 DEF Members
  <2>5. UNION {ToSet(o[i]) : i \in New} = ToSet(l)
    BY <2>1, <2>2
  <2>6. QED BY <2>3, <2>4, <2>5
<1>23. DOMAIN o # D => l # <<>>
  <2>1. SUFFICES ASSUME NEW i \in New PROVE l # <<>>
    BY <1>11
  <2>2. PICK n \in N : TRUE
    BY <1>10
  <2>3. n \in DOMAIN l
    BY <1>2, <1>3
  <2>4. DOMAIN <<>> = {}
    OBVIOUS
  <2>5. QED BY <2>3, <2>4
<1>24. \A i, j \in DOMAIN o \ D : i = j \/ Len(o[i]) = size \/ Len(o[j]) = size
  <2>1. SUFFICES ASSUME NEW i \in New, NEW j \in New, i # j PROVE Len(o[i]) = size \/ Len(o[j]) = size
    BY <1>11
  <2>2. PICK m \in N : i = unused[m] /\ o[i] = ch(m)
    BY <1>10
  <2>3. PICK n \in N : j = unused[n] /\ o[j] = ch(n)
    BY <1>10
  <2>4. m < n \/ n < m
    BY <1>3, <2>1, <2>2, <2>3
  <2>5. QED BY <1>17, <2>2, <2>3, <2>4
<1>25. DOMAIN t \subseteq DOMAIN o /\ \A i \in DOMAIN t : o[i] = t[i]
  BY <1>11
<1>26. QED BY <1>1, <1>19, <1>21, <1>22, <1>23, <1>24, <1>25

-----------------------------------------------------------------------------
\* The invariant of the table: its rows are lists of symbols of the feed, none too long or empty,
\* and no symbol is listed twice.
TableInv == Proper(shards) /\ ListsOnce(shards)

\* What established shards keep of a universe: each what is wanted of it, all of it if all is.
LEMMA RetainedIs ==
  ASSUME TableInv, NEW S
  PROVE  LET K == Retained(S)
         IN  /\ Proper(K) /\ ListsOnce(K) /\ Members(K) \subseteq S
             /\ DOMAIN K \subseteq DOMAIN shards
             /\ \A i \in DOMAIN K : ToSet(K[i]) = ToSet(shards[i]) \cap S
             /\ \A i \in DOMAIN shards : /\ i \notin DOMAIN K => ToSet(shards[i]) \cap S = {}
                                         /\ ToSet(shards[i]) \subseteq S => i \in DOMAIN K /\ K[i] = shards[i]
<1> DEFINE K == Retained(S)
<1>1. DOMAIN K = {j \in DOMAIN shards : Still(shards[j], S) # <<>>} /\ \A i \in DOMAIN K : K[i] = Still(shards[i], S)
  BY DEF Retained
<1>2. K = [i \in DOMAIN K |-> K[i]]
  BY DEF Retained
<1>3. Proper(shards) /\ ListsOnce(shards)
  BY DEF TableInv
<1> HIDE DEF K
<1>4. ASSUME NEW i \in DOMAIN shards
      PROVE  /\ Still(shards[i], S) \in Seq(Keys) /\ Distinct(Still(shards[i], S))
             /\ ToSet(Still(shards[i], S)) = ToSet(shards[i]) \cap S
             /\ Len(Still(shards[i], S)) \in Nat /\ Len(Still(shards[i], S)) <= size
             /\ ToSet(shards[i]) \subseteq S => Still(shards[i], S) = shards[i]
             /\ shards[i] # <<>>
  <2>1. /\ shards[i] \in Seq(Keys) /\ shards[i] # <<>> /\ Distinct(shards[i])
        /\ Len(shards[i]) \in Nat /\ Len(shards[i]) <= size /\ size \in Nat
    BY <1>3, RowIs
  <2>2. QED BY <2>1, StillIs
<1>5. Proper(K)
  <2>1. \A i \in DOMAIN K : K[i] \in Rows
    BY <1>1, <1>4 DEF Rows
  <2>2. IsFiniteSet(DOMAIN shards) /\ DOMAIN shards \subseteq Nat /\ DOMAIN K \in SUBSET DOMAIN shards
    BY <1>1, <1>3 DEF Proper
  <2>3. IsFiniteSet(DOMAIN K)
    BY <2>2, FS_Subset
  <2>4. QED BY <1>2, <2>1, <2>2, <2>3 DEF Proper
<1>6. \A i \in DOMAIN K : i \in DOMAIN shards /\ ToSet(K[i]) = ToSet(shards[i]) \cap S
  BY <1>1, <1>4
<1>7. ListsOnce(K)
  BY <1>3, <1>6 DEF ListsOnce
<1>8. Members(K) \subseteq S
  BY <1>6 DEF Members
<1>9. ASSUME NEW i \in DOMAIN shards
      PROVE  /\ i \notin DOMAIN K => ToSet(shards[i]) \cap S = {}
             /\ ToSet(shards[i]) \subseteq S => i \in DOMAIN K /\ K[i] = shards[i]
  <2>1. ToSet(<<>>) = {}
    BY DEF ToSet
  <2>2. QED BY <1>1, <1>4, <2>1
<1>10. QED BY <1>5, <1>6, <1>7, <1>8, <1>9 DEF K

\* What reconcile makes of the table, the shards kept and the shards opened.
LEMMA DesiredIs ==
  ASSUME TableInv, NEW S \in SUBSET Keys
  PROVE  LET K == Retained(S)
             o == Desired(S)
         IN  /\ Proper(o) /\ ListsOnce(o) /\ Members(o) = S /\ DOMAIN K \subseteq DOMAIN o
             /\ \A i \in DOMAIN K : /\ ToSet(K[i]) \subseteq ToSet(o[i])
                                    /\ ToSet(o[i]) = ToSet(K[i]) => o[i] = K[i]
             /\ \A i \in DOMAIN o \ DOMAIN K : \A j \in DOMAIN o :
                  i = j \/ Len(o[j]) = size \/ (j \notin DOMAIN K /\ Len(o[i]) = size)
<1> DEFINE K == Retained(S)
           a == Sorted(S \ Members(K))
           f == Filled(K, a).table
           l == Filled(K, a).left
           o == Opened(f, l)
<1>1. Desired(S) = o
  BY DEF Desired, Members
<1>2. Proper(K) /\ ListsOnce(K) /\ Members(K) \subseteq S
  BY RetainedIs
<1> HIDE DEF K
<1>3. a \in Seq(Keys) /\ Distinct(a) /\ ToSet(a) = S \ Members(K)
  <2>1. S \ Members(K) \in SUBSET Keys /\ S \ Members(K) \subseteq Nat /\ IsFiniteSet(S \ Members(K))
    BY FeedIs, FS_Subset
  <2>2. a \in Seq(S \ Members(K)) /\ Distinct(a) /\ ToSet(a) = S \ Members(K)
    BY <2>1, SortedLists
  <2>3. QED BY <2>1, <2>2, SeqMonotonic
<1>4. \A k \in ToSet(a) : k \notin Members(K)
  BY <1>3
<1> HIDE DEF a
<1>5. /\ Proper(f) /\ ListsOnce(f) /\ DOMAIN f = DOMAIN K
      /\ l \in Seq(Keys) /\ Distinct(l) /\ \A k \in ToSet(l) : k \notin Members(f)
      /\ Members(f) \cup ToSet(l) = Members(K) \cup ToSet(a)
      /\ \A i \in DOMAIN K : /\ ToSet(K[i]) \subseteq ToSet(f[i])
                             /\ l # <<>> => Len(f[i]) = size
                             /\ ToSet(f[i]) = ToSet(K[i]) => f[i] = K[i]
  BY <1>2, <1>3, <1>4, FilledIs
<1> HIDE DEF f, l
<1>6. /\ Proper(o) /\ ListsOnce(o) /\ Members(o) = Members(f) \cup ToSet(l)
      /\ DOMAIN f \subseteq DOMAIN o /\ \A i \in DOMAIN f : o[i] = f[i]
      /\ DOMAIN o # DOMAIN f => l # <<>>
      /\ \A i, j \in DOMAIN o \ DOMAIN f : i = j \/ Len(o[i]) = size \/ Len(o[j]) = size
  BY <1>5, OpenedIs
<1> HIDE DEF o
<1>7. Members(o) = S
  BY <1>2, <1>3, <1>5, <1>6
<1>8. ASSUME NEW i \in DOMAIN o \ DOMAIN K, NEW j \in DOMAIN o
      PROVE  i = j \/ Len(o[j]) = size \/ (j \notin DOMAIN K /\ Len(o[i]) = size)
  <2>1. CASE j \in DOMAIN K
    BY <1>5, <1>6, <1>8, <2>1
  <2>2. CASE j \notin DOMAIN K
    BY <1>5, <1>6, <1>8, <2>2
  <2>3. QED BY <2>1, <2>2
<1>9. /\ DOMAIN K \subseteq DOMAIN o
      /\ \A i \in DOMAIN K : /\ ToSet(K[i]) \subseteq ToSet(o[i])
                             /\ ToSet(o[i]) = ToSet(K[i]) => o[i] = K[i]
  BY <1>5, <1>6
<1>10. QED BY <1>1, <1>6, <1>7, <1>8, <1>9 DEF K

\* A shard that shares a symbol with one of the new table is the one kept under its number.
LEMMA SharesOne ==
  ASSUME TableInv, NEW S \in SUBSET Keys, NEW i \in DOMAIN shards, NEW j \in DOMAIN Desired(S),
         NEW k, k \in ToSet(shards[i]), k \in ToSet(Desired(S)[j])
  PROVE  i = j /\ i \in DOMAIN Retained(S)
<1> DEFINE K == Retained(S)
           o == Desired(S)
<1>1. /\ ListsOnce(o) /\ Members(o) = S /\ DOMAIN K \subseteq DOMAIN o
      /\ \A x \in DOMAIN K : ToSet(K[x]) \subseteq ToSet(o[x])
  BY DesiredIs
<1>2. /\ \A x \in DOMAIN K : ToSet(K[x]) = ToSet(shards[x]) \cap S
      /\ \A x \in DOMAIN shards : x \notin DOMAIN K => ToSet(shards[x]) \cap S = {}
  BY RetainedIs
<1> HIDE DEF K, o
<1>3. k \in ToSet(o[j]) /\ j \in DOMAIN o
  BY DEF o
<1>4. k \in S
  BY <1>1, <1>3 DEF Members
<1>5. i \in DOMAIN K
  BY <1>2, <1>4
<1>6. k \in ToSet(o[i]) /\ i \in DOMAIN o
  BY <1>1, <1>2, <1>4, <1>5
<1>7. QED BY <1>1, <1>3, <1>5, <1>6 DEF ListsOnce, K

\* The limit of a set of symbols of the feed is its size.
LEMMA LimitIs ==
  ASSUME NEW s \in SUBSET Keys
  PROVE  OneFeed(s) /\ (s # {} => Limit(s) = size)
<1>1. \A k \in s : FeedOf[k] = Feed
  BY FeedIs
<1>2. s # {} => (CHOOSE k \in s : TRUE) \in s
  OBVIOUS
<1>3. QED BY <1>1, <1>2 DEF OneFeed, Limit, size

\* The new table is what the plan allows.
LEMMA DesiredIsPlan ==
  ASSUME TableInv, NEW S \in SUBSET Keys
  PROVE  IsPlan(Sets(shards), Sets(Desired(S)), S)
<1> DEFINE K == Retained(S)
           o == Desired(S)
           old == Sets(shards)
           new == Sets(o)
<1>1. /\ Proper(o) /\ ListsOnce(o) /\ Members(o) = S /\ DOMAIN K \subseteq DOMAIN o
      /\ \A i \in DOMAIN K : ToSet(K[i]) \subseteq ToSet(o[i])
      /\ \A i \in DOMAIN o \ DOMAIN K : \A j \in DOMAIN o :
           i = j \/ Len(o[j]) = size \/ (j \notin DOMAIN K /\ Len(o[i]) = size)
  BY DesiredIs
<1>2. /\ DOMAIN K \subseteq DOMAIN shards /\ Proper(K)
      /\ \A i \in DOMAIN K : ToSet(K[i]) = ToSet(shards[i]) \cap S
      /\ \A i \in DOMAIN shards : i \notin DOMAIN K => ToSet(shards[i]) \cap S = {}
  BY RetainedIs
<1>3. \A i \in DOMAIN shards, j \in DOMAIN o : \A k :
        k \in ToSet(shards[i]) /\ k \in ToSet(o[j]) => i = j /\ i \in DOMAIN K
  BY SharesOne
<1>4. old = {ToSet(shards[i]) : i \in DOMAIN shards} /\ new = {ToSet(o[i]) : i \in DOMAIN o}
  BY DEF Sets
<1> HIDE DEF K, o, old, new
<1>5. ASSUME NEW i \in DOMAIN o
      PROVE  /\ ToSet(o[i]) \in SUBSET Keys /\ ToSet(o[i]) # {} /\ OneFeed(ToSet(o[i]))
             /\ Cardinality(ToSet(o[i])) = Len(o[i]) /\ Len(o[i]) <= size
             /\ Limit(ToSet(o[i])) = size
  BY <1>1, <1>5, RowIs, LimitIs
<1>6. IsSharding(new, S)
  <2>1. UNION new = S
    BY <1>1, <1>4 DEF Members
  <2>2. \A s \in new : s # {} /\ OneFeed(s) /\ Cardinality(s) <= Limit(s)
    BY <1>4, <1>5
  <2>3. \A s, t \in new : s # t => s \cap t = {}
    BY <1>1, <1>4 DEF ListsOnce
  <2>4. QED BY <2>1, <2>2, <2>3 DEF IsSharding
<1>7. ASSUME NEW s \in old, s \cap S # {}
      PROVE  \E t \in new : s \cap S \subseteq t
  <2>1. PICK i \in DOMAIN shards : s = ToSet(shards[i])
    BY <1>4
  <2>2. i \in DOMAIN K
    BY <1>2, <1>7, <2>1
  <2>3. s \cap S \subseteq ToSet(o[i]) /\ ToSet(o[i]) \in new
    BY <1>1, <1>2, <1>4, <2>1, <2>2
  <2>4. QED BY <2>3
<1>8. ASSUME NEW t \in new
      PROVE  Cardinality({s \in old : s \cap t # {}}) <= 1
  <2>1. PICK j \in DOMAIN o : t = ToSet(o[j])
    BY <1>4
  <2>2. {s \in old : s \cap t # {}} \in SUBSET {ToSet(shards[j])}
    BY <1>3, <1>4, <2>1
  <2>3. IsFiniteSet({ToSet(shards[j])}) /\ Cardinality({ToSet(shards[j])}) = 1
    BY FS_Singleton
  <2>4. QED BY <2>2, <2>3, FS_Subset
<1>9. ASSUME NEW t \in Added(old, new), NEW u \in new \ {t}
      PROVE  \/ Cardinality(u) = Limit(u)
             \/ u \in Added(old, new) /\ Cardinality(t) = Limit(t)
  <2>1. PICK i \in DOMAIN o : t = ToSet(o[i])
    BY <1>4 DEF Added
  <2>2. PICK j \in DOMAIN o : u = ToSet(o[j])
    BY <1>4
  <2>3. i # j
    BY <1>9, <2>1, <2>2
  <2>4. i \notin DOMAIN K
    <3>1. SUFFICES ASSUME i \in DOMAIN K PROVE FALSE
      OBVIOUS
    <3>2. ToSet(K[i]) # {} /\ ToSet(K[i]) \subseteq ToSet(o[i]) /\ ToSet(K[i]) \subseteq ToSet(shards[i])
      BY <1>1, <1>2, <3>1, RowIs
    <3>3. ToSet(shards[i]) \in old
      BY <1>2, <1>4, <3>1
    <3>4. QED BY <2>1, <3>2, <3>3 DEF Added
  <2>5. Len(o[j]) = size \/ (j \notin DOMAIN K /\ Len(o[i]) = size)
    BY <1>1, <2>3, <2>4
  <2>6. j \notin DOMAIN K => u \in Added(old, new)
    <3>1. SUFFICES ASSUME j \notin DOMAIN K, NEW s \in old, NEW k, k \in s, k \in u PROVE FALSE
      BY DEF Added
    <3>2. QED BY <1>3, <1>4, <2>2, <3>1
  <2>7. QED BY <1>5, <2>1, <2>2, <2>5, <2>6
<1>10. QED BY <1>6, <1>7, <1>8, <1>9 DEF IsPlan, old, new, o

\* A shard whose set is one of the new table stays as it is.
LEMMA UntouchedStays ==
  ASSUME TableInv, NEW S \in SUBSET Keys, NEW i \in DOMAIN shards, NEW j \in DOMAIN Desired(S),
         ToSet(Desired(S)[j]) = ToSet(shards[i])
  PROVE  i \in DOMAIN Desired(S) /\ Desired(S)[i] = shards[i]
<1> DEFINE K == Retained(S)
           o == Desired(S)
<1>1. ToSet(shards[i]) # {}
  BY RowIs DEF TableInv
<1>2. PICK k \in ToSet(shards[i]) : TRUE
  BY <1>1
<1>3. i = j /\ i \in DOMAIN K
  BY <1>2, SharesOne
<1>4. ToSet(shards[i]) \subseteq S
  <2>1. Members(o) = S
    BY DesiredIs
  <2>2. QED BY <2>1 DEF Members
<1>5. K[i] = shards[i]
  BY <1>4, RetainedIs
<1>6. ToSet(o[i]) = ToSet(K[i])
  BY <1>3, <1>5
<1>7. QED BY <1>3, <1>5, <1>6, DesiredIs

\* The table of a feed's shards is always one the plan allows, and no worker is restarted whose
\* shard neither loses nor gains: for any universes listed, in any order, and any limit.
THEOREM PlanFollowed == TableSpec => ShardsFollow
<1>1. TableInit => TableInv
  <2>1. SUFFICES ASSUME TableInit PROVE TableInv
    OBVIOUS
  <2>2. shards = <<>> /\ DOMAIN shards = {}
    BY <2>1 DEF TableInit
  <2>3. shards = [x \in {} |-> x]
    BY <2>2
  <2>4. Proper(shards)
    BY <2>2, <2>3, FS_EmptySet DEF Proper
  <2>5. QED BY <2>2, <2>4 DEF TableInv, ListsOnce
<1>2. TableInv /\ [TableNext]_<<shards, wanted>> => TableInv'
  <2>1. SUFFICES ASSUME TableInv, [TableNext]_<<shards, wanted>> PROVE TableInv'
    OBVIOUS
  <2>2. CASE TableNext
    <3>1. PICK S \in SUBSET Keys : shards' = Desired(S)
      BY <2>2 DEF TableNext, reconcile
    <3>2. Proper(shards') /\ ListsOnce(shards')
      BY <2>1, <3>1, DesiredIs
    <3>3. QED BY <3>2 DEF TableInv, Proper, ListsOnce
  <2>3. CASE UNCHANGED <<shards, wanted>>
    BY <2>1, <2>3 DEF TableInv, Proper, ListsOnce
  <2>4. QED BY <2>1, <2>2, <2>3
<1>3. TableInv /\ [TableNext]_<<shards, wanted>> => [IsPlan(Sets(shards), Sets(shards'), wanted')]_<<shards, wanted>>
  <2>1. SUFFICES ASSUME TableInv, TableNext PROVE IsPlan(Sets(shards), Sets(shards'), wanted')
    OBVIOUS
  <2>2. PICK S \in SUBSET Keys : wanted' = S /\ shards' = Desired(S)
    BY <2>1 DEF TableNext, reconcile
  <2>3. QED BY <2>1, <2>2, DesiredIsPlan
<1>4. TableInv /\ [TableNext]_<<shards, wanted>> =>
        [\A i \in DOMAIN shards : (\E j \in DOMAIN shards' : ToSet(shards'[j]) = ToSet(shards[i]))
           => i \in DOMAIN shards' /\ shards'[i] = shards[i]]_<<shards, wanted>>
  <2>1. SUFFICES ASSUME TableInv, TableNext, NEW i \in DOMAIN shards, NEW j \in DOMAIN shards',
                        ToSet(shards'[j]) = ToSet(shards[i])
                 PROVE  i \in DOMAIN shards' /\ shards'[i] = shards[i]
    OBVIOUS
  <2>2. PICK S \in SUBSET Keys : shards' = Desired(S)
    BY <2>1 DEF TableNext, reconcile
  <2>3. QED BY <2>1, <2>2, UntouchedStays
<1>5. QED BY <1>1, <1>2, <1>3, <1>4, PTL DEF TableSpec, ShardsFollow, TableFollowsPlan, UntouchedShardsStay

=============================================================================
