------------------------------ MODULE Episodes ------------------------------
(***************************************************************************)
(* opportunity_activity.ActivityLedger: opening episodes of a path's spread.  *)
(* A reading of 1 % opens one, a return inside 0.5 % ends it and rearms the   *)
(* direction. Market threads observe under the lock; the history thread       *)
(* copies, commits and acknowledges; writes fail and the process dies.        *)
(* Spreads are in quarters of a percent.                                      *)
(***************************************************************************)
EXTENDS Integers, SequencesExt, FiniteSetsExt

CONSTANTS Paths, Spreads,    \* (symbol, exchange) pairs, and what their spread may read
          StateLimit,        \* states in memory (4000)
          PendingLimit,      \* versions of episodes waiting to be written (24000)
          Contiguous,        \* seconds between readings that are one observation (20)
          Retention,         \* RETENTION
          LastSecond, MaxReadings, MaxLosses   \* bounds: time, readings, failures and deaths

ASSUME EpisodeAssumption ==
  /\ Spreads \subseteq Int /\ Contiguous \in Nat /\ Retention \in Nat
  /\ {StateLimit, PendingLimit, LastSecond, MaxReadings, MaxLosses} \subseteq Nat

VARIABLES second,
          ready, states,     \* ActivityLedger.ready, .states: only what was read, see below
          dirty, waiting,    \* states to write; [path, event], in the dict's order
          copied,            \* the locals of the persist() in progress, or None
          committed,         \* and whether its transaction is through
          saved,             \* table states
          episodes,          \* table episodes: the events of each path
          cutoff,            \* history: the start before which the table forgets
          cropped,           \* history: paths of which a pending version was dropped, or
                             \* a state was not loaded
          losses

ledger == <<ready, states, dirty, waiting>>
book == <<saved, episodes, cutoff>>
episodeVars == <<second, ledger, copied, committed, book, cropped, losses>>

Unknown == <<>>                           \* None; NoEnd: an event that goes on
NoEnd == 0
Gone == 0 - Retention - 1

EpisodeInit ==
  /\ second = Contiguous + 1 /\ ready = FALSE /\ states = <<>> /\ dirty = <<>> /\ waiting = <<>>
  /\ copied = Unknown /\ committed = FALSE /\ saved = <<>> /\ episodes = [p \in Paths |-> {}]
  /\ cutoff = Gone /\ cropped = {} /\ losses = 0

-----------------------------------------------------------------------------
(* A state is the readings it was made of, of which the code keeps the first *)
(* and the last, and its active event.                                       *)
Side(v) == IF v > 0 THEN 1 ELSE -1
Newest(s) == s.readings[Len(s.readings)]
LastAt(s) == IF s.readings = <<>> THEN 0 ELSE Newest(s).at
NewState == [readings |-> <<>>, active |-> Unknown]
Set1(f, p, x) == [o \in DOMAIN f \cup {p} |-> IF o = p THEN x ELSE f[o]]
Upsert(s, p, e) ==
  LET same == {i \in DOMAIN s : s[i].path = p /\ s[i].event.start = e.start /\ s[i].event.side = e.side}
  IN IF same = {} THEN Append(s, [path |-> p, event |-> e])
                  ELSE [i \in DOMAIN s |-> IF i \in same THEN [s[i] EXCEPT !.event = e] ELSE s[i]]
FirstPaths(s, n) == {s[i].path : i \in 1 .. n}

\* The active event goes on: a gap, a new peak, or its end.
FollowedThrough(e, at, v, near) ==
  [e EXCEPT !.whole = @ /\ near,
            !.peak = IF e.side * v > e.side * @ THEN v ELSE @,
            !.peakAt = IF e.side * v > e.side * e.peak THEN at ELSE @,
            !.end = IF e.side * v <= 2 THEN at ELSE @]
Opening(s, at, v, near) ==
  [start |-> at, side |-> Side(v), peak |-> v, peakAt |-> at, end |-> NoEnd,
   whole |-> near /\ s.readings # <<>> /\ Side(v) * Newest(s).value < 4]

\* ActivityLedger.observe, one quote of a call.
ObserveSpread(p, at, v) ==
  LET s == IF p \in DOMAIN states THEN states[p] ELSE NewState
      near == 0 < at - LastAt(s) /\ at - LastAt(s) <= Contiguous
      old == IF s.active = Unknown THEN Unknown ELSE FollowedThrough(s.active, at, v, near)
      over == IF old = Unknown THEN TRUE ELSE old.end # NoEnd
      opens == over /\ (v >= 4 \/ v <= -4)
      new == Opening(s, at, v, near)
      followed == IF old = Unknown THEN waiting ELSE Upsert(waiting, p, old)
      queue == IF opens THEN Upsert(followed, p, new) ELSE followed
      excess == IF Len(queue) > PendingLimit THEN Len(queue) - PendingLimit ELSE 0
      t == [readings |-> Append(s.readings, [at |-> at, value |-> v]),
            active |-> IF opens THEN new ELSE IF over THEN Unknown ELSE old]
  IN /\ ready /\ (p \in DOMAIN states \/ Cardinality(DOMAIN states) < StateLimit)
     /\ at > LastAt(s)
     /\ states' = Set1(states, p, t) /\ dirty' = Set1(dirty, p, t)
     /\ waiting' = SubSeq(queue, excess + 1, Len(queue))
     /\ cropped' = cropped \cup FirstPaths(queue, excess)
     /\ UNCHANGED <<second, ready, copied, committed, book, losses>>

-----------------------------------------------------------------------------
\* restore: at most StateLimit of the saved states.
Restore ==
  /\ ~ ready /\ copied = Unknown /\ ready' = TRUE
  /\ \E P \in SUBSET DOMAIN saved :
       /\ Cardinality(P) = Min({StateLimit, Cardinality(DOMAIN saved)})
       /\ states' = [p \in P |-> saved[p]]
       /\ cropped' = cropped \cup (DOMAIN saved \ P)
  /\ UNCHANGED <<second, dirty, waiting, copied, committed, book, losses>>

\* persist, first lock: states not seen for the retention leave the memory; the rest of
\* what is new is copied.
Expired == {p \in DOMAIN states : LastAt(states[p]) < second - Retention}
CopyLedger ==
  /\ ready /\ copied = Unknown
  /\ states' = [p \in DOMAIN states \ Expired |-> states[p]]
  /\ dirty' = [p \in DOMAIN dirty \ Expired |-> dirty[p]]
  /\ copied' = [expired |-> Expired, dirty |-> dirty', pending |-> waiting, at |-> second]
  /\ UNCHANGED <<second, ready, waiting, committed, book, cropped, losses>>

\* The transaction: states deleted and replaced, events replaced by their key, old rows out.
\* The cap of 100000 rows is left out.
SameEvent(a, b) == a.start = b.start /\ a.side = b.side
CommitLedger ==
  /\ copied # Unknown /\ ~ committed /\ committed' = TRUE
  /\ saved' = [p \in DOMAIN copied.dirty \cup (DOMAIN saved \ copied.expired) |->
                IF p \in DOMAIN copied.dirty THEN copied.dirty[p] ELSE saved[p]]
  /\ cutoff' = copied.at - Retention
  /\ episodes' = [p \in Paths |->
       LET new == {copied.pending[i].event : i \in {j \in DOMAIN copied.pending : copied.pending[j].path = p}}
       IN {e \in new \cup {o \in episodes[p] : \A n \in new : ~ SameEvent(o, n)} : e.start >= cutoff'}]
  /\ UNCHANGED <<second, ledger, copied, cropped, losses>>

\* The transaction fails, or an error after it hides that it did not.
FailLedger ==
  /\ copied # Unknown /\ losses < MaxLosses /\ losses' = losses + 1
  /\ copied' = Unknown /\ committed' = FALSE
  /\ UNCHANGED <<second, ledger, book, cropped>>

\* persist, second lock: what is still as it was written need not be written again.
ClearedKeys(q, c) == SelectSeq(q, LAMBDA e : ~ \E i \in DOMAIN c :
                                              c[i].path = e.path /\ SameEvent(c[i].event, e.event))
StillPending(q, c) ==
  LET still == ToSet(q) \ ToSet(c)
      kept[n \in 0 .. Len(q)] ==
        IF n = 0 THEN <<>>
        ELSE IF q[n] \in still THEN Append(kept[n - 1], q[n]) ELSE kept[n - 1]
  IN kept[Len(q)]
StillDirty(d, c) == [p \in {q \in DOMAIN d : q \notin DOMAIN c \/ c[q] # d[q]} |-> d[p]]
AcknowledgeLedger ==
  /\ copied # Unknown /\ committed
  /\ dirty' = StillDirty(dirty, copied.dirty)
  /\ waiting' = StillPending(waiting, copied.pending)
  /\ copied' = Unknown /\ committed' = FALSE
  /\ UNCHANGED <<second, ready, states, book, cropped, losses>>

LedgerDies ==
  /\ losses < MaxLosses /\ losses' = losses + 1
  /\ ready' = FALSE /\ states' = <<>> /\ dirty' = <<>> /\ waiting' = <<>>
  /\ copied' = Unknown /\ committed' = FALSE
  /\ UNCHANGED <<second, book, cropped>>

LaterReading == second < LastSecond /\ second' = second + 1
                /\ UNCHANGED <<ledger, copied, committed, book, cropped, losses>>

Readings == FoldSet(LAMBDA p, n : n + Len(states[p].readings), 0, DOMAIN states)
EpisodeNext ==
  \/ \E p \in Paths, v \in Spreads :
       Readings < MaxReadings /\ ObserveSpread(p, second, v)
  \/ Restore \/ CopyLedger \/ CommitLedger \/ FailLedger \/ AcknowledgeLedger \/ LedgerDies \/ LaterReading

EpisodeSpec == EpisodeInit /\ [][EpisodeNext]_episodeVars

-----------------------------------------------------------------------------
(* What the episodes of a sequence of readings are, without any state.       *)
Above(r, i, d) == d * r[i].value >= 4
Below(r, i, d) == d * r[i].value <= 2
Opens(r, i, d) == Above(r, i, d) /\ \A j \in 1 .. (i - 1) : Above(r, j, d) => \E k \in (j + 1) .. (i - 1) : Below(r, k, d)
Ends(r, i, d) == {k \in (i + 1) .. Len(r) : Below(r, k, d)}
UntilEnd(r, i, d) == i .. (IF Ends(r, i, d) = {} THEN Len(r) ELSE Min(Ends(r, i, d)))
Highest(r, i, d) == CHOOSE k \in UntilEnd(r, i, d) :
                      \A j \in UntilEnd(r, i, d) : d * r[j].value < d * r[k].value
                                                  \/ (r[j].value = r[k].value /\ k <= j)
EpisodeAt(r, i, d) ==
  [start |-> r[i].at, side |-> d,
   peak |-> r[Highest(r, i, d)].value, peakAt |-> r[Highest(r, i, d)].at,
   end |-> IF Ends(r, i, d) = {} THEN NoEnd ELSE r[Min(Ends(r, i, d))].at,
   whole |-> i > 1 /\ \A k \in UntilEnd(r, i, d) : r[k].at - r[k - 1].at <= Contiguous]
EpisodesOf(r) == {EpisodeAt(r, o[1], o[2]) : o \in {x \in (DOMAIN r) \X {-1, 1} : Opens(r, x[1], x[2])}}
SavedReadings(p) == IF p \in DOMAIN saved THEN saved[p].readings ELSE <<>>

\* "Observed opening episodes": however the writes, failures and restarts fell, the table
\* holds exactly the episodes of the readings its state rests on: each with its peak, its
\* end, and whether no reading was missed from before its start to its end; none twice.
\* The exceptions are a path whose versions overflowed the queue, which the code admits, and
\* one whose state did not fit into the memory at a restart.
EpisodesAreObserved ==
  \A p \in Paths \ cropped :
    episodes[p] = {e \in EpisodesOf(SavedReadings(p)) : e.start >= cutoff}
=============================================================================
