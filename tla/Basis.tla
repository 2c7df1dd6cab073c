------------------------------- MODULE Basis -------------------------------
(***************************************************************************)
(* Price divergences and basis trackings (app.py): the spot lane first marks   *)
(* the paths whose price left the market, then tracks the basis of the symbol   *)
(* by its first path that is not marked; the futures lane and the watch on       *)
(* ZAMA only track. Which lane it is, is chosen once; one symbol is modelled.    *)
(* What the prices of a row come to is an input: converged, a signal of a sign    *)
(* (with a closed chain or without), neither, or invalid. A basis is counted in    *)
(* steps of a fifth of a percent.                                                *)
(***************************************************************************)
EXTENDS Integers, Sequences

CONSTANTS Paths,
          ConfirmClosed, ConfirmOpen,   \* confirm_seconds with a closed chain: 300, without: 900
          RecoverFor, LongestGap,       \* 120 and 30 seconds
          SamplesNeeded,                \* 3
          Bases, Threshold, QuietBelow,      \* what is read; 1 percent and 0.8 percent
          MaxBasisTime                  \* bound

ASSUME BasisAssumption ==
  /\ {ConfirmClosed, ConfirmOpen, RecoverFor, LongestGap, SamplesNeeded, Threshold, QuietBelow} \subseteq Nat
  /\ ConfirmClosed <= ConfirmOpen /\ QuietBelow <= Threshold /\ Bases \subseteq Int

VARIABLES lane,        \* spot, dual or watch
          basisTime,
          episodes,    \* SpotDivergence: the unresolved one of each path
          candidate,   \* BASIS_CANDIDATES: in memory only
          trackings,   \* BasisTracking: the unresolved ones, in the order of their rows
          agreed,      \* history: the unbroken signals of each path
          calm,        \* history: since when each path has converged
          seen         \* history: the last observed direction, and how many quiet ones in a row

basisVars == <<lane, basisTime, episodes, candidate, trackings, agreed, calm, seen>>

NotYet == -1
NoEpisode == [open |-> FALSE]
NoSignals == [sign |-> 0, since |-> NotYet, last |-> NotYet, samples |-> 0, closed |-> FALSE]
NoCalm == [since |-> NotYet, last |-> NotYet]
NoCount == [direction |-> 0, count |-> 0]
BasisInit ==
  /\ lane \in {"spot", "dual", "watch"} /\ basisTime = 0
  /\ episodes = [p \in Paths |-> NoEpisode] /\ candidate = NoCount /\ trackings = <<>>
  /\ agreed = [p \in Paths |-> NoSignals] /\ calm = [p \in Paths |-> NoCalm]
  /\ seen = [direction |-> 0, quiet |-> 0]

-----------------------------------------------------------------------------
\* spot_divergence_evidence: what a row shows.
RowKinds == {"missing", "invalid", "converged", "neither", "closed", "unclosed"}
RowReadings == [kind : RowKinds, sign : {-1, 1}]
Signals(r) == r.kind \in {"closed", "unclosed"}
ConfirmFor(r) == IF r.kind = "closed" THEN ConfirmClosed ELSE ConfirmOpen

\* update_spot_divergences for one path: the clocks that count, and what they come to.
Stopped(e) == [e EXCEPT !.candidate = NotYet, !.recovering = NotYet, !.samples = 0]
Uncounted(e) == [e EXCEPT !.candidate = NotYet, !.samples = 0]
OpenedBy(r) == [open |-> TRUE, candidate |-> basisTime, recovering |-> NotYet, samples |-> 0,
                confirmed |-> FALSE, last |-> basisTime, sign |-> r.sign]
Anyway(e) == e
AfterGap(e) == IF basisTime - e.last > LongestGap THEN Stopped(e) ELSE e
SameSign(e, r) == IF e.sign = -r.sign THEN Uncounted(e) ELSE e
Recovering(e) ==
  LET since == IF e.recovering = NotYet THEN basisTime ELSE e.recovering
  IN IF basisTime - since >= RecoverFor THEN NoEpisode
     ELSE [Uncounted(e) EXCEPT !.recovering = since]
Signalled(e, r) ==
  LET f == SameSign(e, r)
      since == IF f.candidate = NotYet THEN basisTime ELSE f.candidate
      samples == IF f.samples < SamplesNeeded THEN f.samples + 1 ELSE f.samples
  IN [f EXCEPT !.candidate = since, !.samples = samples, !.recovering = NotYet,
               !.confirmed = @ \/ (samples >= SamplesNeeded /\ basisTime - since >= ConfirmFor(r))]
Judged(e, r) ==
  CASE r.kind = "converged" -> Recovering(e)
    [] Signals(r) -> Signalled(e, r)
    [] OTHER -> [Uncounted(e) EXCEPT !.recovering = NotYet]
Episode(e, r) ==
  LET f == IF e.open THEN AfterGap(e) ELSE OpenedBy(r)
      next == Judged([f EXCEPT !.last = basisTime], r)
  IN IF r.kind \in {"missing", "invalid"} THEN IF e.open THEN Stopped(e) ELSE e
     ELSE IF ~ e.open /\ ~ Signals(r) THEN e
     ELSE IF next.open THEN [next EXCEPT !.sign = r.sign] ELSE next

\* The histories say the same of the readings alone.
Agreed(h, r) ==
  IF ~ Signals(r) THEN NoSignals
  ELSE IF h.sign = r.sign /\ basisTime - h.last <= LongestGap
       THEN [h EXCEPT !.last = basisTime, !.closed = r.kind = "closed",
                      !.samples = IF @ < SamplesNeeded THEN @ + 1 ELSE @]
       ELSE [sign |-> r.sign, since |-> basisTime, last |-> basisTime, samples |-> 1,
             closed |-> r.kind = "closed"]
Calm(h, r) ==
  IF r.kind # "converged" THEN NoCalm
  ELSE IF h.since # NotYet /\ basisTime - h.last <= LongestGap THEN [h EXCEPT !.last = basisTime]
  ELSE [since |-> basisTime, last |-> basisTime]

-----------------------------------------------------------------------------
\* track_basis.
Size(b) == IF b < 0 THEN -b ELSE b
Direction(b) == IF b > 0 THEN 1 ELSE -1
CountedBasis(b) ==
  IF Size(b) < Threshold THEN NoCount
  ELSE IF candidate.direction \in {0, Direction(b)}
       THEN [direction |-> Direction(b), count |-> IF candidate.count < 2 THEN candidate.count + 1 ELSE 2]
       ELSE [direction |-> Direction(b), count |-> 1]
Heard(b) == [direction |-> IF Size(b) < Threshold THEN 0 ELSE Direction(b),
             quiet |-> IF Size(b) >= QuietBelow THEN 0 ELSE IF seen.quiet < 2 THEN seen.quiet + 1 ELSE 2]
\* A tracking keeps the largest basis; the level that was logged last follows it.
Grown(t, b) == IF t.direction = Direction(b) /\ Size(b) > t.level THEN [t EXCEPT !.level = Size(b)] ELSE t
\* active_by_symbol holds the row that was read last.
Ended == SubSeq(trackings, 1, Len(trackings) - 1)
Tracked(b) == \E i \in DOMAIN trackings : trackings[i].direction = Direction(b)
Tracking(b) ==
  LET open == IF Tracked(b) THEN trackings
              ELSE Append(trackings, [direction |-> Direction(b), level |-> Threshold])
  IN IF Size(b) < Threshold THEN IF Size(b) < QuietBelow /\ trackings # <<>> THEN Ended ELSE trackings
     ELSE IF CountedBasis(b).count < 2 THEN trackings
     ELSE [i \in DOMAIN open |-> Grown(open[i], b)]

\* The round is committed, or the database gives it up after the memory was changed.
Track(b) == /\ candidate' = CountedBasis(b) /\ seen' = Heard(b) /\ trackings' = Tracking(b)
TrackInVain(b) == candidate' = CountedBasis(b) /\ seen' = [Heard(b) EXCEPT !.quiet = seen.quiet] /\ UNCHANGED trackings

\* evaluate_alerts: without a row there is no group, with marked paths alone no basis.
RefreshSpot ==
  /\ lane = "spot"
  /\ \E r \in [Paths -> RowReadings] :
       LET left == {p \in Paths : r[p].kind # "missing" /\ ~ episodes'[p].open}
       IN /\ \A p \in Paths : r[p].kind \in {"missing", "invalid"} => r[p].sign = 1
          /\ episodes' = [p \in Paths |-> Episode(episodes[p], r[p])]
          /\ agreed' = [p \in Paths |-> Agreed(agreed[p], r[p])]
          /\ calm' = [p \in Paths |-> Calm(calm[p], r[p])]
          /\ IF \A p \in Paths : r[p].kind = "missing" THEN UNCHANGED <<candidate, trackings, seen>>
             ELSE IF left = {} THEN candidate' = NoCount /\ UNCHANGED <<trackings, seen>>
             ELSE \E b \in Bases : Track(b)
RefreshFailed ==
  /\ \E b \in Bases : TrackInVain(b)
  /\ UNCHANGED <<episodes, agreed, calm>>
\* evaluate_dual_alerts, persist_thought_watch_basis.
Watch == /\ lane # "spot" /\ (\E b \in Bases : Track(b)) /\ UNCHANGED <<episodes, agreed, calm>>

BasisRestart == candidate # NoCount /\ candidate' = NoCount /\ UNCHANGED <<episodes, agreed, calm, trackings, seen>>

\* A step of the lane, and the pause that follows it.
BasisNext ==
  /\ basisTime < MaxBasisTime
  /\ basisTime' \in basisTime + 1 .. basisTime + LongestGap + 1
  /\ (RefreshSpot \/ RefreshFailed \/ Watch \/ BasisRestart) /\ UNCHANGED lane
BasisSpec == BasisInit /\ [][BasisNext]_basisVars

-----------------------------------------------------------------------------
\* The rules of the price divergences (a document of the repository): a path is marked
\* at its first signal, confirmed after an unbroken row of signals of one sign only, and
\* released only after it has converged without a break, whatever failed in between.
DivergencesAreEarned ==
  \A p \in Paths :
    /\ agreed'[p].since = basisTime => episodes'[p].open
    /\ episodes'[p].open /\ episodes'[p].confirmed /\ (episodes[p].open => ~ episodes[p].confirmed)
       => /\ agreed'[p].samples >= SamplesNeeded
          /\ basisTime - agreed'[p].since >= IF agreed'[p].closed THEN ConfirmClosed ELSE ConfirmOpen
    /\ episodes[p].open /\ ~ episodes'[p].open
       => calm'[p].since # NotYet /\ basisTime - calm'[p].since >= RecoverFor

\* A tracking opens when two observations in a row show its direction, at most one is
\* open in each, and none outlives two quiet observations that were committed.
TrackingsAreEarned ==
  /\ Len(trackings') > Len(trackings) => seen.direction = trackings'[Len(trackings')].direction
  /\ \A i, j \in DOMAIN trackings' : i # j => trackings'[i].direction # trackings'[j].direction
  /\ seen'.quiet >= 2 => trackings' = <<>>

BasisIsEarned == [][DivergencesAreEarned /\ TrackingsAreEarned]_basisVars
=============================================================================
