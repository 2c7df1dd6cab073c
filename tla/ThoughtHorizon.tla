--------------------------- MODULE ThoughtHorizon ---------------------------
(***************************************************************************)
(* The medium-term view of one watched symbol (app.py, stabilize_thought_     *)
(* horizon, called with every snapshot of thought_watch_snapshots). The state  *)
(* is part of the payload that a live snapshot stores; an old one read back     *)
(* from the market tables stores nothing once there is a row. The scores of      *)
(* thought_horizon_outlook are an input: the bias they come to.                 *)
(***************************************************************************)
EXTENDS Integers

CONSTANTS OppositeFor, OtherFor,   \* 30 and 15 minutes
          ScansNeeded,             \* 4
          MaxHorizon, LongestScan  \* bounds: the clock, and the pause between scans

ASSUME HorizonAssumption == {OppositeFor, OtherFor, ScansNeeded, LongestScan} \subseteq Nat

VARIABLES horizonTime, view, streak

horizonVars == <<horizonTime, view, streak>>

Biases == {"bullish", "bearish", "mixed", "unknown"}
Unseen == [stable |-> "none"]
NoStreak == [bias |-> "none", since |-> 0, scans |-> 0]
HorizonInit == horizonTime = 0 /\ view = Unseen /\ streak = NoStreak

Settled(bias) == [stable |-> bias, candidate |-> "none", since |-> 0, count |-> 0]
Counted(v, raw) ==
  IF v.candidate = raw THEN [v EXCEPT !.count = IF @ < ScansNeeded THEN @ + 1 ELSE @]
  ELSE [v EXCEPT !.candidate = raw, !.since = horizonTime, !.count = 1]
Needed(a, b) == IF {a, b} = {"bullish", "bearish"} THEN OppositeFor ELSE OtherFor
\* Once the raw view is the stable one again, the candidate is gone.
CandidateStays(v) == v
CandidateGone(v) == Settled(v.stable)
Stabilized(v, raw) ==
  LET next == Counted(v, raw)
  IN IF raw = v.stable THEN CandidateGone(v)
     ELSE IF next.count >= ScansNeeded /\ horizonTime - next.since >= Needed(v.stable, raw)
          THEN Settled(raw) ELSE next

\* A history variable: how long the live snapshots have agreed.
Agreeing(raw) ==
  IF streak.bias = raw
  THEN [streak EXCEPT !.scans = IF @ < ScansNeeded THEN @ + 1 ELSE @]
  ELSE [bias |-> raw, since |-> horizonTime, scans |-> 1]

ScanLive == \E raw \in Biases :
              /\ view' = IF view = Unseen THEN Settled(raw) ELSE Stabilized(view, raw)
              /\ streak' = Agreeing(raw)
\* The first snapshot makes the row even when it is an old one.
ScanOld == view = Unseen /\ (\E raw \in Biases : view' = Settled(raw)) /\ UNCHANGED streak
Scan == /\ horizonTime < MaxHorizon
        /\ horizonTime' \in horizonTime + 1 .. horizonTime + LongestScan
        /\ (ScanLive \/ ScanOld)
HorizonSpec == HorizonInit /\ [][Scan]_horizonVars

-----------------------------------------------------------------------------
\* The record on AKE, line 218 (translated): "only when the candidate lasted 30 minutes
\* and four scans in a row agreed does the view really turn".
FlipsAreSustained ==
  [][view # Unseen /\ view'.stable # view.stable
     => /\ streak'.bias = view'.stable /\ streak'.scans >= ScansNeeded
        /\ horizonTime - streak'.since >= Needed(view.stable, view'.stable)]_horizonVars
=============================================================================
