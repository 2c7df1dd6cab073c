------------------------------ MODULE Reminders ------------------------------
(***************************************************************************)
(* alert_reminders.admit_pulse: which observed peaks of a scope become        *)
(* notices. A scope remembers the levels it admitted (`points`) and the time  *)
(* of the latest peak it was shown (`last`). Units as in PulseLife.           *)
(***************************************************************************)
EXTENDS Integers, SequencesExt

CONSTANTS Window,     \* seconds an admitted level stays known: 24 hours
          Prices      \* the scopes whose metric is a log price

Dist(a, b) == IF a < b THEN b - a ELSE a - b
Larger(a, b) == IF a < b THEN b ELSE a

EmptyScope == [points |-> <<>>, last |-> 0]

\* A price level counts from its origin; a spread, from zero. The step is a fifth
\* of the level, at least two units (a price: six).
ReachesStep(s, edge, distance) ==
  IF s \in Prices THEN 5 * distance >= Larger(30, Dist(edge.value, edge.origin))
                  ELSE 5 * distance >= Larger(10, Dist(edge.value, 0))

\* The elements of a sequence that are in a set, in their order.
Only(seq, set) ==
  LET kept[n \in 0 .. Len(seq)] ==
        IF n = 0 THEN <<>>
        ELSE IF seq[n] \in set THEN Append(kept[n - 1], seq[n]) ELSE kept[n - 1]
  IN kept[Len(seq)]
Known(points, latest) == Only(points, {p \in ToSet(points) : latest - Window <= p.at})

FirstEdge(points, dir) == Head(points)
\* The outermost known level on the pulse's side, the oldest of equals.
Edge(points, dir) ==
  points[CHOOSE i \in DOMAIN points :
           /\ \A j \in DOMAIN points : dir * points[j].value <= dir * points[i].value
           /\ \A j \in 1 .. (i - 1) : dir * points[j].value < dir * points[i].value]

Breaks(s, points, e) ==
  LET edge == Edge(points, e.dir)
      distance == e.dir * (e.peak - edge.value)
  IN distance >= 0 /\ ReachesStep(s, edge, distance)

Notice(e, kind) == [at |-> e.peakAt, value |-> e.peak, dir |-> e.dir, kind |-> kind]

\* The scope and the pulse's notices after the evidence e has been shown to them;
\* `stored` is the evidence of the same pulse the database holds, or <<>>.
Admit(s, scope, notices, e, stored) ==
  LET latest  == Larger(e.peakAt, scope.last)
      points  == Known(scope.points, latest)
      base    == [at |-> e.peakAt, value |-> e.baseline, origin |-> e.baseline]
      level   == [at |-> e.peakAt, value |-> e.peak, origin |-> e.baseline]
      first   == points = <<>>
      granted == IF first THEN e.peakAt - e.triggeredAt < Window ELSE Breaks(s, points, e)
  IN IF \/ e.state = "isolated"
        \/ stored # <<>> /\ e.peakAt <= stored.peakAt
        \/ e.peakAt < latest - Window
     THEN [scope |-> scope, notices |-> notices]
     ELSE IF granted
     THEN [scope   |-> [last |-> latest,
                        points |-> points \o (IF first THEN <<base, level>> ELSE <<level>>)],
           notices |-> Append(notices, Notice(e, IF first THEN "first" ELSE "breakout"))]
     ELSE [scope |-> [last |-> latest, points |-> points], notices |-> notices]
==============================================================================
