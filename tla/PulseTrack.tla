----------------------------- MODULE PulseTrack -----------------------------
(***************************************************************************)
(* anomaly_engine.PulseDetector for one path and its basis: when a sequence   *)
(* of readings opens a pulse and how the pulse then lives. It implements      *)
(* PulseLife. The spread and price metrics differ in `supported`, which may   *)
(* veto a displacement, and in their thresholds. All times are parameters in  *)
(* one unit, so that Second of them make the second the history is kept by.   *)
(***************************************************************************)
EXTENDS PulseLife, SequencesExt

CONSTANTS Second,          \* units in one second: the width of a history bucket
          Gap,             \* 10 s: a longer silence is never bridged
          Windows,         \* <<15, 30, 120>> s of RULES
          Limits,          \* and the displacements they ask for: <<5, 7, 10>>
          RetraceQuiet,    \* 180 s after a retracement the pulse is settled
          PeakQuiet,       \* 300 s after its peak
          OldestBaseline   \* 300 s: an older reading is none, and an older anchor is dropped

Scope == CHOOSE s \in Scopes : TRUE
ASSUME TrackAssumption == /\ Scopes = {Scope} /\ Baselines = Levels
                          /\ {Second, PeakQuiet} \subseteq Nat \ {0}
                          /\ {Gap, RetraceQuiet, OldestBaseline} \subseteq Nat
                          /\ Windows \in [1 .. 3 -> Nat] /\ Limits \in [1 .. 3 -> Nat \ {0}]
\* A longer window asks for no less, and the longest lies between the two.
ASSUME RulesAssumption == /\ Limits[1] <= Limits[2] /\ Limits[2] <= Limits[3]
                          /\ Second <= Windows[3] /\ Windows[3] <= OldestBaseline

VARIABLES history,    \* buckets: the lowest and the highest reading of a second
          bounds,     \* Track.low and high: an envelope of the history
          last,       \* the latest reading
          anchor,     \* the frozen start of a slow departure, with its direction
          turning,    \* the turning point after a retracement
          started,    \* of the held pulse: baseline_at and retrace_at
          raw,        \* history variable: every reading since the history was cleared,
                      \* a repeat counted as the reading it repeats
          since       \* history variable: the first reading after the latest gap

track == <<history, bounds, last, anchor, turning, started>>
vars == <<lifeVars, track, raw, since>>

None == <<>>
At(v) == [at |-> now, value |-> v]
Least(S) == CHOOSE x \in S : \A y \in S : x <= y
Greatest(S) == CHOOSE x \in S : \A y \in S : x >= y

Init == /\ LifeInit /\ history = <<>> /\ bounds = None /\ last = None /\ anchor = None
        /\ turning = None /\ started = None /\ raw = {} /\ since = 0

-----------------------------------------------------------------------------
\* motion_threshold: no displacement from a reading this old, or between readings
\* this near to zero, counts.
Eligible(b, v) == /\ now - b.at \in 1 .. OldestBaseline
                  /\ Abs(b.value) >= Limits[1] \/ Abs(v) >= Limits[1]
LimitAt(age) == IF age <= Windows[1] THEN Limits[1]
                ELSE IF age <= Windows[2] THEN Limits[2] ELSE Limits[3]
Limit(b) == LimitAt(now - b.at)
Displaced(b, v, least) == /\ Eligible(b, v)
                          /\ Abs(v - b.value) >= Limit(b) /\ Abs(v - b.value) >= least
\* a is a stronger displacement than b: change / limit.
Stronger(a, b, v) == Abs(v - a.value) * Limit(b) > Abs(v - b.value) * Limit(a)

\* Track.remember. A plateau keeps its latest reading only; otherwise each second
\* keeps its extremes.
Plateau(bucket, v) == bucket.low.value = v /\ bucket.high.value = v
SameSecond(bucket) == bucket.low.at \div Second = now \div Second
Extended(h, v) ==
  LET flat == [low |-> At(v), high |-> At(v)]
      bucket == h[Len(h)]
  IN IF h = <<>> THEN <<flat>>
     ELSE IF Plateau(bucket, v) THEN Append(Front(h), flat)
     ELSE IF ~ SameSecond(bucket) THEN Append(h, flat)
     ELSE Append(Front(h), [low  |-> IF v < bucket.low.value THEN At(v) ELSE bucket.low,
                            high |-> IF v > bucket.high.value THEN At(v) ELSE bucket.high])

\* Buckets leave when their high is older than the longest window; the envelope is
\* recomputed only when one of them reached it.
Expired(h, n) == /\ \A i \in 1 .. n : now - h[i].high.at > Windows[3]
                 /\ n < Len(h) => now - h[n + 1].high.at <= Windows[3]
Envelope(h) == [low  |-> Least({h[i].low.value : i \in DOMAIN h}),
                high |-> Greatest({h[i].high.value : i \in DOMAIN h})]
Widened(env, v) == IF env = None THEN [low |-> v, high |-> v]
                   ELSE [low |-> Least({env.low, v}), high |-> Greatest({env.high, v})]

Remember(v, h, env) ==
  LET all  == Extended(h, v)
      wide == Widened(env, v)
  IN \E n \in 0 .. Len(all) :
       LET out  == UNION {{all[i].low.value, all[i].high.value} : i \in 1 .. n}
           kept == SubSeq(all, n + 1, Len(all))
       IN /\ Expired(all, n) /\ history' = kept /\ last' = At(v)
          /\ bounds' = IF out \cap {wide.low, wide.high} # {} THEN Envelope(kept) ELSE wide

RememberOn(v) == Remember(v, history, bounds) /\ raw' = raw \cup {At(v)}
RememberAfresh(v) == Remember(v, <<>>, None) /\ raw' = {At(v)}

-----------------------------------------------------------------------------
\* The readings an idle track measures a displacement from, in the order kept; the
\* envelope rules the search out when nothing in it can be far enough away.
Possible == IF history = <<>> THEN [v \in Levels |-> 0]
            ELSE [v \in Levels |-> Greatest({Abs(v - bounds.low), Abs(v - bounds.high)})]
Readings == [i \in 1 .. 2 * Len(history) |->
               IF i % 2 = 1 THEN history[(i + 1) \div 2].low ELSE history[i \div 2].high]
Recent == {i \in DOMAIN Readings : now - Readings[i].at \in 1 .. Windows[3]}

\* The earliest of the candidates that no other is stronger than, if there is one.
CandidatesIfFar(v) == IF Possible[v] < Limits[3] THEN {}
                      ELSE {i \in Recent : Displaced(Readings[i], v, 0)}
Candidates(v) == IF Possible[v] < Limits[1] THEN {}
                 ELSE {i \in Recent : Displaced(Readings[i], v, 0)}
Strongest(v) ==
  LET r == Readings
      c == Candidates(v)
  IN {r[i] : i \in {i \in c : \A j \in c : /\ ~ Stronger(r[j], r[i], v)
                                           /\ j < i => Stronger(r[i], r[j], v)}}

\* The anchor: kept while the value stays on its side, otherwise the farthest of the
\* readings a step away.
Departures(v) == IF Possible[v] < 1 THEN {}
                 ELSE {i \in Recent : Abs(v - Readings[i].value) >= 1}
Farthest(v) ==
  LET far(i) == Abs(v - Readings[i].value)
      d == Departures(v)
  IN {Readings[i] : i \in {i \in d : \A j \in d : far(j) <= far(i) /\ (j < i => far(j) < far(i))}}
Holds(a, v) == now - a.from.at <= OldestBaseline /\ a.dir * (v - a.from.value) > 0
Anchored(v) ==
  IF anchor # None /\ Holds(anchor, v) THEN {anchor}
  ELSE {[from |-> r, dir |-> IF v > r.value THEN 1 ELSE -1] : r \in Farthest(v)}

\* The baseline of a new pulse, if there is one.
Slow(v) == {b \in {a.from : a \in Anchored(v)} : Displaced(b, v, 0)}
Baseline(v) == {b \in Slow(v) : \A c \in Strongest(v) : Stronger(b, c, v)}
               \cup {c \in Strongest(v) : \A b \in Slow(v) : ~ Stronger(b, c, v)}

NextPulse == CHOOSE p \in Pulses \ DOMAIN life : TRUE
Emitted(book, e) == [p \in DOMAIN book \cup {e.id} |-> IF p = e.id THEN e ELSE book[p]]
Opened(b, v) == NewPulse(NextPulse, b.value, v)
Held == life[CHOOSE p \in held : TRUE]
Begun(b) == [baseline |-> b, retracedAt |-> 0]

-----------------------------------------------------------------------------
\* The first reading ever, or the first after a silence: a held pulse ends as a gap
\* and nothing before it is compared with again.
NeverSilent == FALSE
Silence == last # None /\ now - last.at > Gap
ResetPulse(reason) ==
  life' = IF held = {} THEN life
          ELSE Emitted(life, [Held EXCEPT !.state = reason, !.ended = TRUE, !.version = @ + 1])
First(v) ==
  /\ last = None \/ Silence
  /\ ResetPulse("data_gap") /\ held' = {} /\ RememberAfresh(v)
  /\ anchor' = None /\ turning' = None /\ started' = None

\* hub.invalidate, a changed route, or an isolated path: the track is dropped.
reset(reason) ==
  /\ last # None /\ UNCHANGED since
  /\ ResetPulse(reason)
  /\ held' = {} /\ history' = <<>> /\ bounds' = None /\ last' = None
  /\ anchor' = None /\ turning' = None /\ started' = None /\ raw' = {}

\* The readings observe looks at further: later ones, and of a repeated value only
\* one a second.
Follows(v) == last # None /\ now > last.at /\ ~ Silence
Repeats(v) == v = last.value /\ now - last.at < Second
Skip(v) == Follows(v) /\ Repeats(v) /\ UNCHANGED <<life, held, track, raw>>

\* A reading while no pulse is held.
Idle(v) ==
  /\ Follows(v) /\ ~ Repeats(v) /\ held = {}
  /\ IF v # last.value /\ Baseline(v) # {}
     THEN /\ DOMAIN life # Pulses      \* bound: pulses the model has
          /\ \E b \in Baseline(v) : life' = Emitted(life, Opened(b, v)) /\ started' = Begun(b)
          /\ held' = {NextPulse} /\ anchor' = None /\ turning' = None /\ RememberAfresh(v)
     ELSE /\ anchor' \in IF v = last.value THEN {anchor}
                         ELSE IF Anchored(v) = {} THEN {None} ELSE Anchored(v)
          /\ RememberOn(v) /\ UNCHANGED <<life, held, turning, started>>

-----------------------------------------------------------------------------
AnyPeak(e, v) == TRUE
NewPeak(e, v) == e.dir * (v - e.peak) > 0
Peaked(e, v) == IF NewPeak(e, v) THEN [e EXCEPT !.peak = v, !.peakAt = now] ELSE e
Excursion(e) == Abs(e.peak - e.baseline)

\* A pulled-back reading: six tenths of the first limit, or half the excursion.
Retraces(e, v) == /\ 5 * e.dir * (e.peak - v) >= 3 * Limits[1]
                  /\ 2 * e.dir * (e.peak - v) >= Excursion(e)
Reverses(e, v) == e.dir * (v - e.baseline) <= -Limits[1]

\* The stage after the reading; while retraced the peak no longer moves.
StageOf(e, v) ==
  LET w == Peaked(e, v) IN
  CASE e.state = "retraced" -> e.state
    [] e.state # "retraced" /\ Retraces(w, v) -> "retraced"
    [] OTHER -> IF Excursion(w) >= Large THEN "expanded" ELSE e.state

Turned(e, v) == IF e.state = "retraced"
                THEN IF e.dir * (v - turning.value) < 0 THEN At(v) ELSE turning
                ELSE At(v)

\* What the next pulse of the scope would be measured from: the turning point, or the
\* old baseline when the price has gone through it. It needs the full displacement.
NextBaseline(e, v) ==
  LET turn == Turned(e, v)
      from == IF e.state = "retraced" /\ e.dir * (v - turn.value) >= Limits[1] THEN turn
              ELSE IF Reverses(e, v) THEN started.baseline ELSE None
  IN IF StageOf(e, v) # "retraced" \/ from = None THEN None
     ELSE IF Displaced(from, v, Limits[1]) THEN from ELSE None

\* No settlement in a reading that finds a turn, whether or not a pulse comes of it.
Turns(e, v) == \/ e.state = "retraced" /\ e.dir * (v - Turned(e, v).value) >= Limits[1]
               \/ e.state = "retraced" /\ Reverses(e, v)
               \/ e.state # "retraced" /\ StageOf(e, v) = "retraced"
QuietFor(e, v) == IF e.state = "retraced" THEN now - started.retracedAt >= RetraceQuiet
                                          ELSE now - Peaked(e, v).peakAt >= PeakQuiet
Settles(e, v) == ~ Turns(e, v) /\ QuietFor(e, v)

After(e, v) ==
  LET w == IF e.state = "retraced" THEN e ELSE Peaked(e, v)
      s == IF Settles(e, v) THEN "settled" ELSE StageOf(e, v)
  IN [w EXCEPT !.state = s, !.version = @ + 1, !.currentAt = now,
               !.ended = (s = "settled" \/ NextBaseline(e, v) # None),
               !.notice = IF s # e.state /\ s \in {"retraced", "expanded"} THEN @ + 1 ELSE @]

\* A reading while a pulse is held.
Active(v) ==
  LET e == Held
      b == NextBaseline(e, v)
  IN /\ Follows(v) /\ ~ Repeats(v) /\ held # {}
     /\ \/ /\ b # None /\ DOMAIN life # Pulses
           /\ life' = Emitted(Emitted(life, After(e, v)), Opened(b, v))
           /\ held' = {NextPulse} /\ started' = Begun(b)
           /\ anchor' = None /\ turning' = None /\ RememberAfresh(v)
        \/ /\ b = None /\ Settles(e, v)
           /\ life' = Emitted(life, After(e, v)) /\ held' = {} /\ started' = None
           /\ turning' = None /\ UNCHANGED anchor /\ RememberAfresh(v)
        \/ /\ b = None /\ ~ Settles(e, v)
           /\ life' = Emitted(life, After(e, v)) /\ held' = held
           /\ turning' = IF StageOf(e, v) = "retraced" THEN Turned(e, v) ELSE turning
           /\ started' = IF e.state # "retraced" /\ StageOf(e, v) = "retraced"
                         THEN [started EXCEPT !.retracedAt = now] ELSE started
           /\ UNCHANGED anchor /\ RememberOn(v)

observe == /\ \E v \in Levels : First(v) \/ Skip(v) \/ Idle(v) \/ Active(v)
           /\ since' = IF last = None \/ now - last.at > Gap THEN now ELSE since
           /\ now' = now

Next == \/ observe
        \/ (\E reason \in {"data_gap", "isolated"} : reset(reason)) /\ now' = now
        \/ Tick /\ UNCHANGED <<life, held, track, raw, since>>
Spec == Init /\ [][Next]_vars

-----------------------------------------------------------------------------
\* "This envelope can reject an impossible threshold", extremes stand for a second and a
\* plateau for its latest reading, and yet no displacement is missed: a reading that
\* opens no pulse is displaced from no earlier one, of all there were, by the limit of an
\* age a second greater. (A repeat may be a second later still than what it repeats.)
Missed(r, v) == /\ now - r.at >= 1 /\ now - r.at + Second <= Windows[3]
                /\ Abs(r.value) >= Limits[1] \/ Abs(v) >= Limits[1]
                /\ Abs(v - r.value) >= LimitAt(now - r.at + Second)
NoJumpMissed ==
  [][held = {} /\ held' = {} /\ raw \subseteq raw' /\ last' # last
       => ~ \E r \in raw : Missed(r, last'.value)]_vars

\* "Never bridge a disconnected interval": what a pulse is measured from was read after
\* the latest silence, and so was the start of a slow departure.
NeverBridgesAGap == /\ held # {} => started.baseline.at >= since
                    /\ anchor # None => anchor.from.at >= since
=============================================================================
