------------------------------ MODULE PulseLife ------------------------------
(***************************************************************************)
(* The life of a pulse as everything after the detector sees it: the          *)
(* evidence PulseDetector.observe and reset emit for the pulses of the scopes *)
(* (one scope is one path and one metric, which has one Track). Prices are    *)
(* whole tenths of a percentage point; `now` is the second the detector       *)
(* reads. Which quotes trigger a pulse is PulseTrack's subject.               *)
(***************************************************************************)
EXTENDS Integers

CONSTANTS Pulses,     \* pulse identities (uuid4: never reused)
          Scopes,     \* path and metric
          ScopeOf,    \* [Pulses -> Scopes]
          Levels,     \* the values a metric takes
          Baselines,  \* those a displacement is measured from
          Large,      \* the excursion that makes a pulse "expanded"
          MaxNow      \* bound: the last second of the model

ASSUME LifeAssumption == /\ ScopeOf \in [Pulses -> Scopes]
                         /\ Levels \subseteq Int /\ Baselines \subseteq Levels
                         /\ Large \in Nat \ {0} /\ MaxNow \in Nat

VARIABLES now,
          life,    \* the latest evidence of every pulse there has been
          held     \* the pulses the tracks hold (track.pulse)

lifeVars == <<now, life, held>>

Abs(n) == IF n < 0 THEN -n ELSE n
States == {"watch", "expanded", "retraced", "settled", "data_gap", "isolated"}
Evidence == [id : Pulses, version : Nat \ {0}, state : States, notice : Nat \ {0},
             ended : BOOLEAN, dir : {-1, 1}, baseline : Levels, peak : Levels,
             peakAt : 0 .. MaxNow, triggeredAt : 0 .. MaxNow, currentAt : 0 .. MaxNow]

HeldIn(s) == {p \in held : ScopeOf[p] = s}

\* A tick has a later time than the one before. It leaves the notice alone unless
\* it brings the pulse to a new stage.
Ticks(p) == p \in held /\ life[p].currentAt < now
Updated(e, state, ended) ==
  [e EXCEPT !.version = @ + 1, !.state = state, !.ended = ended, !.currentAt = now,
            !.notice = IF state # e.state /\ state \in {"retraced", "expanded"}
                       THEN @ + 1 ELSE @]
Stage(size, old) == IF size >= Large THEN "expanded" ELSE old

NewPulse(p, baseline, value) ==
  [id |-> p, version |-> 1, notice |-> 1, ended |-> FALSE,
   state |-> Stage(Abs(value - baseline), "watch"),
   dir |-> IF value > baseline THEN 1 ELSE -1, baseline |-> baseline,
   peak |-> value, peakAt |-> now, triggeredAt |-> now, currentAt |-> now]

LifeInit == now = 0 /\ life = <<>> /\ held = {}

-----------------------------------------------------------------------------
\* A displacement of an idle track: a new pulse.
Trigger(p, baseline, value) ==
  /\ p \notin DOMAIN life /\ HeldIn(ScopeOf[p]) = {} /\ value # baseline
  /\ life' = [q \in DOMAIN life \cup {p} |->
                IF q = p THEN NewPulse(p, baseline, value) ELSE life[q]]
  /\ held' = held \cup {p}

\* A tick that is no new peak and changes nothing durable but the version.
Quiet(p) ==
  /\ Ticks(p)
  /\ life' = [life EXCEPT ![p] = Updated(@, @.state, FALSE)]
  /\ held' = held

\* A new extreme in the pulse's direction.
Higher(p, value) ==
  /\ Ticks(p) /\ life[p].state \in {"watch", "expanded"}
  /\ life[p].dir * (value - life[p].peak) > 0
  /\ life' = [life EXCEPT ![p] =
                [Updated(@, Stage(Abs(value - @.baseline), @.state), FALSE)
                   EXCEPT !.peak = value, !.peakAt = now]]
  /\ held' = held

Retrace(p) ==
  /\ Ticks(p) /\ life[p].state \in {"watch", "expanded"}
  /\ life' = [life EXCEPT ![p] = Updated(@, "retraced", FALSE)]
  /\ held' = held

\* The retraced pulse ends in the tick that opens the next one of its scope; that
\* tick may be the one that finds the retracement.
Restart(p, q, baseline, value) ==
  /\ Ticks(p)
  /\ q \notin DOMAIN life /\ ScopeOf[q] = ScopeOf[p] /\ value # baseline
  /\ life' = [r \in DOMAIN life \cup {q} |->
                CASE r = q -> NewPulse(q, baseline, value)
                  [] r = p -> Updated(life[p], "retraced", TRUE)
                  [] OTHER -> life[r]]
  /\ held' = (held \ {p}) \cup {q}

\* Settled by a tick after its quiet time, or cut off, at any time and without a
\* reading, by a gap or by its path being isolated.
Settle(p) ==
  /\ Ticks(p)
  /\ life' = [life EXCEPT ![p] = Updated(@, "settled", TRUE)]
  /\ held' = held \ {p}
CutOff(p, reason) ==
  /\ p \in held
  /\ life' = [life EXCEPT ![p] = [Updated(@, reason, TRUE) EXCEPT !.currentAt = life[p].currentAt]]
  /\ held' = held \ {p}

\* Every way one tick or one reset changes the evidence of a pulse.
Observation ==
  \/ \E p \in Pulses, b \in Baselines, v \in Levels : Trigger(p, b, v)
  \/ \E p \in Pulses : Quiet(p) \/ Retrace(p) \/ Settle(p)
  \/ \E p \in Pulses, v \in Levels : Higher(p, v)
  \/ \E p \in Pulses, q \in Pulses, b \in Baselines, v \in Levels : Restart(p, q, b, v)
  \/ \E p \in Pulses, reason \in {"data_gap", "isolated"} : CutOff(p, reason)

Tick == now < MaxNow /\ now' = now + 1

LifeNext == \/ held' = {} /\ UNCHANGED <<now, life>>    \* the process dies
            \/ Tick /\ UNCHANGED <<life, held>>
            \/ Observation /\ now' = now
LifeSpec == LifeInit /\ [][LifeNext]_lifeVars
==============================================================================
