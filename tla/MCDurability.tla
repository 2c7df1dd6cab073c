----------------------------- MODULE MCDurability -----------------------------
(* TLC instance: the two background writers, each alone, as their threads        *)
(* schedule them: that of pulses and reminders, and that of chart samples.       *)
EXTENDS ChartHistory, PulseStore

CONSTANTS p1, p2, s1, s2, series
VARIABLE subject

\* Pulses of different scopes that compete for the writer.
ScopeEach == [p \in Pulses |-> IF p = p1 THEN s1 ELSE s2]
OneStep == {0, 5}
Zero == {0}

BothInit == Init /\ ChartInit /\ subject \in {"pulses", "chart"}
            /\ (subject = "pulses" => \A n \in Times : quote[n] = 1)
BothNext == /\ \/ subject = "pulses" /\ Next /\ UNCHANGED chartVars
               \/ subject = "chart" /\ ChartNext /\ UNCHANGED vars
            /\ subject' = subject
Both == BothInit /\ [][BothNext]_<<vars, chartVars, subject>>
\* Each writer is one thread: its steps follow each other, and one of them comes.
Writer == \/ subject = "pulses" /\ (Take \/ Commit \/ Acknowledge) /\ UNCHANGED chartVars
          \/ subject = "chart" /\ (snapshot \/ commit \/ acknowledge) /\ UNCHANGED vars
FairBoth == Both /\ WF_<<vars, chartVars>>(Writer) /\ WF_chartVars(subject = "chart" /\ tick)
===============================================================================
