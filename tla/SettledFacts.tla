---------------------------- MODULE SettledFacts ----------------------------
(***************************************************************************)
(* What the settled-funding table promises to those who sum it: it holds      *)
(* settlements that were published and no others, keeps those that are still  *)
(* summed, and is complete wherever the collector vouches for a contract. A   *)
(* fact is a contract and the time it settled.                                *)
(***************************************************************************)
EXTENDS Integers

CONSTANTS Facts,      \* all that may ever settle
          SummedFor   \* how far back sums reach: 30 days
VARIABLES date, known, kept, vouched   \* facts published, stored, and vouched for

factVars == <<date, known, kept, vouched>>

Summed(facts) == {f \in facts : f[2] > date - SummedFor}

FactsInit == known \subseteq Facts /\ kept = {} /\ vouched = {}

Publish(f) == known' = known \cup {f} /\ UNCHANGED <<date, kept, vouched>>
Maintain == /\ kept' \subseteq known /\ Summed(kept) \subseteq kept'
            /\ vouched' \subseteq known /\ Summed(vouched') \subseteq kept'
            /\ UNCHANGED <<date, known>>
Age == date' = date + 1 /\ UNCHANGED <<known, kept, vouched>>

FactsNext == Maintain \/ Age \/ \E f \in Facts : Publish(f)
FactsSpec == FactsInit /\ [][FactsNext]_factVars
=============================================================================
