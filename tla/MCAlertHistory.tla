--------------------------- MODULE MCAlertHistory ---------------------------
(***************************************************************************)
(* TLC instance of two tables kept up to date by difference, each alone:      *)
(* the index of two alerts, one of the first second and one dated ahead of    *)
(* the clock, and six symbols in shards of two, with holes in the numbering.  *)
(***************************************************************************)
EXTENDS AlertHistory, ShardTable

CONSTANTS e1, e2
VARIABLE subject

Dates == [e \in Events |-> IF e = e1 THEN 0 ELSE 1]
Symbols == 1 .. 6
OneFeedOf == [k \in Symbols |-> Feed]
Two == [f \in {Feed} |-> 2]

tableVars == <<shards, wanted>>
BothInit == Init /\ TableInit /\ subject \in {"index", "shards"}
BothNext == /\ \/ subject = "index" /\ Next /\ UNCHANGED tableVars
               \/ subject = "shards" /\ TableNext /\ UNCHANGED vars
            /\ subject' = subject
BothSpec == BothInit /\ [][BothNext]_<<vars, tableVars, subject>>
=============================================================================
