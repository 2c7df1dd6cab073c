---------------------------- MODULE MCThoughtPush ----------------------------
(***************************************************************************)
(* Small instance of ThoughtPush: one symbol of any class, two processes.     *)
(***************************************************************************)
EXTENDS ThoughtPush

\* How often, how long and how far apart, for each class of symbols.
Counts == [c \in {"ake", "turnover", "plain"} |-> IF c = "ake" THEN 3 ELSE 2]
Lasts == [c \in {"ake", "turnover", "plain"} |-> 1]
Repetitions == [c \in {"ake", "turnover", "plain"} |-> IF c = "ake" THEN 0 ELSE 3]
=============================================================================
