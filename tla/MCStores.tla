------------------------------- MODULE MCStores -------------------------------
(* TLC instance: the writer of pulses and reminders, the two ledgers of the        *)
(* history thread and its samples of the books, each alone.                       *)
EXTENDS Episodes, Cohorts, BookSamples, PulseStore

CONSTANTS p1, p2, s1, path, other
VARIABLE subject

\* Successive pulses of one scope: from 0, levels within, at and beyond the step of 5.
OneScope == [p \in Pulses |-> s1]
Steps == {0, 5, 6, 8}
Zero == {0}
\* They may be renamed: nothing chooses among them.
Interchangeable == Permutations(Pulses)

\* Both sides, the band between rearming and opening, and a peak that can rise.
Quarters == {-4, 2, 3, 5}
LeastShare == [h \in Spans |-> 1]

StoresInit == /\ Init /\ EpisodeInit /\ CohortInit /\ BooksInit
              /\ subject \in {"pulses", "episodes", "cohorts", "books"}
StoresNext ==
  /\ \/ subject = "pulses" /\ Next /\ UNCHANGED <<episodeVars, cohortVars, bookVars>>
     \/ subject = "episodes" /\ EpisodeNext /\ UNCHANGED <<vars, cohortVars, bookVars>>
     \/ subject = "cohorts" /\ CohortNext /\ UNCHANGED <<vars, episodeVars, bookVars>>
     \/ subject = "books" /\ BooksNext /\ UNCHANGED <<vars, episodeVars, cohortVars>>
  /\ subject' = subject
Stores == StoresInit /\ [][StoresNext]_<<vars, episodeVars, cohortVars, bookVars, subject>>
===============================================================================
