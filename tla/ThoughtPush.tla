----------------------------- MODULE ThoughtPush -----------------------------
(***************************************************************************)
(* The pushes on watched symbols (app.py, send_thought_analysis_push): each    *)
(* pass judges a symbol, decides whether the judgement is news, reserves the    *)
(* push in the database, sends it and notes the answer. Old and new processes    *)
(* overlap at a restart; candidates for a new direction live in the memory of    *)
(* one. A pass over several symbols is taken as passes of one; the numbers       *)
(* behind a judgement are inputs.                                              *)
(***************************************************************************)
EXTENDS Integers, Sequences, FiniteSets

CONSTANTS Symbols, Directions, Zones,
          Processes, Locking,      \* MySQL has a named lock, SQLite none
          CountOf, LastsOf,        \* how often and how long a new direction is seen first
          RepeatOf, RepeatCooldown,  \* signal_repeat_window, THOUGHT_REPEAT_COOLDOWN_HOURS
          MaxThought, MaxEvents    \* bounds

ASSUME ThoughtAssumption == Locking \in BOOLEAN /\ RepeatCooldown \in Nat /\ "none" \notin Directions

VARIABLES classOf,      \* whose rules each symbol follows: AKE's, a turnover watch's, the others'
          thoughtTime,
          candidates,   \* AKE_DIRECTION_CANDIDATES, TURNOVER_DIRECTION_CANDIDATES
          rounds,       \* the pass of each process
          pushState,    \* LarkPushState: when each signal was pushed
          judged,       \* ThoughtPushSnapshot: the judgement pushed last
          pushEvents    \* ThoughtPushEvent, in the order of their commits

thoughtVars == <<classOf, thoughtTime, candidates, rounds, pushState, judged, pushEvents>>

Long == -100
NoRound == [stage |-> "none"]
NoCandidate == [direction |-> "none"]
NoSnapshot == [direction |-> "none", zone |-> 0, at |-> Long, version |-> 0]
ThoughtInit ==
  /\ classOf \in [Symbols -> {"ake", "turnover", "plain"}]
  /\ thoughtTime = 0 /\ pushEvents = <<>> /\ rounds = [p \in Processes |-> NoRound]
  /\ candidates = [p \in Processes |-> [s \in Symbols |-> NoCandidate]]
  /\ pushState = [s \in Symbols |-> [k \in Directions \X Zones |-> Long]]
  /\ judged = [s \in Symbols |-> NoSnapshot]

-----------------------------------------------------------------------------
\* What a new direction was seen for so far; "steady" is kept by the model alone: no
\* other direction was seen meanwhile.
Started(d) == [direction |-> d, since |-> thoughtTime, count |-> 1, steady |-> TRUE]
\* Counts past what is needed are alike.
Continued(s, c, d) == IF c.direction # d THEN Started(d)
                      ELSE IF c.count < CountOf[classOf[s]] THEN [c EXCEPT !.count = @ + 1] ELSE c
Unsteadied(c, d) == IF c.direction \in {d, "none"} THEN c ELSE [c EXCEPT !.steady = FALSE]
Convinced(s, c) == c.count >= CountOf[classOf[s]] /\ thoughtTime - c.since >= LastsOf[classOf[s]]
Deep(s, d, deep) == classOf[s] = "turnover" /\ deep

\* The 4 hours in which only a major shift counts, and what counts after them.
Cooling(s) == thoughtTime - judged[s].at < RepeatCooldown
\* thought_push_has_new_information, for one observation: whether it is pushed and the
\* candidate it leaves. "shift" stands for the comparison of the numbers that the branch
\* calls for; "deep" for a price risk that is never held back.
Verdict(s, c, d, shift, deep) ==
  LET old == judged[s].direction
      next == Continued(s, c, d)
      held == IF classOf[s] = "plain" \/ Deep(s, d, deep) THEN [push |-> TRUE, left |-> NoCandidate, steady |-> TRUE]
              ELSE IF Convinced(s, next) THEN [push |-> TRUE, left |-> NoCandidate, steady |-> next.steady]
              ELSE [push |-> FALSE, left |-> next, steady |-> TRUE]
  IN CASE old = "none" -> [push |-> TRUE, left |-> c, steady |-> TRUE]
       [] old # "none" /\ old # d -> held
       [] old = d /\ classOf[s] = "turnover" ->
            [push |-> shift \/ ~ Cooling(s), left |-> NoCandidate, steady |-> TRUE]
       [] old = d /\ classOf[s] # "turnover" /\ Cooling(s) ->
            [push |-> shift, left |-> Unsteadied(c, d), steady |-> TRUE]
       [] OTHER -> [push |-> shift, left |-> NoCandidate, steady |-> TRUE]

Resting(p) == rounds[p] = NoRound
\* GET_LOCK does not wait.
MayEnter(p) == /\ Resting(p)
               /\ Locking => \A q \in Processes : rounds[q] = NoRound
Repeated(s, k) == RepeatOf[classOf[s]] > 0 /\ thoughtTime - pushState[s][k] < RepeatOf[classOf[s]]
WatchSymbol(p) ==
  /\ MayEnter(p) /\ Len(pushEvents) < MaxEvents
  /\ \E s \in Symbols, d \in Directions, z \in Zones, shift, deep \in BOOLEAN :
       LET c == candidates[p][s]
           v == Verdict(s, c, d, shift, deep)
       IN IF Repeated(s, <<d, z>>)
          THEN candidates' = [candidates EXCEPT ![p][s] = Unsteadied(c, d)] /\ UNCHANGED rounds
          ELSE /\ candidates' = [candidates EXCEPT ![p][s] = v.left]
               /\ rounds' = IF ~ v.push THEN rounds
                            ELSE [rounds EXCEPT ![p] =
                              [stage |-> "decided", symbol |-> s, direction |-> d, zone |-> z,
                               after |-> judged[s].version, shift |-> shift, steady |-> v.steady]]
  /\ UNCHANGED <<thoughtTime, pushState, judged, pushEvents>>

\* The reservation key names the judgement and the push it follows; it is unique.
Same(e, pass) == /\ e.symbol = pass.symbol /\ e.direction = pass.direction
                 /\ e.zone = pass.zone /\ e.after = pass.after
Unreserved(pass) == \A i \in DOMAIN pushEvents : ~ Same(pushEvents[i], pass)
Reserve(p) ==
  LET pass == rounds[p]
      s == pass.symbol
      number == Len(pushEvents) + 1
  IN /\ pass.stage = "decided"
     /\ \/ /\ Unreserved(pass)
           /\ pushEvents' = Append(pushEvents,
                [symbol |-> s, direction |-> pass.direction, zone |-> pass.zone, after |-> pass.after,
                 shift |-> pass.shift, at |-> thoughtTime, status |-> "reserved"])
           /\ pushState' = [pushState EXCEPT ![s][<<pass.direction, pass.zone>>] = thoughtTime]
           /\ judged' = [judged EXCEPT ![s] =
                [direction |-> pass.direction, zone |-> pass.zone, at |-> thoughtTime, version |-> number]]
           /\ rounds' = [rounds EXCEPT ![p] = [stage |-> "reserved", event |-> number]]
        \/ rounds' = [rounds EXCEPT ![p] = NoRound] /\ UNCHANGED <<pushEvents, pushState, judged>>
     /\ UNCHANGED <<thoughtTime, candidates>>

\* The answer: taken, rejected, or none, which may mean either; it is noted or not.
LarkAnswers(p) ==
  /\ rounds[p].stage = "reserved" /\ rounds' = [rounds EXCEPT ![p] = NoRound]
  /\ \E status \in {"sent", "rejected", "uncertain", "reserved"} :
       pushEvents' = [pushEvents EXCEPT ![rounds[p].event].status = status]
  /\ UNCHANGED <<thoughtTime, candidates, pushState, judged>>

Die(p) ==
  /\ (rounds[p] # NoRound \/ \E s \in Symbols : candidates[p][s] # NoCandidate)
  /\ rounds' = [rounds EXCEPT ![p] = NoRound]
  /\ candidates' = [candidates EXCEPT ![p] = [s \in Symbols |-> NoCandidate]]
  /\ UNCHANGED <<thoughtTime, pushState, judged, pushEvents>>

\* update_thought_watch_state, "stop": of the two only the turnover candidate goes.
Unwatch(p) ==
  /\ \E s \in Symbols :
       /\ classOf[s] = "turnover" /\ candidates[p][s] # NoCandidate
       /\ candidates' = [candidates EXCEPT ![p][s] = NoCandidate]
  /\ UNCHANGED <<thoughtTime, rounds, pushState, judged, pushEvents>>

ThoughtTicks == /\ thoughtTime < MaxThought /\ thoughtTime' = thoughtTime + 1
                /\ UNCHANGED <<candidates, rounds, pushState, judged, pushEvents>>
ThoughtNext ==
  /\ \/ ThoughtTicks
     \/ \E p \in Processes : WatchSymbol(p) \/ Reserve(p) \/ LarkAnswers(p) \/ Die(p) \/ Unwatch(p)
  /\ UNCHANGED classOf
ThoughtSpec == ThoughtInit /\ [][ThoughtNext]_thoughtVars

-----------------------------------------------------------------------------
\* A judgement that is the last one said is not said again without news before the
\* cooldown is over, whatever process dies or runs beside another, and whether the
\* answer came or not.
NotSaidAgain ==
  \A j \in DOMAIN pushEvents : \A i \in 1 .. j - 1 :
    LET last == pushEvents[i]
        e == pushEvents[j]
    IN (/\ last.symbol = e.symbol /\ last.direction = e.direction /\ last.zone = e.zone /\ ~ e.shift
        /\ \A k \in i + 1 .. j - 1 : pushEvents[k].symbol # e.symbol)
       => e.at - last.at >= RepeatCooldown

\* "The switch must be confirmed throughout" (translated): while a new direction was being
\* confirmed no other one was seen.
SwitchIsSustained == \A p \in Processes : rounds[p].stage = "decided" => rounds[p].steady
=============================================================================
