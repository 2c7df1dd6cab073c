---------------------------- MODULE FundingAlerts ----------------------------
(***************************************************************************)
(* Funding alerts of one contract: funding_alerts.advance, and the pass of    *)
(* refresh_funding_alerts that stores its state and events (app.py). A rate is *)
(* the limit it touches, or Off; one unit of time stands for the 180 s of a    *)
(* gap and the 300 s before a settlement. Payloads and pages are left out.     *)
(***************************************************************************)
EXTENDS Integers

CONSTANTS RateLimits,      \* caps and floors a rate may touch
          Intervals,   \* hours between settlements, scaled
          Off,         \* a rate within its limits
          Day,         \* WINDOW
          AlertGap,         \* GAP_SECONDS
          Keep,        \* how long a settlement is waited for, 3600 s
          SaveEvery,   \* FUNDING_CHECKPOINT_SECONDS
          MaxHour      \* bound

ASSUME AlertAssumption == /\ Intervals \subseteq Nat \ {0} /\ Off \notin RateLimits
                          /\ {Day, AlertGap, Keep, SaveEvery, MaxHour} \subseteq Nat

VARIABLES hour,
          settledRate, \* what each settlement settled at, once it is published
          record,      \* the row of funding_alert_state
          live,        \* FUNDING_ALERT_LIVE_STATES
          alertEvents       \* funding_alert_event

alertVars == <<hour, settledRate, record, live, alertEvents>>

NoState == <<>>
Empty == [k \in {} |-> 0]
AlertInit == /\ hour = 1 /\ settledRate = Empty
             /\ record = NoState /\ live = NoState /\ alertEvents = {}

Put(f, k, x) == [j \in DOMAIN f \cup {k} |-> IF j = k THEN x ELSE f[j]]
PutNew(f, k, x) == IF k \in DOMAIN f THEN f ELSE Put(f, k, x)
Within(f) == [k \in {j \in DOMAIN f : hour - f[j] < Day} |-> f[k]]
NextAt(interval) == (hour \div interval + 1) * interval

-----------------------------------------------------------------------------
\* One observation of a contract: events to be stored, and the state that will know of them.
FirstSeen(o) == [at |-> o.at, rate |-> Off, interval |-> o.interval, next |-> o.next,
              pending |-> {}, touches |-> Empty, notices |-> Empty]
Continuous(old, o) == old # NoState /\ o.at - old.at <= AlertGap
Event(kind, id, key, notice) == [kind |-> kind, id |-> id, key |-> key, notice |-> notice, at |-> hour]

\* The settlement a contract has passed, if it was seen shortly before.
SettlementsPassed(old, o) ==
  IF old.next <= o.at /\ old.next # o.next /\ old.next - old.at <= AlertGap
     /\ \A p \in old.pending : p.at # old.next
  THEN {[at |-> old.next, resolved |-> FALSE,
         touched |-> old.rate # Off \/ \E k \in DOMAIN old.touches : k[1] = old.next]}
  ELSE {}
Awaited(old, o) == {p \in old.pending \cup SettlementsPassed(old, o) : o.at - p.at <= Keep}
Resolves(p) == ~ p.resolved /\ p.at \in DOMAIN settledRate

TouchKey(o) == <<o.next, o.rate, o.interval>>
NoticeKey(o) == <<o.rate, o.interval>>
Touched(base, o) == o.rate # Off /\ TouchKey(o) \notin DOMAIN Within(base.touches)
EveryTouch(base, o) == TRUE
Unnoticed(base, o) == NoticeKey(o) \notin DOMAIN Within(base.notices)

Advance(old, o) ==
  LET base == IF old = NoState THEN FirstSeen(o) ELSE old
      awaited == Awaited(base, o)
      noted == Touched(base, o)
  IN [state |-> [at |-> o.at, rate |-> o.rate, interval |-> o.interval, next |-> o.next,
                 pending |-> {IF Resolves(p) THEN [p EXCEPT !.resolved = TRUE] ELSE p : p \in awaited},
                 touches |-> IF noted THEN Put(Within(base.touches), TouchKey(o), hour)
                             ELSE Within(base.touches),
                 notices |-> IF noted THEN PutNew(Within(base.notices), NoticeKey(o), hour)
                             ELSE Within(base.notices)],
      events |->
        {Event(IF settledRate[p.at] # Off THEN "settled_cap" ELSE "settled_below_cap", <<p.at>>, <<>>, FALSE) :
           p \in {q \in awaited : Resolves(q) /\ (q.touched \/ settledRate[q.at] # Off)}}
        \cup (IF base.interval = o.interval THEN {}
              ELSE {Event("interval", <<base.interval, o.interval, o.at>>, <<o.interval>>,
                          o.interval = 1 /\ Continuous(old, o))})
        \cup (IF noted THEN {Event("cap_touch", TouchKey(o), NoticeKey(o),
                                   Unnoticed(base, o) /\ Continuous(old, o))} ELSE {})]

\* What is the same but for the moment it was seen is saved once in a while.
Durable(s) == [s EXCEPT !.at = 0]
WriteDue(saved, next) ==
  IF saved = NoState \/ next.events # {} THEN TRUE
  ELSE next.state.at - saved.at >= SaveEvery \/ Durable(next.state) # Durable(saved)

LiveIsNewer == IF record # NoState /\ live # NoState THEN live.at >= record.at ELSE FALSE
Unstored(found) == {e \in found : \A f \in alertEvents : e.kind # f.kind \/ e.id # f.id}
Refresh(o) ==
  LET old == IF LiveIsNewer THEN live ELSE record
      next == Advance(old, o)
  IN /\ IF old = NoState THEN TRUE ELSE o.at > old.at
     /\ live' = next.state
     /\ IF WriteDue(record, next)
        THEN record' = next.state /\ alertEvents' = alertEvents \cup Unstored(next.events)
        ELSE UNCHANGED <<record, alertEvents>>
     /\ UNCHANGED <<hour, settledRate>>

\* A pass whose commit fails changes nothing, nor does one without fresh payloads.
ObserveRates ==
  \E rate \in RateLimits \cup {Off}, interval \in Intervals :
    Refresh([at |-> hour, rate |-> rate, interval |-> interval, next |-> NextAt(interval)])

FixesRate(b, rate) == /\ b \notin DOMAIN settledRate /\ settledRate' = Put(settledRate, b, rate)
                      /\ UNCHANGED <<hour, record, live, alertEvents>>
AlertsRestart == live' = NoState /\ UNCHANGED <<hour, settledRate, record, alertEvents>>
HourPasses == hour < MaxHour /\ hour' = hour + 1 /\ UNCHANGED <<settledRate, record, live, alertEvents>>

AlertNext == \/ ObserveRates \/ AlertsRestart \/ HourPasses
             \/ \E b \in 2 .. hour, rate \in RateLimits \cup {Off} : FixesRate(b, rate)
AlertSpec == AlertInit /\ [][AlertNext]_alertVars

-----------------------------------------------------------------------------
\* "recorded once per cycle/direction, reminded once per 24H for the same limit/interval"
\* (funding_alerts.advance): whatever is lost with the process, interrupted by gaps or
\* changed back and forth, two reminders of the same limit and interval are a day apart.
RemindersAreSpaced ==
  \A e, f \in {x \in alertEvents : x.kind = "cap_touch" /\ x.notice} :
    e # f /\ e.key = f.key => e.at - f.at >= Day \/ f.at - e.at >= Day
=============================================================================
