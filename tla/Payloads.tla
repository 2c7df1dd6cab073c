------------------------------ MODULE Payloads ------------------------------
(***************************************************************************)
(* app.fetch_market_payloads: the threads that refresh the market ask the     *)
(* exchanges for public payloads, several at once, and share one cache of the *)
(* latest ones (MARKET_PAYLOAD_CACHE). A payload is the time the exchange     *)
(* served it; monotonic and wall clock are one.                               *)
(***************************************************************************)
EXTENDS Integers

CONSTANTS Callers,        \* passes that may overlap: of the two market threads
          Urls, UrlsOf,   \* the payloads each asks for
          KeepFor,        \* cache_seconds
          MaxMoment       \* bound: the end of time

ASSUME PayloadAssumption ==
  /\ UrlsOf \in [Callers -> SUBSET Urls] /\ KeepFor \in [Urls -> Nat]
  /\ MaxMoment \in Nat

VARIABLES moment,
          payloads,   \* MARKET_PAYLOAD_CACHE
          calls,      \* the running call of each caller: results and results.observed_at
          shown       \* history: the time of each payload the caller last returned

payloadVars == <<moment, payloads, calls, shown>>

NoEntry == [u \in {} |-> 0]
NoCall == [running |-> FALSE, waiting |-> {}, got |-> NoEntry]
PayloadInit == /\ moment = 0 /\ payloads = NoEntry
               /\ calls = [c \in Callers |-> NoCall] /\ shown = [c \in Callers |-> NoEntry]

With(entries, u, entry) == [v \in DOMAIN entries \cup {u} |-> IF v = u THEN entry ELSE entries[v]]
FromCache(u) == [served |-> payloads[u].served, observed |-> payloads[u].fetched]
Update(c, call) == calls' = [calls EXCEPT ![c] = call]

-----------------------------------------------------------------------------
\* What the cache may still answer is not asked for; all the rest is asked for at once.
Valid(u) == u \in DOMAIN payloads /\ moment - payloads[u].fetched < KeepFor[u]
Begin(c) ==
  LET kept == {u \in UrlsOf[c] : Valid(u)}
  IN /\ ~ calls[c].running
     /\ Update(c, [running |-> TRUE, began |-> moment, waiting |-> UrlsOf[c] \ kept,
                   got |-> [u \in kept |-> FromCache(u)]])
     /\ UNCHANGED <<moment, payloads, shown>>

Took(c, u, entry) == Update(c, [calls[c] EXCEPT !.waiting = @ \ {u}, !.got = With(@, u, entry)])

\* An answer has the time its call began; what the other thread began to fetch later
\* stays in the cache.
NeverNewer(u, began) == FALSE
Newer(u, began) == u \in DOMAIN payloads /\ payloads[u].fetched > began
StampAtEnd(began) == moment
Stamp(began) == began
Answer(c, u) ==
  /\ u \in calls[c].waiting
  /\ LET began == calls[c].began IN
     \E served \in began .. moment :
       /\ Took(c, u, [served |-> served, observed |-> Stamp(began)])
       /\ payloads' = IF Newer(u, began) THEN payloads
                      ELSE With(payloads, u, [served |-> served, fetched |-> Stamp(began)])
  /\ UNCHANGED <<moment, shown>>

\* A request fails, is refused while a rate limit lasts or exceeds its deadline: the
\* cached payload with its own time, whoever fetched it, or nothing.
Fallback(c, u) ==
  /\ u \in calls[c].waiting
  /\ IF u \in DOMAIN payloads THEN Took(c, u, FromCache(u))
     ELSE Update(c, [calls[c] EXCEPT !.waiting = @ \ {u}])
  /\ UNCHANGED <<moment, payloads, shown>>

Return(c) ==
  LET got == calls[c].got
  IN /\ calls[c].running /\ calls[c].waiting = {} /\ Update(c, NoCall)
     /\ shown' = [shown EXCEPT ![c] = [u \in DOMAIN @ \cup DOMAIN got |->
                                         IF u \in DOMAIN got THEN got[u].observed ELSE @[u]]]
     /\ UNCHANGED <<moment, payloads>>

Elapse == /\ moment < MaxMoment /\ moment' = moment + 1
          /\ UNCHANGED <<payloads, calls, shown>>

PayloadNext == \/ \E c \in Callers : \/ Begin(c) \/ Return(c)
                                     \/ \E u \in Urls : Answer(c, u) \/ Fallback(c, u)
               \/ Elapse
PayloadSpec == PayloadInit /\ [][PayloadNext]_payloadVars

-----------------------------------------------------------------------------
\* "reusing a REST cache is not a new quote": no payload is dated later than the exchange
\* served it, be it an answer, a kept entry or the fallback of a failed request, whichever
\* thread fetched it and in whatever order their requests end.
StampsAreHonest ==
  /\ \A u \in DOMAIN payloads : payloads[u].fetched <= payloads[u].served
  /\ \A c \in Callers : \A u \in DOMAIN calls[c].got :
       calls[c].got[u].observed <= calls[c].got[u].served

\* No page goes back in time: whatever fails, and whichever slow answer of the other
\* thread comes last, a payload a thread returns is never older than the one it returned
\* before.
QuotesNeverGoBack ==
  \A c \in Callers : \A u \in DOMAIN shown[c] :
    u \in DOMAIN shown'[c] /\ shown'[c][u] >= shown[c][u]

\* Both hold of every step: the age a page is told of a payload is never too small, and
\* the payload never an earlier one.
PayloadsAreHonest == [][StampsAreHonest' /\ QuotesNeverGoBack]_payloadVars
=============================================================================
