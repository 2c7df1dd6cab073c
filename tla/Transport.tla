------------------------------ MODULE Transport ------------------------------
(***************************************************************************)
(* market_transport.PublicMarketHttp.get_json for one host: requests of many  *)
(* threads share a pool of keep-alive connections, and back off together. A    *)
(* connection is the sequence of the requests whose answers are still to be    *)
(* read from it. URLs, statistics, encodings and sizes are left out.          *)
(***************************************************************************)
EXTENDS Integers, Sequences, FiniteSets

CONSTANTS Requests,   \* one get_json call each
          PoolSize,   \* connections_per_host
          Patience,   \* timeout: from the call to its deadline
          Pauses,     \* the pauses an answer may ask for, Retry-After or 60 s
          EndOfTime   \* bound

ASSUME TransportAssumption ==
  PoolSize \in Nat \ {0} /\ Patience \in Nat \ {0} /\ Pauses \subseteq Nat /\ EndOfTime \in Nat

VARIABLES second,
          pool,       \* the LifoQueue of the host
          gets,       \* each get_json call
          cooldown    \* cooldowns[host]

transportVars == <<second, pool, gets, cooldown>>

\* No connection yet, or one that was closed: the next request opens one.
Unopened == [open |-> FALSE, unread |-> <<>>]
Nobody == <<>>
NotCalled == [at |-> "not_called", began |-> 0, retried |-> FALSE, holds |-> Unopened,
              answer |-> Nobody]
TransportInit == /\ second = 0 /\ pool = [i \in 1 .. PoolSize |-> Unopened]
                 /\ gets = [r \in Requests |-> NotCalled] /\ cooldown = 0

InTime(r) == second < gets[r].began + Patience
Proceeds(r, from, to) ==
  gets[r].at = from /\ InTime(r) /\ gets' = [gets EXCEPT ![r] = to]

-----------------------------------------------------------------------------
\* A call during a pause fails at once, without a connection.
CallHost(r) ==
  /\ gets[r].at = "not_called"
  /\ gets' = [gets EXCEPT ![r] = [@ EXCEPT !.began = second,
                                   !.at = IF cooldown > second THEN "failed" ELSE "waiting"]]
  /\ UNCHANGED <<second, pool, cooldown>>

\* The connection given back last is borrowed first.
Borrow(r) ==
  /\ pool # <<>>
  /\ Proceeds(r, "waiting", [gets[r] EXCEPT !.at = "sending", !.holds = pool[Len(pool)]])
  /\ pool' = SubSeq(pool, 1, Len(pool) - 1) /\ UNCHANGED <<second, cooldown>>

Send(r) ==
  /\ Proceeds(r, "sending", [gets[r] EXCEPT !.at = "sent",
                !.holds = [open |-> TRUE, unread |-> Append(@.unread, r)]])
  /\ UNCHANGED <<second, pool, cooldown>>

\* The kept connection turns out dead: one retry on a new one.
Reconnect(r) ==
  /\ ~ gets[r].retried
  /\ Proceeds(r, "sent", [gets[r] EXCEPT !.at = "sending", !.retried = TRUE, !.holds = Unopened])
  /\ UNCHANGED <<second, pool, cooldown>>

\* The headers of the first answer on the connection; they may ask for a pause.
Headers(r) ==
  /\ Proceeds(r, "sent", [gets[r] EXCEPT !.at = "reading"])
  /\ cooldown' \in {cooldown} \cup {second + p : p \in Pauses}
  /\ UNCHANGED <<second, pool>>

\* The body has been read to its end and says success: the connection is kept.
Body(r) ==
  LET unread == gets[r].holds.unread IN
  /\ Proceeds(r, "reading", [gets[r] EXCEPT !.at = "answered", !.holds = Unopened,
                                            !.answer = unread[1]])
  /\ pool' = Append(pool, [open |-> TRUE, unread |-> Tail(unread)])
  /\ UNCHANGED <<second, cooldown>>

\* An error of the network, a status or body that is no success, or the deadline: the
\* connection is closed before its place in the pool is given back. A limit a body
\* speaks of is obeyed too.
LeftOpen(r) == gets[r].holds
Closed(r) == Unopened
Fail(r) ==
  /\ gets[r].at \in {"sending", "sent", "reading"}
  /\ gets' = [gets EXCEPT ![r] = [@ EXCEPT !.at = "failed", !.holds = Unopened]]
  /\ pool' = Append(pool, Closed(r))
  /\ cooldown' \in {cooldown} \cup
       {second + p : p \in IF gets[r].at = "reading" THEN Pauses ELSE {}}
  /\ UNCHANGED second
NoPlace(r) ==
  /\ gets[r].at = "waiting" /\ ~ InTime(r)
  /\ gets' = [gets EXCEPT ![r].at = "failed"] /\ UNCHANGED <<second, pool, cooldown>>

\* PublicMarketHttp.close, at any time: idle connections only.
CloseIdle ==
  /\ pool' = [i \in DOMAIN pool |-> Unopened] /\ UNCHANGED <<second, gets, cooldown>>
PassTime == /\ second < EndOfTime /\ second' = second + 1
            /\ UNCHANGED <<pool, gets, cooldown>>

TransportNext ==
  \/ \E r \in Requests : \/ CallHost(r) \/ Borrow(r) \/ Send(r) \/ Reconnect(r) \/ Headers(r)
                         \/ Body(r) \/ Fail(r) \/ NoPlace(r)
  \/ CloseIdle \/ PassTime
TransportSpec == TransportInit /\ [][TransportNext]_transportVars

-----------------------------------------------------------------------------
\* However requests fail, time out in the middle of an answer and share connections, what
\* a request returns is the answer to itself, and every place in the pool comes back.
AnswersAreOwn ==
  /\ \A r \in Requests : gets[r].at = "answered" => gets[r].answer = r
  /\ Len(pool) + Cardinality({r \in Requests : gets[r].at \in {"sending", "sent", "reading"}})
       = PoolSize
=============================================================================
