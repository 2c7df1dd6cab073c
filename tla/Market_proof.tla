---------------------------- MODULE Market_proof ----------------------------
(***************************************************************************)
(* Proofs about the market threads: the payload cache is honest, for all     *)
(* callers, payloads and lives of cached entries; a pooled connection never   *)
(* gives one request the answer to another, and loses no place, for all       *)
(* requests, pools and deadlines; saved snapshots are recent and pair by no   *)
(* alias long removed, for all lanes, paths and intervals; the collector of   *)
(* settled rates keeps the promise of its table (FundingSync implements       *)
(* SettledFacts) for all contracts, page sizes and failures; and the          *)
(* reminders of a limit are a day apart.                                      *)
(***************************************************************************)
EXTENDS Payloads, Transport, Snapshots, FundingSync, FundingAlerts, FiniteSetTheorems, SequenceTheorems,
        WellFoundedInduction, TLAPS

(* The payload cache                                                        *)

-----------------------------------------------------------------------------
Entry == [served : Int, fetched : Int]
Result == [served : Int, observed : Int]
Partial(S) == UNION {[D -> S] : D \in SUBSET Urls}
Running == [running : {TRUE}, began : Int, waiting : SUBSET Urls, got : Partial(Result)]

PayloadType ==
  /\ moment \in Int
  /\ payloads \in Partial(Entry)
  /\ calls \in [Callers -> Running \cup {NoCall}]
  /\ shown \in [Callers -> Partial(Int)]

\* What a call has so far is honest, no older than what its caller returned before, and no
\* newer than the cache; and nothing comes from the future.
CacheSound == \A u \in DOMAIN payloads : /\ payloads[u].fetched <= payloads[u].served
                                         /\ payloads[u].fetched <= moment
ResultSound(c, u) ==
  /\ u \in DOMAIN payloads
  /\ calls[c].got[u].observed <= calls[c].got[u].served
  /\ calls[c].got[u].observed <= payloads[u].fetched
  /\ u \in DOMAIN shown[c] => shown[c][u] <= calls[c].got[u].observed
CallSound(c) ==
  /\ \A u \in DOMAIN calls[c].got : ResultSound(c, u)
  /\ calls[c].running => /\ calls[c].began <= moment
                         /\ \A u \in DOMAIN shown[c] : shown[c][u] <= calls[c].began
ShownSound(c) ==
  \A u \in DOMAIN shown[c] : u \in DOMAIN payloads /\ shown[c][u] <= payloads[u].fetched

PayloadInv == /\ PayloadType /\ CacheSound
              /\ \A c \in Callers : CallSound(c) /\ ShownSound(c)

-----------------------------------------------------------------------------
\* A table with one more entry is a table.
LEMMA WithKeeps ==
  ASSUME NEW S, NEW f \in Partial(S), NEW u \in Urls, NEW x \in S
  PROVE  With(f, u, x) \in Partial(S)
<1>1. PICK D \in SUBSET Urls : f \in [D -> S]
  BY DEF Partial
<1>2. With(f, u, x) \in [D \cup {u} -> S] /\ D \cup {u} \in SUBSET Urls
  BY <1>1 DEF With
<1>3. QED BY <1>2 DEF Partial

\* What a table of a set of payloads holds.
LEMMA PartialIs ==
  ASSUME NEW S, NEW f \in Partial(S)
  PROVE  DOMAIN f \in SUBSET Urls /\ f \in [DOMAIN f -> S] /\ \A u \in DOMAIN f : f[u] \in S
BY DEF Partial

\* What a call is.
LEMMA CallIs ==
  ASSUME NEW call \in Running \cup {NoCall}
  PROVE  /\ call.waiting \in SUBSET Urls /\ call.got \in Partial(Result)
         /\ call.running => call \in Running /\ call.began \in Int
         /\ call \in Running => call.running
<1>1. CASE call \in Running
  BY <1>1 DEF Running
<1>2. CASE call = NoCall
  <2>1. ~ call.running /\ call.waiting = {} /\ call.got = NoEntry
    BY <1>2 DEF NoCall
  <2>2. NoEntry \in Partial(Result)
    BY DEF NoEntry, Partial
  <2>3. call \notin Running
    BY <2>1 DEF Running
  <2>4. QED BY <2>1, <2>2, <2>3
<1>3. QED BY <1>1, <1>2

\* The cache is empty when the process starts, and nobody has asked.
LEMMA InitSound == PayloadInit => PayloadInv
<1> SUFFICES ASSUME PayloadInit PROVE PayloadInv
  OBVIOUS
<1>1. NoEntry \in Partial(Entry) /\ NoEntry \in Partial(Int) /\ DOMAIN NoEntry = {}
  BY DEF NoEntry, Partial
<1>2. PayloadType
  BY <1>1 DEF PayloadInit, PayloadType
<1>3. QED
  BY <1>1, <1>2 DEF PayloadInit, PayloadInv, CacheSound, CallSound, ShownSound, NoCall

\* A step that leaves all tables alone and does not go back in time.
LEMMA ElapseSound == ASSUME PayloadInv, Elapse PROVE PayloadInv'
<1>1. moment \in Int /\ moment' = moment + 1 /\ UNCHANGED <<payloads, calls, shown>>
  BY DEF PayloadInv, PayloadType, Elapse
<1>2. PayloadType'
  BY <1>1 DEF PayloadInv, PayloadType
<1>3. CacheSound'
  <2> SUFFICES ASSUME NEW u \in DOMAIN payloads PROVE payloads[u].fetched <= payloads[u].served
                                                      /\ payloads[u].fetched <= moment + 1
    BY <1>1 DEF CacheSound
  <2>1. payloads[u] \in Entry
    BY PartialIs DEF PayloadInv, PayloadType
  <2>2. QED BY <1>1, <2>1 DEF PayloadInv, CacheSound, Entry
<1>4. ASSUME NEW c \in Callers PROVE CallSound(c)' /\ ShownSound(c)'
  <2>1. CallSound(c) /\ ShownSound(c) /\ calls[c] \in Running \cup {NoCall}
    BY DEF PayloadInv, PayloadType
  <2>2. calls[c].running => calls[c].began \in Int /\ calls[c].began <= moment
    BY <2>1, CallIs DEF CallSound
  <2>3. calls[c].running => calls[c].began <= moment + 1
    BY <1>1, <2>2
  <2>4. CallSound(c)'
    BY <1>1, <2>1, <2>3 DEF CallSound, ResultSound
  <2>5. QED BY <1>1, <2>1, <2>4 DEF ShownSound
<1>5. QED BY <1>2, <1>3, <1>4 DEF PayloadInv

-----------------------------------------------------------------------------
\* The tables hold integers.
LEMMA Values ==
  ASSUME PayloadType
  PROVE  /\ \A u \in DOMAIN payloads : payloads[u].served \in Int /\ payloads[u].fetched \in Int
         /\ \A c \in Callers :
              /\ calls[c] \in Running \cup {NoCall} /\ calls[c].got \in Partial(Result)
              /\ \A u \in DOMAIN calls[c].got : /\ calls[c].got[u].served \in Int
                                               /\ calls[c].got[u].observed \in Int
              /\ \A u \in DOMAIN shown[c] : shown[c][u] \in Int
<1>1. \A u \in DOMAIN payloads : payloads[u].served \in Int /\ payloads[u].fetched \in Int
  <2>1. \A u \in DOMAIN payloads : payloads[u] \in Entry
    BY PartialIs DEF PayloadType
  <2>2. QED BY <2>1 DEF Entry
<1>2. ASSUME NEW c \in Callers
      PROVE  /\ calls[c] \in Running \cup {NoCall} /\ calls[c].got \in Partial(Result)
             /\ \A u \in DOMAIN calls[c].got : /\ calls[c].got[u].served \in Int
                                              /\ calls[c].got[u].observed \in Int
             /\ \A u \in DOMAIN shown[c] : shown[c][u] \in Int
  <2>1. calls[c] \in Running \cup {NoCall}
    BY DEF PayloadType
  <2>2. calls[c].got \in Partial(Result)
    BY <2>1, CallIs
  <2>3. \A u \in DOMAIN calls[c].got : calls[c].got[u] \in Result
    BY <2>2, PartialIs
  <2>4. shown[c] \in Partial(Int)
    BY DEF PayloadType
  <2>5. \A u \in DOMAIN shown[c] : shown[c][u] \in Int
    BY <2>4, PartialIs
  <2>6. QED BY <2>1, <2>2, <2>3, <2>5 DEF Result
<1>3. QED BY <1>1, <1>2

\* No entry leaves the cache, and none becomes older.
CacheGrows == \A u \in DOMAIN payloads :
                u \in DOMAIN payloads' /\ payloads[u].fetched <= payloads'[u].fetched

\* A step of another caller that lets the cache grow leaves a caller's tables sound.
LEMMA OthersStay ==
  ASSUME PayloadInv, payloads' \in Partial(Entry), CacheGrows, moment' = moment, NEW c \in Callers,
         calls'[c] = calls[c], shown'[c] = shown[c]
  PROVE  CallSound(c)' /\ ShownSound(c)'
<1>1. PayloadType /\ CallSound(c) /\ ShownSound(c)
  BY DEF PayloadInv
<1>2. /\ \A u \in DOMAIN payloads : payloads[u].fetched \in Int
      /\ \A u \in DOMAIN calls[c].got : calls[c].got[u].observed \in Int
      /\ \A u \in DOMAIN shown[c] : shown[c][u] \in Int
  BY <1>1, Values
<1>3. \A u \in DOMAIN payloads' : payloads'[u].fetched \in Int
  <2>1. \A u \in DOMAIN payloads' : payloads'[u] \in Entry
    BY PartialIs
  <2>2. QED BY <2>1 DEF Entry
<1>4. ASSUME NEW u \in DOMAIN calls[c].got PROVE ResultSound(c, u)'
  <2>1. ResultSound(c, u)
    BY <1>1 DEF CallSound
  <2>2. u \in DOMAIN payloads' /\ payloads[u].fetched <= payloads'[u].fetched
    BY <2>1 DEF ResultSound, CacheGrows
  <2>3. calls[c].got[u].observed <= payloads'[u].fetched
    BY <1>2, <1>3, <2>1, <2>2 DEF ResultSound
  <2>4. QED BY <2>1, <2>2, <2>3 DEF ResultSound
<1>5. CallSound(c)'
  BY <1>1, <1>4 DEF CallSound
<1>6. ASSUME NEW u \in DOMAIN shown[c]
      PROVE  u \in DOMAIN payloads' /\ shown[c][u] <= payloads'[u].fetched
  <2>1. u \in DOMAIN payloads /\ shown[c][u] <= payloads[u].fetched
    BY <1>1 DEF ShownSound
  <2>2. QED BY <1>2, <1>3, <2>1 DEF CacheGrows
<1>7. QED BY <1>5, <1>6 DEF ShownSound

\* What the cache holds may be handed to any caller.
LEMMA CachedIsSound ==
  ASSUME PayloadInv, NEW c \in Callers, NEW u \in DOMAIN payloads
  PROVE  /\ FromCache(u) \in Result /\ u \in Urls
         /\ FromCache(u).observed <= FromCache(u).served
         /\ FromCache(u).observed <= payloads[u].fetched
         /\ FromCache(u).observed <= moment
         /\ u \in DOMAIN shown[c] => shown[c][u] <= FromCache(u).observed
<1>1. payloads[u].served \in Int /\ payloads[u].fetched \in Int
  BY Values DEF PayloadInv
<1>2. u \in Urls
  BY PartialIs DEF PayloadInv, PayloadType
<1>3. payloads[u].fetched <= payloads[u].served /\ payloads[u].fetched <= moment
  BY DEF PayloadInv, CacheSound
<1>4. u \in DOMAIN shown[c] => shown[c][u] <= payloads[u].fetched
  BY DEF PayloadInv, ShownSound
<1>5. QED BY <1>1, <1>2, <1>3, <1>4 DEF FromCache, Result

-----------------------------------------------------------------------------
\* What was kept is handed out; the call begins now, after all its caller was shown.
LEMMA BeginSound ==
  ASSUME PayloadInv, NEW c \in Callers, Begin(c)
  PROVE  PayloadInv'
<1> DEFINE kept == {u \in UrlsOf[c] : Valid(u)}
           got == [u \in kept |-> FromCache(u)]
           call == [running |-> TRUE, began |-> moment, waiting |-> UrlsOf[c] \ kept, got |-> got]
<1>1. /\ calls' = [calls EXCEPT ![c] = call] /\ UNCHANGED <<moment, payloads, shown>>
  BY DEF Begin, Update
<1>2. PayloadType /\ CacheSound
  BY DEF PayloadInv
<1>3. UrlsOf[c] \in SUBSET Urls
  BY PayloadAssumption DEF PayloadAssumption
<1>4. kept \subseteq DOMAIN payloads /\ kept \in SUBSET Urls
  BY <1>3 DEF Valid
<1>5. got \in [kept -> Result]
  BY <1>4, CachedIsSound
<1>6. got \in Partial(Result)
  BY <1>4, <1>5 DEF Partial
<1>7. call \in Running
  BY <1>2, <1>3, <1>6 DEF Running, PayloadType
<1>8. PayloadType'
  BY <1>1, <1>2, <1>7 DEF PayloadType
<1>9. /\ calls'[c] = call /\ shown'[c] = shown[c] /\ \A b \in Callers \ {c} : calls'[b] = calls[b]
  BY <1>1, <1>2 DEF PayloadType
<1>10. CacheSound'
  BY <1>1, <1>2 DEF CacheSound
<1>11. \A u \in DOMAIN got : ResultSound(c, u)'
  BY <1>1, <1>4, <1>9, CachedIsSound DEF ResultSound
<1>12. \A u \in DOMAIN shown[c] : shown[c][u] <= moment
  <2> TAKE u \in DOMAIN shown[c]
  <2>1. u \in DOMAIN payloads /\ shown[c][u] <= payloads[u].fetched
    BY DEF PayloadInv, ShownSound
  <2>2. payloads[u].fetched <= moment
    BY <1>2, <2>1 DEF CacheSound
  <2>3. shown[c][u] \in Int /\ payloads[u].fetched \in Int /\ moment \in Int
    BY <1>2, <2>1, Values DEF PayloadType
  <2>4. QED BY <2>1, <2>2, <2>3
<1>13. CallSound(c)'
  <2>1. moment \in Int
    BY <1>2 DEF PayloadType
  <2>2. QED BY <1>1, <1>9, <1>11, <1>12, <2>1 DEF CallSound
<1>14. ShownSound(c)'
  BY <1>1 DEF PayloadInv, ShownSound
<1>15. ASSUME NEW b \in Callers, b # c PROVE CallSound(b)' /\ ShownSound(b)'
  BY <1>1, <1>9, <1>15 DEF PayloadInv, CallSound, ShownSound, ResultSound
<1>16. QED BY <1>8, <1>10, <1>13, <1>14, <1>15 DEF PayloadInv

\* A running call that got one more payload keeps its type and the rest of what it has.
LEMMA TookKeeps ==
  ASSUME PayloadType, NEW c \in Callers, NEW u \in calls[c].waiting, NEW x \in Result,
         Took(c, u, x)
  PROVE  /\ calls' \in [Callers -> Running \cup {NoCall}]
         /\ \A b \in Callers \ {c} : calls'[b] = calls[b]
         /\ u \in Urls /\ calls[c].running /\ calls'[c].running /\ calls'[c].began = calls[c].began
         /\ DOMAIN calls'[c].got = DOMAIN calls[c].got \cup {u} /\ calls'[c].got[u] = x
         /\ \A v \in DOMAIN calls[c].got \ {u} : calls'[c].got[v] = calls[c].got[v]
<1> DEFINE call == [calls[c] EXCEPT !.waiting = @ \ {u}, !.got = With(@, u, x)]
<1>1. calls[c] \in Running /\ u \in Urls
  <2>1. calls[c] \in Running \cup {NoCall}
    BY DEF PayloadType
  <2>2. CASE calls[c] = NoCall
    BY <2>2 DEF NoCall
  <2>3. CASE calls[c] \in Running
    BY <2>3 DEF Running
  <2>4. QED BY <2>1, <2>2, <2>3
<1>2. calls' = [calls EXCEPT ![c] = call]
  BY DEF Took, Update
<1>3. calls'[c] = call /\ \A b \in Callers \ {c} : calls'[b] = calls[b]
  BY <1>2 DEF PayloadType
<1>4. calls[c].got \in Partial(Result)
  BY <1>1 DEF Running
<1>5. /\ With(calls[c].got, u, x) \in Partial(Result)
      /\ DOMAIN With(calls[c].got, u, x) = DOMAIN calls[c].got \cup {u}
      /\ With(calls[c].got, u, x)[u] = x
      /\ \A v \in DOMAIN calls[c].got \ {u} : With(calls[c].got, u, x)[v] = calls[c].got[v]
  <2>1. With(calls[c].got, u, x) \in Partial(Result)
    BY <1>1, <1>4, WithKeeps
  <2>2. QED BY <2>1 DEF With
<1>6. /\ call \in Running /\ call.got = With(calls[c].got, u, x)
      /\ call.began = calls[c].began /\ call.running = calls[c].running /\ calls[c].running = TRUE
  BY <1>1, <1>5 DEF Running
<1>7. calls' \in [Callers -> Running \cup {NoCall}]
  BY <1>2, <1>6 DEF PayloadType
<1>8. QED BY <1>1, <1>3, <1>5, <1>6, <1>7

\* A call that goes on with one more payload, sound by itself, in a cache that grew.
LEMMA TookSound ==
  ASSUME PayloadInv, NEW c \in Callers, NEW u \in calls[c].waiting, NEW x \in Result,
         Took(c, u, x), payloads' \in Partial(Entry), CacheGrows, CacheSound',
         UNCHANGED <<moment, shown>>,
         u \in DOMAIN payloads', x.observed <= x.served, x.observed <= payloads'[u].fetched,
         u \in DOMAIN shown[c] => shown[c][u] <= x.observed
  PROVE  PayloadInv'
<1>1. PayloadType
  BY DEF PayloadInv
<1>2. /\ calls' \in [Callers -> Running \cup {NoCall}]
      /\ \A b \in Callers \ {c} : calls'[b] = calls[b]
      /\ u \in Urls /\ calls[c].running /\ calls'[c].running /\ calls'[c].began = calls[c].began
      /\ DOMAIN calls'[c].got = DOMAIN calls[c].got \cup {u} /\ calls'[c].got[u] = x
      /\ \A v \in DOMAIN calls[c].got \ {u} : calls'[c].got[v] = calls[c].got[v]
  BY <1>1, TookKeeps
<1>3. PayloadType'
  BY <1>1, <1>2 DEF PayloadType
<1>4. /\ \A v \in DOMAIN payloads : payloads[v].fetched \in Int
      /\ \A v \in DOMAIN calls[c].got : calls[c].got[v].observed \in Int
      /\ \A v \in DOMAIN shown[c] : shown[c][v] \in Int
  BY <1>1, Values
<1>5. \A v \in DOMAIN payloads' : payloads'[v].fetched \in Int
  <2>1. \A v \in DOMAIN payloads' : payloads'[v] \in Entry
    BY PartialIs
  <2>2. QED BY <2>1 DEF Entry
<1>6. CallSound(c) /\ ShownSound(c)
  BY DEF PayloadInv
<1>7. ASSUME NEW v \in DOMAIN calls'[c].got PROVE ResultSound(c, v)'
  <2>1. CASE v = u
    BY <1>2, <2>1 DEF ResultSound
  <2>2. CASE v # u
    <3>1. v \in DOMAIN calls[c].got /\ calls'[c].got[v] = calls[c].got[v]
      BY <1>2, <2>2
    <3>2. ResultSound(c, v)
      BY <1>6, <3>1 DEF CallSound
    <3>3. v \in DOMAIN payloads' /\ calls[c].got[v].observed <= payloads'[v].fetched
      BY <1>4, <1>5, <3>1, <3>2 DEF ResultSound, CacheGrows
    <3>4. QED BY <3>1, <3>2, <3>3 DEF ResultSound
  <2>3. QED BY <2>1, <2>2
<1>8. CallSound(c)'
  BY <1>2, <1>6, <1>7 DEF CallSound
<1>9. ASSUME NEW v \in DOMAIN shown[c]
      PROVE  v \in DOMAIN payloads' /\ shown[c][v] <= payloads'[v].fetched
  <2>1. v \in DOMAIN payloads /\ shown[c][v] <= payloads[v].fetched
    BY <1>6 DEF ShownSound
  <2>2. QED BY <1>4, <1>5, <2>1 DEF CacheGrows
<1>10. ShownSound(c)'
  BY <1>9 DEF ShownSound
<1>11. ASSUME NEW b \in Callers, b # c PROVE CallSound(b)' /\ ShownSound(b)'
  BY <1>2, <1>11, OthersStay
<1>12. QED BY <1>3, <1>8, <1>10, <1>11 DEF PayloadInv

\* An answer dated when its call began is no older than what the caller was shown; the
\* cache keeps the later of the two dates.
LEMMA AnswerSound ==
  ASSUME PayloadInv, NEW c \in Callers, NEW u \in Urls, Answer(c, u)
  PROVE  PayloadInv'
<1> DEFINE began == calls[c].began
<1>1. PICK served \in began .. moment :
        /\ Took(c, u, [served |-> served, observed |-> began])
        /\ payloads' = IF Newer(u, began) THEN payloads
                       ELSE With(payloads, u, [served |-> served, fetched |-> began])
  BY DEF Answer, Stamp
<1>2. PayloadType /\ CacheSound /\ u \in calls[c].waiting /\ UNCHANGED <<moment, shown>>
  BY DEF PayloadInv, Answer
<1>3. calls[c] \in Running
  <2>1. calls[c] # NoCall
    BY <1>2 DEF NoCall
  <2>2. QED BY <1>2, <2>1 DEF PayloadType
<1>4. began \in Int /\ moment \in Int /\ served \in Int /\ began <= served /\ began <= moment
  <2>1. began \in Int /\ moment \in Int
    BY <1>2, <1>3 DEF PayloadType, Running
  <2>2. QED BY <2>1
<1>5. \A v \in DOMAIN shown[c] : shown[c][v] <= began
  <2>1. calls[c].running
    BY <1>3, CallIs
  <2>2. QED BY <2>1 DEF PayloadInv, CallSound
<1>6. [served |-> served, observed |-> began] \in Result
  BY <1>4 DEF Result
<1>7. \A v \in DOMAIN payloads : payloads[v].fetched \in Int
  BY <1>2, Values
<1>8. CASE Newer(u, began)
  <2>1. payloads' = payloads /\ u \in DOMAIN payloads /\ payloads[u].fetched > began
    BY <1>1, <1>8 DEF Newer
  <2>2. payloads' \in Partial(Entry) /\ CacheGrows /\ CacheSound'
    BY <1>2, <1>7, <2>1 DEF CacheGrows, CacheSound, PayloadType
  <2>3. began <= payloads'[u].fetched
    BY <1>4, <1>7, <2>1
  <2>4. QED BY <1>1, <1>2, <1>4, <1>5, <1>6, <2>1, <2>2, <2>3, TookSound
<1>9. CASE ~ Newer(u, began)
  <2> DEFINE entry == [served |-> served, fetched |-> began]
  <2>1. payloads' = With(payloads, u, entry) /\ entry \in Entry
    BY <1>1, <1>4, <1>9 DEF Entry
  <2>2. /\ payloads' \in Partial(Entry) /\ DOMAIN payloads' = DOMAIN payloads \cup {u}
        /\ payloads'[u] = entry /\ \A v \in DOMAIN payloads \ {u} : payloads'[v] = payloads[v]
    <3>1. payloads \in Partial(Entry)
      BY <1>2 DEF PayloadType
    <3>2. payloads' \in Partial(Entry)
      BY <2>1, <3>1, WithKeeps
    <3>3. QED BY <2>1, <3>2 DEF With
  <2>3. CacheGrows
    <3> SUFFICES ASSUME NEW v \in DOMAIN payloads PROVE payloads[v].fetched <= payloads'[v].fetched
      BY <2>2 DEF CacheGrows
    <3>1. CASE v = u
      BY <1>4, <1>7, <1>9, <2>2, <3>1 DEF Newer
    <3>2. CASE v # u
      BY <1>7, <2>2, <3>2
    <3>3. QED BY <3>1, <3>2
  <2>4. CacheSound'
    BY <1>2, <1>4, <2>2 DEF CacheSound
  <2>5. u \in DOMAIN payloads' /\ began <= payloads'[u].fetched
    BY <1>4, <2>2
  <2>6. QED BY <1>1, <1>2, <1>4, <1>5, <1>6, <2>2, <2>3, <2>4, <2>5, TookSound
<1>10. QED BY <1>8, <1>9

\* A failed request gives what is cached, or nothing.
LEMMA FallbackSound ==
  ASSUME PayloadInv, NEW c \in Callers, NEW u \in Urls, Fallback(c, u)
  PROVE  PayloadInv'
<1>1. /\ PayloadType /\ CacheSound /\ u \in calls[c].waiting
      /\ payloads' = payloads /\ UNCHANGED <<moment, shown>>
  BY DEF PayloadInv, Fallback
<1>2. payloads' \in Partial(Entry) /\ CacheSound'
  BY <1>1 DEF PayloadType, CacheSound
<1>3. CacheGrows
  BY <1>1, Values DEF CacheGrows
<1>4. CASE u \in DOMAIN payloads
  <2>1. Took(c, u, FromCache(u))
    BY <1>4 DEF Fallback
  <2>2. QED BY <1>1, <1>2, <1>3, <1>4, <2>1, CachedIsSound, TookSound
<1>5. CASE u \notin DOMAIN payloads
  <2> DEFINE call == [calls[c] EXCEPT !.waiting = @ \ {u}]
  <2>1. calls' = [calls EXCEPT ![c] = call]
    BY <1>5 DEF Fallback, Update
  <2>2. calls[c] \in Running
    <3>1. calls[c] # NoCall
      BY <1>1 DEF NoCall
    <3>2. QED BY <1>1, <3>1 DEF PayloadType
  <2>3. /\ call \in Running /\ call.got = calls[c].got
        /\ call.began = calls[c].began /\ call.running = calls[c].running
    BY <2>2 DEF Running
  <2>4. PayloadType'
    BY <1>1, <2>1, <2>3 DEF PayloadType
  <2>5. calls'[c] = call /\ \A b \in Callers \ {c} : calls'[b] = calls[b]
    BY <1>1, <2>1 DEF PayloadType
  <2>6. CallSound(c)' /\ ShownSound(c)'
    BY <1>1, <2>3, <2>5 DEF PayloadInv, CallSound, ShownSound, ResultSound
  <2>7. ASSUME NEW b \in Callers, b # c PROVE CallSound(b)' /\ ShownSound(b)'
    BY <1>1, <1>2, <1>3, <2>5, <2>7, OthersStay
  <2>8. QED BY <1>2, <2>4, <2>6, <2>7 DEF PayloadInv
<1>6. QED BY <1>4, <1>5

\* What is shown now is in the cache or older, and no older than what was shown before.
LEMMA ReturnSound ==
  ASSUME PayloadInv, NEW c \in Callers, Return(c)
  PROVE  PayloadInv' /\ QuotesNeverGoBack
<1> DEFINE got == calls[c].got
           now == [u \in DOMAIN shown[c] \cup DOMAIN got |->
                     IF u \in DOMAIN got THEN got[u].observed ELSE shown[c][u]]
<1>1. /\ calls' = [calls EXCEPT ![c] = NoCall] /\ shown' = [shown EXCEPT ![c] = now]
      /\ payloads' = payloads /\ moment' = moment
  BY DEF Return, Update
<1>2. PayloadType /\ CacheSound /\ CallSound(c) /\ ShownSound(c)
  BY DEF PayloadInv
<1>3. /\ calls'[c] = NoCall /\ shown'[c] = now
      /\ \A b \in Callers \ {c} : calls'[b] = calls[b] /\ shown'[b] = shown[b]
  BY <1>1, <1>2 DEF PayloadType
<1>4. /\ got \in Partial(Result) /\ \A u \in DOMAIN got : got[u].observed \in Int
      /\ \A b \in Callers : \A u \in DOMAIN shown[b] : shown[b][u] \in Int
      /\ \A u \in DOMAIN payloads : payloads[u].fetched \in Int
  BY <1>2, Values
<1>5. now \in Partial(Int)
  <2>1. DOMAIN got \in SUBSET Urls
    BY <1>4, PartialIs
  <2>2. shown[c] \in Partial(Int)
    BY <1>2 DEF PayloadType
  <2>3. DOMAIN shown[c] \in SUBSET Urls
    BY <2>2, PartialIs
  <2>4. now \in [DOMAIN shown[c] \cup DOMAIN got -> Int]
    BY <1>4
  <2>5. DOMAIN shown[c] \cup DOMAIN got \in SUBSET Urls
    BY <2>1, <2>3
  <2>6. QED BY <2>4, <2>5 DEF Partial
<1>6. PayloadType'
  BY <1>1, <1>2, <1>5 DEF PayloadType
<1>7. CacheSound'
  BY <1>1, <1>2 DEF CacheSound
<1>8. CallSound(c)'
  <2>1. calls'[c].running = FALSE /\ DOMAIN calls'[c].got = {}
    BY <1>3 DEF NoCall, NoEntry
  <2>2. QED BY <2>1 DEF CallSound
<1>9. ShownSound(c)'
  <2> SUFFICES ASSUME NEW u \in DOMAIN now PROVE u \in DOMAIN payloads /\ now[u] <= payloads[u].fetched
    BY <1>1, <1>3 DEF ShownSound
  <2>1. CASE u \in DOMAIN got
    BY <1>2, <2>1 DEF CallSound, ResultSound
  <2>2. CASE u \notin DOMAIN got
    BY <1>2, <2>2 DEF ShownSound
  <2>3. QED BY <2>1, <2>2
<1>10. ASSUME NEW b \in Callers, b # c PROVE CallSound(b)' /\ ShownSound(b)'
  BY <1>1, <1>3, <1>10 DEF PayloadInv, CallSound, ShownSound, ResultSound
<1>11. QuotesNeverGoBack
  <2> SUFFICES ASSUME NEW b \in Callers, NEW u \in DOMAIN shown[b]
               PROVE  u \in DOMAIN shown'[b] /\ shown'[b][u] >= shown[b][u]
    BY DEF QuotesNeverGoBack
  <2>1. CASE b # c
    BY <1>3, <1>4, <2>1
  <2>2. CASE b = c /\ u \in DOMAIN got
    <3>1. shown[c][u] <= got[u].observed /\ now[u] = got[u].observed /\ u \in DOMAIN now
      BY <1>2, <2>2 DEF CallSound, ResultSound
    <3>2. shown[c][u] \in Int /\ got[u].observed \in Int
      BY <1>4, <2>2
    <3>3. QED BY <1>3, <2>2, <3>1, <3>2
  <2>3. CASE b = c /\ u \notin DOMAIN got
    <3>1. u \in DOMAIN now /\ now[u] = shown[c][u] /\ shown[c][u] \in Int
      BY <1>4, <2>3
    <3>2. QED BY <1>3, <2>3, <3>1
  <2>4. QED BY <2>1, <2>2, <2>3
<1>12. QED BY <1>6, <1>7, <1>8, <1>9, <1>10, <1>11 DEF PayloadInv

-----------------------------------------------------------------------------
\* Every step keeps the invariant and lets nobody go back in time.
LEMMA StepSound ==
  ASSUME PayloadInv, [PayloadNext]_payloadVars
  PROVE  PayloadInv' /\ QuotesNeverGoBack
<1>1. shown' = shown => QuotesNeverGoBack
  <2> SUFFICES ASSUME shown' = shown, NEW c \in Callers, NEW u \in DOMAIN shown[c]
               PROVE  u \in DOMAIN shown'[c] /\ shown'[c][u] >= shown[c][u]
    BY DEF QuotesNeverGoBack
  <2>1. shown[c][u] \in Int
    BY Values DEF PayloadInv
  <2>2. QED BY <2>1
<1>2. ASSUME NEW c \in Callers, Begin(c) PROVE PayloadInv' /\ shown' = shown
  BY <1>2, BeginSound DEF Begin
<1>3. ASSUME NEW c \in Callers, NEW u \in Urls, Answer(c, u) PROVE PayloadInv' /\ shown' = shown
  BY <1>3, AnswerSound DEF Answer
<1>4. ASSUME NEW c \in Callers, NEW u \in Urls, Fallback(c, u) PROVE PayloadInv' /\ shown' = shown
  BY <1>4, FallbackSound DEF Fallback
<1>5. CASE Elapse
  BY <1>1, <1>5, ElapseSound DEF Elapse
<1>6. CASE UNCHANGED payloadVars
  <2>1. PayloadInv'
    BY <1>6 DEF payloadVars, PayloadInv, PayloadType, CacheSound, CallSound, ResultSound, ShownSound
  <2>2. QED BY <1>1, <1>6, <2>1 DEF payloadVars
<1>7. QED BY <1>1, <1>2, <1>3, <1>4, <1>5, <1>6, ReturnSound DEF PayloadNext

\* "reusing a REST cache is not a new quote" (app.fetch_market_payloads): no payload is
\* dated later than it was served, and what a market thread shows never becomes older,
\* for any number of threads and payloads and however their requests end.
THEOREM PayloadsHonest == PayloadSpec => PayloadsAreHonest
<1>1. PayloadInit => PayloadInv
  BY InitSound
<1>2. PayloadInv /\ [PayloadNext]_payloadVars => PayloadInv' /\ QuotesNeverGoBack
  BY StepSound
<1>3. PayloadInv => StampsAreHonest
  BY DEF PayloadInv, CacheSound, CallSound, ResultSound, StampsAreHonest
<1>4. QED BY <1>1, <1>2, <1>3, PTL DEF PayloadSpec, PayloadsAreHonest

-----------------------------------------------------------------------------
(* The pool of connections                                                  *)

Connection == [open : BOOLEAN, unread : Seq(Requests)]
Stages == {"not_called", "waiting", "sending", "sent", "reading", "answered", "failed"}
Get == [at : Stages, began : Int, retried : BOOLEAN, holds : Connection,
        answer : Requests \cup {Nobody}]
TransportType == /\ second \in Int /\ cooldown \in Int
                 /\ pool \in Seq(Connection) /\ gets \in [Requests -> Get]

\* A connection in the pool owes no answer; one in use owes at most that to its holder.
PoolRead == \A i \in DOMAIN pool : pool[i].unread = <<>>
Owes(r) == /\ gets[r].at = "sending" => gets[r].holds.unread = <<>>
           /\ gets[r].at \in {"sent", "reading"} => gets[r].holds.unread = <<r>>
           /\ gets[r].at = "answered" => gets[r].answer = r

\* Every place is in the pool or held by one request.
InUse == {"sending", "sent", "reading"}
Holders == {r \in Requests : gets[r].at \in InUse}
PlacesKept == IsFiniteSet(Holders) /\ Len(pool) + Cardinality(Holders) = PoolSize

TransportInv == /\ TransportType /\ PoolRead /\ (\A r \in Requests : Owes(r)) /\ PlacesKept

-----------------------------------------------------------------------------
\* A closed connection owes nothing.
LEMMA UnopenedIs == Unopened \in Connection /\ Unopened.unread = <<>>
BY DEF Unopened, Connection

\* All places are in the pool when the process starts, and closed.
LEMMA TransportInitSound == TransportInit => TransportInv
<1> SUFFICES ASSUME TransportInit PROVE TransportInv
  OBVIOUS
<1>1. PoolSize \in Nat
  BY TransportAssumption DEF TransportAssumption
<1>2. pool \in Seq(Connection) /\ Len(pool) = PoolSize /\ PoolRead
  BY <1>1, UnopenedIs DEF TransportInit, PoolRead
<1>3. NotCalled \in Get
  BY UnopenedIs DEF NotCalled, Get, Stages
<1>4. TransportType
  BY <1>2, <1>3 DEF TransportInit, TransportType
<1>5. \A r \in Requests : Owes(r)
  BY DEF TransportInit, Owes, NotCalled
<1>6. Holders = {}
  BY DEF TransportInit, Holders, NotCalled, InUse
<1>7. PlacesKept
  BY <1>1, <1>2, <1>6, FS_EmptySet DEF PlacesKept
<1>8. QED BY <1>2, <1>4, <1>5, <1>7 DEF TransportInv

-----------------------------------------------------------------------------
\* A step of one request that holds a place before and after, or neither.
LEMMA PlaceStays ==
  ASSUME TransportInv, NEW r \in Requests, NEW get \in Get,
         gets' = [gets EXCEPT ![r] = get], pool' = pool,
         second' \in Int, cooldown' \in Int,
         gets[r].at \in InUse <=> get.at \in InUse, Owes(r)'
  PROVE  TransportInv'
<1>1. /\ TransportType /\ gets'[r] = get
      /\ \A q \in Requests \ {r} : gets'[q] = gets[q]
  BY DEF TransportInv, TransportType
<1>2. TransportType'
  BY <1>1 DEF TransportType
<1>3. Holders' = Holders
  BY <1>1 DEF Holders
<1>4. \A q \in Requests : Owes(q)'
  BY <1>1 DEF TransportInv, Owes
<1>5. QED BY <1>2, <1>3, <1>4 DEF TransportInv, PoolRead, PlacesKept

\* A step by which a request gives its connection back: read to its end, or closed.
LEMMA PlaceReturns ==
  ASSUME TransportInv, NEW r \in Requests, NEW get \in Get, NEW connection \in Connection,
         gets' = [gets EXCEPT ![r] = get], pool' = Append(pool, connection),
         second' \in Int, cooldown' \in Int, connection.unread = <<>>,
         gets[r].at \in InUse, get.at \notin InUse, Owes(r)'
  PROVE  TransportInv'
<1>1. /\ TransportType /\ gets'[r] = get
      /\ \A q \in Requests \ {r} : gets'[q] = gets[q]
  BY DEF TransportInv, TransportType
<1>2. /\ pool' \in Seq(Connection) /\ Len(pool') = Len(pool) + 1 /\ Len(pool) \in Nat
      /\ \A i \in DOMAIN pool' : pool'[i] = IF i \in DOMAIN pool THEN pool[i] ELSE connection
  BY <1>1 DEF TransportType
<1>3. TransportType'
  BY <1>1, <1>2 DEF TransportType
<1>4. PoolRead'
  BY <1>2 DEF TransportInv, PoolRead
<1>5. Holders' = Holders \ {r} /\ r \in Holders
  BY <1>1 DEF Holders
<1>6. \A q \in Requests : Owes(q)'
  BY <1>1 DEF TransportInv, Owes
<1>7. PlacesKept'
  <2>1. /\ IsFiniteSet(Holders) /\ Len(pool) + Cardinality(Holders) = PoolSize
        /\ Cardinality(Holders) \in Nat
    BY FS_CardinalityType DEF TransportInv, PlacesKept
  <2>2. IsFiniteSet(Holders') /\ Cardinality(Holders') = Cardinality(Holders) - 1
    BY <1>5, <2>1, FS_RemoveElement
  <2>3. QED BY <1>2, <2>1, <2>2 DEF PlacesKept
<1>8. QED BY <1>3, <1>4, <1>6, <1>7 DEF TransportInv

-----------------------------------------------------------------------------
\* What each call has.
LEMMA GetIs ==
  ASSUME TransportInv, NEW r \in Requests
  PROVE  /\ gets[r] \in Get /\ gets[r].at \in Stages /\ gets[r].holds \in Connection
         /\ second \in Int /\ cooldown \in Int /\ pool \in Seq(Connection) /\ Owes(r)
BY DEF TransportInv, TransportType, Get

\* A call holds no place yet.
LEMMA CalledSound == ASSUME TransportInv, NEW r \in Requests, CallHost(r) PROVE TransportInv'
<1> DEFINE get == [gets[r] EXCEPT !.began = second,
                                   !.at = IF cooldown > second THEN "failed" ELSE "waiting"]
<1>1. /\ gets' = [gets EXCEPT ![r] = get] /\ gets[r].at = "not_called"
      /\ UNCHANGED <<second, pool, cooldown>>
  BY DEF CallHost
<1>2. get \in Get /\ get.at \in {"failed", "waiting"}
  BY GetIs DEF Get, Stages
<1>3. gets'[r] = get
  BY <1>1 DEF TransportInv, TransportType
<1>4. Owes(r)'
  BY <1>2, <1>3 DEF Owes
<1>5. QED BY <1>1, <1>2, <1>4, GetIs, PlaceStays DEF InUse

\* Who waited for a place in vain holds none.
LEMMA NoPlaceSound == ASSUME TransportInv, NEW r \in Requests, NoPlace(r) PROVE TransportInv'
<1> DEFINE get == [gets[r] EXCEPT !.at = "failed"]
<1>1. /\ gets' = [gets EXCEPT ![r] = get] /\ gets[r].at = "waiting"
      /\ UNCHANGED <<second, pool, cooldown>>
  BY DEF NoPlace
<1>2. get \in Get /\ get.at = "failed"
  BY GetIs DEF Get, Stages
<1>3. gets'[r] = get
  BY <1>1 DEF TransportInv, TransportType
<1>4. Owes(r)'
  BY <1>2, <1>3 DEF Owes
<1>5. QED BY <1>1, <1>2, <1>4, GetIs, PlaceStays DEF InUse

\* The connection borrowed owes nothing, as all in the pool.
LEMMA BorrowSound == ASSUME TransportInv, NEW r \in Requests, Borrow(r) PROVE TransportInv'
<1> DEFINE last == pool[Len(pool)]
           get == [gets[r] EXCEPT !.at = "sending", !.holds = last]
<1>1. /\ gets' = [gets EXCEPT ![r] = get] /\ gets[r].at = "waiting" /\ pool # <<>>
      /\ pool' = SubSeq(pool, 1, Len(pool) - 1) /\ UNCHANGED <<second, cooldown>>
  BY DEF Borrow, Proceeds
<1>2. TransportType /\ pool \in Seq(Connection)
  BY DEF TransportInv, TransportType
<1>3. Len(pool) \in Nat \ {0} /\ last \in Connection /\ last.unread = <<>>
  <2>1. Len(pool) \in Nat \ {0}
    BY <1>1, <1>2
  <2>2. Len(pool) \in DOMAIN pool
    BY <1>2, <2>1
  <2>3. QED BY <1>2, <2>1, <2>2 DEF TransportInv, PoolRead
<1>4. /\ pool' \in Seq(Connection) /\ Len(pool') = Len(pool) - 1
      /\ \A i \in DOMAIN pool' : i \in DOMAIN pool /\ pool'[i] = pool[i]
  <2> DEFINE n == Len(pool) - 1
             front == SubSeq(pool, 1, n)
  <2>1. n \in Nat /\ 1 \in Int /\ \A i \in 1 .. n : pool[i] \in Connection
    BY <1>2, <1>3
  <2>2. /\ front \in Seq(Connection) /\ Len(front) = IF 1 <= n THEN n - 1 + 1 ELSE 0
        /\ \A i \in 1 .. n - 1 + 1 : front[i] = pool[1 + i - 1]
    BY <2>1, SubSeqProperties
  <2> HIDE DEF front, n
  <2>3. Len(front) = n /\ DOMAIN front = 1 .. n
    <3>1. Len(front) = n
      BY <2>1, <2>2
    <3>2. DOMAIN front = 1 .. Len(front)
      BY <2>2
    <3>3. QED BY <3>1, <3>2
  <2>4. \A i \in 1 .. n : front[i] = pool[i]
    BY <2>1, <2>2
  <2> USE DEF front, n
  <2>5. \A i \in 1 .. n : i \in DOMAIN pool
    BY <1>2, <1>3
  <2>6. pool' = front
    BY <1>1
  <2> HIDE DEF front, n
  <2>7. /\ pool' \in Seq(Connection) /\ Len(pool') = n
        /\ \A i \in DOMAIN pool' : i \in DOMAIN pool /\ pool'[i] = pool[i]
    BY <2>2, <2>3, <2>4, <2>5, <2>6
  <2>8. QED BY <2>7 DEF n
<1>5. get \in Get /\ get.at = "sending" /\ get.holds = last
  BY <1>3, GetIs DEF Get, Stages
<1>6. gets'[r] = get /\ \A q \in Requests \ {r} : gets'[q] = gets[q]
  BY <1>1, <1>2 DEF TransportType
<1>7. TransportType'
  BY <1>1, <1>2, <1>4, <1>5 DEF TransportType
<1>8. PoolRead'
  BY <1>4 DEF TransportInv, PoolRead
<1>9. \A q \in Requests : Owes(q)'
  BY <1>3, <1>5, <1>6 DEF TransportInv, Owes
<1>10. Holders' = Holders \cup {r} /\ r \notin Holders
  BY <1>1, <1>5, <1>6 DEF Holders, InUse
<1>11. PlacesKept'
  <2>1. /\ IsFiniteSet(Holders) /\ Len(pool) + Cardinality(Holders) = PoolSize
        /\ Cardinality(Holders) \in Nat
    BY FS_CardinalityType DEF TransportInv, PlacesKept
  <2>2. IsFiniteSet(Holders') /\ Cardinality(Holders') = Cardinality(Holders) + 1
    BY <1>10, <2>1, FS_AddElement
  <2>3. QED BY <1>3, <1>4, <2>1, <2>2 DEF PlacesKept
<1>12. QED BY <1>7, <1>8, <1>9, <1>11 DEF TransportInv

\* The connection now owes the answer to the request that holds it, and no other.
LEMMA SendSound == ASSUME TransportInv, NEW r \in Requests, Send(r) PROVE TransportInv'
<1> DEFINE holds == [open |-> TRUE, unread |-> Append(gets[r].holds.unread, r)]
           get == [gets[r] EXCEPT !.at = "sent", !.holds = holds]
<1>1. /\ gets' = [gets EXCEPT ![r] = get] /\ gets[r].at = "sending"
      /\ UNCHANGED <<second, pool, cooldown>>
  BY DEF Send, Proceeds
<1>2. gets[r].holds.unread = <<>>
  BY <1>1, GetIs DEF Owes
<1>3. holds.unread = <<r>> /\ holds \in Connection
  BY <1>2 DEF Connection
<1>4. get \in Get /\ get.at = "sent" /\ get.holds = holds
  BY <1>3, GetIs DEF Get, Stages
<1>5. gets'[r] = get
  BY <1>1 DEF TransportInv, TransportType
<1>6. Owes(r)'
  BY <1>3, <1>4, <1>5 DEF Owes
<1>7. QED BY <1>1, <1>4, <1>6, GetIs, PlaceStays DEF InUse

\* The retry starts on a connection that owes nothing.
LEMMA ReconnectSound == ASSUME TransportInv, NEW r \in Requests, Reconnect(r) PROVE TransportInv'
<1> DEFINE get == [gets[r] EXCEPT !.at = "sending", !.retried = TRUE, !.holds = Unopened]
<1>1. /\ gets' = [gets EXCEPT ![r] = get] /\ gets[r].at = "sent"
      /\ UNCHANGED <<second, pool, cooldown>>
  BY DEF Reconnect, Proceeds
<1>2. get \in Get /\ get.at = "sending" /\ get.holds = Unopened
  BY GetIs, UnopenedIs DEF Get, Stages
<1>3. gets'[r] = get
  BY <1>1 DEF TransportInv, TransportType
<1>4. Owes(r)'
  BY <1>2, <1>3, UnopenedIs DEF Owes
<1>5. QED BY <1>1, <1>2, <1>4, GetIs, PlaceStays DEF InUse

\* A pause is a time.
LEMMA PausesAreTimes ==
  ASSUME second \in Int, cooldown \in Int, NEW P \in SUBSET Pauses,
         cooldown' \in {cooldown} \cup {second + p : p \in P}
  PROVE  cooldown' \in Int
BY TransportAssumption DEF TransportAssumption

\* The status of an answer changes the cooldown, and no connection.
LEMMA HeadersSound == ASSUME TransportInv, NEW r \in Requests, Headers(r) PROVE TransportInv'
<1> DEFINE get == [gets[r] EXCEPT !.at = "reading"]
<1>1. /\ gets' = [gets EXCEPT ![r] = get] /\ gets[r].at = "sent"
      /\ UNCHANGED <<second, pool>> /\ cooldown' \in {cooldown} \cup {second + p : p \in Pauses}
  BY DEF Headers, Proceeds
<1>2. get \in Get /\ get.at = "reading" /\ get.holds = gets[r].holds
  BY GetIs DEF Get, Stages
<1>3. gets'[r] = get
  BY <1>1 DEF TransportInv, TransportType
<1>4. Owes(r)'
  BY <1>1, <1>2, <1>3, GetIs DEF Owes
<1>5. cooldown' \in Int
  BY <1>1, GetIs, PausesAreTimes
<1>6. QED BY <1>1, <1>2, <1>4, <1>5, GetIs, PlaceStays DEF InUse

\* The one answer the connection owed is the request's own; afterwards it owes none.
LEMMA BodySound == ASSUME TransportInv, NEW r \in Requests, Body(r) PROVE TransportInv'
<1> DEFINE unread == gets[r].holds.unread
           get == [gets[r] EXCEPT !.at = "answered", !.holds = Unopened, !.answer = unread[1]]
           kept == [open |-> TRUE, unread |-> Tail(unread)]
<1>1. /\ gets' = [gets EXCEPT ![r] = get] /\ gets[r].at = "reading"
      /\ pool' = Append(pool, kept) /\ UNCHANGED <<second, cooldown>>
  BY DEF Body, Proceeds
<1>2. unread = <<r>>
  BY <1>1, GetIs DEF Owes
<1>3. unread[1] = r /\ Tail(unread) = <<>>
  BY <1>2
<1>4. kept \in Connection /\ kept.unread = <<>>
  <2>1. [open |-> TRUE, unread |-> <<>>] \in Connection
    BY DEF Connection
  <2>2. kept = [open |-> TRUE, unread |-> <<>>]
    BY <1>3
  <2> HIDE DEF kept
  <2>3. QED BY <2>1, <2>2
<1>5. get \in Get /\ get.at = "answered" /\ get.answer = r
  BY <1>3, GetIs, UnopenedIs DEF Get, Stages
<1>6. gets'[r] = get
  BY <1>1 DEF TransportInv, TransportType
<1>7. Owes(r)'
  BY <1>5, <1>6 DEF Owes
<1>8. QED BY <1>1, <1>4, <1>5, <1>7, GetIs, PlaceReturns DEF InUse

\* What may still owe an answer is closed before its place is given back.
LEMMA FailSound == ASSUME TransportInv, NEW r \in Requests, Fail(r) PROVE TransportInv'
<1> DEFINE get == [gets[r] EXCEPT !.at = "failed", !.holds = Unopened]
           asked == IF gets[r].at = "reading" THEN Pauses ELSE {}
<1>1. /\ gets' = [gets EXCEPT ![r] = get] /\ gets[r].at \in {"sending", "sent", "reading"}
      /\ pool' = Append(pool, Unopened) /\ second' = second
      /\ cooldown' \in {cooldown} \cup {second + p : p \in asked}
  BY DEF Fail, Closed
<1>2. get \in Get /\ get.at = "failed"
  BY GetIs, UnopenedIs DEF Get, Stages
<1>3. gets'[r] = get
  BY <1>1 DEF TransportInv, TransportType
<1>4. Owes(r)'
  BY <1>2, <1>3 DEF Owes
<1>5. cooldown' \in Int
  <2>1. asked \in SUBSET Pauses
    OBVIOUS
  <2>2. QED BY <1>1, <2>1, GetIs, PausesAreTimes
<1>6. QED BY <1>1, <1>2, <1>4, <1>5, GetIs, UnopenedIs, PlaceReturns DEF InUse

\* Closing the connections in the pool keeps their places.
LEMMA CloseIdleSound == ASSUME TransportInv, CloseIdle PROVE TransportInv'
<1>1. pool' = [i \in DOMAIN pool |-> Unopened] /\ UNCHANGED <<second, gets, cooldown>>
  BY DEF CloseIdle
<1>2. TransportType /\ pool \in Seq(Connection) /\ Len(pool) \in Nat /\ DOMAIN pool = 1 .. Len(pool)
  BY DEF TransportInv, TransportType
<1>3. /\ pool' \in Seq(Connection) /\ Len(pool') = Len(pool)
      /\ \A i \in DOMAIN pool' : pool'[i] = Unopened
  BY <1>1, <1>2, UnopenedIs
<1>4. TransportType'
  BY <1>1, <1>2, <1>3 DEF TransportType
<1>5. PoolRead'
  BY <1>3, UnopenedIs DEF PoolRead
<1>6. (\A r \in Requests : Owes(r)') /\ PlacesKept'
  BY <1>1, <1>3 DEF TransportInv, Owes, PlacesKept, Holders
<1>7. QED BY <1>4, <1>5, <1>6 DEF TransportInv

\* Time does not touch what is owed.
LEMMA TimeSound ==
  ASSUME TransportInv, UNCHANGED <<pool, gets, cooldown>>, second' \in Int
  PROVE  TransportInv'
BY DEF TransportInv, TransportType, PoolRead, Owes, PlacesKept, Holders

\* Every step keeps the invariant.
LEMMA TransportStepSound ==
  ASSUME TransportInv, [TransportNext]_transportVars PROVE TransportInv'
<1>1. second \in Int
  BY DEF TransportInv, TransportType
<1>2. ASSUME NEW r \in Requests,
             \/ CallHost(r) \/ Borrow(r) \/ Send(r) \/ Reconnect(r) \/ Headers(r)
             \/ Body(r) \/ Fail(r) \/ NoPlace(r)
      PROVE  TransportInv'
  BY <1>2, CalledSound, BorrowSound, SendSound, ReconnectSound, HeadersSound, BodySound, FailSound,
     NoPlaceSound
<1>3. CASE PassTime
  BY <1>1, <1>3, TimeSound DEF PassTime
<1>4. CASE UNCHANGED transportVars
  BY <1>1, <1>4, TimeSound DEF transportVars
<1>5. QED BY <1>2, <1>3, <1>4, CloseIdleSound DEF TransportNext

\* PublicMarketHttp.get_json: a request returns the answer to itself, and every place in
\* the pool of its host is free or held by one request, for any number of requests, places
\* and seconds.
THEOREM AnswersOwned == TransportSpec => []AnswersAreOwn
<1>1. TransportInv => AnswersAreOwn
  BY DEF TransportInv, Owes, PlacesKept, Holders, InUse, AnswersAreOwn
<1>2. QED
  BY <1>1, TransportInitSound, TransportStepSound, PTL DEF TransportSpec

-----------------------------------------------------------------------------
(* Saved snapshots *)

Times == Nat \cup {Never}
Pass == [at : {"idle"}]
        \cup [at : {"querying"}, asked : Nat, rows : SUBSET Aliased]
        \cup [at : {"building"}, rows : SUBSET Aliased, looked : Nat]
        \cup [at : {"saving"}, paths : SUBSET Markets]
Cache == [rows : SUBSET Aliased, expires : Nat]
Snapshot == [paths : SUBSET Markets, looked : Nat]

SnapshotType ==
  /\ clock \in Nat
  /\ passes \in [Lanes -> Pass]
  /\ aliasTable \subseteq Aliased
  /\ aliasCache = Nothing \/ aliasCache \in Cache
  /\ DOMAIN snapshots = Lanes
  /\ \A l \in Lanes : snapshots[l] = Nothing \/ snapshots[l] \in Snapshot
  /\ {lastSaved, goodAt, wroteAt} \subseteq [Lanes -> Times]
  /\ removedAt \in [Aliased -> Times]

\* What the program believes of its saves is true of the table.
SavesKnown == \A l \in Lanes : lastSaved[l] # Never => wroteAt[l] = lastSaved[l]

\* An alias in hand is still in the table, or left it no earlier than `since`.
Stands(p, since) == p \in aliasTable \/ (removedAt[p] # Never /\ since <= removedAt[p])

QuerySound(pass) ==
  /\ pass.asked <= clock /\ clock <= pass.asked + QueryTime
  /\ \A p \in pass.rows : Stands(p, pass.asked)
LookSound(rows, looked) ==
  /\ looked <= clock
  /\ \A p \in rows : Stands(p, looked - (AliasTTL + QueryTime) + 1)
AliasesSound ==
  aliasCache # Nothing =>
    /\ aliasCache.expires <= clock + AliasTTL
    /\ \A p \in aliasCache.rows : Stands(p, aliasCache.expires - (AliasTTL + QueryTime))
PassSound(l) == /\ passes[l].at = "querying" => QuerySound(passes[l])
                /\ passes[l].at = "building" => LookSound(passes[l].rows, passes[l].looked)
LatestSound(l) == snapshots[l] # Nothing =>
                   LookSound(snapshots[l].paths \cap Aliased, snapshots[l].looked)

\* The inductive invariant. Rows travel from the query to the cache, from either to a pass
\* and from a pass to its snapshot; each carries the time it vouches for.
SnapshotInv ==
  /\ SnapshotType /\ Seeded \subseteq aliasTable
  /\ SavesKnown /\ TableKeepsUp
  /\ AliasesSound /\ \A l \in Lanes : PassSound(l) /\ LatestSound(l)

-----------------------------------------------------------------------------
\* The intervals are positive whole numbers.
LEMMA IntervalsPositive ==
  /\ AliasTTL \in Nat /\ AliasTTL > 0 /\ QueryTime \in Nat /\ QueryTime > 0
  /\ PersistEvery \in Nat /\ PersistEvery > 0
  /\ Seeded \subseteq Aliased /\ Aliased \subseteq Markets
BY SnapshotAssumption DEF SnapshotAssumption

\* A snapshot whose rows were looked up soundly expires in time.
LEMMA SoundExpires ==
  ASSUME SnapshotInv
  PROVE  SnapshotsKeepUp
<1>1. TableKeepsUp
  BY DEF SnapshotInv
<1>2. ASSUME NEW l \in Lanes, snapshots[l] # Nothing, NEW p \in snapshots[l].paths \cap Aliased
      PROVE  \/ p \in aliasTable
             \/ /\ removedAt[p] # Never
                /\ snapshots[l].looked < removedAt[p] + AliasTTL + QueryTime
  <2>1. LookSound(snapshots[l].paths \cap Aliased, snapshots[l].looked)
    BY <1>2 DEF SnapshotInv, LatestSound
  <2>2. snapshots[l].looked \in Nat /\ removedAt[p] \in Times
    BY <1>2 DEF SnapshotInv, SnapshotType, Snapshot
  <2>3. QED BY <2>1, <2>2, IntervalsPositive DEF LookSound, Stands, Times, Never
<1>3. QED BY <1>1, <1>2 DEF SnapshotsKeepUp, AliasesExpire

\* What was vouched for stays so while nothing is edited and time passes.
LEMMA TimePasses ==
  ASSUME SnapshotInv, Elapsed
  PROVE  SnapshotInv'
<1> USE IntervalsPositive
<1>1. /\ clock \in Nat /\ clock' = clock + 1
      /\ UNCHANGED <<passes, aliasVars, snapshots, saved, goodAt, snapshotRestarts>>
      /\ \A l \in Lanes : ~ Overdue(l)
  BY DEF Elapsed, SnapshotInv, SnapshotType
<1>2. SnapshotType' /\ Seeded \subseteq aliasTable' /\ SavesKnown' /\ TableKeepsUp'
  BY <1>1 DEF SnapshotInv, SnapshotType, SavesKnown, TableKeepsUp, aliasVars, saved
<1>3. \A p, since : Stands(p, since)' <=> Stands(p, since)
  BY <1>1 DEF Stands, aliasVars
<1>4. AliasesSound'
  <2>1. aliasCache # Nothing => aliasCache.expires \in Nat
    BY DEF SnapshotInv, SnapshotType, Cache
  <2>2. QED BY <1>1, <1>3, <2>1 DEF SnapshotInv, AliasesSound, aliasVars
<1>5. ASSUME NEW l \in Lanes
      PROVE  PassSound(l)' /\ LatestSound(l)'
  <2>1. passes[l].at = "querying" => passes[l].asked \in Nat
    BY DEF SnapshotInv, SnapshotType, Pass
  <2>2. passes[l].at = "building" => passes[l].looked \in Nat
    BY DEF SnapshotInv, SnapshotType, Pass
  <2>3. snapshots[l] # Nothing => snapshots[l].looked \in Nat
    BY DEF SnapshotInv, SnapshotType, Snapshot
  <2>4. passes[l].at = "querying" => clock < passes[l].asked + QueryTime
    BY <1>1, <2>1 DEF Overdue
  <2>5. QED BY <1>1, <1>3, <2>1, <2>2, <2>3, <2>4
        DEF SnapshotInv, PassSound, LatestSound, QuerySound, LookSound
<1>6. QED BY <1>2, <1>4, <1>5 DEF SnapshotInv

\* Nothing that was vouched for ceases to be by an edit: what leaves the table leaves it now.
LEMMA EditsKeepStanding ==
  ASSUME SnapshotType, NEW p \in Aliased, Add(p) \/ Delete(p)
  PROVE  /\ aliasTable' \subseteq Aliased /\ removedAt' \in [Aliased -> Times]
         /\ Seeded \subseteq aliasTable => Seeded \subseteq aliasTable'
         /\ \A q \in Aliased, since \in Int :
               since <= clock /\ Stands(q, since) => Stands(q, since)'
<1>1. CASE Add(p)
  BY <1>1 DEF Add, SnapshotType, Stands
<1>2. CASE Delete(p)
  <2>1. /\ aliasTable' = aliasTable \ {p} /\ p \notin Seeded
        /\ removedAt' = [removedAt EXCEPT ![p] = clock]
    BY <1>2 DEF Delete
  <2>2. clock \in Nat /\ removedAt \in [Aliased -> Times] /\ aliasTable \subseteq Aliased
    BY DEF SnapshotType
  <2>3. removedAt' \in [Aliased -> Times]
    BY <2>1, <2>2 DEF Times
  <2>4. ASSUME NEW q \in Aliased, NEW since \in Int, since <= clock, Stands(q, since)
        PROVE  Stands(q, since)'
    <3>1. CASE q = p
      BY <2>1, <2>2, <2>4, <3>1 DEF Stands, Never
    <3>2. CASE q # p
      BY <2>1, <2>2, <2>4, <3>2 DEF Stands
    <3>3. QED BY <3>1, <3>2
  <2>5. QED BY <2>1, <2>2, <2>3, <2>4
<1>3. QED BY <1>1, <1>2

\* An edit of the list and what its invalidation does to the caches.
LEMMA EditKeeps ==
  ASSUME SnapshotInv, EditAlias
  PROVE  SnapshotInv'
<1> USE IntervalsPositive
<1>1. PICK p \in Aliased : Add(p) \/ Delete(p)
  BY DEF EditAlias
<1>2. UNCHANGED <<clock, passes, aliasCache, snapshots, saved, goodAt, snapshotRestarts>>
  BY DEF EditAlias
<1>3. /\ aliasTable' \subseteq Aliased /\ removedAt' \in [Aliased -> Times]
      /\ Seeded \subseteq aliasTable'
      /\ \A q \in Aliased, since \in Int :
            since <= clock /\ Stands(q, since) => Stands(q, since)'
  BY <1>1, EditsKeepStanding DEF SnapshotInv
<1>4. SnapshotType' /\ SavesKnown' /\ TableKeepsUp'
  BY <1>2, <1>3 DEF SnapshotInv, SnapshotType, SavesKnown, TableKeepsUp, saved
<1>5. clock \in Nat
  BY DEF SnapshotInv, SnapshotType
<1>6. AliasesSound'
  <2>1. aliasCache # Nothing => aliasCache.expires \in Nat /\ aliasCache.rows \subseteq Aliased
    BY DEF SnapshotInv, SnapshotType, Cache
  <2>2. QED BY <1>2, <1>3, <1>5, <2>1 DEF SnapshotInv, AliasesSound
<1>7. ASSUME NEW l \in Lanes
      PROVE  PassSound(l)' /\ LatestSound(l)'
  <2>1. passes[l].at = "querying" => passes[l].asked \in Nat /\ passes[l].rows \subseteq Aliased
    BY DEF SnapshotInv, SnapshotType, Pass
  <2>2. passes[l].at = "building" => passes[l].looked \in Nat /\ passes[l].rows \subseteq Aliased
    BY DEF SnapshotInv, SnapshotType, Pass
  <2>3. snapshots[l] # Nothing => snapshots[l].looked \in Nat
    BY DEF SnapshotInv, SnapshotType, Snapshot
  <2>4. passes[l].at = "querying" => QuerySound(passes[l])'
    BY <1>2, <1>3, <1>5, <2>1 DEF SnapshotInv, PassSound, QuerySound
  <2>5. passes[l].at = "building" => LookSound(passes[l].rows, passes[l].looked)'
    BY <1>2, <1>3, <1>5, <2>2 DEF SnapshotInv, PassSound, LookSound
  <2>6. snapshots[l] # Nothing => LookSound(snapshots[l].paths \cap Aliased, snapshots[l].looked)'
    BY <1>2, <1>3, <1>5, <2>3 DEF SnapshotInv, LatestSound, LookSound
  <2>7. QED BY <1>2, <2>4, <2>5, <2>6 DEF PassSound, LatestSound
<1>8. QED BY <1>3, <1>4, <1>6, <1>7 DEF SnapshotInv

-----------------------------------------------------------------------------
\* Outside edits and ticks only the pass of a lane, its snapshot and the cache change.
LEMMA PassStepKeeps ==
  ASSUME SnapshotInv, NEW l \in Lanes,
         UNCHANGED <<clock, aliasTable, removedAt>>,
         NEW pass \in Pass, Become(l, pass),
         pass.at = "querying" => QuerySound(pass),
         pass.at = "building" => LookSound(pass.rows, pass.looked),
         aliasCache' = aliasCache \/ (aliasCache' \in Cache /\ AliasesSound'),
         \/ UNCHANGED snapshots
         \/ \E shot \in Snapshot : /\ LookSound(shot.paths \cap Aliased, shot.looked)
                                   /\ snapshots' = [snapshots EXCEPT ![l] = shot],
         {lastSaved', goodAt', wroteAt'} \subseteq [Lanes -> Times],
         SavesKnown', TableKeepsUp'
  PROVE  SnapshotInv'
<1>1. /\ passes \in [Lanes -> Pass] /\ passes' = [passes EXCEPT ![l] = pass]
      /\ DOMAIN snapshots = Lanes
  BY DEF SnapshotInv, SnapshotType, Become
<1>2. \A p, since : Stands(p, since)' <=> Stands(p, since)
  BY DEF Stands
<1>3. /\ \A q : QuerySound(q)' <=> QuerySound(q)
      /\ \A rows, looked : LookSound(rows, looked)' <=> LookSound(rows, looked)
  BY <1>2 DEF QuerySound, LookSound
<1>4. AliasesSound'
  BY <1>2 DEF SnapshotInv, AliasesSound
<1>5. \A k \in Lanes : PassSound(k)'
  BY <1>1, <1>3 DEF SnapshotInv, PassSound
<1>6. /\ DOMAIN snapshots' = Lanes
      /\ \A k \in Lanes : /\ snapshots'[k] = Nothing \/ snapshots'[k] \in Snapshot
                          /\ LatestSound(k)'
  <2>1. CASE UNCHANGED snapshots
    BY <1>1, <1>3, <2>1 DEF SnapshotInv, SnapshotType, LatestSound
  <2>2. ASSUME NEW shot \in Snapshot, LookSound(shot.paths \cap Aliased, shot.looked),
               snapshots' = [snapshots EXCEPT ![l] = shot]
        PROVE  /\ DOMAIN snapshots' = Lanes
               /\ \A k \in Lanes : /\ snapshots'[k] = Nothing \/ snapshots'[k] \in Snapshot
                                   /\ LatestSound(k)'
    <3>1. \A k \in Lanes : snapshots'[k] = IF k = l THEN shot ELSE snapshots[k]
      BY <1>1, <2>2
    <3>2. QED BY <1>1, <1>3, <2>2, <3>1 DEF SnapshotInv, SnapshotType, LatestSound
  <2>3. QED BY <2>1, <2>2
<1>7. SnapshotType'
  BY <1>1, <1>6 DEF SnapshotInv, SnapshotType
<1>8. QED BY <1>4, <1>5, <1>6, <1>7 DEF SnapshotInv

\* A pass looks the aliases up.
LEMMA LookupKeeps ==
  ASSUME SnapshotInv, NEW l \in Lanes,
         PairFromCache(l) \/ QueryAliases(l) \/ CacheAliases(l)
  PROVE  SnapshotInv'
<1> USE IntervalsPositive
<1>1. /\ UNCHANGED <<clock, aliasTable, removedAt, snapshots, lastSaved, goodAt, wroteAt>>
      /\ clock \in Nat /\ passes[l] \in Pass
  BY DEF PairFromCache, QueryAliases, CacheAliases, aliasVars, saved, SnapshotInv, SnapshotType
<1>2. {lastSaved', goodAt', wroteAt'} \subseteq [Lanes -> Times] /\ SavesKnown' /\ TableKeepsUp'
  BY <1>1 DEF SnapshotInv, SnapshotType, SavesKnown, TableKeepsUp
<1>3. CASE PairFromCache(l)
  <2> DEFINE pass == [at |-> "building", rows |-> aliasCache.rows, looked |-> clock]
  <2>1. aliasCache \in Cache /\ clock < aliasCache.expires /\ AliasesSound
    BY <1>3 DEF PairFromCache, AliasesValid, SnapshotInv, SnapshotType
  <2>2. aliasCache.rows \subseteq Aliased /\ aliasCache.expires \in Nat /\ aliasCache # Nothing
    BY <1>3, <2>1 DEF Cache, PairFromCache, AliasesValid
  <2>3. LookSound(aliasCache.rows, clock)
    <3>1. ASSUME NEW p \in aliasCache.rows PROVE Stands(p, clock - (AliasTTL + QueryTime) + 1)
      <4>1. Stands(p, aliasCache.expires - (AliasTTL + QueryTime)) /\ removedAt[p] \in Times
        BY <2>1, <2>2 DEF AliasesSound, SnapshotInv, SnapshotType
      <4>2. QED BY <1>1, <2>1, <2>2, <4>1 DEF Stands, Times, Never
    <3>2. QED BY <1>1, <3>1 DEF LookSound
  <2>4. /\ pass \in Pass /\ pass.at = "building" /\ pass.rows = aliasCache.rows
        /\ pass.looked = clock
    BY <1>1, <2>2 DEF Pass
  <2>5. Become(l, pass) /\ aliasCache' = aliasCache
    BY <1>3 DEF PairFromCache, aliasVars
  <2> HIDE DEF pass
  <2>6. QED BY <1>1, <1>2, <2>3, <2>4, <2>5, PassStepKeeps
<1>4. CASE QueryAliases(l)
  <2>1. PICK rows \in {aliasTable, Seeded} :
          Become(l, [at |-> "querying", asked |-> clock, rows |-> rows])
    BY <1>4 DEF QueryAliases
  <2> DEFINE pass == [at |-> "querying", asked |-> clock, rows |-> rows]
  <2>2. rows \subseteq aliasTable /\ rows \subseteq Aliased
    BY DEF SnapshotInv, SnapshotType
  <2>3. /\ pass \in Pass /\ pass.at = "querying" /\ pass.asked = clock /\ pass.rows = rows
    BY <1>1, <2>2 DEF Pass
  <2>4. Become(l, pass) /\ aliasCache' = aliasCache
    BY <1>4, <2>1 DEF QueryAliases, aliasVars
  <2> HIDE DEF pass
  <2>5. QuerySound(pass)
    BY <1>1, <2>2, <2>3 DEF QuerySound, Stands
  <2>6. QED BY <1>1, <1>2, <2>3, <2>4, <2>5, PassStepKeeps
<1>5. CASE CacheAliases(l)
  <2> DEFINE rows == passes[l].rows
             asked == passes[l].asked
             pass == [at |-> "building", rows |-> rows, looked |-> clock]
             cache == [rows |-> rows, expires |-> clock + AliasTTL]
  <2>1. passes[l].at = "querying" /\ QuerySound(passes[l])
    BY <1>5 DEF CacheAliases, SnapshotInv, PassSound
  <2>2. rows \subseteq Aliased /\ asked \in Nat
    BY <1>1, <2>1 DEF Pass
  <2>3. ASSUME NEW p \in rows
        PROVE  /\ Stands(p, clock - (AliasTTL + QueryTime) + 1)
               /\ Stands(p, (clock + AliasTTL) - (AliasTTL + QueryTime))
    <3>1. Stands(p, asked) /\ removedAt[p] \in Times
      BY <2>1, <2>2 DEF QuerySound, SnapshotInv, SnapshotType
    <3>2. clock <= asked + QueryTime
      BY <2>1 DEF QuerySound
    <3>3. QED BY <1>1, <2>2, <3>1, <3>2 DEF Stands, Times, Never
  <2>4. /\ pass \in Pass /\ pass.at = "building" /\ pass.rows = rows /\ pass.looked = clock
        /\ cache \in Cache /\ cache.rows = rows /\ cache.expires = clock + AliasTTL
    BY <1>1, <2>2 DEF Pass, Cache
  <2>5. Become(l, pass) /\ aliasCache' = cache
    BY <1>5 DEF CacheAliases
  <2> HIDE DEF pass, cache, rows
  <2>6. LookSound(rows, clock)
    BY <1>1, <2>3 DEF LookSound
  <2>7. AliasesSound'
    <3>1. \A p, since : Stands(p, since)' <=> Stands(p, since)
      BY <1>1 DEF Stands
    <3>2. QED BY <1>1, <2>3, <2>4, <2>5, <3>1 DEF AliasesSound
  <2>8. QED BY <1>1, <1>2, <2>4, <2>5, <2>6, <2>7, PassStepKeeps
<1>6. QED BY <1>3, <1>4, <1>5

\* A pass publishes, saves or raises.
LEMMA EndKeeps ==
  ASSUME SnapshotInv, NEW l \in Lanes, PublishTable(l) \/ Raise(l) \/ Save(l)
  PROVE  SnapshotInv'
<1> USE IntervalsPositive
<1>1. /\ UNCHANGED <<clock, aliasTable, removedAt, aliasCache>>
      /\ clock \in Nat /\ passes[l] \in Pass
      /\ {lastSaved, goodAt, wroteAt} \subseteq [Lanes -> Times]
      /\ SavesKnown /\ TableKeepsUp
  BY DEF PublishTable, Raise, Save, aliasVars, saved, SnapshotInv, SnapshotType
<1>2. LaneIdle \in Pass /\ LaneIdle.at = "idle"
  BY DEF LaneIdle, Pass
<1>3. CASE PublishTable(l)
  <2>1. PICK paths \in SUBSET Pairable(passes[l].rows) :
          /\ snapshots' = [snapshots EXCEPT ![l] = [paths |-> paths, looked |-> passes[l].looked]]
          /\ IF SaveDue(l) THEN Become(l, [at |-> "saving", paths |-> paths]) /\ UNCHANGED goodAt
             ELSE EndPass(l, TRUE)
    BY <1>3 DEF PublishTable
  <2> DEFINE shot == [paths |-> paths, looked |-> passes[l].looked]
             pass == IF SaveDue(l) THEN [at |-> "saving", paths |-> paths] ELSE LaneIdle
  <2>2. /\ passes[l].at = "building" /\ UNCHANGED <<lastSaved, wroteAt>>
        /\ LookSound(passes[l].rows, passes[l].looked)
    BY <1>3 DEF PublishTable, saved, SnapshotInv, PassSound
  <2>3. passes[l].rows \subseteq Aliased /\ passes[l].looked \in Nat
    BY <1>1, <2>2 DEF Pass
  <2>4. paths \subseteq Markets /\ paths \cap Aliased \subseteq passes[l].rows
    BY <2>3 DEF Pairable
  <2>5. /\ shot \in Snapshot /\ shot.paths = paths /\ shot.looked = passes[l].looked
        /\ snapshots' = [snapshots EXCEPT ![l] = shot]
    BY <2>1, <2>3, <2>4 DEF Snapshot
  <2>6. pass \in Pass /\ pass.at \in {"idle", "saving"} /\ Become(l, pass)
    BY <1>2, <2>1, <2>4 DEF Pass, EndPass
  <2> HIDE DEF shot, pass
  <2>7. LookSound(shot.paths \cap Aliased, shot.looked)
    BY <2>2, <2>4, <2>5 DEF LookSound
  <2>8. goodAt' \in [Lanes -> Times] /\ TableKeepsUp'
    <3>1. CASE SaveDue(l)
      BY <1>1, <2>1, <2>2, <3>1 DEF TableKeepsUp
    <3>2. CASE ~ SaveDue(l)
      <4>1. goodAt' = [goodAt EXCEPT ![l] = clock]
        BY <2>1, <3>2 DEF EndPass
      <4>2. /\ lastSaved[l] # Never /\ wroteAt[l] = lastSaved[l] /\ lastSaved[l] \in Nat
            /\ clock - lastSaved[l] < PersistEvery
        BY <1>1, <3>2 DEF SaveDue, SavesKnown, Times
      <4>3. QED BY <1>1, <2>2, <4>1, <4>2 DEF TableKeepsUp, Times
    <3>3. QED BY <3>1, <3>2
  <2>9. SavesKnown' /\ {lastSaved', goodAt', wroteAt'} \subseteq [Lanes -> Times]
    BY <1>1, <2>2, <2>8 DEF SavesKnown
  <2>10. QED BY <1>1, <2>5, <2>6, <2>7, <2>8, <2>9, PassStepKeeps
<1>4. CASE Raise(l)
  <2>1. Become(l, LaneIdle) /\ UNCHANGED <<snapshots, lastSaved, goodAt, wroteAt>>
    BY <1>4 DEF Raise, EndPass, Unsaved
  <2>2. SavesKnown' /\ TableKeepsUp'
    BY <1>1, <2>1 DEF SavesKnown, TableKeepsUp
  <2>3. QED BY <1>1, <1>2, <2>1, <2>2, PassStepKeeps
<1>5. CASE Save(l)
  <2>1. /\ Become(l, LaneIdle) /\ UNCHANGED snapshots
        /\ lastSaved' = [lastSaved EXCEPT ![l] = clock]
        /\ goodAt' = [goodAt EXCEPT ![l] = clock]
        /\ wroteAt' = [wroteAt EXCEPT ![l] = clock]
    BY <1>5 DEF Save, EndPass, Saving
  <2>2. SavesKnown' /\ TableKeepsUp' /\ {lastSaved', goodAt', wroteAt'} \subseteq [Lanes -> Times]
    BY <1>1, <2>1 DEF SavesKnown, TableKeepsUp, Times, Never
  <2>3. QED BY <1>1, <1>2, <2>1, <2>2, PassStepKeeps
<1>6. QED BY <1>3, <1>4, <1>5

\* Clearing the cache or the snapshots, or a restart, leaves nothing to vouch for.
LEMMA ClearingKeeps ==
  ASSUME SnapshotInv, Invalidate \/ ClearSnapshots \/ SnapshotRestart
  PROVE  SnapshotInv'
<1>1. /\ UNCHANGED <<clock, aliasTable, removedAt, wroteAt>>
      /\ passes' = passes \/ passes' = AllIdle
      /\ aliasCache' = aliasCache \/ aliasCache' = Nothing
      /\ snapshots' = snapshots \/ snapshots' = Cleared
      /\ UNCHANGED <<lastSaved, goodAt>> \/ (lastSaved' = NoneYet /\ goodAt' = NoneYet)
  BY DEF Invalidate, ClearSnapshots, SnapshotRestart, saved
<1>2. /\ \A p, since : Stands(p, since)' <=> Stands(p, since)
  BY <1>1 DEF Stands
<1>3. /\ \A q : QuerySound(q)' <=> QuerySound(q)
      /\ \A rows, looked : LookSound(rows, looked)' <=> LookSound(rows, looked)
  BY <1>1, <1>2 DEF QuerySound, LookSound
<1>4. AliasesSound'
  BY <1>1, <1>2 DEF SnapshotInv, AliasesSound
<1>5. passes' \in [Lanes -> Pass] /\ \A l \in Lanes : PassSound(l)'
  BY <1>1, <1>3 DEF SnapshotInv, SnapshotType, PassSound, AllIdle, LaneIdle, Pass
<1>6. /\ DOMAIN snapshots' = Lanes
      /\ \A l \in Lanes : /\ snapshots'[l] = Nothing \/ snapshots'[l] \in Snapshot
                          /\ LatestSound(l)'
  BY <1>1, <1>3 DEF SnapshotInv, SnapshotType, LatestSound, Cleared
<1>7. /\ SavesKnown' /\ TableKeepsUp' /\ {lastSaved', goodAt', wroteAt'} \subseteq [Lanes -> Times]
  BY <1>1 DEF SnapshotInv, SnapshotType, SavesKnown, TableKeepsUp, NoneYet, Times
<1>8. SnapshotType'
  BY <1>1, <1>5, <1>6, <1>7 DEF SnapshotInv, SnapshotType
<1>9. QED BY <1>1, <1>4, <1>5, <1>6, <1>7, <1>8 DEF SnapshotInv

-----------------------------------------------------------------------------
\* At first nothing runs, is cached, shown or saved.
LEMMA SnapshotInitHolds == SnapshotInit => SnapshotInv
<1> SUFFICES ASSUME SnapshotInit PROVE SnapshotInv
  OBVIOUS
<1>1. SnapshotType /\ Seeded \subseteq aliasTable
  BY DEF SnapshotInit, SnapshotType, AllIdle, LaneIdle, Pass, Cleared, NoneYet, Times
<1>2. SavesKnown /\ TableKeepsUp /\ AliasesSound
  BY DEF SnapshotInit, SavesKnown, TableKeepsUp, AliasesSound, NoneYet
<1>3. \A l \in Lanes : PassSound(l) /\ LatestSound(l)
  BY DEF SnapshotInit, PassSound, LatestSound, AllIdle, LaneIdle, Cleared
<1>4. QED BY <1>1, <1>2, <1>3 DEF SnapshotInv

\* Every step of the lanes, the editors and the clock keeps the invariant.
LEMMA SnapshotStepKeeps ==
  ASSUME SnapshotInv, [SnapshotNext]_snapshotVars
  PROVE  SnapshotInv'
<1>1. ASSUME NEW l \in Lanes, \/ PairFromCache(l) \/ QueryAliases(l) \/ CacheAliases(l)
                              \/ PublishTable(l) \/ Raise(l) \/ Save(l)
      PROVE  SnapshotInv'
  BY <1>1, LookupKeeps, EndKeeps
<1>2. CASE UNCHANGED snapshotVars
  BY <1>2 DEF snapshotVars, aliasVars, saved, SnapshotInv, SnapshotType, SavesKnown, TableKeepsUp,
     AliasesSound, PassSound, LatestSound, QuerySound, LookSound, Stands
<1>3. QED BY <1>1, <1>2, EditKeeps, ClearingKeeps, TimePasses DEF SnapshotNext

\* While passes complete, no saved snapshot is older than the interval of saves, and no
\* pass pairs by an alias removed longer ago than the list is cached and a query may take,
\* for all lanes, paths, intervals, failures, edits and restarts (app.py: symbol_alias_rows,
\* the ends of spot_futures_snapshot and dual_futures_snapshot).
THEOREM SnapshotsAreRecent == SnapshotSpec => []SnapshotsKeepUp
<1>1. SnapshotSpec => []SnapshotInv
  BY SnapshotInitHolds, SnapshotStepKeeps, PTL DEF SnapshotSpec
<1>2. SnapshotInv => SnapshotsKeepUp
  BY SoundExpires
<1>3. QED BY <1>1, <1>2, PTL

-----------------------------------------------------------------------------
(* Settled funding. *)

-----------------------------------------------------------------------------
\* A set of naturals has a least element.
LEMMA LeastExists ==
  ASSUME NEW S, S \subseteq Nat, S # {}
  PROVE  \E m \in S : \A u \in S : m <= u
<1>1. PICK m \in S : \A u \in S : ~ (<<u, m>> \in OpToRel(<, Nat))
  BY NatLessThanWellFounded, WFMin
<1>2. \A u \in S : ~ (u < m)
  BY <1>1 DEF OpToRel
<1>3. QED BY <1>2

\* And a bounded one a greatest.
LEMMA GreatestExists ==
  ASSUME NEW n \in Nat, NEW S, S \subseteq 0 .. n, S # {}
  PROVE  \E m \in S : \A u \in S : u <= m
<1> DEFINE Mirrored == {w \in 0 .. n : n - w \in S}
<1>1. PICK v \in S : TRUE
  OBVIOUS
<1>2. Mirrored \subseteq Nat /\ Mirrored # {}
  <2>1. v \in 0 .. n /\ n - (n - v) = v
    BY <1>1
  <2>2. n - v \in Mirrored
    BY <2>1
  <2>3. \A w \in Mirrored : w \in Nat
    OBVIOUS
  <2>4. QED BY <2>2, <2>3
<1>3. PICK m \in Mirrored : \A w \in Mirrored : m <= w
  <2> HIDE DEF Mirrored
  <2>1. QED BY <1>2, LeastExists
<1>4. \A u \in S : n - u \in Mirrored
  OBVIOUS
<1>5. \A u \in S : u <= n - m
  BY <1>3, <1>4
<1>6. QED BY <1>3, <1>5

\* What Smallest gives.
LEMMA SmallestIs ==
  ASSUME NEW S, S \subseteq Nat, NEW most \in Nat
  PROVE  /\ Smallest(S, most) \in S \cup {most}
         /\ \A u \in S : Smallest(S, most) <= u
<1>1. \E m \in S \cup {most} : \A u \in S \cup {most} : m <= u
  BY LeastExists
<1>2. \E m \in S \cup {most} : \A u \in S \cup {most} : u >= m
  BY <1>1
<1>3. QED BY <1>2 DEF Smallest

\* A page holds the newest rows; one with less than AnswerSize rows holds them all.
Page(older) == {s \in older : Cardinality({u \in older : u > s}) < AnswerSize}
\* It is closed upwards among what is left, and a short one is all of it.
LEMMA PageIs ==
  ASSUME NEW n \in Nat, NEW older, older \subseteq 0 .. n
  PROVE  /\ \A s \in Page(older), u \in older : u > s => u \in Page(older)
         /\ Cardinality(Page(older)) < AnswerSize => Page(older) = older
<1> DEFINE Later(s) == {u \in older : u > s}
<1>1. \A S \in SUBSET older : IsFiniteSet(S) /\ Cardinality(S) \in Nat
  <2>1. IsFiniteSet(0 .. n)
    BY FS_Interval
  <2>2. QED BY <2>1, FS_Subset, FS_CardinalityType
<1>2. ASSUME NEW S \in SUBSET older, NEW T \in SUBSET S
      PROVE  Cardinality(T) <= Cardinality(S)
  BY <1>1, <1>2, FS_Subset
<1>3. AnswerSize \in Nat /\ older \subseteq Int /\ Page(older) \subseteq older
  BY FundingAssumption DEF FundingAssumption, Page
<1>4. ASSUME NEW s \in Page(older), NEW u \in older, u > s
      PROVE  u \in Page(older)
  <2>1. ASSUME NEW v \in Later(u) PROVE v \in Later(s)
    <3>1. v \in older /\ v > u /\ v \in Int /\ u \in Int /\ s \in Int
      BY <1>3, <1>4
    <3>2. QED BY <3>1, <1>4
  <2>2. Cardinality(Later(u)) <= Cardinality(Later(s))
    BY <2>1, <1>2
  <2>3. Cardinality(Later(s)) < AnswerSize
    BY <1>4 DEF Page
  <2>4. Cardinality(Later(u)) \in Nat /\ Cardinality(Later(s)) \in Nat
    BY <1>1
  <2>5. Cardinality(Later(u)) < AnswerSize
    BY <2>2, <2>3, <2>4, <1>3
  <2>6. QED BY <2>5 DEF Page
<1>5. ASSUME Cardinality(Page(older)) < AnswerSize, Page(older) # older
      PROVE  FALSE
  <2> DEFINE Left == older \ Page(older)
  <2>1. Left # {} /\ Left \subseteq 0 .. n
    BY <1>5 DEF Page
  <2>2. PICK s \in Left : \A u \in Left : u <= s
    BY <2>1, GreatestExists
  <2>3. ASSUME NEW v \in Later(s) PROVE v \in Page(older)
    <3>1. v \in older /\ v > s /\ v \in Int /\ s \in Int
      BY <1>3, <2>2
    <3>2. QED BY <3>1, <2>2
  <2>4. Cardinality(Later(s)) <= Cardinality(Page(older))
    BY <2>3, <1>2 DEF Page
  <2>5. Cardinality(Later(s)) \in Nat /\ Cardinality(Page(older)) \in Nat
    BY <1>1 DEF Page
  <2>6. Cardinality(Later(s)) < AnswerSize
    BY <2>4, <2>5, <1>5, <1>3
  <2>7. QED BY <2>2, <2>6 DEF Page
<1>6. QED BY <1>4, <1>5

-----------------------------------------------------------------------------
State == [attempt : Int, success : Int, full : Int, retry : Int, failures : Int,
          missing : Int, expected : Int, vouch : SUBSET Nat]
Steps == {"queued", "asking", "read", "out_of_pages"}
FetchType == [full : BOOLEAN, at : Steps, end : Nat, cursor : Nat, pages : Int,
              got : SUBSET Nat, basis : SUBSET Nat]

\* A fetch that has begun has read all that had been published, back to its cursor or,
\* when it is done, back to the start of its period.
FetchSound(f, rows, now) ==
  /\ f \in FetchType /\ f.got \subseteq rows
  /\ f.at # "queued" =>
       /\ f.end <= now /\ f.cursor <= f.end + 1 /\ f.basis \subseteq rows \cap (1 .. f.end)
       /\ f.at = "asking" => \A s \in f.basis : s >= f.cursor /\ s >= Since(f) => s \in f.got
       /\ f.at = "read" => \A s \in f.basis : s >= Since(f) => s \in f.got

\* What a state vouches for was published, and is in the table as long as it is summed.
StateSound(s, rows, table, now) ==
  /\ s \in State /\ s.vouch \subseteq rows
  /\ \A u \in s.vouch : u > now - SummedOf => u \in table

BatchShape ==
  /\ batch = [began |-> batch.began, latest |-> batch.latest, fetches |-> batch.fetches]
  /\ batch.began \in Int /\ batch.began <= t
  /\ batch.fetches = [k \in DOMAIN batch.fetches |-> batch.fetches[k]]

TablesSound ==
  /\ t \in Nat /\ t <= LastTime
  /\ published \in [Contracts -> SUBSET (1 .. t)] /\ stored \in [Contracts -> SUBSET Nat]
  /\ states \in [Contracts -> State] /\ checkpoint \in [Contracts -> State]

\* A crash may load the checkpoint at any time, so what it vouches for is bounded by the
\* table of the present.
FundingInv ==
  /\ TablesSound /\ BatchShape
  /\ \A k \in Contracts :
       /\ stored[k] \subseteq published[k]
       /\ StateSound(states[k], published[k], stored[k], t)
       /\ StateSound(checkpoint[k], published[k], stored[k], t)
       /\ k \in DOMAIN batch.fetches => FetchSound(batch.fetches[k], published[k], t)

\* The bounds of time are numbers, and sums reach less far back than histories.
LEMMA Bounds ==
  /\ t \in Int => Expected(t) \in Int
  /\ Lately \in Nat /\ Window \in Nat /\ SummedOf \in Nat /\ SummedOf < Window
  /\ \A n \in Int : PauseOf(n) \in Int
  /\ AnswerSize \in Nat \ {0}
<1>1. Period \in Nat \ {0} /\ {Lately, Window, SummedOf, LongestPause} \subseteq Nat /\ SummedOf < Window
      /\ AnswerSize \in Nat \ {0}
  BY FundingAssumption DEF FundingAssumption
<1>2. ASSUME t \in Int PROVE Expected(t) \in Int
  <2>1. t \div Period \in Int
    BY <1>1, <1>2
  <2>2. QED BY <1>1, <2>1 DEF Expected
<1>3. QED BY <1>1, <1>2 DEF PauseOf, Shorter

\* A fetch stays sound as more is published and time passes.
LEMMA FetchStays ==
  ASSUME NEW f, NEW rows, NEW more, rows \subseteq more, NEW now \in Int, NEW later \in Int,
         now <= later, FetchSound(f, rows, now)
  PROVE  FetchSound(f, more, later)
BY DEF FetchSound, FetchType

\* A state stays sound as more is published and stored, and time passes.
LEMMA StateStays ==
  ASSUME NEW s, NEW rows, NEW more, rows \subseteq more, NEW now \in Int, NEW later \in Int,
         now <= later, NEW table, NEW larger, table \subseteq larger, StateSound(s, rows, table, now)
  PROVE  StateSound(s, more, larger, later)
BY Bounds DEF StateSound, State

\* The collector starts with an empty table and vouches for nothing.
LEMMA FundingInitSound == FundingInit => FundingInv
<1> SUFFICES ASSUME FundingInit PROVE FundingInv
  OBVIOUS
<1>1. FirstTime \in Nat /\ LastTime \in Nat /\ FirstTime <= LastTime
  BY FundingAssumption DEF FundingAssumption
<1>2. NeverSynced \in State /\ NeverSynced.vouch = {}
  BY DEF NeverSynced, State
<1>3. TablesSound
  BY <1>1, <1>2 DEF FundingInit, TablesSound, Settlements
<1>4. BatchShape
  BY <1>1 DEF FundingInit, BatchShape, NoBatch
<1>5. QED
  BY <1>2, <1>3, <1>4 DEF FundingInit, FundingInv, StateSound, NoBatch
-----------------------------------------------------------------------------
\* A step that changes one fetch and nothing else.
LEMMA FetchReplaced ==
  ASSUME FundingInv, NEW k \in DOMAIN batch.fetches, NEW f,
         batch' = [batch EXCEPT !.fetches[k] = f],
         UNCHANGED <<t, published, stored, states, checkpoint>>,
         k \in Contracts => FetchSound(f, published[k], t)
  PROVE  FundingInv'
<1>1. batch' = [began |-> batch.began, latest |-> batch.latest,
                fetches |-> [batch.fetches EXCEPT ![k] = f]]
  BY DEF FundingInv, BatchShape
<1>2. batch.fetches = [j \in DOMAIN batch.fetches |-> batch.fetches[j]]
  BY DEF FundingInv, BatchShape
<1>3. DOMAIN batch'.fetches = DOMAIN batch.fetches
  BY <1>1
<1>4. \A j \in DOMAIN batch.fetches : batch'.fetches[j] = IF j = k THEN f ELSE batch.fetches[j]
  BY <1>1, <1>2
<1>5. BatchShape'
  BY <1>1, <1>2, <1>3 DEF FundingInv, BatchShape
<1>6. TablesSound'
  BY DEF FundingInv, TablesSound
<1>7. ASSUME NEW j \in Contracts, j \in DOMAIN batch'.fetches
      PROVE  FetchSound(batch'.fetches[j], published'[j], t')
  BY <1>3, <1>4, <1>7 DEF FundingInv
<1>8. QED BY <1>5, <1>6, <1>7 DEF FundingInv, StateSound

\* The first page of a fetch ends at the present, the next one where the last began.
LEMMA AskedIs ==
  ASSUME FundingInv, NEW k \in Contracts, k \in DOMAIN batch.fetches,
         Fetch(k).at \in {"queued", "asking"}
  PROVE  Asked(k).at = "asking" /\ FetchSound(Asked(k), published[k], t)
<1>1. FetchSound(batch.fetches[k], published[k], t) /\ published[k] \subseteq 1 .. t /\ t \in Nat
  BY DEF FundingInv, TablesSound
<1>2. CASE Fetch(k).at = "queued"
  <2>1. Asked(k) = [batch.fetches[k] EXCEPT !.at = "asking", !.end = t, !.cursor = t + 1,
                                            !.basis = published[k]]
    BY <1>2 DEF Asked, Fetch
  <2>2. batch.fetches[k] \in FetchType /\ batch.fetches[k].got \subseteq published[k]
    BY <1>1 DEF FetchSound
  <2>3. published[k] \in SUBSET Nat /\ t + 1 \in Nat /\ "asking" \in Steps
    BY <1>1 DEF Steps
  <2>4. Asked(k) \in FetchType
    BY <1>1, <2>1, <2>2, <2>3 DEF FetchType
  <2>5. /\ Asked(k).at = "asking" /\ Asked(k).end = t /\ Asked(k).cursor = t + 1
        /\ Asked(k).basis = published[k] /\ Asked(k).got = batch.fetches[k].got
    BY <2>1, <2>2 DEF FetchType
  <2>6. \A s \in published[k] : ~ (s >= t + 1)
    BY <1>1
  <2>7. QED BY <1>1, <2>2, <2>4, <2>5, <2>6 DEF FetchSound
<1>3. CASE Fetch(k).at = "asking"
  <2>1. Asked(k) = batch.fetches[k]
    BY <1>3 DEF Asked, Fetch
  <2>2. QED BY <1>1, <1>3, <2>1 DEF Fetch
<1>4. QED BY <1>2, <1>3

\* One more page: what it holds is the newest of what is left, so that nothing of what had
\* been published lies between the page and the last one.
LEMMA PageReadSound ==
  ASSUME NEW f, NEW rows, NEW now \in Nat, rows \subseteq 1 .. now,
         f.at = "asking", FetchSound(f, rows, now),
         NEW page, page = Page({s \in rows : s < f.cursor}),
         NEW read, read = [f EXCEPT !.pages = @ + 1, !.got = @ \cup {s \in page : s >= Since(f)},
                                    !.cursor = Smallest(page, f.end)],
         NEW at \in {"asking", "read", "out_of_pages"},
         at = "read" => PageSuffices(f, page),
         at = "asking" => ~ PageSuffices(f, page)
  PROVE  FetchSound([read EXCEPT !.at = at], rows, now)
<1> DEFINE older == {s \in rows : s < f.cursor}
<1> DEFINE next == [read EXCEPT !.at = at]
<1>1. f \in FetchType /\ f.end \in Nat /\ f.cursor \in Nat /\ f.end <= now /\ f.cursor <= f.end + 1
  BY DEF FetchSound, FetchType
<1>2. f.basis \subseteq rows /\ f.basis \subseteq 1 .. f.end /\ f.got \subseteq rows /\ f.got \subseteq Nat
  BY DEF FetchSound, FetchType
<1>3. older \subseteq 0 .. now
  OBVIOUS
<1>4. /\ page \subseteq older /\ page \subseteq Nat
      /\ \A s \in page, u \in older : u > s => u \in page
      /\ Cardinality(page) < AnswerSize => page = older
  <2>1. page = Page(older)
    OBVIOUS
  <2> HIDE DEF older
  <2>2. page \subseteq older
    BY <2>1 DEF Page
  <2>3. /\ \A s \in Page(older), u \in older : u > s => u \in Page(older)
        /\ Cardinality(Page(older)) < AnswerSize => Page(older) = older
    BY <1>3, PageIs
  <2>4. page \subseteq Nat
    BY <1>3, <2>2
  <2>5. QED BY <2>1, <2>2, <2>3, <2>4
<1>5. /\ Smallest(page, f.end) \in page \cup {f.end} /\ Smallest(page, f.end) \in Nat
      /\ Smallest(page, f.end) <= f.end /\ \A u \in page : Smallest(page, f.end) <= u
  <2>1. /\ Smallest(page, f.end) \in page \cup {f.end}
        /\ \A u \in page : Smallest(page, f.end) <= u
    BY <1>1, <1>4, SmallestIs
  <2>2. \A u \in page : u <= f.end
    BY <1>1, <1>4
  <2>3. QED BY <2>1, <2>2, <1>1, <1>4
<1>6. /\ next \in FetchType /\ next.at = at /\ next.end = f.end /\ next.basis = f.basis
      /\ next.full = f.full
      /\ next.got = f.got \cup {s \in page : s >= Since(f)}
      /\ next.cursor = Smallest(page, f.end)
  <2> DEFINE got == f.got \cup {s \in page : s >= Since(f)}
  <2>1. got \in SUBSET Nat /\ at \in Steps
    BY <1>2, <1>4 DEF Steps
  <2>2. next = [f EXCEPT !.pages = @ + 1, !.got = got, !.cursor = Smallest(page, f.end), !.at = at]
    BY <1>1 DEF FetchType
  <2> HIDE DEF got, next
  <2>3. f.pages + 1 \in Int
    BY <1>1 DEF FetchType
  <2>4. next \in FetchType
    BY <1>1, <1>5, <2>1, <2>2, <2>3 DEF FetchType
  <2>5. /\ next.at = at /\ next.end = f.end /\ next.basis = f.basis
        /\ next.full = f.full /\ next.got = got /\ next.cursor = Smallest(page, f.end)
    BY <1>1, <2>2 DEF FetchType
  <2>6. QED BY <2>4, <2>5 DEF got
<1> HIDE DEF next
<1>7. Since(next) = Since(f)
  BY <1>6 DEF Since
<1>8. ASSUME NEW s \in f.basis, s >= Smallest(page, f.end) \/ page = older, s >= Since(f)
      PROVE  s \in next.got
  <2>1. CASE s >= f.cursor
    BY <2>1, <1>8, <1>6 DEF FetchSound
  <2>2. CASE ~ (s >= f.cursor)
    <3>1. s \in older /\ s \in Nat
      BY <2>2, <1>1, <1>2
    <3>2. CASE page = older
      BY <3>1, <3>2, <1>6, <1>8
    <3>3. CASE page # older /\ s >= Smallest(page, f.end)
      <4>1. page # {}
        <5>1. page = {} => Cardinality(page) = 0
          BY FS_EmptySet
        <5>2. QED BY <5>1, <1>4, <3>3, Bounds
      <4>2. Smallest(page, f.end) \in page
        BY <4>1, <1>4, <1>5, <1>1
      <4>3. s = Smallest(page, f.end) \/ s > Smallest(page, f.end)
        BY <3>1, <3>3, <1>5
      <4>4. s \in page
        BY <4>2, <4>3, <3>1, <1>4
      <4>5. QED BY <4>4, <1>6, <1>8
    <3>4. QED BY <3>2, <3>3, <1>8
  <2>3. QED BY <2>1, <2>2
<1>9. /\ next \in FetchType /\ next.got \subseteq rows /\ next.end <= now
      /\ next.cursor <= next.end + 1 /\ next.basis \subseteq rows \cap (1 .. next.end)
  <2>1. next.cursor <= next.end + 1
    BY <1>1, <1>5, <1>6
  <2>2. next.got \subseteq rows
    BY <1>2, <1>4, <1>6
  <2>3. QED BY <1>1, <1>2, <1>6, <2>1, <2>2
<1>10. ASSUME at = "out_of_pages" PROVE FetchSound(next, rows, now)
  BY <1>6, <1>9, <1>10 DEF FetchSound
<1>12. ASSUME at = "asking" PROVE FetchSound(next, rows, now)
  BY <1>6, <1>7, <1>8, <1>9, <1>12 DEF FetchSound
<1>11. ASSUME at = "read" PROVE FetchSound(next, rows, now)
  <2>1. ASSUME NEW s \in f.basis, s >= Since(f) PROVE s \in next.got
    <3>1. s \in Int /\ Since(f) \in Int
      BY <1>1, <1>2, Bounds DEF Since, FetchType
    <3>2. page = older \/ Smallest(page, f.end) <= Since(f)
      BY <1>4, <1>11 DEF PageSuffices
    <3>3. page = older \/ s >= Smallest(page, f.end)
      BY <3>1, <3>2, <1>5, <2>1
    <3>4. QED BY <3>3, <1>8, <2>1
  <2>2. QED BY <1>6, <1>7, <1>9, <1>11, <2>1 DEF FetchSound
<1>13. QED BY <1>10, <1>11, <1>12 DEF next

\* A page is added to what a fetch has.
LEMMA AskSound == ASSUME FundingInv, NEW k \in DOMAIN batch.fetches, Ask(k) PROVE FundingInv'
<1> DEFINE f == Asked(k)
           page == PageOf(k, f)
           read == [f EXCEPT !.pages = @ + 1, !.got = @ \cup {s \in page : s >= Since(f)},
                             !.cursor = Smallest(page, f.end)]
           at == IF PageSuffices(f, page) THEN "read"
                 ELSE IF read.pages < Pages THEN "asking" ELSE "out_of_pages"
<1>1. /\ Fetch(k).at \in {"queued", "asking"}
      /\ batch' = [batch EXCEPT !.fetches[k] = [read EXCEPT !.at = at]]
      /\ UNCHANGED <<t, published, stored, states, checkpoint>>
  BY DEF Ask
<1>2. ASSUME k \in Contracts PROVE FetchSound([read EXCEPT !.at = at], published[k], t)
  <2>1. f.at = "asking" /\ FetchSound(f, published[k], t)
    BY <1>1, <1>2, AskedIs
  <2>2. t \in Nat /\ published[k] \subseteq 1 .. t
    BY <1>2 DEF FundingInv, TablesSound
  <2>3. page = Page({s \in published[k] : s < f.cursor})
    BY DEF PageOf, Page
  <2>4. /\ at \in {"asking", "read", "out_of_pages"}
        /\ at = "read" => PageSuffices(f, page)
        /\ at = "asking" => ~ PageSuffices(f, page)
    <3> HIDE DEF f, page, read
    <3>1. QED OBVIOUS
  <2> HIDE DEF f, page, at
  <2>5. QED BY <2>1, <2>2, <2>3, <2>4, PageReadSound
<1> HIDE DEF read, at
<1>3. QED BY <1>1, <1>2, FetchReplaced

\* A fetch whose name is refused has read nothing, and vouches for nothing.
LEMMA NameRefusedSound ==
  ASSUME FundingInv, NEW k \in DOMAIN batch.fetches, NameRefused(k) PROVE FundingInv'
<1> DEFINE f == Asked(k)
           empty == [f EXCEPT !.at = "read", !.got = {}, !.basis = {}]
<1>1. /\ Fetch(k).at \in {"queued", "asking"}
      /\ batch' = [batch EXCEPT !.fetches[k] = empty]
      /\ UNCHANGED <<t, published, stored, states, checkpoint>>
  BY DEF NameRefused
<1>2. ASSUME k \in Contracts PROVE FetchSound(empty, published[k], t)
  <2>1. f.at = "asking" /\ FetchSound(f, published[k], t)
    BY <1>1, <1>2, AskedIs
  <2> HIDE DEF f
  <2>2. f \in FetchType /\ f.end <= t /\ f.cursor <= f.end + 1
    BY <2>1 DEF FetchSound
  <2>3. /\ empty \in FetchType /\ empty.at = "read" /\ empty.got = {} /\ empty.basis = {}
        /\ empty.end = f.end /\ empty.cursor = f.cursor
    BY <2>2 DEF FetchType, Steps
  <2> HIDE DEF empty
  <2>4. QED BY <2>2, <2>3 DEF FetchSound
<1> HIDE DEF empty
<1>3. QED BY <1>1, <1>2, FetchReplaced

\* A fetch that ends leaves the other fetches of its batch alone.
LEMMA FetchDropped ==
  ASSUME FundingInv, NEW k, batch' = WithoutFetch(k), t' = t
  PROVE  /\ BatchShape'
         /\ \A j \in DOMAIN batch'.fetches :
              j \in DOMAIN batch.fetches \ {k} /\ batch'.fetches[j] = batch.fetches[j]
<1> DEFINE rest == [j \in DOMAIN batch.fetches \ {k} |-> batch.fetches[j]]
<1>1. batch' = [began |-> batch.began, latest |-> batch.latest, fetches |-> rest]
  BY DEF FundingInv, BatchShape, WithoutFetch
<1>2. batch.began \in Int /\ batch.began <= t
  BY DEF FundingInv, BatchShape
<1>3. batch'.fetches = rest /\ batch'.began = batch.began /\ batch'.latest = batch.latest
  BY <1>1
<1>4. QED BY <1>1, <1>2, <1>3 DEF BatchShape

\* A running batch, or none, is still one later.
LEMMA BatchStays ==
  ASSUME FundingInv, batch' \in {batch, NoBatch}, t' \in Nat, t <= t'
  PROVE  /\ BatchShape'
         /\ \A j \in DOMAIN batch'.fetches :
              j \in DOMAIN batch.fetches /\ batch'.fetches[j] = batch.fetches[j]
<1>1. CASE batch' = batch
  BY <1>1 DEF FundingInv, BatchShape, TablesSound
<1>2. CASE batch' = NoBatch
  BY <1>2 DEF BatchShape, NoBatch
<1>3. QED BY <1>1, <1>2

\* A fetch that fails changes the times of its contract, not what is vouched for.
LEMMA RefuseSound ==
  ASSUME FundingInv, NEW k \in DOMAIN batch.fetches, RefuseFetch(k) PROVE FundingInv'
<1> DEFINE s == states[k]
           refused == [s EXCEPT !.attempt = t, !.expected = Expected(t), !.failures = @ + 1,
                                !.retry = t + PauseOf(s.failures + 1)]
<1>1. /\ states' = [states EXCEPT ![k] = refused] /\ batch' = WithoutFetch(k)
      /\ UNCHANGED <<t, published, stored, checkpoint>>
  BY DEF RefuseFetch
<1>2. TablesSound /\ t \in Nat
  BY DEF FundingInv, TablesSound
<1>3. ASSUME k \in Contracts PROVE refused \in State /\ refused.vouch = s.vouch
  <2>1. s \in State
    BY <1>2, <1>3 DEF TablesSound
  <2>2. s.failures + 1 \in Int
    BY <2>1 DEF State
  <2>3. Expected(t) \in Int /\ t + PauseOf(s.failures + 1) \in Int
    BY <1>2, <2>2, Bounds
  <2> HIDE DEF s
  <2>4. refused.vouch = s.vouch
    BY <2>1 DEF State
  <2> DEFINE retry == t + PauseOf(s.failures + 1)
  <2>5. refused = [s EXCEPT !.attempt = t, !.expected = Expected(t), !.failures = @ + 1,
                            !.retry = retry]
    OBVIOUS
  <2>6. t \in Int /\ retry \in Int /\ Expected(t) \in Int
    BY <1>2, <2>3
  <2> HIDE DEF retry, refused
  <2>7. refused \in State
    BY <2>1, <2>2, <2>5, <2>6 DEF State
  <2>8. QED BY <2>4, <2>7
<1> HIDE DEF refused
<1>4. /\ states' \in [Contracts -> State]
      /\ \A j \in Contracts : states'[j].vouch = states[j].vouch
  BY <1>1, <1>2, <1>3 DEF TablesSound
<1>5. TablesSound'
  BY <1>1, <1>2, <1>4 DEF TablesSound
<1>6. BatchShape'
  BY <1>1, FetchDropped
<1>7. ASSUME NEW j \in Contracts
      PROVE  /\ stored'[j] \subseteq published'[j]
             /\ StateSound(states'[j], published'[j], stored'[j], t')
             /\ StateSound(checkpoint'[j], published'[j], stored'[j], t')
             /\ j \in DOMAIN batch'.fetches => FetchSound(batch'.fetches[j], published'[j], t')
  <2>1. StateSound(states'[j], published'[j], stored'[j], t')
    BY <1>1, <1>4 DEF FundingInv, StateSound
  <2>2. j \in DOMAIN batch'.fetches => FetchSound(batch'.fetches[j], published'[j], t')
    BY <1>1, FetchDropped DEF FundingInv
  <2>3. QED BY <1>1, <2>1, <2>2 DEF FundingInv
<1>8. QED BY <1>5, <1>6, <1>7 DEF FundingInv

\* A history read in full has all that had been published and is still summed, and what it
\* has goes to the table before anything vouches for it.
LEMMA StoreSound ==
  ASSUME FundingInv, NEW k \in DOMAIN batch.fetches, Store(k) PROVE FundingInv'
<1> DEFINE f == Fetch(k)
           s == states[k]
           misses == IF Largest(f.got, batch.latest[k]) < Expected(t) THEN s.missing + 1 ELSE 0
           noted == [attempt |-> t, success |-> t, full |-> IF f.full THEN t ELSE s.full,
                     failures |-> 0, retry |-> IF misses > 0 THEN t + PauseOf(misses) ELSE 0,
                     missing |-> misses, expected |-> Expected(t),
                     vouch |-> IF f.full THEN f.basis ELSE s.vouch]
<1>1. /\ f.at = "read" /\ batch' = WithoutFetch(k)
      /\ stored' = [stored EXCEPT ![k] = @ \cup InWindow(f.got)]
      /\ states' = [states EXCEPT ![k] = noted]
      /\ UNCHANGED <<t, published, checkpoint>>
  BY DEF Store
<1>2. TablesSound /\ t \in Nat
  BY DEF FundingInv, TablesSound
<1>3. ASSUME k \in Contracts
      PROVE  /\ f \in FetchType /\ f.got \subseteq published[k] /\ f.end <= t
             /\ f.basis \subseteq published[k] \cap (1 .. f.end)
             /\ \A u \in f.basis : u >= Since(f) => u \in f.got
             /\ s \in State
  BY <1>1, <1>2, <1>3 DEF FundingInv, FetchSound, Fetch, TablesSound
<1>4. ASSUME k \in Contracts PROVE noted \in State
  <2>1. misses \in Int /\ s.full \in Int /\ s.vouch \in SUBSET Nat
    BY <1>3, <1>4 DEF State
  <2>2. f.basis \in SUBSET Nat
    BY <1>3, <1>4 DEF FetchType
  <2> HIDE DEF f, s, misses
  <2>3. (IF misses > 0 THEN t + PauseOf(misses) ELSE 0) \in Int
    BY <1>2, <2>1, Bounds
  <2>4. Expected(t) \in Int
    BY <1>2, Bounds
  <2>5. QED BY <1>2, <2>1, <2>2, <2>3, <2>4 DEF State
<1> HIDE DEF noted
<1>5. ASSUME NEW j \in Contracts
      PROVE  /\ stored[j] \subseteq stored'[j]
             /\ j # k => states'[j] = states[j] /\ stored'[j] = stored[j]
             /\ j = k => states'[j] = noted /\ stored'[j] = stored[j] \cup InWindow(f.got)
  BY <1>1, <1>2, <1>5 DEF TablesSound
<1>6. ASSUME k \in Contracts
      PROVE  /\ InWindow(f.got) \subseteq published[k] /\ InWindow(f.got) \subseteq Nat
             /\ StateSound(noted, published[k], stored'[k], t)
  <2>1. InWindow(f.got) \subseteq published[k] /\ InWindow(f.got) \subseteq Nat
    BY <1>3, <1>6 DEF InWindow, FetchType
  <2>2. stored[k] \subseteq stored'[k] /\ InWindow(f.got) \subseteq stored'[k]
    BY <1>5, <1>6
  <2>3. CASE f.full
    <3>1. noted.vouch = f.basis
      BY <2>3 DEF noted
    <3>2. ASSUME NEW u \in f.basis, u > t - SummedOf PROVE u \in InWindow(f.got)
      <4>1. u \in Nat /\ u <= f.end /\ f.end \in Nat /\ f.end <= t
        BY <1>3, <1>6 DEF FetchType
      <4>2. Since(f) = f.end - Window
        BY <2>3 DEF Since
      <4>3. u >= Since(f) /\ t - Window <= u /\ u <= t
        BY <4>1, <4>2, <1>2, <3>2, Bounds
      <4>4. QED BY <1>3, <1>6, <4>3 DEF InWindow
    <3>3. noted.vouch \subseteq published[k] /\ \A u \in noted.vouch : u > t - SummedOf => u \in stored'[k]
      BY <1>3, <1>6, <2>2, <3>1, <3>2
    <3>4. QED BY <1>4, <1>6, <2>1, <3>3 DEF StateSound
  <2>4. CASE ~ f.full
    <3>1. noted.vouch = s.vouch
      BY <2>4 DEF noted
    <3>2. StateSound(s, published[k], stored[k], t)
      BY <1>6 DEF FundingInv
    <3>3. noted.vouch \subseteq published[k] /\ \A u \in noted.vouch : u > t - SummedOf => u \in stored'[k]
      BY <2>2, <3>1, <3>2 DEF StateSound
    <3>4. QED BY <1>4, <1>6, <2>1, <3>3 DEF StateSound
  <2>5. QED BY <2>1, <2>3, <2>4
<1> HIDE DEF f
<1>7. states' \in [Contracts -> State] /\ stored' \in [Contracts -> SUBSET Nat]
  BY <1>1, <1>2, <1>4, <1>6 DEF TablesSound
<1>8. TablesSound'
  BY <1>1, <1>2, <1>7 DEF TablesSound
<1>9. BatchShape'
  BY <1>1, FetchDropped
<1>10. ASSUME NEW j \in Contracts
       PROVE  /\ stored'[j] \subseteq published'[j]
              /\ StateSound(states'[j], published'[j], stored'[j], t')
              /\ StateSound(checkpoint'[j], published'[j], stored'[j], t')
              /\ j \in DOMAIN batch'.fetches => FetchSound(batch'.fetches[j], published'[j], t')
  <2>1. stored[j] \subseteq published[j] /\ StateSound(states[j], published[j], stored[j], t)
        /\ StateSound(checkpoint[j], published[j], stored[j], t)
    BY DEF FundingInv
  <2>2. stored'[j] \subseteq published'[j]
    BY <1>1, <1>5, <1>6, <2>1
  <2>3. StateSound(states'[j], published'[j], stored'[j], t')
    BY <1>1, <1>5, <1>6, <2>1
  <2>4. StateSound(checkpoint'[j], published'[j], stored'[j], t')
    BY <1>1, <1>2, <1>5, <2>1, StateStays
  <2>5. j \in DOMAIN batch'.fetches => FetchSound(batch'.fetches[j], published'[j], t')
    BY <1>1, FetchDropped DEF FundingInv
  <2>6. QED BY <2>2, <2>3, <2>4, <2>5
<1>11. QED BY <1>8, <1>9, <1>10 DEF FundingInv

\* The end of a batch deletes what is too old to be summed, by the time the batch began.
LEMMA FinishSound == ASSUME FundingInv, Finish PROVE FundingInv'
<1>1. /\ checkpoint' \in {states, checkpoint} /\ batch' = NoBatch
      /\ UNCHANGED <<t, published, states>>
  BY DEF Finish
<1>2. TablesSound /\ t \in Nat /\ batch.began \in Int /\ batch.began <= t
  BY DEF FundingInv, TablesSound, BatchShape
<1>3. /\ stored' \in [Contracts -> SUBSET Nat]
      /\ \A k \in Contracts : /\ stored'[k] \subseteq stored[k]
                              /\ \A u \in stored[k] : u > t - SummedOf => u \in stored'[k]
  <2>1. CASE stored' = stored
    BY <1>2, <2>1 DEF TablesSound
  <2>2. CASE stored' = [k \in Contracts |-> {s \in stored[k] : s >= batch.began - Window}]
    <3>1. \A u \in Nat : u > t - SummedOf => u >= batch.began - Window
      BY <1>2, Bounds
    <3>2. \A k \in Contracts : stored[k] \subseteq Nat
      BY <1>2 DEF TablesSound
    <3>3. QED BY <2>2, <3>1, <3>2
  <2>3. QED BY <2>1, <2>2 DEF Finish
<1>4. TablesSound'
  BY <1>1, <1>2, <1>3 DEF TablesSound
<1>5. BatchShape' /\ DOMAIN batch'.fetches = {}
  BY <1>1, <1>2 DEF BatchShape, NoBatch
<1>6. ASSUME NEW k \in Contracts, NEW s, StateSound(s, published[k], stored[k], t)
      PROVE  StateSound(s, published'[k], stored'[k], t')
  BY <1>1, <1>3, <1>6 DEF StateSound
<1>7. QED BY <1>1, <1>3, <1>4, <1>5, <1>6 DEF FundingInv

\* The tail of all contracts adds what was published.
LEMMA TailSound == ASSUME FundingInv, TailBatch PROVE FundingInv'
<1>1. UNCHANGED <<t, published, states, checkpoint, batch>>
  BY DEF TailBatch
<1>2. TablesSound /\ BatchShape /\ t \in Nat
  BY DEF FundingInv, TablesSound
<1>3. ASSUME NEW k \in Contracts
      PROVE  stored[k] \subseteq stored'[k] /\ stored'[k] \subseteq stored[k] \cup published[k]
  BY <1>3 DEF TailBatch, InWindow
<1>4. ASSUME NEW k \in Contracts PROVE stored[k] \subseteq published[k] /\ published[k] \subseteq Nat
  BY <1>2, <1>4 DEF FundingInv, TablesSound
<1>5. stored' \in [Contracts -> SUBSET Nat]
  <2>1. \A k \in Contracts : stored'[k] \subseteq Nat
    BY <1>3, <1>4
  <2>2. stored' = [k \in Contracts |-> stored'[k]]
    BY DEF TailBatch
  <2>3. QED BY <2>1, <2>2
<1>6. TablesSound' /\ BatchShape'
  BY <1>1, <1>2, <1>5 DEF TablesSound, BatchShape
<1>7. ASSUME NEW k \in Contracts, NEW s, StateSound(s, published[k], stored[k], t)
      PROVE  StateSound(s, published'[k], stored'[k], t')
  BY <1>1, <1>3, <1>7 DEF StateSound
<1>8. ASSUME NEW k \in Contracts PROVE stored'[k] \subseteq published'[k]
  BY <1>1, <1>3, <1>4
<1>9. QED BY <1>1, <1>6, <1>7, <1>8 DEF FundingInv

\* After a crash the states are those of the checkpoint.
LEMMA CrashSound == ASSUME FundingInv, Crash PROVE FundingInv'
<1>1. states' = checkpoint /\ batch' = NoBatch /\ UNCHANGED <<t, published, stored, checkpoint>>
  BY DEF Crash
<1>2. TablesSound' /\ BatchShape' /\ DOMAIN batch'.fetches = {}
  BY <1>1, BatchStays DEF FundingInv, TablesSound, BatchShape, NoBatch
<1>3. QED BY <1>1, <1>2 DEF FundingInv

\* What the exchange publishes is asked of no fetch that has begun.
LEMMA SettleSound ==
  ASSUME FundingInv, NEW k \in Contracts, NEW s \in Settlements(t), SettleRate(k, s)
  PROVE  FundingInv'
<1>1. /\ published' = [published EXCEPT ![k] = @ \cup {s}]
      /\ UNCHANGED <<t, stored, states, checkpoint, batch>>
  BY DEF SettleRate
<1>2. TablesSound /\ BatchShape /\ t \in Nat /\ s \in 1 .. t
  BY DEF FundingInv, TablesSound, Settlements
<1>3. \A j \in Contracts : published[j] \subseteq published'[j]
  BY <1>1, <1>2 DEF TablesSound
<1>4. published' \in [Contracts -> SUBSET (1 .. t)]
  BY <1>1, <1>2 DEF TablesSound
<1>5. TablesSound' /\ BatchShape'
  BY <1>1, <1>2, <1>4 DEF TablesSound, BatchShape
<1>6. ASSUME NEW j \in Contracts, NEW u, StateSound(u, published[j], stored[j], t)
      PROVE  StateSound(u, published'[j], stored'[j], t')
  BY <1>1, <1>3, <1>6 DEF StateSound
<1>7. ASSUME NEW j \in Contracts, j \in DOMAIN batch'.fetches
      PROVE  FetchSound(batch'.fetches[j], published'[j], t')
  BY <1>1, <1>2, <1>3, <1>7, FetchStays DEF FundingInv
<1>8. QED BY <1>1, <1>3, <1>5, <1>6, <1>7 DEF FundingInv

\* As time passes less is summed.
LEMMA WaitSound == ASSUME FundingInv, Wait PROVE FundingInv'
<1>1. t < LastTime /\ t' = t + 1 /\ UNCHANGED <<published, stored, states, checkpoint, batch>>
  BY DEF Wait
<1>2. TablesSound /\ BatchShape /\ t \in Nat /\ LastTime \in Nat
  BY FundingAssumption DEF FundingInv, TablesSound, FundingAssumption
<1>3. published' \in [Contracts -> SUBSET (1 .. t')]
  BY <1>1, <1>2 DEF TablesSound
<1>4. TablesSound' /\ BatchShape'
  BY <1>1, <1>2, <1>3 DEF TablesSound, BatchShape
<1>5. ASSUME NEW j \in Contracts, NEW u, StateSound(u, published[j], stored[j], t)
      PROVE  StateSound(u, published'[j], stored'[j], t')
  BY <1>1, <1>2, <1>5, StateStays
<1>6. ASSUME NEW j \in Contracts, j \in DOMAIN batch'.fetches
      PROVE  FetchSound(batch'.fetches[j], published'[j], t')
  BY <1>1, <1>2, <1>6, FetchStays DEF FundingInv
<1>7. QED BY <1>1, <1>4, <1>5, <1>6 DEF FundingInv

\* A new batch has asked for nothing yet; contracts the catalogue misses are forgotten.
LEMMA PlanSound == ASSUME FundingInv, Plan PROVE FundingInv'
<1>1. PICK listed \in Catalogues :
        /\ states' = [k \in Contracts |-> IF k \in listed THEN states[k] ELSE NeverSynced]
        /\ batch' = [began |-> t, latest |-> [k \in listed |-> Latest(k)],
                     fetches |-> [k \in DOMAIN PlanOf([j \in listed |-> states[j]]) |->
                       [full |-> PlanOf([j \in listed |-> states[j]])[k], at |-> "queued",
                        end |-> 0, cursor |-> 0, pages |-> 0, got |-> {}, basis |-> {}]]]
  BY DEF Plan
<1> DEFINE plan == PlanOf([j \in listed |-> states[j]])
<1>2. UNCHANGED <<t, published, stored, checkpoint>>
  BY DEF Plan
<1>3. TablesSound /\ t \in Nat
  BY DEF FundingInv, TablesSound
<1>4. NeverSynced \in State /\ NeverSynced.vouch = {}
  BY DEF NeverSynced, State
<1>5. TablesSound'
  BY <1>1, <1>2, <1>3, <1>4 DEF TablesSound
<1>6. \A k \in DOMAIN plan : plan[k] \in BOOLEAN
  BY DEF PlanOf
<1> HIDE DEF plan
<1>7. BatchShape'
  BY <1>1, <1>2, <1>3 DEF BatchShape
<1>8. ASSUME NEW k \in DOMAIN batch'.fetches PROVE FetchSound(batch'.fetches[k], published'[k], t')
  <2>1. k \in DOMAIN plan
    BY <1>1, <1>8 DEF plan
  <2>2. batch'.fetches[k] = [full |-> plan[k], at |-> "queued", end |-> 0, cursor |-> 0,
                             pages |-> 0, got |-> {}, basis |-> {}]
    BY <1>1, <2>1 DEF plan
  <2>3. QED BY <1>6, <2>1, <2>2 DEF FetchSound, FetchType, Steps
<1>9. ASSUME NEW k \in Contracts PROVE StateSound(states'[k], published'[k], stored'[k], t')
  BY <1>1, <1>2, <1>4, <1>9 DEF FundingInv, StateSound
<1>10. QED BY <1>2, <1>5, <1>7, <1>8, <1>9 DEF FundingInv

\* Every step keeps the invariant.
LEMMA FundingStepSound ==
  ASSUME FundingInv, [FundingNext]_fundingVars PROVE FundingInv'
<1>1. ASSUME NEW k \in DOMAIN batch.fetches, Ask(k) \/ NameRefused(k) \/ Store(k) \/ RefuseFetch(k)
      PROVE  FundingInv'
  BY <1>1, AskSound, NameRefusedSound, StoreSound, RefuseSound
<1>2. ASSUME NEW k \in Contracts, NEW s \in Settlements(t), SettleRate(k, s)
      PROVE  FundingInv'
  BY <1>2, SettleSound
<1>3. CASE UNCHANGED fundingVars
  BY <1>3 DEF fundingVars, FundingInv, TablesSound, BatchShape
<1>4. QED
  BY <1>1, <1>2, <1>3, PlanSound, FinishSound, TailSound, CrashSound, WaitSound DEF FundingNext

-----------------------------------------------------------------------------
\* Fewer settlements of each contract are fewer facts.
LEMMA PairsWithin ==
  ASSUME NEW f, NEW g, \A k \in Contracts : f[k] \subseteq g[k]
  PROVE  Pairs(f) \subseteq Pairs(g)
BY DEF Pairs

\* What still counts of a set of facts that is in the table wherever it still counts.
LEMMA SummedWithin ==
  ASSUME NEW f, NEW g, \A k \in Contracts : \A s \in f[k] : s > t - SummedOf => s \in g[k]
  PROVE  Kept!Summed(Pairs(f)) \subseteq Pairs(g)
BY DEF Kept!Summed, Pairs

\* A step that publishes nothing, takes no time and keeps what is summed maintains the
\* table.
LEMMA Maintains ==
  ASSUME FundingInv, FundingInv', UNCHANGED <<t, published>>,
         \A k \in Contracts : \A s \in stored[k] : s > t - SummedOf => s \in stored'[k]
  PROVE  Kept!Maintain
<1> DEFINE vouched == [k \in Contracts |-> states[k].vouch]
<1>1. ASSUME NEW k \in Contracts
      PROVE  /\ stored'[k] \subseteq published[k] /\ vouched'[k] \subseteq published[k]
             /\ \A s \in vouched'[k] : s > t - SummedOf => s \in stored'[k]
  BY <1>1 DEF FundingInv, StateSound
<1> HIDE DEF vouched
<1>2. Pairs(stored') \subseteq Pairs(published) /\ Pairs(vouched') \subseteq Pairs(published)
  BY <1>1, PairsWithin
<1>3. Kept!Summed(Pairs(stored)) \subseteq Pairs(stored')
  BY SummedWithin
<1>4. Kept!Summed(Pairs(vouched')) \subseteq Pairs(stored')
  BY <1>1, SummedWithin
<1>5. QED BY <1>2, <1>3, <1>4 DEF Kept!Maintain, vouched, Kept!Summed, Pairs

\* A settlement that is published is one more fact.
LEMMA Publishes ==
  ASSUME FundingInv, NEW k \in Contracts, NEW s \in Settlements(t), SettleRate(k, s)
  PROVE  Kept!Publish(<<k, s>>) /\ <<k, s>> \in Contracts \X (1 .. LastTime)
<1>1. published' = [published EXCEPT ![k] = @ \cup {s}] /\ UNCHANGED <<t, stored, states>>
  BY DEF SettleRate
<1>2. published \in [Contracts -> SUBSET (1 .. t)] /\ t \in Nat /\ t <= LastTime /\ s \in 1 .. t
      /\ LastTime \in Nat
  BY FundingAssumption DEF FundingInv, TablesSound, Settlements, FundingAssumption
<1>3. \A j \in Contracts : published'[j] = IF j = k THEN published[j] \cup {s} ELSE published[j]
  BY <1>1, <1>2
<1>4. Pairs(published') = Pairs(published) \cup {<<k, s>>}
  <2>1. ASSUME NEW row \in Pairs(published') PROVE row \in Pairs(published) \cup {<<k, s>>}
    <3>1. PICK j \in Contracts : \E u \in published'[j] : row = <<j, u>>
      BY DEF Pairs
    <3>2. PICK u \in published'[j] : row = <<j, u>>
      BY <3>1
    <3>3. CASE u \in published[j]
      BY <3>2, <3>3 DEF Pairs
    <3>4. CASE u \notin published[j]
      BY <1>3, <3>2, <3>4
    <3>5. QED BY <3>3, <3>4
  <2>2. Pairs(published) \subseteq Pairs(published')
    <3>1. \A j \in Contracts : published[j] \subseteq published'[j]
      BY <1>3
    <3>2. QED BY <3>1, PairsWithin
  <2>3. s \in published'[k]
    BY <1>3
  <2>4. <<k, s>> \in Pairs(published')
    BY <2>3 DEF Pairs
  <2>5. QED BY <2>1, <2>2, <2>4
<1>5. QED BY <1>1, <1>2, <1>4 DEF Kept!Publish, Pairs

\* Every step of the collector is one of the table's promise, or changes none of its facts.
LEMMA StepImplements ==
  ASSUME FundingInv, FundingInv', [FundingNext]_fundingVars
  PROVE  [Kept!FactsNext]_(Kept!factVars)
<1>1. CASE UNCHANGED fundingVars
  BY <1>1 DEF fundingVars, Kept!factVars, Pairs
<1>2. CASE Wait
  BY <1>2 DEF Wait, Kept!Age, Kept!FactsNext, Pairs
<1>3. ASSUME NEW k \in Contracts, NEW s \in Settlements(t), SettleRate(k, s)
      PROVE  Kept!FactsNext
  BY <1>3, Publishes DEF Kept!FactsNext
<1>4. ASSUME \/ Plan \/ Finish \/ TailBatch \/ Crash
             \/ \E k \in DOMAIN batch.fetches : Ask(k) \/ NameRefused(k) \/ Store(k) \/ RefuseFetch(k)
      PROVE  Kept!FactsNext
  <2>1. UNCHANGED <<t, published>>
    BY <1>4 DEF Plan, Finish, TailBatch, Crash, Ask, NameRefused, Store, RefuseFetch
  <2>2. \A k \in Contracts : \A s \in stored[k] : s > t - SummedOf => s \in stored'[k]
    <3>1. stored \in [Contracts -> SUBSET Nat] /\ batch.began \in Int /\ batch.began <= t /\ t \in Nat
      BY DEF FundingInv, TablesSound, BatchShape
    <3>2. CASE Finish
      <4>1. \A u \in Nat : u > t - SummedOf => u \in Int /\ u >= batch.began - Window
        BY <3>1, Bounds
      <4>2. QED BY <3>1, <3>2, <4>1 DEF Finish
    <3>3. CASE TailBatch
      BY <3>3 DEF TailBatch
    <3>4. ASSUME NEW k \in DOMAIN batch.fetches, Store(k)
          PROVE  \A j \in Contracts : stored[j] \subseteq stored'[j]
      BY <3>1, <3>4 DEF Store
    <3>5. CASE UNCHANGED stored
      BY <3>5
    <3>6. QED BY <1>4, <3>2, <3>3, <3>4, <3>5 DEF Plan, Crash, Ask, NameRefused, RefuseFetch
  <2>3. QED BY <2>1, <2>2, Maintains DEF Kept!FactsNext
<1>5. QED BY <1>1, <1>2, <1>3, <1>4 DEF FundingNext

\* The empty table starts without facts.
LEMMA InitImplements == FundingInit => Kept!FactsInit
<1> SUFFICES ASSUME FundingInit PROVE Kept!FactsInit
  OBVIOUS
<1>1. \A k \in Contracts : /\ stored[k] = {} /\ states[k].vouch = {}
                           /\ published[k] \subseteq 1 .. LastTime
  BY FundingAssumption DEF FundingInit, NeverSynced, Settlements, FundingAssumption
<1>2. QED BY <1>1 DEF Kept!FactsInit, Pairs

\* FundingSyncSchedule, FundingHistoryClient and store_settled_funding together: for any
\* contracts, intervals, batches and answers of any size, failures, crashes and late
\* publications, only published settlements are stored, none that is still summed leaves the
\* table, and a contract noted as fully audited, by an audit whose questions were answered,
\* misses nothing that is summed and had been published when that audit began.
THEOREM CollectorKeepsItsPromise == FundingSpec => AuditsAreComplete
<1>1. FundingInv /\ [FundingNext]_fundingVars => FundingInv'
  BY FundingStepSound
<1>2. FundingInv /\ FundingInv' /\ [FundingNext]_fundingVars => [Kept!FactsNext]_(Kept!factVars)
  BY StepImplements
<1>3. QED
  BY <1>1, <1>2, FundingInitSound, InitImplements, PTL
  DEF FundingSpec, AuditsAreComplete, Kept!FactsSpec

-----------------------------------------------------------------------------
(* Reminders. *)

Reminding(e) == e.kind = "cap_touch" /\ e.notice

\* A state, the row or the one in memory, knows every reminder of the last day.
Knows(s, events, now) ==
  \A e \in events : Reminding(e) /\ now - e.at < Day => e.key \in DOMAIN s.notices /\ s.notices[e.key] = e.at
AlertInv ==
  /\ hour \in Nat /\ \A e \in alertEvents : e.at \in Nat /\ e.at <= hour
  /\ record = NoState => live = NoState /\ alertEvents = {}
  /\ \A s \in {record, live} \ {NoState} : Knows(s, alertEvents, hour)
  /\ RemindersAreSpaced

\* What an observation begins with: the newer of the two states, or none at all.
Base(old, o) == IF old = NoState THEN FirstSeen(o) ELSE old
\* What an observation begins with knows the reminders of the last day.
LEMMA BaseKnows ==
  ASSUME AlertInv, NEW old \in {record, live}, old = NoState => record = NoState, NEW o
  PROVE  \A e \in alertEvents : Reminding(e) /\ hour - e.at < Day =>
           /\ e.key \in DOMAIN Within(Base(old, o).notices)
           /\ Within(Base(old, o).notices)[e.key] = e.at
<1>1. CASE old = NoState
  BY <1>1 DEF AlertInv
<1>2. CASE old # NoState
  <2>1. Base(old, o) = old /\ Knows(old, alertEvents, hour)
    BY <1>2 DEF Base, AlertInv
  <2>2. QED BY <2>1 DEF Knows, Within
<1>3. QED BY <1>1, <1>2

\* The reminders of one observation: of its own limit and interval, and only when the
\* state knew of none; the state that it leaves knows it.
LEMMA AdvanceReminds ==
  ASSUME NEW old, NEW o
  PROVE  LET n == Advance(old, o)
             known == Within(Base(old, o).notices)
         IN /\ "notices" \in DOMAIN n.state
            /\ n.state.notices \in {known, PutNew(known, NoticeKey(o), hour)}
            /\ \A e \in n.events : e.at = hour
            /\ \A e \in n.events : Reminding(e) =>
                 /\ e.key = NoticeKey(o) /\ e.key \notin DOMAIN known
                 /\ n.state.notices = PutNew(known, NoticeKey(o), hour)
            /\ \A e, f \in n.events : Reminding(e) /\ Reminding(f) => e = f
<1> DEFINE n == Advance(old, o)
           known == Within(Base(old, o).notices)
           noted == Touched(Base(old, o), o)
           touch == Event("cap_touch", TouchKey(o), NoticeKey(o), Unnoticed(Base(old, o), o) /\ Continuous(old, o))
<1>1. /\ "notices" \in DOMAIN n.state
      /\ n.state.notices = IF noted THEN PutNew(known, NoticeKey(o), hour) ELSE known
  BY DEF Advance, Base
<1>2. \A kind, id, key, notice : /\ Event(kind, id, key, notice).kind = kind
                                 /\ Event(kind, id, key, notice).key = key
                                 /\ Event(kind, id, key, notice).notice = notice
                                 /\ Event(kind, id, key, notice).at = hour
  BY DEF Event
<1>3. ASSUME NEW e \in n.events
      PROVE  /\ e.at = hour
             /\ e.kind \in {"settled_cap", "settled_below_cap", "interval"} \/ (noted /\ e = touch)
  <2>1. \/ \E p : e = Event(IF settledRate[p.at] # Off THEN "settled_cap" ELSE "settled_below_cap", <<p.at>>, <<>>, FALSE)
        \/ e = Event("interval", <<Base(old, o).interval, o.interval, o.at>>, <<o.interval>>,
                     o.interval = 1 /\ Continuous(old, o))
        \/ noted /\ e = touch
    BY DEF Advance, Base
  <2>2. CASE \E p : e = Event(IF settledRate[p.at] # Off THEN "settled_cap" ELSE "settled_below_cap", <<p.at>>, <<>>, FALSE)
    <3>1. PICK p : e = Event(IF settledRate[p.at] # Off THEN "settled_cap" ELSE "settled_below_cap", <<p.at>>, <<>>, FALSE)
      BY <2>2
    <3>2. CASE settledRate[p.at] # Off
      <4>1. e = Event("settled_cap", <<p.at>>, <<>>, FALSE)
        BY <3>1, <3>2
      <4>2. QED BY <4>1 DEF Event
    <3>3. CASE settledRate[p.at] = Off
      <4>1. e = Event("settled_below_cap", <<p.at>>, <<>>, FALSE)
        BY <3>1, <3>3
      <4>2. QED BY <4>1 DEF Event
    <3>4. QED BY <3>2, <3>3
  <2>3. CASE e = Event("interval", <<Base(old, o).interval, o.interval, o.at>>, <<o.interval>>,
                       o.interval = 1 /\ Continuous(old, o))
    BY <1>2, <2>3
  <2>4. CASE noted /\ e = touch
    BY <1>2, <2>4
  <2>5. QED BY <2>1, <2>2, <2>3, <2>4
<1>4. ASSUME NEW e \in n.events, Reminding(e)
      PROVE  e = touch /\ noted /\ e.key = NoticeKey(o) /\ e.key \notin DOMAIN known
  <2>1. e = touch /\ noted
    BY <1>3, <1>4 DEF Reminding
  <2>2. e.key = NoticeKey(o) /\ e.notice = (Unnoticed(Base(old, o), o) /\ Continuous(old, o))
    BY <1>2, <2>1
  <2>3. Unnoticed(Base(old, o), o)
    BY <1>4, <2>2 DEF Reminding
  <2>4. QED BY <2>1, <2>2, <2>3 DEF Unnoticed
<1> HIDE DEF n, known, noted, touch
<1>5. \A e, f \in n.events : Reminding(e) /\ Reminding(f) => e = f
  BY <1>4
<1>6. QED BY <1>1, <1>3, <1>4, <1>5 DEF n, known

\* Putting what is new leaves what was there.
LEMMA PutNewKeeps ==
  ASSUME NEW f, NEW k, NEW x
  PROVE  /\ \A j \in DOMAIN f : j \in DOMAIN PutNew(f, k, x) /\ PutNew(f, k, x)[j] = f[j]
         /\ k \notin DOMAIN f => k \in DOMAIN PutNew(f, k, x) /\ PutNew(f, k, x)[k] = x
BY DEF PutNew, Put

\* The state an observation leaves knows the reminders stored and those to be stored.
LEMMA NextKnows ==
  ASSUME AlertInv, NEW old \in {record, live}, old = NoState => record = NoState, NEW o
  PROVE  /\ Knows(Advance(old, o).state, alertEvents \cup Advance(old, o).events, hour)
         /\ Advance(old, o).state # NoState
<1> DEFINE n == Advance(old, o)
           known == Within(Base(old, o).notices)
<1>1. /\ "notices" \in DOMAIN n.state
      /\ n.state.notices \in {known, PutNew(known, NoticeKey(o), hour)}
      /\ \A e \in n.events : e.at = hour
      /\ \A e \in n.events : Reminding(e) =>
           /\ e.key = NoticeKey(o) /\ e.key \notin DOMAIN known
           /\ n.state.notices = PutNew(known, NoticeKey(o), hour)
  BY AdvanceReminds
<1>2. \A e \in alertEvents : Reminding(e) /\ hour - e.at < Day => e.key \in DOMAIN known /\ known[e.key] = e.at
  BY BaseKnows
<1> HIDE DEF n, known
<1>3. \A j \in DOMAIN known : j \in DOMAIN n.state.notices /\ n.state.notices[j] = known[j]
  BY <1>1, PutNewKeeps
<1>4. ASSUME NEW e \in n.events, Reminding(e)
      PROVE  e.key \in DOMAIN n.state.notices /\ n.state.notices[e.key] = e.at
  BY <1>1, <1>4, PutNewKeeps
<1>5. Knows(n.state, alertEvents \cup n.events, hour)
  BY <1>2, <1>3, <1>4 DEF Knows
<1>6. n.state # NoState
  BY <1>1 DEF NoState
<1>7. QED BY <1>5, <1>6 DEF n

\* No reminder to be stored is within a day of one that is.
LEMMA NewAreSpaced ==
  ASSUME AlertInv, NEW old \in {record, live}, old = NoState => record = NoState, NEW o,
         NEW e \in Advance(old, o).events, Reminding(e),
         NEW f \in alertEvents \cup Advance(old, o).events, Reminding(f), e # f, e.key = f.key
  PROVE  e.at - f.at >= Day
<1>1. f \in alertEvents
  BY AdvanceReminds
<1>2. e.at = hour /\ e.key \notin DOMAIN Within(Base(old, o).notices)
  BY AdvanceReminds
<1>3. ~ (hour - f.at < Day)
  BY <1>1, <1>2, BaseKnows
<1>4. hour \in Nat /\ f.at \in Nat /\ Day \in Nat
  BY <1>1, AlertAssumption DEF AlertInv, AlertAssumption
<1>5. QED BY <1>2, <1>3, <1>4

\* A refresh: the newer state goes on, and what it found is stored with it or is nothing.
LEMMA RefreshKeeps ==
  ASSUME AlertInv, NEW o, Refresh(o)
  PROVE  AlertInv'
<1> DEFINE old == IF LiveIsNewer THEN live ELSE record
           n == Advance(old, o)
<1>1. old \in {record, live} /\ (old = NoState => record = NoState)
  BY DEF LiveIsNewer
<1>2. /\ hour' = hour /\ live' = n.state
      /\ IF WriteDue(record, n) THEN record' = n.state /\ alertEvents' = alertEvents \cup Unstored(n.events)
         ELSE record' = record /\ alertEvents' = alertEvents
  BY DEF Refresh
<1>3. Knows(n.state, alertEvents \cup n.events, hour) /\ n.state # NoState
  BY <1>1, NextKnows
<1>4. ~ WriteDue(record, n) => record # NoState /\ n.events = {}
  BY DEF WriteDue
<1>5. \A e \in n.events : e.at = hour
  BY AdvanceReminds
<1>6. ASSUME NEW e \in n.events, NEW f \in alertEvents \cup n.events, Reminding(e), Reminding(f), e # f, e.key = f.key
      PROVE  e.at - f.at >= Day
  BY <1>1, <1>6, NewAreSpaced
<1> HIDE DEF old, n
<1>7. Unstored(n.events) \subseteq n.events
  BY DEF Unstored
<1>8. CASE ~ WriteDue(record, n)
  <2>1. record' = record /\ record # NoState /\ alertEvents' = alertEvents /\ hour' = hour
    BY <1>2, <1>4, <1>8
  <2>2. RemindersAreSpaced'
    BY <2>1 DEF AlertInv, RemindersAreSpaced
  <2>3. Knows(live', alertEvents', hour')
    BY <1>2, <1>3, <2>1 DEF Knows
  <2>4. QED BY <2>1, <2>2, <2>3 DEF AlertInv
<1>9. CASE WriteDue(record, n)
  <2>1. /\ record' = n.state /\ live' = n.state /\ alertEvents' = alertEvents \cup Unstored(n.events)
        /\ alertEvents' \subseteq alertEvents \cup n.events
    BY <1>2, <1>7, <1>9
  <2>2. Knows(n.state, alertEvents', hour')
    BY <1>2, <1>3, <2>1 DEF Knows
  <2>3. RemindersAreSpaced'
    <3>1. ASSUME NEW e \in alertEvents', NEW f \in alertEvents', Reminding(e), Reminding(f), e # f, e.key = f.key
          PROVE  e.at - f.at >= Day \/ f.at - e.at >= Day
      <4>1. CASE e \in n.events
        BY <1>6, <2>1, <3>1, <4>1
      <4>2. CASE f \in n.events
        BY <1>6, <2>1, <3>1, <4>2
      <4>3. CASE e \in alertEvents /\ f \in alertEvents
        BY <3>1, <4>3 DEF AlertInv, RemindersAreSpaced, Reminding
      <4>4. QED BY <2>1, <4>1, <4>2, <4>3
    <3>2. QED BY <3>1 DEF RemindersAreSpaced, Reminding
  <2>4. hour' \in Nat /\ \A e \in alertEvents' : e.at \in Nat /\ e.at <= hour'
    BY <1>2, <1>5, <2>1 DEF AlertInv
  <2>5. QED BY <1>3, <2>1, <2>2, <2>3, <2>4 DEF AlertInv
<1>10. QED BY <1>8, <1>9

\* Two reminders of the same limit and interval are a day apart, however the observations
\* fall, whatever a restart loses and however the rate goes back and forth: the row and
\* the state in memory both know every reminder of the last day.
THEOREM RemindedOnceADay == AlertSpec => []RemindersAreSpaced
<1>1. AlertInit => AlertInv
  BY DEF AlertInit, AlertInv, RemindersAreSpaced, NoState
<1>2. ASSUME AlertInv, [AlertNext]_alertVars
      PROVE  AlertInv'
  <2>1. CASE UNCHANGED alertVars
    BY <1>2, <2>1 DEF alertVars, AlertInv, Knows, RemindersAreSpaced
  <2>2. CASE ObserveRates
    BY <1>2, <2>2, RefreshKeeps DEF ObserveRates
  <2>3. CASE AlertsRestart
    BY <1>2, <2>3 DEF AlertsRestart, AlertInv, Knows, RemindersAreSpaced
  <2>4. CASE HourPasses
    <3>1. hour' = hour + 1 /\ UNCHANGED <<record, live, alertEvents>>
      BY <2>4 DEF HourPasses
    <3>2. hour' \in Nat /\ \A e \in alertEvents' : e.at \in Nat /\ e.at <= hour'
      BY <1>2, <3>1 DEF AlertInv
    <3>3. \A e \in alertEvents' : hour' - e.at < Day => hour - e.at < Day
      BY <1>2, <3>1, AlertAssumption DEF AlertInv, AlertAssumption
    <3>4. \A s \in {record', live'} \ {NoState} : Knows(s, alertEvents', hour')
      BY <1>2, <3>1, <3>3 DEF AlertInv, Knows
    <3>5. RemindersAreSpaced'
      BY <1>2, <3>1 DEF AlertInv, RemindersAreSpaced
    <3>6. QED BY <1>2, <3>1, <3>2, <3>4, <3>5 DEF AlertInv
  <2>5. CASE \E b \in 2 .. hour, rate \in RateLimits \cup {Off} : FixesRate(b, rate)
    BY <1>2, <2>5 DEF FixesRate, AlertInv, Knows, RemindersAreSpaced
  <2>6. QED BY <1>2, <2>1, <2>2, <2>3, <2>4, <2>5 DEF AlertNext
<1>3. AlertInv => RemindersAreSpaced
  BY DEF AlertInv
<1>4. QED BY <1>1, <1>2, <1>3, PTL DEF AlertSpec
=============================================================================
