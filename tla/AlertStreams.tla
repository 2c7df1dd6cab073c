---------------------------- MODULE AlertStreams ----------------------------
(***************************************************************************)
(* The live half of the alert centre: AlertStreamHub (anomaly_streams.py),  *)
(* the PublicWorker coroutines that feed it, and PublicBookRefresh          *)
(* (quote_refresh.py), whose threads confirm quiet books over REST.         *)
(* Everything the hub does under hub.lock is one action; everything a       *)
(* worker or a refresh thread does between two acquisitions of the lock is  *)
(* another, so that a socket may die, be retired or come back while a REST  *)
(* answer is on its way.                                                    *)
(*                                                                         *)
(* Times are ages (now - stamp) in ticks.  An age saturates at MaxAge + 1,  *)
(* from where no guard of the code can tell it from an older one.           *)
(***************************************************************************)
EXTENDS ShardPlan, Functions

CONSTANTS Paths,          \* (strategy, symbol, long venue, short venue)
          Metrics,        \* RULES: what the detector follows of a path
          StrategyOf,     \* StrategyOf[p] = p[0]
          RouteSpecs,     \* RouteSpecs[p]: the routes discovery may give p
          Workers,        \* identities of PublicWorker objects
          Prices,
          ReceiptFeeds,   \* bn_spot: books without an exchange time
          RestFeeds,      \* quote_refresh.LIMITS
          BulkFeeds,      \* quote_refresh.BULK_URLS
          MaxAge,         \* AlertStreamHub.MAX_AGE
          MaxSkew,        \* AlertStreamHub.MAX_SKEW
          MaxFuture,      \* a stamp may lead the local clock by this much
          Quiet,          \* a book this old is worth confirming
          Backoff,        \* least ticks between two connections of a worker
          MaxPending,     \* the 20000 queued pulses of ingest
          MaxConn         \* bound of the model: connections per worker

ASSUME StreamAssumption ==
  /\ {MaxAge, MaxSkew, MaxFuture, Quiet, Backoff, MaxConn} \subseteq Nat
  /\ MaxPending \in Nat \ {0}
  /\ Paths \subseteq DOMAIN StrategyOf
  /\ BulkFeeds \subseteq RestFeeds
  /\ \A p \in Paths : \A r \in RouteSpecs[p] :
        /\ {r.long, r.short} \cup r.mark \subseteq Keys
        /\ r.threshold \in Nat
  /\ IsFiniteSet(Paths) /\ IsFiniteSet(Metrics)

VARIABLES routes,      \* hub.routes: path -> route (by_key is derived)
          quotes,      \* hub.books and hub.marks: key -> quote
          dirty,       \* hub.dirty
          fresh,       \* keys of hub.fresh
          live,        \* hub.live_quotes (and hub.noise): path -> context
          isolated,    \* hub.stream_isolated
          tracks,      \* hub.detector.tracks, the metrics of a path together
          backlog,     \* pulses in hub.pending that have ended
          overloaded,  \* hub.overloaded
          owners,      \* hub.owners: key -> worker
          workers,     \* the PublicWorker objects
          asks         \* REST confirmations in flight

quoteVars == <<quotes, dirty, fresh, live, isolated, tracks, backlog>>
vars == <<routes, quotes, dirty, fresh, live, isolated, tracks, backlog,
          overloaded, owners, workers, asks>>

Old == MaxAge + 1
Ages == -MaxFuture .. Old
Older(age) == IF age = Old THEN Old ELSE age + 1
Fresh(age) == -MaxFuture <= age /\ age <= MaxAge

\* A definition whose name tells of a mistake (ByLongLeg, NeverOvertaken, ...)
\* stands before the one it would replace: the runs that check a property are
\* shown to notice that mistake.  Nothing else uses it.
Nothing == [x \in {} |-> x]
Without(f, S) == Restrict(f, DOMAIN f \ S)
Written(f, x, v) == [y \in DOMAIN f \cup {x} |-> IF y = x THEN v ELSE f[y]]

-----------------------------------------------------------------------------
(* Routes and quotes                                                        *)

Legs(r) == {r.long, r.short} \cup r.mark
ByLongLeg(k) == {p \in DOMAIN routes : k = routes[p].long}
ByKey(k) == {p \in DOMAIN routes : k \in Legs(routes[p])}
Subscribed == UNION {Legs(routes[p]) : p \in DOMAIN routes}

\* The connection a worker is on: its identity and how often it connected.
ConnOf(w) == <<w, workers[w].conn>>

\* A new PublicWorker for the keys of one shard.
Started(shard) == [keys |-> shard, phase |-> "idle", stop |-> FALSE, conn |-> 0,
                   src |-> Old, lag |-> Old, rest |-> 0]

Near(a, b) == a - b <= MaxSkew /\ b - a <= MaxSkew

\* Both legs present, recent enough and close enough in time to compare.
Aligned(r, q) ==
  /\ {r.long, r.short} \subseteq DOMAIN q
  /\ q[r.long].age <= MaxAge /\ q[r.short].age <= MaxAge
  /\ Near(q[r.long].age, q[r.short].age)

\* What live_quotes keeps of a path: the two sides it was computed from.
Context(r, q) == <<q[r.long].price, q[r.short].price>>

Gap(a, b) == IF a < b THEN b - a ELSE a - b

\* ingest's isolation of a spot path whose two books are far apart while the
\* mark agrees with the futures side.
Diverges(r, q) ==
  /\ r.mark \subseteq DOMAIN q
  /\ \E m \in r.mark : q[m].age <= MaxAge /\ q[m].price = q[r.short].price
  /\ Gap(q[r.long].price, q[r.short].price) >= r.threshold

\* PublicBookRefresh holds on to the book object it was chosen with; `is` fails
\* for ever once that object left the cache.
NeverOvertaken(ks, open) == open
Overtaken(ks, open) ==
  {IF a.key \in ks /\ a.prev = "same" THEN [a EXCEPT !.prev = "replaced"] ELSE a :
     a \in open}

\* The open pulses of the paths ps: no metric of a path has more than one.
Pulsing(ps) == {x \in (ps \cap DOMAIN tracks) \X Metrics : x[2] \in tracks[x[1]].held}

\* Open pulses that hub.pending has under their id.
Queued == {x \in Pulsing(DOMAIN tracks) : x[2] \in tracks[x[1]].queued}

\* _updates, for pulses that end: each stays in hub.pending, or joins it, under
\* its id, and no track holds it any more.
Queue(ended) == backlog' = backlog + Cardinality(ended)

-----------------------------------------------------------------------------
(* AlertStreamHub                                                           *)

Init ==
  /\ routes = Nothing /\ quotes = Nothing /\ live = Nothing /\ tracks = Nothing
  /\ dirty = {} /\ fresh = {} /\ isolated = {} /\ asks = {}
  /\ backlog = 0 /\ overloaded = FALSE
  /\ owners = Nothing
  /\ workers = [w \in Workers |-> [Started({}) EXCEPT !.phase = "free"]]

\* What discovery may hand to register for one strategy.
Discovered(s) ==
  UNION {{f \in [P -> UNION {RouteSpecs[p] : p \in P}] : \A p \in P : f[p] \in RouteSpecs[p]} :
           P \in SUBSET {p \in Paths : StrategyOf[p] = s}}

\* Paths of the strategy that are not among the incoming routes as they were.
Gone(s, incoming) == {p \in DOMAIN routes : /\ StrategyOf[p] = s
                                            /\ p \in DOMAIN incoming => incoming[p] # routes[p]}

Registered(gone, incoming) ==
  /\ routes' = [p \in (DOMAIN routes \ gone) \cup DOMAIN incoming |->
                  IF p \in DOMAIN incoming THEN incoming[p] ELSE routes[p]]
  /\ tracks' = Without(tracks, gone)
  /\ live' = Without(live, gone)
  /\ fresh' = fresh \ gone
  /\ isolated' = isolated \ gone
  /\ dirty' = dirty \ gone
  /\ Queue(Pulsing(gone))
  /\ UNCHANGED <<quotes, overloaded, owners, workers, asks>>

\* AlertStreamHub.register: discovery replaces every route of one strategy.
Register(s) == \E incoming \in Discovered(s) : Registered(Gone(s, incoming), incoming)

\* AlertStreamHub.invalidate, for keys whose owner check has passed.
Invalidated(ks) ==
  LET affected == UNION {ByKey(k) : k \in ks}
  IN /\ quotes' = Without(quotes, ks)
     /\ fresh' = fresh \ affected
     /\ live' = Without(live, affected)
     /\ isolated' = isolated \ affected
     /\ dirty' = dirty \cup affected
     /\ tracks' = Without(tracks, affected)
     /\ Queue(Pulsing(affected))
     /\ asks' = Overtaken(ks, asks)

UnmarkedOnChange(changed, paths) == dirty
Marked(changed, paths) == IF changed THEN dirty \cup paths ELSE dirty

IsolationKept(seen, split) == isolated \cup split
Isolation(seen, split) == (isolated \ seen) \cup split

\* The paths ingest can evaluate when key k has the quotes q, and those of them
\* it isolates.
Ready(k, q) == {p \in ByKey(k) : Aligned(routes[p], q)}
Split(k, q) == {p \in Ready(k, q) : Diverges(routes[p], q)}
Seen(k, q) == Ready(k, q) \ Split(k, q)

\* detector.observe for every metric of a path it looks at: `open` are the pulses
\* held afterwards, `told` those of them in hub.pending.
Observed(p, q, base, open, told) ==
  [held   |-> {m \in Metrics : <<p, m>> \in open},
   queued |-> {m \in Metrics : <<p, m>> \in told},
   missed |-> p \in DOMAIN base /\ base[p].missed,
   conns  |-> IF p \in DOMAIN base THEN base[p].conns
              ELSE <<q[routes[p].long].conn, q[routes[p].short].conn>>]

\* A first reading opens nothing.  A later one may end the pulse a metric holds
\* (settled, or ten seconds of silence), and `again` are those that end and
\* restart at once: both the old pulse and the new one are returned.  An update of
\* a pulse that goes on is queued unless observe returned early.
Evaluate(k, q, marked, base) ==
  LET split == Split(k, q)
      seen  == Seen(k, q)
      held  == Pulsing(DOMAIN base)
  IN /\ dirty' = marked \ seen
     /\ fresh' = (fresh \ split) \cup seen
     /\ isolated' = Isolation(seen, split)
     /\ live' = [p \in (DOMAIN live \ split) \cup seen |->
                   IF p \in seen THEN Context(routes[p], q) ELSE live[p]]
     /\ \E open \in SUBSET ((seen \cap DOMAIN base) \X Metrics) :
        \E again \in SUBSET (open \cap held) : \E told \in SUBSET open :
          /\ (open \ held) \cup again \cup (open \cap Queued) \subseteq told
          /\ tracks' = [p \in (DOMAIN base \ split) \cup seen |->
                         IF p \in seen THEN Observed(p, q, base, open, told) ELSE base[p]]
          /\ Queue(Pulsing(seen \cup split \cup (DOMAIN tracks \ DOMAIN base)) \ (open \ again))

\* The frame is cached but no path looked at.
Keep(base) ==
  /\ tracks' = base
  /\ Queue(Pulsing(DOMAIN tracks \ DOMAIN base))
  /\ UNCHANGED <<dirty, fresh, live, isolated>>

\* The end of ingest: cache the item, then evaluate every aligned path of the
\* key, unless nothing changed and every path was evaluated within the second
\* (ticks do not resolve that second, so the skip is a choice).
Accept(k, item, base, open) ==
  LET changed == k \in DOMAIN quotes => quotes[k].price # item.price
      marked  == Marked(changed, ByKey(k))
  IN /\ quotes' = Written(quotes, k, item)
     /\ asks' = Overtaken({k}, open)
     /\ \/ ~changed /\ ByKey(k) \subseteq fresh \ marked /\ Keep(base)
        \/ Evaluate(k, Written(quotes, k, item), marked, base)

FullTooLate == backlog + Cardinality(Queued) > MaxPending
Full == backlog + Cardinality(Queued) >= MaxPending

BridgedTracks == tracks
ResumedTracks == IF overloaded THEN Without(tracks, DOMAIN routes) ELSE tracks

\* AlertStreamHub.ingest.  While the queue is full frames are dropped and only
\* `fresh` is cleared; the first frame after it drained restarts the detector.
\* `open` are the confirmations still in flight when the lock is taken; `missed`
\* is the model's own note that a track was alive while frames were dropped.
\* A frame of a known key can be refused for its time, its values or a lower
\* sequence, and values are abstract here: any may be.  A lower sequence that
\* announces a reset is no case of its own: only an orderbook.1 frame of Bybit
\* does so, and `subscription` asks Bybit for tickers alone.
Ingest(k, item, open) ==
  IF Full
  THEN /\ overloaded' = TRUE
       /\ fresh' = {}
       /\ tracks' = [p \in DOMAIN tracks |-> [tracks[p] EXCEPT !.missed = TRUE]]
       /\ asks' = open
       /\ UNCHANGED <<quotes, dirty, live, isolated, backlog>>
  ELSE LET base == ResumedTracks
       IN /\ overloaded' = FALSE
          /\ \/ /\ k \in Subscribed
                /\ Fresh(item.age)
                /\ k \in DOMAIN quotes => item.age <= quotes[k].age
                /\ Accept(k, item, base, open)
             \/ Keep(base) /\ asks' = open /\ UNCHANGED quotes

DrainTwice == backlog' = backlog - 1 /\ UNCHANGED <<routes, quotes, dirty, fresh, live,
                 isolated, tracks, overloaded, owners, workers, asks>>

\* AlertStreamHub.acknowledge, seen from here: some pulses of hub.pending, ended or
\* open, are durable in the version they have there.
Drain ==
  /\ backlog' \in 0 .. backlog
  /\ \E left \in SUBSET Queued :
       /\ backlog' < backlog \/ left # Queued
       /\ tracks' = [p \in DOMAIN tracks |->
                      [tracks[p] EXCEPT !.queued = {m \in @ : <<p, m>> \in left}]]
  /\ UNCHANGED <<routes, quotes, dirty, fresh, live, isolated, overloaded, owners,
                 workers, asks>>

\* screening_quotes: what a page may show for a path.
Servable(p) ==
  /\ ~overloaded
  /\ p \in DOMAIN routes \cap DOMAIN live
  /\ p \notin dirty
  /\ Aligned(routes[p], quotes)
  /\ Fresh(quotes[routes[p].long].age) /\ Fresh(quotes[routes[p].short].age)

Current == Range(owners)
NewWorkers == {w \in Workers : /\ workers[w].phase = "free"
                               /\ \A a \in asks : a.owner # w}

OwnersKept(opened, made) ==
  [k \in Subscribed |-> IF k \in DOMAIN owners THEN owners[k]
                        ELSE made[CHOOSE s \in opened : k \in s]]
OwnersOfOld(opened, made) == Restrict(owners, Subscribed \cap DOMAIN owners)
Owners(opened, made) ==
  [k \in Subscribed |-> IF \E s \in opened : k \in s
                        THEN made[CHOOSE s \in opened : k \in s] ELSE owners[k]]

Retired(plan) == {w \in Current : workers[w].keys \notin plan}
Opened(plan) == plan \ {workers[w].keys : w \in Current}

\* AlertStreamHub.reconcile: shards that are no longer what they should be are
\* stopped and invalidated, the missing ones created, the owners recomputed.
Replan(plan, made) ==
  /\ workers' = [w \in Workers |->
        IF w \in Retired(plan) THEN [workers[w] EXCEPT !.stop = TRUE]
        ELSE IF w \in Range(made) THEN Started(CHOOSE s \in Opened(plan) : made[s] = w)
        ELSE workers[w]]
  /\ owners' = Owners(Opened(plan), made)
  /\ Invalidated(UNION {workers[w].keys : w \in Retired(plan)})
  /\ UNCHANGED <<routes, overloaded>>

Reconcile ==
  \E plan \in SUBSET (SUBSET Subscribed) :
    /\ IsPlan({workers[w].keys : w \in Current}, plan, Subscribed)
    /\ \E made \in Injection(Opened(plan), NewWorkers) : Replan(plan, made)

-----------------------------------------------------------------------------
(* PublicWorker.run                                                         *)

hubVars == <<routes, quotes, dirty, fresh, live, isolated, tracks, backlog,
             overloaded, owners, asks>>

InPhase(w, phase) == workers[w].phase = phase

\* The loop head has seen `stop` clear and connect() is awaited.
Dial(w) ==
  /\ InPhase(w, "idle") /\ ~workers[w].stop
  /\ workers[w].rest = 0 /\ workers[w].conn < MaxConn
  /\ workers' = [workers EXCEPT ![w].phase = "dialing"]
  /\ UNCHANGED hubVars

\* connect() returned: a new StreamLagGuard, but last_source_at is not reset.
Connect(w) ==
  /\ InPhase(w, "dialing")
  /\ workers' = [workers EXCEPT ![w].phase = "open", ![w].lag = Old,
                                ![w].conn = @ + 1]
  /\ UNCHANGED hubVars

\* A book or mark of key k arrives on the socket.  The guard's clock is the item
\* itself, except for receipt-stamped books, which are always `now`.
Frame(w) ==
  \E k \in workers[w].keys : \E price \in Prices : \E age \in Ages :
    LET receipt == FeedOf[k] \in ReceiptFeeds
        clock   == IF receipt THEN workers[w].lag ELSE age
        item    == [price |-> price, age |-> age, conn |-> ConnOf(w),
                    asked |-> ConnOf(w)]
    IN /\ InPhase(w, "open")
       /\ receipt => age = 0
       /\ workers' = [workers EXCEPT ![w].src = clock]
       /\ IF Fresh(clock) /\ k \in DOMAIN owners /\ owners[k] = w
          THEN Ingest(k, item, asks)
          ELSE UNCHANGED <<quoteVars, overloaded, asks>>
       /\ UNCHANGED <<routes, owners>>

\* The exchange clock that shares the socket of a receipt-stamped feed.
Clock(w) ==
  /\ InPhase(w, "open")
  /\ \E k \in workers[w].keys : FeedOf[k] \in ReceiptFeeds
  /\ \E age \in Ages : workers' = [workers EXCEPT ![w].lag = age, ![w].src = age]
  /\ UNCHANGED hubVars

\* The inner loop ends: `stop`, a closed or silent or stale socket, a failed
\* connect, a cancelled future.  `connected` is cleared before the lock is taken.
Drop(w) ==
  /\ workers[w].phase \in {"dialing", "open"}
  /\ workers' = [workers EXCEPT ![w].phase = "closing"]
  /\ UNCHANGED hubVars

ReleasedUnasked(w) == workers[w].keys
Released(w) == {k \in workers[w].keys : k \in DOMAIN owners /\ owners[k] = w}

\* finally: hub.invalidate(keys, owner=self), for the keys it still owns.
CloseSocket(w) ==
  /\ InPhase(w, "closing")
  /\ workers' = [workers EXCEPT ![w].phase = IF workers[w].stop THEN "free" ELSE "idle",
                                ![w].rest = Backoff]
  /\ Invalidated(Released(w))
  /\ UNCHANGED <<routes, overloaded, owners>>

RetireSleeping(w) ==
  /\ InPhase(w, "idle") /\ workers[w].stop /\ workers[w].rest > 0
  /\ workers' = [workers EXCEPT ![w].phase = "free"]
  /\ UNCHANGED hubVars

\* reconcile cancelled the future of a worker that was sleeping out its backoff.
Retire(w) ==
  /\ InPhase(w, "idle") /\ workers[w].stop
  /\ workers' = [workers EXCEPT ![w].phase = "free"]
  /\ UNCHANGED hubVars

-----------------------------------------------------------------------------
(* PublicBookRefresh                                                        *)

\* The source is healthy as far as choose and accept can see.
Healthy(w) == InPhase(w, "open") /\ Fresh(workers[w].src)

Confirmable(f) ==
  {k \in Subscribed \cap DOMAIN owners :
     /\ FeedOf[k] = f
     /\ Healthy(owners[k])
     /\ k \in DOMAIN quotes => quotes[k].age >= Quiet}

AskFor(k) == [key |-> k, owner |-> owners[k], conn |-> ConnOf(owners[k]), wait |-> 0,
              prev |-> IF k \in DOMAIN quotes THEN "same" ELSE "none"]

\* choose and choose_bulk: one quiet book, or all of them, per request; a feed's
\* thread asks again only when its last request is settled.  Which single key is
\* due (`attempted`, two seconds apart) is a choice here.
Choose(f) ==
  /\ \A a \in asks : FeedOf[a.key] # f
  /\ \E ks \in SUBSET Confirmable(f) :
       /\ ks # {}
       /\ IF f \in BulkFeeds THEN ks = Confirmable(f) ELSE Cardinality(ks) = 1
       /\ asks' = asks \cup {AskFor(k) : k \in ks}
  /\ UNCHANGED <<routes, quoteVars, overloaded, owners, workers>>

AcceptableAnyOwner(a) ==
  /\ a.key \in Subscribed
  /\ Healthy(a.owner)
  /\ a.prev = "same" \/ (a.prev = "none" /\ a.key \notin DOMAIN quotes)

\* PublicBookRefresh.accept: every condition under which an answer is dropped.
Acceptable(a) ==
  /\ a.key \in Subscribed
  /\ a.key \in DOMAIN owners /\ owners[a.key] = a.owner
  /\ Healthy(a.owner)
  /\ a.prev = "same" \/ (a.prev = "none" /\ a.key \notin DOMAIN quotes)

\* The answer to a, parsed within MAX_RTT and ingested whenever the thread gets
\* the lock; an answer that cannot be used or is refused only settles the ask.
\* A receipt-stamped book carries the time its request started.
Answer(a) ==
  \/ /\ Acceptable(a)
     /\ \E price \in Prices : \E age \in Ages :
          /\ FeedOf[a.key] \in ReceiptFeeds => age = a.wait
          /\ Ingest(a.key, [price |-> price, age |-> age, conn |-> ConnOf(a.owner),
                            asked |-> a.conn], asks \ {a})
     /\ UNCHANGED <<routes, owners, workers>>
  \/ /\ asks' = asks \ {a}
     /\ UNCHANGED <<routes, quoteVars, overloaded, owners, workers>>

-----------------------------------------------------------------------------
Tick ==
  /\ quotes' = [k \in DOMAIN quotes |-> [quotes[k] EXCEPT !.age = Older(@)]]
  /\ workers' = [w \in Workers |->
        [workers[w] EXCEPT !.src = Older(@), !.lag = Older(@),
                           !.rest = IF @ = 0 THEN 0 ELSE @ - 1]]
  /\ asks' = {[a EXCEPT !.wait = Older(@)] : a \in asks}
  /\ UNCHANGED <<routes, dirty, fresh, live, isolated, tracks, backlog,
                 overloaded, owners>>

Worker(w) == \/ Dial(w) \/ Connect(w) \/ Frame(w) \/ Clock(w) \/ Drop(w)
             \/ CloseSocket(w) \/ Retire(w)

Next ==
  \/ \E s \in Range(StrategyOf) : Register(s)
  \/ Reconcile
  \/ \E w \in Workers : Worker(w)
  \/ \E f \in RestFeeds : Choose(f)
  \/ \E a \in asks : Answer(a)
  \/ Drain
  \/ Tick

Spec == Init /\ [][Next]_vars

\* What the program schedules for ever: reconcile every thirty seconds, the
\* event loop that runs a cancelled or finished coroutine to its end and lets a
\* live one dial again, request threads whose calls time out, and a clock.
Fairness ==
  /\ WF_vars(Reconcile)
  /\ WF_vars(\E a \in asks : Answer(a))
  /\ WF_vars(Tick)
  /\ \A w \in Workers : /\ WF_vars(Dial(w))
                         /\ WF_vars(workers[w].stop /\ Drop(w))
                         /\ WF_vars(CloseSocket(w))
                         /\ WF_vars(Retire(w))

FairSpec == Spec /\ Fairness

-----------------------------------------------------------------------------
(* Properties                                                               *)

Quote == [price : Prices, age : Ages, conn : Workers \X Nat, asked : Workers \X Nat]
Ask == [key : Keys, owner : Workers, conn : Workers \X Nat, wait : Ages,
        prev : {"none", "same", "replaced"}]
WorkerState == [keys : SUBSET Keys, stop : BOOLEAN, conn : Nat, src : Ages, lag : Ages,
                phase : {"free", "idle", "dialing", "open", "closing"}, rest : Nat]
Track == [held : SUBSET Metrics, queued : SUBSET Metrics, missed : BOOLEAN,
          conns : (Workers \X Nat) \X (Workers \X Nat)]

QuotesOK == DOMAIN quotes \subseteq Keys /\ \A k \in DOMAIN quotes : quotes[k] \in Quote
TracksOK == DOMAIN tracks \subseteq Paths /\ \A p \in DOMAIN tracks : tracks[p] \in Track
LiveOK == DOMAIN live \subseteq Paths /\ \A p \in DOMAIN live : live[p] \in Prices \X Prices
MarksOK == {dirty, fresh, isolated} \subseteq SUBSET Paths
RoutesOK == DOMAIN routes \subseteq Paths /\ \A p \in DOMAIN routes : routes[p] \in RouteSpecs[p]
OwnersOK == DOMAIN owners \subseteq Keys /\ \A k \in DOMAIN owners : owners[k] \in Workers

\* Every variable is what hub, worker and refresh code expect to find in it.
TypeOK ==
  /\ QuotesOK /\ TracksOK /\ LiveOK /\ MarksOK /\ RoutesOK /\ OwnersOK
  /\ backlog \in Nat /\ overloaded \in BOOLEAN
  /\ workers \in [Workers -> WorkerState]
  /\ asks \subseteq Ask

\* The hub asks `owners` who may speak for a key: it is a worker that subscribes
\* the key, that has not been stopped or ended, and that owns all of its shard.
OwnersRun ==
  \A k \in DOMAIN owners :
    LET w == owners[k]
    IN /\ k \in workers[w].keys
       /\ workers[w].phase # "free" /\ ~workers[w].stop
       /\ \A l \in workers[w].keys : l \in DOMAIN owners /\ owners[l] = w

\* No cached quote outlives the connection that vouches for it: its key has an
\* owner, and that worker is still on the connection the quote came from or was
\* confirmed under (it may be about to invalidate it).
QuoteOwnership ==
  \A k \in DOMAIN quotes :
    /\ k \in DOMAIN owners
    /\ quotes[k].conn = ConnOf(owners[k])
    /\ workers[owners[k]].phase \in {"open", "closing"}

\* An open spread episode rests on one unbroken pair of connections: both books
\* it compares come from the connections it began with.  A reconnect, a new
\* shard or a changed route always restarts the detector.
TracksWithinConnections ==
  \A p \in DOMAIN tracks :
    /\ p \in DOMAIN routes
    /\ {routes[p].long, routes[p].short} \subseteq DOMAIN quotes
    /\ tracks[p].conns = <<quotes[routes[p].long].conn, quotes[routes[p].short].conn>>

\* Outside overload no episode spans frames that were dropped ("resume with a gap").
GapAfterOverload == ~overloaded => \A p \in DOMAIN tracks : ~tracks[p].missed

\* A path that is live and not marked for re-evaluation was evaluated with
\* exactly the two prices now cached, so what screening_quotes reads from the
\* books is what the detector saw.
LiveMatchesBooks ==
  \A p \in DOMAIN live \ dirty :
    /\ p \in DOMAIN routes
    /\ {routes[p].long, routes[p].short} \subseteq DOMAIN quotes
    /\ live[p] = Context(routes[p], quotes)

\* A path isolated for divergent prices is nowhere treated as an opportunity.
IsolatedIsSilent == isolated \cap (DOMAIN live \cup DOMAIN tracks \cup fresh) = {}

\* The queue of pulses is bounded however long the database is away, and however
\* many pulses still open end: the last frame that is looked at, with room for one,
\* may end one pulse and open another for each metric of each path.
BacklogBounded ==
  backlog + Cardinality(Pulsing(DOMAIN tracks)) < MaxPending + 2 * Cardinality(Paths \X Metrics)

LetGo(w) == \/ workers[w].phase = "closing" /\ workers'[w].phase # "closing"
            \/ ~workers[w].stop /\ workers'[w].stop

\* A quote disappears only when its own owner lets go of it, or because
\* reconcile retires that owner: "a retired socket must never erase its
\* successor".
QuotesFallWithTheirOwner ==
  [][\A k \in DOMAIN quotes \ DOMAIN quotes' : LetGo(owners[k])]_vars

\* A request that set out to confirm a cached book still has that book under the
\* connection it set out on: while its answer may replace the book, no reconnect
\* came between (for a request that found no book nothing of the kind holds, see
\* ConfirmedOnOneConnection).
ConfirmsWithinConnection ==
  \A a \in asks : a.prev = "same" => /\ a.key \in DOMAIN quotes
                                    /\ quotes[a.key].conn = a.conn

\* quote_refresh.py:71-72 of a REST answer: "accepted only while the
\* independently timed WS connection remains healthy".
ConfirmedOnOneConnection == \A k \in DOMAIN quotes : quotes[k].asked = quotes[k].conn

\* A stopped worker's coroutine always comes to its end.
StoppedWorkersEnd ==
  \A w \in Workers : workers[w].stop ~> workers[w].phase = "free"

\* A key some route needs gets an owner, unless it stops being needed.
KeysGetOwners ==
  \A k \in Keys : k \in Subscribed ~> (k \in DOMAIN owners \/ k \notin Subscribed)

\* What the books say is what the detector saw and what may be shown: of a path that is
\* isolated, waits for its evaluation or for the answer that confirms a book, too.
BooksAreHonest == LiveMatchesBooks /\ IsolatedIsSilent /\ ConfirmsWithinConnection

\* What an overload drops is dropped within bounds and never bridged afterwards.
LossIsBounded == GapAfterOverload /\ BacklogBounded

\* Whatever reconnects, retires and restarts, workers end and keys are served again.
WorkersSucceed == StoppedWorkersEnd /\ KeysGetOwners
=============================================================================
