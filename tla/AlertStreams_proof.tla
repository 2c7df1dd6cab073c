------------------------- MODULE AlertStreams_proof -------------------------
(***************************************************************************)
(* Safety of AlertStreams for any feeds, routes, workers and bounds: first its *)
(* types, owners, quotes and tracks; then what the books say and what an       *)
(* overload may lose.                                                         *)
(***************************************************************************)
EXTENDS AlertStreams, FiniteSetTheorems, TLAPS

\* What the constants are.
LEMMA Constants ==
  /\ MaxAge \in Nat /\ MaxFuture \in Nat /\ Backoff \in Nat
  /\ MaxPending \in Nat /\ MaxPending > 0
  /\ Old \in Int /\ Old \in Ages /\ 0 \in Ages
  /\ \A age \in Ages : Older(age) \in Ages
<1>1. /\ MaxAge \in Nat /\ MaxFuture \in Nat /\ Backoff \in Nat
      /\ MaxPending \in Nat /\ MaxPending > 0
  BY StreamAssumption DEF StreamAssumption
<1>2. QED BY <1>1 DEF Old, Ages, Older

\* The legs of a route discovery may give a path are keys.
LEMMA LegsAreKeys ==
  ASSUME RoutesOK
  PROVE  /\ \A p \in DOMAIN routes : Legs(routes[p]) \subseteq Keys
         /\ Subscribed \subseteq Keys
         /\ \A k : ByKey(k) \subseteq DOMAIN routes
<1>1. \A p \in DOMAIN routes : Legs(routes[p]) \subseteq Keys
  BY StreamAssumption DEF StreamAssumption, RoutesOK, Legs
<1>2. QED BY <1>1 DEF Subscribed, ByKey

\* A path and one of its metrics have one open pulse at most, so there are no more of
\* them than such pairs, and these are finitely many.
LEMMA PulsesAreFinite ==
  ASSUME TracksOK
  PROVE  /\ Cardinality(Paths \X Metrics) \in Nat
         /\ \A S \in SUBSET (Paths \X Metrics) :
              /\ IsFiniteSet(S) /\ Cardinality(S) \in Nat
              /\ Cardinality(S) <= Cardinality(Paths \X Metrics)
         /\ \A ps : Pulsing(ps) \in SUBSET (Paths \X Metrics)
<1>1. IsFiniteSet(Paths \X Metrics)
  BY StreamAssumption, FS_Product DEF StreamAssumption
<1>2. \A ps : Pulsing(ps) \in SUBSET (Paths \X Metrics)
  BY DEF Pulsing, TracksOK
<1> DEFINE pairs == Paths \X Metrics
<1> HIDE DEF pairs
<1>3. IsFiniteSet(pairs)
  BY <1>1 DEF pairs
<1>4. Cardinality(pairs) \in Nat
  BY <1>3, FS_CardinalityType
<1>5. ASSUME NEW S \in SUBSET pairs
      PROVE  IsFiniteSet(S) /\ Cardinality(S) \in Nat /\ Cardinality(S) <= Cardinality(pairs)
  BY <1>3, FS_Subset, FS_CardinalityType
<1>6. QED BY <1>2, <1>4, <1>5 DEF pairs

\* Queueing pulses leaves a natural number of them, and adds one for each at most.
LEMMA QueueKeepsNat ==
  ASSUME TypeOK, NEW ended \in SUBSET (Paths \X Metrics), Queue(ended)
  PROVE  /\ backlog' \in Nat
         /\ backlog' <= backlog + Cardinality(Paths \X Metrics)
<1>1. Cardinality(ended) \in Nat /\ Cardinality(ended) <= Cardinality(Paths \X Metrics)
  BY PulsesAreFinite DEF TypeOK
<1>2. backlog \in Nat /\ Cardinality(Paths \X Metrics) \in Nat
  BY PulsesAreFinite DEF TypeOK
<1>3. QED BY <1>1, <1>2 DEF Queue

\* The same when what ends are open pulses of some paths.
LEMMA DroppedKeepNat ==
  ASSUME TypeOK, NEW ps, Queue(Pulsing(ps))
  PROVE  backlog' \in Nat
<1>1. Pulsing(ps) \in SUBSET (Paths \X Metrics)
  BY PulsesAreFinite DEF TypeOK
<1>2. QED BY <1>1, QueueKeepsNat

\* A written table has the new entry and all others as before.
LEMMA WrittenKeeps ==
  ASSUME NEW f, NEW x, NEW v
  PROVE  /\ DOMAIN Written(f, x, v) = DOMAIN f \cup {x}
         /\ Written(f, x, v)[x] = v
         /\ \A y \in DOMAIN f \ {x} : Written(f, x, v)[y] = f[y]
BY DEF Written

\* Overtaking changes what an ask remembers, never what it is about.
LEMMA OvertakenIsAsks ==
  ASSUME NEW ks, NEW open \in SUBSET Ask
  PROVE  Overtaken(ks, open) \in SUBSET Ask
<1>1. ASSUME NEW a \in Ask
      PROVE  [a EXCEPT !.prev = "replaced"] \in Ask
  BY DEF Ask
<1>2. QED BY <1>1 DEF Overtaken

HubTypeOK == /\ QuotesOK /\ TracksOK /\ LiveOK /\ MarksOK /\ backlog \in Nat
             /\ overloaded \in BOOLEAN /\ asks \subseteq Ask

\* Dropping quotes leaves the hub's tables well formed.
LEMMA InvalidatedKeepsTypes ==
  ASSUME TypeOK, NEW ks, Invalidated(ks), overloaded' \in BOOLEAN
  PROVE  HubTypeOK'
<1> DEFINE affected == UNION {ByKey(k) : k \in ks}
<1>1. affected \subseteq Paths
  BY LegsAreKeys DEF TypeOK, RoutesOK
<1>2. /\ quotes' = Without(quotes, ks)
      /\ tracks' = Without(tracks, affected)
      /\ live' = Without(live, affected)
      /\ asks' = Overtaken(ks, asks)
  BY DEF Invalidated
<1> HIDE DEF affected
<1>3. QuotesOK'
  <2>1. DOMAIN quotes' = DOMAIN quotes \ ks /\ \A k \in DOMAIN quotes' : quotes'[k] = quotes[k]
    BY <1>2 DEF Without, Restrict
  <2>2. QED BY <2>1 DEF TypeOK, QuotesOK
<1>4. TracksOK'
  <2>1. DOMAIN tracks' = DOMAIN tracks \ affected /\ \A p \in DOMAIN tracks' : tracks'[p] = tracks[p]
    BY <1>2 DEF Without, Restrict
  <2>2. QED BY <2>1 DEF TypeOK, TracksOK
<1>5. LiveOK'
  <2>1. DOMAIN live' = DOMAIN live \ affected /\ \A p \in DOMAIN live' : live'[p] = live[p]
    BY <1>2 DEF Without, Restrict
  <2>2. QED BY <2>1 DEF TypeOK, LiveOK
<1>6. MarksOK'
  BY <1>1 DEF TypeOK, MarksOK, Invalidated, affected
<1>7. backlog' \in Nat
  BY DroppedKeepNat DEF Invalidated
<1>8. asks' \subseteq Ask
  BY <1>2, OvertakenIsAsks DEF TypeOK
<1>9. QED BY <1>3, <1>4, <1>5, <1>6, <1>7, <1>8 DEF HubTypeOK

\* What the detector resumes with is some of the tracks it had.
LEMMA ResumedIsSome ==
  /\ DOMAIN ResumedTracks \subseteq DOMAIN tracks
  /\ \A p \in DOMAIN ResumedTracks : ResumedTracks[p] = tracks[p]
BY DEF ResumedTracks, Without, Restrict

\* What evaluating paths does to the tracks: one that goes on keeps its
\* connections, a new one takes those of the two books it compares.
LEMMA EvaluatedTracks ==
  ASSUME NEW k, NEW q, NEW marked, NEW base, Evaluate(k, q, marked, base)
  PROVE  \A p \in DOMAIN tracks' :
           \/ p \in DOMAIN base /\ tracks'[p].conns = base[p].conns
           \/ /\ p \in Ready(k, q)
              /\ tracks'[p].conns = <<q[routes[p].long].conn, q[routes[p].short].conn>>
<1> DEFINE seen == Seen(k, q)
           dom == (DOMAIN base \ Split(k, q)) \cup seen
<1>1. PICK held, told :
        tracks' = [p \in dom |-> IF p \in seen THEN Observed(p, q, base, held, told) ELSE base[p]]
  BY DEF Evaluate
<1>2. ASSUME NEW p \in DOMAIN tracks'
      PROVE  \/ p \in DOMAIN base /\ tracks'[p].conns = base[p].conns
             \/ /\ p \in Ready(k, q)
                /\ tracks'[p].conns = <<q[routes[p].long].conn, q[routes[p].short].conn>>
  <2>1. CASE p \in seen
    <3>1. tracks'[p] = Observed(p, q, base, held, told) /\ p \in Ready(k, q)
      BY <1>1, <2>1 DEF Seen
    <3>2. QED BY <3>1 DEF Observed
  <2>2. CASE p \notin seen
    BY <1>1, <2>2
  <2>3. QED BY <2>1, <2>2
<1>3. QED BY <1>2

\* Evaluating paths leaves the hub's tables well formed.
LEMMA EvaluateKeepsTypes ==
  ASSUME TypeOK, NEW k, NEW q, NEW marked \in SUBSET Paths, NEW base,
         DOMAIN q \subseteq Keys, \A x \in DOMAIN q : q[x] \in Quote,
         DOMAIN base \subseteq Paths, \A p \in DOMAIN base : base[p] \in Track,
         Evaluate(k, q, marked, base)
  PROVE  /\ TracksOK' /\ LiveOK' /\ MarksOK'
         /\ \E ended \in SUBSET (Paths \X Metrics) : Queue(ended)
<1> DEFINE seen == Seen(k, q)
           split == Split(k, q)
           dom == (DOMAIN base \ split) \cup seen
<1>1. seen \subseteq Paths /\ split \subseteq Paths
  BY DEF TypeOK, RoutesOK, Seen, Split, Ready, ByKey
<1>2. \A p \in seen : /\ q[routes[p].long] \in Quote
                      /\ q[routes[p].short] \in Quote
  BY DEF Seen, Ready, Aligned
<1>3. TracksOK'
  <2>1. PICK held, told :
          tracks' = [p \in dom |-> IF p \in seen THEN Observed(p, q, base, held, told) ELSE base[p]]
    BY DEF Evaluate
  <2>2. \A p \in seen : Observed(p, q, base, held, told) \in Track
    BY <1>2 DEF Observed, Track, Quote
  <2>3. \A p \in DOMAIN tracks' : tracks'[p] \in Track
    BY <2>1, <2>2
  <2>4. DOMAIN tracks' \subseteq Paths
    BY <2>1, <1>1
  <2>5. QED BY <2>3, <2>4 DEF TracksOK
<1>4. LiveOK'
  <2>1. live' = [p \in (DOMAIN live \ split) \cup seen |->
                   IF p \in seen THEN Context(routes[p], q) ELSE live[p]]
    BY DEF Evaluate
  <2>2. \A p \in seen : Context(routes[p], q) \in Prices \X Prices
    BY <1>2 DEF Context, Quote
  <2>3. QED BY <1>1, <2>1, <2>2 DEF TypeOK, LiveOK
<1>5. MarksOK'
  BY <1>1 DEF TypeOK, MarksOK, Evaluate, Isolation
<1>6. \E ended \in SUBSET (Paths \X Metrics) : Queue(ended)
  <2>1. PICK ps, goOn : Queue(Pulsing(ps) \ goOn)
    BY DEF Evaluate
  <2>2. Pulsing(ps) \ goOn \in SUBSET (Paths \X Metrics)
    BY PulsesAreFinite DEF TypeOK
  <2>3. QED BY <2>1, <2>2
<1>7. QED BY <1>3, <1>4, <1>5, <1>6

\* Caching an item leaves the hub's tables well formed.
LEMMA AcceptKeepsTypes ==
  ASSUME TypeOK, NEW k \in Keys, NEW item \in Quote, NEW open \in SUBSET Ask,
         Accept(k, item, ResumedTracks, open), overloaded' = FALSE
  PROVE  HubTypeOK' /\ \E ended \in SUBSET (Paths \X Metrics) : Queue(ended)
<1> DEFINE q == Written(quotes, k, item)
           base == ResumedTracks
           changed == k \in DOMAIN quotes => quotes[k].price # item.price
           marked == Marked(changed, ByKey(k))
<1>1. DOMAIN q \subseteq Keys /\ \A x \in DOMAIN q : q[x] \in Quote
  BY DEF TypeOK, QuotesOK, Written
<1>2. QuotesOK'
  <2>1. quotes' = q
    BY DEF Accept
  <2>2. QED BY <1>1, <2>1 DEF TypeOK, QuotesOK
<1>3. DOMAIN base \subseteq Paths /\ \A p \in DOMAIN base : base[p] \in Track
  BY ResumedIsSome DEF TypeOK, TracksOK
<1>4. marked \in SUBSET Paths
  BY DEF TypeOK, MarksOK, RoutesOK, Marked, ByKey
<1>5. /\ TracksOK' /\ LiveOK' /\ MarksOK'
      /\ \E ended \in SUBSET (Paths \X Metrics) : Queue(ended)
  <2>1. CASE Keep(base)
    <3>1. Pulsing(DOMAIN tracks \ DOMAIN base) \in SUBSET (Paths \X Metrics)
      BY PulsesAreFinite DEF TypeOK
    <3>2. TracksOK' /\ LiveOK' /\ MarksOK'
      BY <1>3, <2>1 DEF Keep, TypeOK, TracksOK, LiveOK, MarksOK
    <3>3. QED BY <2>1, <3>1, <3>2 DEF Keep
  <2>2. CASE Evaluate(k, q, marked, base)
    BY <1>1, <1>3, <1>4, <2>2, EvaluateKeepsTypes
  <2>3. QED BY <2>1, <2>2 DEF Accept
<1>6. asks' \subseteq Ask
  BY OvertakenIsAsks DEF Accept
<1>7. backlog' \in Nat
  BY <1>5, QueueKeepsNat
<1>8. QED BY <1>2, <1>5, <1>6, <1>7 DEF HubTypeOK

\* So does everything ingest may do with a well formed item, and a frame that is looked
\* at ends one pulse at most for each metric of a path.
LEMMA IngestKeepsTypes ==
  ASSUME TypeOK, NEW k \in Keys, NEW item \in Quote, NEW open \in SUBSET Ask,
         Ingest(k, item, open)
  PROVE  HubTypeOK' /\ (~Full => \E ended \in SUBSET (Paths \X Metrics) : Queue(ended))
<1>1. CASE Full
  <2>1. /\ tracks' = [p \in DOMAIN tracks |-> [tracks[p] EXCEPT !.missed = TRUE]]
        /\ overloaded' = TRUE /\ fresh' = {} /\ asks' = open
        /\ UNCHANGED <<quotes, dirty, live, isolated, backlog>>
    BY <1>1 DEF Ingest
  <2>2. TracksOK'
    BY <2>1 DEF TypeOK, TracksOK, Track
  <2>3. QED BY <1>1, <2>1, <2>2 DEF TypeOK, HubTypeOK, QuotesOK, LiveOK, MarksOK
<1>2. CASE ~Full /\ Accept(k, item, ResumedTracks, open)
  BY <1>2, AcceptKeepsTypes DEF Ingest
<1>3. CASE ~Full /\ Keep(ResumedTracks) /\ asks' = open /\ UNCHANGED quotes
  <2>1. overloaded' = FALSE
    BY <1>3 DEF Ingest
  <2>2. TracksOK'
    BY <1>3, ResumedIsSome DEF TypeOK, TracksOK, Keep
  <2>3. Queue(Pulsing(DOMAIN tracks \ DOMAIN ResumedTracks))
    BY <1>3 DEF Keep
  <2>4. backlog' \in Nat
    BY <2>3, DroppedKeepNat
  <2>5. \E ended \in SUBSET (Paths \X Metrics) : Queue(ended)
    BY <2>3, PulsesAreFinite DEF TypeOK
  <2>6. QED BY <1>3, <2>1, <2>2, <2>4, <2>5 DEF TypeOK, HubTypeOK, QuotesOK, LiveOK, MarksOK, Keep
<1>4. QED BY <1>1, <1>2, <1>3 DEF Ingest

-----------------------------------------------------------------------------
(* Quotes and tracks stay with their connections                            *)

\* The inductive invariant.  Reconcile may keep an owner only because a worker
\* owns the whole of its shard (OwnersRun); an ingested item may extend a track
\* only because the book it replaces came from the same connection.
IndInv == TypeOK /\ OwnersRun /\ QuoteOwnership /\ TracksWithinConnections

\* Dropping quotes drops every track that rests on one of them.
LEMMA InvalidatedKeepsTracks ==
  ASSUME TracksWithinConnections, NEW ks, Invalidated(ks), routes' = routes
  PROVE  TracksWithinConnections'
<1> DEFINE affected == UNION {ByKey(k) : k \in ks}
<1>1. quotes' = Without(quotes, ks) /\ tracks' = Without(tracks, affected)
  BY DEF Invalidated
<1>2. DOMAIN quotes' = DOMAIN quotes \ ks /\ \A k \in DOMAIN quotes' : quotes'[k] = quotes[k]
  BY <1>1 DEF Without, Restrict
<1> HIDE DEF affected
<1>3. DOMAIN tracks' = DOMAIN tracks \ affected /\ \A p \in DOMAIN tracks' : tracks'[p] = tracks[p]
  BY <1>1 DEF Without, Restrict
<1>4. \A p \in DOMAIN routes : p \notin affected => routes[p].long \notin ks /\ routes[p].short \notin ks
  BY DEF affected, ByKey, Legs
<1>5. QED BY <1>2, <1>3, <1>4 DEF TracksWithinConnections

\* A quote that is not dropped stays owned when workers change around it.
LEMMA InvalidatedKeepsOwnership ==
  ASSUME QuoteOwnership, NEW ks, Invalidated(ks),
         \A k \in DOMAIN quotes \ ks :
            /\ k \in DOMAIN owners' /\ owners'[k] = owners[k]
            /\ workers'[owners[k]].conn = workers[owners[k]].conn
            /\ workers'[owners[k]].phase \in {"open", "closing"}
  PROVE  QuoteOwnership'
<1>1. quotes' = Without(quotes, ks)
  BY DEF Invalidated
<1>2. DOMAIN quotes' = DOMAIN quotes \ ks /\ \A k \in DOMAIN quotes' : quotes'[k] = quotes[k]
  BY <1>1 DEF Without, Restrict
<1>3. QED BY <1>2 DEF QuoteOwnership, ConnOf

\* An item that carries its owner's open connection can be cached: no quote
\* loses its owner and no track comes to rest on two connections.
LEMMA IngestKeepsConnections ==
  ASSUME TypeOK, QuoteOwnership, TracksWithinConnections,
         NEW k \in DOMAIN owners, NEW item, NEW open,
         item.conn = ConnOf(owners[k]), workers[owners[k]].phase = "open",
         Ingest(k, item, open), UNCHANGED <<routes, owners>>,
         \A w \in Workers : /\ workers'[w].conn = workers[w].conn
                            /\ workers'[w].phase = workers[w].phase
  PROVE  QuoteOwnership' /\ TracksWithinConnections'
<1>1. \A l \in DOMAIN owners : owners[l] \in Workers
  BY DEF TypeOK, OwnersOK
<1>2. CASE /\ UNCHANGED quotes
           /\ DOMAIN tracks' \subseteq DOMAIN tracks
           /\ \A p \in DOMAIN tracks' : tracks'[p].conns = tracks[p].conns
  BY <1>1, <1>2 DEF QuoteOwnership, TracksWithinConnections, ConnOf
<1>3. CASE ~Full /\ Accept(k, item, ResumedTracks, open)
  <2> DEFINE q == Written(quotes, k, item)
             base == ResumedTracks
             changed == k \in DOMAIN quotes => quotes[k].price # item.price
             marked == Marked(changed, ByKey(k))
  <2>1. quotes' = q
    BY <1>3 DEF Accept
  <2>2. /\ DOMAIN q = DOMAIN quotes \cup {k}
        /\ q[k] = item
        /\ \A l \in DOMAIN quotes : q[l].conn = quotes[l].conn
    BY DEF Written, QuoteOwnership
  <2>3. QuoteOwnership'
    BY <1>1, <2>1, <2>2 DEF QuoteOwnership, ConnOf, Written
  <2>4. \A p \in DOMAIN tracks' :
           \/ p \in DOMAIN base /\ tracks'[p].conns = base[p].conns
           \/ /\ p \in Ready(k, q)
              /\ tracks'[p].conns = <<q[routes[p].long].conn, q[routes[p].short].conn>>
    <3>1. CASE Keep(base)
      BY <3>1 DEF Keep
    <3>2. CASE Evaluate(k, q, marked, base)
      BY <3>2, EvaluatedTracks
    <3>3. QED BY <1>3, <3>1, <3>2 DEF Accept
  <2>5. ASSUME NEW p \in DOMAIN tracks'
        PROVE  /\ p \in DOMAIN routes
               /\ {routes[p].long, routes[p].short} \subseteq DOMAIN q
               /\ tracks'[p].conns = <<q[routes[p].long].conn, q[routes[p].short].conn>>
    <3>1. CASE p \in DOMAIN base /\ tracks'[p].conns = base[p].conns
      BY <2>2, <3>1, ResumedIsSome DEF TracksWithinConnections
    <3>2. CASE /\ p \in Ready(k, q)
               /\ tracks'[p].conns = <<q[routes[p].long].conn, q[routes[p].short].conn>>
      BY <3>2 DEF Ready, ByKey, Aligned
    <3>3. QED BY <2>4, <3>1, <3>2
  <2>6. QED BY <2>1, <2>3, <2>5 DEF TracksWithinConnections
<1>4. CASE Full
  <2>1. /\ tracks' = [p \in DOMAIN tracks |-> [tracks[p] EXCEPT !.missed = TRUE]]
        /\ UNCHANGED quotes
    BY <1>4 DEF Ingest
  <2>2. \A p \in DOMAIN tracks : tracks[p] \in Track
    BY DEF TypeOK, TracksOK
  <2>3. /\ DOMAIN tracks' \subseteq DOMAIN tracks
        /\ \A p \in DOMAIN tracks' : tracks'[p].conns = tracks[p].conns
    BY <2>1, <2>2 DEF Track
  <2>4. QED BY <1>2, <2>1, <2>3
<1>5. CASE ~Full /\ Keep(ResumedTracks) /\ UNCHANGED quotes
  BY <1>2, <1>5, ResumedIsSome DEF Keep
<1>6. QED BY <1>3, <1>4, <1>5 DEF Ingest

\* Steps that touch no table but the workers', and there only worker w.
LEMMA WorkerStepKeeps ==
  ASSUME IndInv, NEW w \in Workers, UNCHANGED hubVars,
         workers' \in [Workers -> WorkerState],
         \A v \in Workers \ {w} : workers'[v] = workers[v],
         workers'[w].keys = workers[w].keys,
         workers'[w].stop = workers[w].stop,
         workers'[w].phase = "free" => workers[w].stop,
         \/ workers[w].phase \notin {"open", "closing"}
         \/ /\ workers'[w].phase \in {"open", "closing"}
            /\ workers'[w].conn = workers[w].conn
  PROVE  IndInv'
<1>1. TypeOK'
  BY DEF IndInv, TypeOK, hubVars, QuotesOK, TracksOK, LiveOK, MarksOK, RoutesOK, OwnersOK
<1>2. \A k \in DOMAIN owners : owners[k] \in Workers
  BY DEF IndInv, TypeOK, OwnersOK
<1>3. OwnersRun'
  <2>1. owners' = owners
    BY DEF hubVars
  <2>2. \A v \in Workers : workers'[v].keys = workers[v].keys
                         /\ workers'[v].stop = workers[v].stop
                         /\ (workers'[v].phase = "free" =>
                                workers[v].phase = "free" \/ workers[v].stop)
    OBVIOUS
  <2>3. QED BY <1>2, <2>1, <2>2 DEF IndInv, OwnersRun
<1>4. QuoteOwnership' /\ TracksWithinConnections'
  BY <1>2 DEF IndInv, QuoteOwnership, TracksWithinConnections, ConnOf, hubVars
<1>5. QED BY <1>1, <1>3, <1>4 DEF IndInv

(* No quote, track or worker exists at first, so every part of the invariant holds. *)
LEMMA InitEstablishes == Init => IndInv
<1> SUFFICES ASSUME Init PROVE IndInv
  OBVIOUS
<1>1. workers \in [Workers -> WorkerState]
  BY Constants DEF Init, Started, WorkerState
<1>2. DOMAIN Nothing = {}
  BY DEF Nothing
<1>3. QED
  BY <1>1, <1>2 DEF Init, IndInv, TypeOK, QuotesOK, TracksOK, LiveOK, MarksOK, RoutesOK,
     OwnersOK, OwnersRun, QuoteOwnership, TracksWithinConnections

(* register() drops what the hub held of the paths it removes, and with it whatever
   the invariant relates them to (anomaly_streams.py, register). *)
LEMMA RegisterKeeps ==
  ASSUME IndInv, NEW s, Register(s)
  PROVE  IndInv'
<1>1. PICK incoming \in Discovered(s) : Registered(Gone(s, incoming), incoming)
  BY DEF Register
<1> DEFINE gone == Gone(s, incoming)
<1>2. /\ routes' = [p \in (DOMAIN routes \ gone) \cup DOMAIN incoming |->
                      IF p \in DOMAIN incoming THEN incoming[p] ELSE routes[p]]
      /\ tracks' = Without(tracks, gone)
      /\ live' = Without(live, gone)
      /\ UNCHANGED <<quotes, overloaded, owners, workers, asks>>
  BY <1>1 DEF Registered
<1>3. DOMAIN incoming \subseteq Paths /\ \A p \in DOMAIN incoming : incoming[p] \in RouteSpecs[p]
  BY DEF Discovered
<1>5. \A p \in DOMAIN incoming : p \in DOMAIN routes \ gone => incoming[p] = routes[p]
  BY DEF Gone, Discovered
<1> HIDE DEF gone
<1>6. DOMAIN tracks' = DOMAIN tracks \ gone /\ \A p \in DOMAIN tracks' : tracks'[p] = tracks[p]
  BY <1>2 DEF Without, Restrict
<1>7. DOMAIN live' = DOMAIN live \ gone /\ \A p \in DOMAIN live' : live'[p] = live[p]
  BY <1>2 DEF Without, Restrict
<1>8. \A p \in DOMAIN routes \ gone : p \in DOMAIN routes' /\ routes'[p] = routes[p]
  BY <1>2, <1>5
<1>9. TypeOK'
  <2>1. RoutesOK'
    BY <1>2, <1>3 DEF IndInv, TypeOK, RoutesOK
  <2>2. TracksOK' /\ LiveOK'
    BY <1>6, <1>7 DEF IndInv, TypeOK, TracksOK, LiveOK
  <2>3. MarksOK'
    BY <1>1 DEF IndInv, TypeOK, MarksOK, Registered
  <2>4. backlog' \in Nat
    BY <1>1, DroppedKeepNat DEF IndInv, Registered
  <2>5. QED BY <1>2, <2>1, <2>2, <2>3, <2>4 DEF IndInv, TypeOK, QuotesOK, OwnersOK
<1>10. OwnersRun' /\ QuoteOwnership'
  BY <1>2 DEF IndInv, OwnersRun, QuoteOwnership, ConnOf
<1>11. TracksWithinConnections'
  <2>1. quotes' = quotes
    BY <1>2
  <2>2. QED BY <2>1, <1>6, <1>8 DEF IndInv, TracksWithinConnections
<1>12. QED BY <1>9, <1>10, <1>11 DEF IndInv

\* What reconcile leaves behind: every subscribed key lies in one shard of the
\* plan, whose worker, kept or new, owns all of it and has not been stopped.
LEMMA ReplanOwners ==
  ASSUME TypeOK, OwnersRun, NEW plan \in SUBSET (SUBSET Subscribed),
         IsSharding(plan, Subscribed),
         NEW made \in Injection(Opened(plan), NewWorkers), Replan(plan, made)
  PROVE  /\ workers' \in [Workers -> WorkerState]
         /\ DOMAIN owners' = Subscribed
         /\ \A k \in Subscribed : owners'[k] \in Workers
         /\ OwnersRun'
         /\ \A k \in DOMAIN owners : workers[owners[k]].keys \in plan =>
              k \in Subscribed /\ owners'[k] = owners[k] /\ workers'[owners[k]] = workers[owners[k]]
<1> DEFINE opened == Opened(plan)
<1>1. /\ owners' = Owners(opened, made)
      /\ workers' = [w \in Workers |->
            IF w \in Retired(plan) THEN [workers[w] EXCEPT !.stop = TRUE]
            ELSE IF w \in Range(made) THEN Started(CHOOSE s \in opened : made[s] = w)
            ELSE workers[w]]
  BY DEF Replan
<1>2. /\ made \in [opened -> Workers]
      /\ \A s, t \in opened : made[s] = made[t] => s = t
      /\ \A s \in opened : workers[made[s]].phase = "free"
  BY DEF Injection, IsInjective, NewWorkers
<1>3. /\ \A s, t \in plan : s # t => s \cap t = {}
      /\ \A k \in Subscribed : \E s \in plan : k \in s
      /\ \A s \in plan : s \subseteq Subscribed
  BY DEF IsSharding
<1>4. /\ \A k \in DOMAIN owners : owners[k] \in Workers /\ owners[k] \in Current
      /\ \A w \in Current : w \in Workers /\ \E k \in DOMAIN owners : w = owners[k]
  BY DEF TypeOK, OwnersOK, Current, Range
<1>5. Subscribed \subseteq Keys
  BY LegsAreKeys DEF TypeOK
<1>6. ASSUME NEW s \in opened
      PROVE  /\ made[s] \in Workers /\ workers'[made[s]] = Started(s)
             /\ \A k \in s : k \in Subscribed /\ owners'[k] = made[s]
  <2>1. made[s] \in Range(made) /\ made[s] \in Workers /\ made[s] \notin Retired(plan)
    BY <1>2, <1>4 DEF Range, Retired, OwnersRun
  <2>2. (CHOOSE t \in opened : made[t] = made[s]) = s
    BY <1>2
  <2>3. workers'[made[s]] = Started(s)
    BY <1>1, <2>1, <2>2
  <2>4. ASSUME NEW k \in s
        PROVE  k \in Subscribed /\ owners'[k] = made[s]
    <3>1. s \in plan /\ k \in Subscribed
      BY <1>3 DEF Opened
    <3>2. (CHOOSE t \in opened : k \in t) = s
      BY <1>3, <3>1 DEF Opened
    <3>3. QED BY <1>1, <3>1, <3>2 DEF Owners
  <2>5. QED BY <2>1, <2>3, <2>4
<1>7. ASSUME NEW w \in Current, workers[w].keys \in plan
      PROVE  /\ w \in Workers /\ workers'[w] = workers[w]
             /\ \A k \in workers[w].keys : /\ k \in Subscribed /\ k \in DOMAIN owners
                                           /\ owners[k] = w /\ owners'[k] = w
  <2>1. w \in Workers /\ workers[w].phase # "free"
        /\ \A k \in workers[w].keys : k \in DOMAIN owners /\ owners[k] = w
    BY <1>4 DEF OwnersRun
  <2>2. w \notin Retired(plan) /\ w \notin Range(made)
    BY <1>2, <1>7, <2>1 DEF Retired, Range
  <2>3. workers'[w] = workers[w]
    BY <1>1, <2>1, <2>2
  <2>4. ASSUME NEW k \in workers[w].keys
        PROVE  k \in Subscribed /\ owners'[k] = w
    <3>1. k \in Subscribed
      BY <1>3, <1>7
    <3>2. ~ \E s \in opened : k \in s
      BY <1>3, <1>7 DEF Opened
    <3>3. QED BY <1>1, <2>1, <3>1, <3>2 DEF Owners
  <2>5. QED BY <2>1, <2>3, <2>4
<1>8. ASSUME NEW k \in Subscribed
      PROVE  \/ \E s \in opened : k \in s
             \/ \E w \in Current : k \in workers[w].keys /\ workers[w].keys \in plan
  BY <1>3 DEF Opened
<1>9. DOMAIN owners' = Subscribed
  BY <1>1 DEF Owners
<1>10. workers' \in [Workers -> WorkerState]
  <2>1. \A s \in opened : Started(s) \in WorkerState
    BY <1>5, Constants DEF Started, WorkerState, Opened
  <2>2. \A w \in Workers : workers[w] \in WorkerState
    BY DEF TypeOK
  <2>3. \A w \in Workers : [workers[w] EXCEPT !.stop = TRUE] \in WorkerState
    BY <2>2 DEF WorkerState
  <2>4. \A w \in Range(made) : (CHOOSE s \in opened : made[s] = w) \in opened
    BY <1>2 DEF Range
  <2>5. QED BY <1>1, <2>1, <2>2, <2>3, <2>4
<1>11. \A k \in Subscribed : owners'[k] \in Workers
  BY <1>6, <1>7, <1>8
<1>12. OwnersRun'
  <2> SUFFICES ASSUME NEW k \in Subscribed
               PROVE  LET w == owners'[k]
                      IN /\ k \in workers'[w].keys
                         /\ workers'[w].phase # "free" /\ ~workers'[w].stop
                         /\ \A l \in workers'[w].keys : l \in Subscribed /\ owners'[l] = w
    BY <1>9 DEF OwnersRun
  <2>1. CASE \E s \in opened : k \in s
    <3>1. PICK s \in opened : k \in s
      BY <2>1
    <3>2. /\ owners'[k] = made[s] /\ workers'[made[s]] = Started(s)
          /\ \A l \in s : l \in Subscribed /\ owners'[l] = made[s]
      BY <1>6, <3>1
    <3>3. /\ Started(s).keys = s /\ Started(s).phase = "idle" /\ ~Started(s).stop
      BY DEF Started
    <3>4. QED BY <3>1, <3>2, <3>3
  <2>2. CASE \E w \in Current : k \in workers[w].keys /\ workers[w].keys \in plan
    <3>1. PICK w \in Current : k \in workers[w].keys /\ workers[w].keys \in plan
      BY <2>2
    <3>2. workers[w].phase # "free" /\ ~workers[w].stop
      BY <1>4 DEF OwnersRun
    <3>3. QED BY <1>7, <3>1, <3>2
  <2>3. QED BY <1>8, <2>1, <2>2
<1>13. ASSUME NEW k \in DOMAIN owners, workers[owners[k]].keys \in plan
       PROVE  k \in Subscribed /\ owners'[k] = owners[k] /\ workers'[owners[k]] = workers[owners[k]]
  <2>1. k \in workers[owners[k]].keys
    BY DEF OwnersRun
  <2>2. QED BY <1>4, <1>7, <1>13, <2>1
<1>14. QED BY <1>9, <1>10, <1>11, <1>12, <1>13

(* reconcile() hands each key to the worker that now subscribes it; the quotes of the
   keys that changed hands go before the new owner can write. *)
LEMMA ReconcileKeeps ==
  ASSUME IndInv, Reconcile
  PROVE  IndInv'
<1>1. PICK plan \in SUBSET (SUBSET Subscribed) :
        /\ IsPlan({workers[w].keys : w \in Current}, plan, Subscribed)
        /\ \E made \in Injection(Opened(plan), NewWorkers) : Replan(plan, made)
  BY DEF Reconcile
<1>2. PICK made \in Injection(Opened(plan), NewWorkers) : Replan(plan, made)
  BY <1>1
<1> DEFINE ks == UNION {workers[w].keys : w \in Retired(plan)}
<1>3. /\ Invalidated(ks)
      /\ UNCHANGED <<routes, overloaded>>
  BY <1>2 DEF Replan
<1>4. TypeOK /\ OwnersRun /\ QuoteOwnership /\ TracksWithinConnections /\ IsSharding(plan, Subscribed)
  BY <1>1 DEF IndInv, IsPlan
<1>5. /\ workers' \in [Workers -> WorkerState]
      /\ DOMAIN owners' = Subscribed
      /\ \A k \in Subscribed : owners'[k] \in Workers
      /\ OwnersRun'
      /\ \A k \in DOMAIN owners : workers[owners[k]].keys \in plan =>
           k \in Subscribed /\ owners'[k] = owners[k] /\ workers'[owners[k]] = workers[owners[k]]
  BY <1>2, <1>4, ReplanOwners
<1>6. \A k \in DOMAIN quotes \ ks : workers[owners[k]].keys \in plan
  <2> SUFFICES ASSUME NEW k \in DOMAIN quotes \ ks, workers[owners[k]].keys \notin plan
               PROVE  FALSE
    OBVIOUS
  <2>1. k \in DOMAIN owners /\ k \in workers[owners[k]].keys
    BY <1>4 DEF QuoteOwnership, OwnersRun
  <2>2. owners[k] \in Retired(plan)
    BY <2>1 DEF Retired, Current, Range
  <2>3. QED BY <2>1, <2>2
<1> HIDE DEF ks
<1>7. HubTypeOK'
  <2>1. overloaded' \in BOOLEAN
    BY <1>3, <1>4 DEF TypeOK
  <2>2. QED BY <1>3, <1>4, <2>1, InvalidatedKeepsTypes
<1>8. RoutesOK' /\ OwnersOK'
  <2>1. Subscribed \subseteq Keys
    BY <1>4, LegsAreKeys DEF TypeOK
  <2>2. QED BY <1>3, <1>4, <1>5, <2>1 DEF TypeOK, RoutesOK, OwnersOK
<1>9. TypeOK'
  BY <1>5, <1>7, <1>8 DEF HubTypeOK, TypeOK
<1>10. QuoteOwnership'
  <2>1. \A k \in DOMAIN quotes \ ks :
          /\ k \in DOMAIN owners' /\ owners'[k] = owners[k]
          /\ workers'[owners[k]].conn = workers[owners[k]].conn
          /\ workers'[owners[k]].phase \in {"open", "closing"}
    BY <1>4, <1>5, <1>6 DEF QuoteOwnership
  <2>2. QED BY <1>3, <1>4, <2>1, InvalidatedKeepsOwnership
<1>11. TracksWithinConnections'
  BY <1>3, <1>4, InvalidatedKeepsTracks
<1>12. QED BY <1>5, <1>9, <1>10, <1>11 DEF IndInv

\* A socket that comes down takes the quotes of its keys with it.
LEMMA CloseSocketKeeps ==
  ASSUME IndInv, NEW w \in Workers, CloseSocket(w)
  PROVE  IndInv'
<1>1. /\ Invalidated(Released(w)) /\ UNCHANGED <<routes, overloaded, owners>>
      /\ workers' = [workers EXCEPT ![w].phase = IF workers[w].stop THEN "free" ELSE "idle",
                                    ![w].rest = Backoff]
  BY DEF CloseSocket
<1>2. /\ workers' \in [Workers -> WorkerState]
      /\ \A v \in Workers \ {w} : workers'[v] = workers[v]
      /\ workers'[w].keys = workers[w].keys /\ workers'[w].stop = workers[w].stop
      /\ workers'[w].phase = "free" => workers[w].stop
  BY <1>1, Constants DEF IndInv, TypeOK, WorkerState
<1>3. \A k \in DOMAIN owners : owners[k] \in Workers
  BY DEF IndInv, TypeOK, OwnersOK
<1>4. TypeOK'
  <2>1. HubTypeOK'
    BY <1>1, InvalidatedKeepsTypes DEF IndInv, TypeOK
  <2>2. QED BY <1>1, <1>2, <2>1 DEF IndInv, TypeOK, HubTypeOK, RoutesOK, OwnersOK
<1>5. OwnersRun'
  <2>1. \A v \in Workers : /\ workers'[v].keys = workers[v].keys
                          /\ workers'[v].stop = workers[v].stop
                          /\ (workers'[v].phase = "free" =>
                                 workers[v].phase = "free" \/ workers[v].stop)
    BY <1>2
  <2>2. owners' = owners
    BY <1>1
  <2>3. QED BY <1>3, <2>1, <2>2 DEF IndInv, OwnersRun
<1>6. QuoteOwnership'
  <2>1. \A k \in DOMAIN quotes \ Released(w) : k \in DOMAIN owners /\ owners[k] # w
    BY DEF IndInv, QuoteOwnership, OwnersRun, Released
  <2>2. \A k \in DOMAIN quotes \ Released(w) :
          /\ k \in DOMAIN owners' /\ owners'[k] = owners[k]
          /\ workers'[owners[k]].conn = workers[owners[k]].conn
          /\ workers'[owners[k]].phase \in {"open", "closing"}
    BY <1>1, <1>2, <1>3, <2>1 DEF IndInv, QuoteOwnership
  <2>3. QED BY <1>1, <2>2, InvalidatedKeepsOwnership DEF IndInv
<1>7. TracksWithinConnections'
  BY <1>1, InvalidatedKeepsTracks DEF IndInv
<1>8. QED BY <1>4, <1>5, <1>6, <1>7 DEF IndInv

\* Dialling, connecting, the exchange clock, a failing socket and a woken sleeper
\* concern no quote: only an open socket has any, and it only starts to close.
LEMMA QuietWorkerStepsKeep ==
  ASSUME IndInv, NEW w \in Workers,
         Dial(w) \/ Connect(w) \/ Clock(w) \/ Drop(w) \/ Retire(w)
  PROVE  IndInv'
<1>1. workers[w] \in WorkerState /\ workers \in [Workers -> WorkerState] /\ Old \in Ages
  BY Constants DEF IndInv, TypeOK
<1>2. CASE Dial(w)
  <2>1. UNCHANGED hubVars
    BY <1>2 DEF Dial
  <2>2. workers' = [workers EXCEPT ![w].phase = "dialing"] /\ workers[w].phase = "idle"
    BY <1>2 DEF Dial, InPhase
  <2>3. QED BY <1>1, <2>1, <2>2, WorkerStepKeeps DEF WorkerState
<1>3. CASE Connect(w)
  <2>1. UNCHANGED hubVars /\ workers[w].phase = "dialing"
    BY <1>3 DEF Connect, InPhase
  <2>2. workers' = [workers EXCEPT ![w].phase = "open", ![w].lag = Old, ![w].conn = @ + 1]
    BY <1>3 DEF Connect
  <2>3. QED BY <1>1, <2>1, <2>2, WorkerStepKeeps DEF WorkerState
<1>4. CASE Clock(w)
  <2>1. UNCHANGED hubVars /\ workers[w].phase = "open"
    BY <1>4 DEF Clock, InPhase
  <2>2. PICK age \in Ages : workers' = [workers EXCEPT ![w].lag = age, ![w].src = age]
    BY <1>4 DEF Clock
  <2>3. QED BY <1>1, <2>1, <2>2, WorkerStepKeeps DEF WorkerState
<1>5. CASE Drop(w)
  <2>1. UNCHANGED hubVars /\ workers[w].phase \in {"dialing", "open"}
    BY <1>5 DEF Drop
  <2>2. workers' = [workers EXCEPT ![w].phase = "closing"]
    BY <1>5 DEF Drop
  <2>3. QED BY <1>1, <2>1, <2>2, WorkerStepKeeps DEF WorkerState
<1>6. CASE Retire(w)
  <2>1. UNCHANGED hubVars /\ workers[w].phase = "idle" /\ workers[w].stop
    BY <1>6 DEF Retire, InPhase
  <2>2. workers' = [workers EXCEPT ![w].phase = "free"]
    BY <1>6 DEF Retire
  <2>3. QED BY <1>1, <2>1, <2>2, WorkerStepKeeps DEF WorkerState
<1>7. QED BY <1>2, <1>3, <1>4, <1>5, <1>6

\* Whatever a frame or an answer brings, if it comes with its owner's open
\* connection the invariant survives, and no quote is forgotten.
LEMMA IngestKeeps ==
  ASSUME IndInv, NEW k \in DOMAIN owners, NEW item \in Quote, NEW open \in SUBSET Ask,
         item.conn = ConnOf(owners[k]), workers[owners[k]].phase = "open",
         Ingest(k, item, open), UNCHANGED <<routes, owners>>,
         workers' \in [Workers -> WorkerState],
         \A w \in Workers : /\ workers'[w].conn = workers[w].conn
                            /\ workers'[w].phase = workers[w].phase
                            /\ workers'[w].keys = workers[w].keys
                            /\ workers'[w].stop = workers[w].stop
  PROVE  IndInv' /\ DOMAIN quotes \subseteq DOMAIN quotes'
<1>1. k \in Keys /\ \A l \in DOMAIN owners : owners[l] \in Workers
  BY DEF IndInv, TypeOK, OwnersOK
<1>2. HubTypeOK'
  BY <1>1, IngestKeepsTypes DEF IndInv
<1>3. TypeOK'
  BY <1>2 DEF IndInv, TypeOK, HubTypeOK, RoutesOK, OwnersOK
<1>4. OwnersRun'
  BY <1>1 DEF IndInv, OwnersRun
<1>5. QuoteOwnership' /\ TracksWithinConnections'
  BY IngestKeepsConnections DEF IndInv
<1>6. DOMAIN quotes \subseteq DOMAIN quotes'
  BY WrittenKeeps DEF Ingest, Accept, Written
<1>7. QED BY <1>3, <1>4, <1>5, <1>6 DEF IndInv

(* A frame of a connected worker writes quotes of that connection only, and removes none. *)
LEMMA FrameKeeps ==
  ASSUME IndInv, NEW w \in Workers, Frame(w)
  PROVE  IndInv' /\ DOMAIN quotes \subseteq DOMAIN quotes'
<1>1. workers[w] \in WorkerState /\ workers \in [Workers -> WorkerState]
  BY DEF IndInv, TypeOK
<1>2. PICK k \in workers[w].keys, price \in Prices, age \in Ages :
        LET receipt == FeedOf[k] \in ReceiptFeeds
            clock   == IF receipt THEN workers[w].lag ELSE age
            item    == [price |-> price, age |-> age, conn |-> ConnOf(w), asked |-> ConnOf(w)]
        IN /\ InPhase(w, "open")
           /\ receipt => age = 0
           /\ workers' = [workers EXCEPT ![w].src = clock]
           /\ IF Fresh(clock) /\ k \in DOMAIN owners /\ owners[k] = w
              THEN Ingest(k, item, asks)
              ELSE UNCHANGED <<quoteVars, overloaded, asks>>
           /\ UNCHANGED <<routes, owners>>
  BY DEF Frame
<1> DEFINE clock == IF FeedOf[k] \in ReceiptFeeds THEN workers[w].lag ELSE age
           item == [price |-> price, age |-> age, conn |-> ConnOf(w), asked |-> ConnOf(w)]
<1>3. clock \in Ages /\ item \in Quote
  BY <1>1 DEF WorkerState, Quote, ConnOf
<1>4. /\ workers' = [workers EXCEPT ![w].src = clock] /\ workers[w].phase = "open"
      /\ UNCHANGED <<routes, owners>>
  BY <1>2 DEF InPhase
<1>5. /\ workers' \in [Workers -> WorkerState]
      /\ \A v \in Workers : /\ workers'[v].conn = workers[v].conn
                            /\ workers'[v].phase = workers[v].phase
                            /\ workers'[v].keys = workers[v].keys
                            /\ workers'[v].stop = workers[v].stop
      /\ \A v \in Workers \ {w} : workers'[v] = workers[v]
  BY <1>1, <1>3, <1>4 DEF WorkerState
<1>6. CASE k \in DOMAIN owners /\ owners[k] = w /\ Ingest(k, item, asks)
  <2>1. item.conn = ConnOf(owners[k]) /\ asks \in SUBSET Ask
    BY <1>6 DEF IndInv, TypeOK
  <2>2. QED BY <1>3, <1>4, <1>5, <1>6, <2>1, IngestKeeps
<1>7. CASE UNCHANGED <<quoteVars, overloaded, asks>>
  <2>1. UNCHANGED hubVars /\ UNCHANGED quotes
    BY <1>4, <1>7 DEF hubVars, quoteVars
  <2>2. IndInv'
    BY <1>1, <1>4, <1>5, <2>1, WorkerStepKeeps
  <2>3. QED BY <2>1, <2>2
<1>8. QED BY <1>2, <1>6, <1>7

(* A REST answer either finds the book of the connection it was asked on, or does nothing. *)
LEMMA AnswerKeeps ==
  ASSUME IndInv, NEW a \in asks, Answer(a)
  PROVE  IndInv' /\ DOMAIN quotes \subseteq DOMAIN quotes'
<1>1. a \in Ask /\ asks \ {a} \in SUBSET Ask /\ workers \in [Workers -> WorkerState]
  BY DEF IndInv, TypeOK
<1>2. CASE /\ Acceptable(a)
           /\ \E price \in Prices : \E age \in Ages :
                /\ FeedOf[a.key] \in ReceiptFeeds => age = a.wait
                /\ Ingest(a.key, [price |-> price, age |-> age, conn |-> ConnOf(a.owner),
                                  asked |-> a.conn], asks \ {a})
           /\ UNCHANGED <<routes, owners, workers>>
  <2>1. PICK price \in Prices, age \in Ages :
          Ingest(a.key, [price |-> price, age |-> age, conn |-> ConnOf(a.owner),
                         asked |-> a.conn], asks \ {a})
    BY <1>2
  <2> DEFINE item == [price |-> price, age |-> age, conn |-> ConnOf(a.owner), asked |-> a.conn]
  <2>2. a.owner \in Workers /\ item \in Quote
    BY <1>1 DEF Ask, Quote, ConnOf, WorkerState
  <2>3. /\ a.key \in DOMAIN owners /\ owners[a.key] = a.owner
        /\ workers[a.owner].phase = "open"
    BY <1>2 DEF Acceptable, Healthy, InPhase
  <2>4. item.conn = ConnOf(owners[a.key])
    BY <2>3
  <2>5. QED BY <1>1, <1>2, <2>1, <2>2, <2>3, <2>4, IngestKeeps
<1>3. CASE asks' = asks \ {a} /\ UNCHANGED <<routes, quoteVars, overloaded, owners, workers>>
  BY <1>1, <1>3 DEF IndInv, TypeOK, QuotesOK, TracksOK, LiveOK, MarksOK, RoutesOK, OwnersOK,
     OwnersRun, QuoteOwnership, TracksWithinConnections, ConnOf, quoteVars
<1>4. QED BY <1>2, <1>3 DEF Answer

(* Choosing what to confirm reads the quotes and changes none of them. *)
LEMMA ChooseKeeps ==
  ASSUME IndInv, NEW f, Choose(f)
  PROVE  IndInv' /\ UNCHANGED quotes
<1>1. PICK ks \in SUBSET Confirmable(f) : asks' = asks \cup {AskFor(k) : k \in ks}
  BY DEF Choose
<1>2. ASSUME NEW k \in ks
      PROVE  AskFor(k) \in Ask
  <2>1. k \in DOMAIN owners /\ k \in Keys /\ owners[k] \in Workers
    BY DEF Confirmable, IndInv, TypeOK, OwnersOK
  <2>2. workers[owners[k]].conn \in Nat
    BY <2>1 DEF IndInv, TypeOK, WorkerState
  <2>3. QED BY <2>1, <2>2, Constants DEF AskFor, Ask, ConnOf
<1>3. UNCHANGED <<routes, quoteVars, overloaded, owners, workers>>
  BY DEF Choose
<1>4. asks' \subseteq Ask
  BY <1>1, <1>2 DEF IndInv, TypeOK
<1>5. QED BY <1>3, <1>4 DEF IndInv, TypeOK, QuotesOK, TracksOK, LiveOK, MarksOK, RoutesOK,
     OwnersOK, OwnersRun, QuoteOwnership, TracksWithinConnections, ConnOf, quoteVars

\* The writer changes nothing of a track but which of its pulses wait.
LEMMA DrainedTracks ==
  ASSUME TracksOK, Drain
  PROVE  /\ DOMAIN tracks' = DOMAIN tracks
         /\ \A p \in DOMAIN tracks :
              /\ tracks'[p] \in Track
              /\ tracks'[p].held = tracks[p].held
              /\ tracks'[p].missed = tracks[p].missed
              /\ tracks'[p].conns = tracks[p].conns
<1>1. PICK left : tracks' = [p \in DOMAIN tracks |->
                    [tracks[p] EXCEPT !.queued = {m \in @ : <<p, m>> \in left}]]
  BY DEF Drain
<1>2. ASSUME NEW p \in DOMAIN tracks
      PROVE  /\ tracks'[p] \in Track
             /\ tracks'[p].held = tracks[p].held
             /\ tracks'[p].missed = tracks[p].missed
             /\ tracks'[p].conns = tracks[p].conns
  <2>1. tracks[p] \in Track
    BY DEF TracksOK
  <2> DEFINE rest == {m \in tracks[p].queued : <<p, m>> \in left}
  <2>2. rest \in SUBSET Metrics
    BY <2>1 DEF Track
  <2>3. tracks'[p] = [tracks[p] EXCEPT !.queued = rest]
    BY <1>1
  <2> HIDE DEF rest
  <2>4. QED BY <2>1, <2>2, <2>3 DEF Track
<1>3. QED BY <1>1, <1>2

(* The writer only shortens the queue. *)
LEMMA DrainKeeps ==
  ASSUME IndInv, Drain
  PROVE  IndInv' /\ UNCHANGED quotes
<1>1. backlog' \in Nat
  BY DEF Drain, IndInv, TypeOK
<1>2. UNCHANGED <<routes, quotes, dirty, fresh, live, isolated, overloaded, owners, workers, asks>>
  BY DEF Drain
<1>3. TracksOK'
  BY DrainedTracks DEF IndInv, TypeOK, TracksOK
<1>4. TracksWithinConnections'
  BY <1>2, DrainedTracks DEF IndInv, TypeOK, TracksWithinConnections
<1>5. QED BY <1>1, <1>2, <1>3, <1>4 DEF IndInv, TypeOK, QuotesOK, LiveOK, MarksOK, RoutesOK,
     OwnersOK, OwnersRun, QuoteOwnership, ConnOf

(* Time makes quotes older: whose they are, and which exist, stays. *)
LEMMA TickKeeps ==
  ASSUME IndInv, Tick
  PROVE  IndInv' /\ DOMAIN quotes' = DOMAIN quotes
<1>1. quotes' = [k \in DOMAIN quotes |-> [quotes[k] EXCEPT !.age = Older(@)]]
  BY DEF Tick
<1>2. workers' = [w \in Workers |->
            [workers[w] EXCEPT !.src = Older(@), !.lag = Older(@),
                               !.rest = IF @ = 0 THEN 0 ELSE @ - 1]]
  BY DEF Tick
<1>3. asks' = {[a EXCEPT !.wait = Older(@)] : a \in asks}
  BY DEF Tick
<1>4. UNCHANGED <<routes, dirty, fresh, live, isolated, tracks, backlog, overloaded, owners>>
  BY DEF Tick
<1>5. \A age \in Ages : Older(age) \in Ages
  BY Constants
<1>6. /\ DOMAIN quotes' = DOMAIN quotes
      /\ \A k \in DOMAIN quotes : quotes'[k] \in Quote /\ quotes'[k].conn = quotes[k].conn
  BY <1>1, <1>5 DEF IndInv, TypeOK, QuotesOK, Quote
<1>7. /\ workers' \in [Workers -> WorkerState]
      /\ \A w \in Workers : /\ workers'[w].conn = workers[w].conn
                            /\ workers'[w].phase = workers[w].phase
                            /\ workers'[w].keys = workers[w].keys
                            /\ workers'[w].stop = workers[w].stop
  <2>1. ASSUME NEW w \in Workers
        PROVE  /\ workers'[w] \in WorkerState
               /\ workers'[w].conn = workers[w].conn
               /\ workers'[w].phase = workers[w].phase
               /\ workers'[w].keys = workers[w].keys
               /\ workers'[w].stop = workers[w].stop
    <3>1. workers[w] \in WorkerState
      BY DEF IndInv, TypeOK
    <3>2. workers'[w] = [workers[w] EXCEPT !.src = Older(@), !.lag = Older(@),
                                           !.rest = IF @ = 0 THEN 0 ELSE @ - 1]
      BY <1>2
    <3>3. workers[w].src \in Ages /\ workers[w].lag \in Ages /\ workers[w].rest \in Nat
      BY <3>1 DEF WorkerState
    <3>4. (IF workers[w].rest = 0 THEN 0 ELSE workers[w].rest - 1) \in Nat
      BY <3>3
    <3>5. Older(workers[w].src) \in Ages /\ Older(workers[w].lag) \in Ages
      BY <1>5, <3>3
    <3>6. QED BY <3>1, <3>2, <3>4, <3>5 DEF WorkerState
  <2>2. workers' = [w \in Workers |-> workers'[w]]
    BY <1>2
  <2>3. QED BY <2>1, <2>2
<1>8. asks' \subseteq Ask
  <2>1. ASSUME NEW a \in asks
        PROVE  [a EXCEPT !.wait = Older(@)] \in Ask
    BY <1>5 DEF IndInv, TypeOK, Ask
  <2>2. QED BY <1>3, <2>1
<1>9. TypeOK'
  BY <1>4, <1>6, <1>7, <1>8
     DEF IndInv, TypeOK, QuotesOK, TracksOK, LiveOK, MarksOK, RoutesOK, OwnersOK
<1>10. \A k \in DOMAIN owners : owners[k] \in Workers
  BY DEF IndInv, TypeOK, OwnersOK
<1>11. OwnersRun'
  BY <1>4, <1>7, <1>10 DEF IndInv, OwnersRun
<1>12. QuoteOwnership'
  BY <1>4, <1>6, <1>7, <1>10 DEF IndInv, QuoteOwnership, ConnOf
<1>13. TracksWithinConnections'
  BY <1>4, <1>6 DEF IndInv, TracksWithinConnections
<1>14. QED BY <1>6, <1>9, <1>11, <1>12, <1>13 DEF IndInv

-----------------------------------------------------------------------------
(* The theorems                                                             *)

(* Every step of the specification keeps the inductive invariant. *)
LEMMA StepKeeps ==
  ASSUME IndInv, [Next]_vars
  PROVE  IndInv'
<1>1. ASSUME NEW s, Register(s) PROVE IndInv'
  BY <1>1, RegisterKeeps
<1>2. CASE Reconcile
  BY <1>2, ReconcileKeeps
<1>3. ASSUME NEW w \in Workers, Worker(w) PROVE IndInv'
  BY <1>3, QuietWorkerStepsKeep, FrameKeeps, CloseSocketKeeps DEF Worker
<1>4. ASSUME NEW f \in RestFeeds, Choose(f) PROVE IndInv'
  BY <1>4, ChooseKeeps
<1>5. ASSUME NEW a \in asks, Answer(a) PROVE IndInv'
  BY <1>5, AnswerKeeps
<1>6. CASE Drain
  BY <1>6, DrainKeeps
<1>7. CASE Tick
  BY <1>7, TickKeeps
<1>8. CASE UNCHANGED vars
  BY <1>8 DEF IndInv, TypeOK, QuotesOK, TracksOK, LiveOK, MarksOK, RoutesOK, OwnersOK,
     OwnersRun, QuoteOwnership, TracksWithinConnections, ConnOf, vars
<1>9. QED BY <1>1, <1>2, <1>3, <1>4, <1>5, <1>6, <1>7, <1>8 DEF Next

\* The inductive invariant holds in every reachable state.
THEOREM Inductive == Spec => []IndInv
BY InitEstablishes, StepKeeps, PTL DEF Spec

\* Every variable keeps its type.
THEOREM TypeCorrect == Spec => []TypeOK
<1>1. IndInv => TypeOK
  BY DEF IndInv
<1>2. QED BY <1>1, Inductive, PTL

\* The table of owners always names running workers that own their whole shard.
THEOREM OwnersCorrect == Spec => []OwnersRun
<1>1. IndInv => OwnersRun
  BY DEF IndInv
<1>2. QED BY <1>1, Inductive, PTL

\* No cached quote outlives the connection that vouches for it.
THEOREM QuotesOwned == Spec => []QuoteOwnership
<1>1. IndInv => QuoteOwnership
  BY DEF IndInv
<1>2. QED BY <1>1, Inductive, PTL

\* No open episode bridges a reconnect, a new shard or a changed route.
THEOREM TracksUnbroken == Spec => []TracksWithinConnections
<1>1. IndInv => TracksWithinConnections
  BY DEF IndInv
<1>2. QED BY <1>1, Inductive, PTL

\* A quote is only ever dropped by its own owner's end.
THEOREM QuotesFall == Spec => QuotesFallWithTheirOwner
<1> DEFINE FallOnly == \A k \in DOMAIN quotes \ DOMAIN quotes' : LetGo(owners[k])
<1>1. ASSUME IndInv, [Next]_vars PROVE FallOnly
  <2>1. CASE DOMAIN quotes \subseteq DOMAIN quotes'
    BY <2>1
  <2>2. ASSUME NEW ks, Invalidated(ks)
        PROVE  DOMAIN quotes \ DOMAIN quotes' \subseteq ks
    BY <2>2 DEF Invalidated, Without, Restrict
  <2>3. ASSUME NEW k \in DOMAIN quotes
        PROVE  /\ k \in DOMAIN owners /\ owners[k] \in Workers
               /\ k \in workers[owners[k]].keys /\ ~workers[owners[k]].stop
    BY <1>1 DEF IndInv, TypeOK, OwnersOK, OwnersRun, QuoteOwnership
  <2>4. workers \in [Workers -> WorkerState]
    BY <1>1 DEF IndInv, TypeOK
  <2>5. CASE Reconcile
    <3>1. PICK plan \in SUBSET (SUBSET Subscribed) :
            \E made \in Injection(Opened(plan), NewWorkers) : Replan(plan, made)
      BY <2>5 DEF Reconcile
    <3>2. PICK made \in Injection(Opened(plan), NewWorkers) : Replan(plan, made)
      BY <3>1
    <3>3. ASSUME NEW w \in Retired(plan) PROVE w \in Workers /\ workers'[w].stop
      <4>1. w \in Workers
        BY <1>1 DEF Retired, Current, Range, IndInv, TypeOK, OwnersOK
      <4>2. workers'[w] = [workers[w] EXCEPT !.stop = TRUE]
        BY <3>2, <4>1 DEF Replan
      <4>3. QED BY <2>4, <4>1, <4>2 DEF WorkerState
    <3>4. ASSUME NEW k \in DOMAIN quotes \ DOMAIN quotes' PROVE LetGo(owners[k])
      <4>1. PICK w \in Retired(plan) : k \in workers[w].keys
        BY <2>2, <3>2 DEF Replan
      <4>2. PICK l \in DOMAIN owners : owners[l] = w
        BY DEF Retired, Current, Range
      <4>3. owners[k] = w
        BY <1>1, <4>1, <4>2 DEF IndInv, OwnersRun
      <4>4. QED BY <2>3, <3>3, <4>3 DEF LetGo
    <3>5. QED BY <3>4
  <2>6. ASSUME NEW w \in Workers, CloseSocket(w) PROVE FallOnly
    <3>1. Invalidated(Released(w)) /\ workers[w].phase = "closing"
      BY <2>6 DEF CloseSocket, InPhase
    <3>2. workers'[w].phase # "closing"
      BY <2>4, <2>6 DEF CloseSocket, WorkerState
    <3>3. QED BY <2>2, <3>1, <3>2 DEF Released, LetGo
  <2>7. ASSUME NEW w \in Workers, Worker(w) PROVE FallOnly
    BY <1>1, <2>1, <2>6, <2>7, FrameKeeps
       DEF Worker, Dial, Connect, Clock, Drop, Retire, hubVars
  <2>8. ASSUME NEW s, Register(s) PROVE FallOnly
    BY <2>8 DEF Register, Registered
  <2>9. CASE Drain \/ (\E f \in RestFeeds : Choose(f)) \/ UNCHANGED vars
    BY <2>9 DEF Drain, Choose, quoteVars, vars
  <2>10. CASE (\E a \in asks : Answer(a)) \/ Tick
    BY <1>1, <2>1, <2>10, AnswerKeeps, TickKeeps
  <2>11. QED BY <1>1, <2>5, <2>7, <2>8, <2>9, <2>10 DEF Next
<1>2. QED BY <1>1, Inductive, PTL DEF Spec, QuotesFallWithTheirOwner

-----------------------------------------------------------------------------
(* The books and the queue of pulses                                        *)

\* What is proved of every step, given IndInv: the detector resumes without tracks because each
\* is of a route (TracksWithinConnections), and a book is confirmed under the connection it came
\* from because that is its owner's (QuoteOwnership).
BooksInv == BooksAreHonest /\ LossIsBounded

-----------------------------------------------------------------------------
(* The queue of pulses                                                      *)

\* Tracks that are dropped queue their pulses, which no longer count as open.
LEMMA DropsAreBounded ==
  ASSUME TypeOK, BacklogBounded, NEW gone, Queue(Pulsing(gone)), tracks' = Without(tracks, gone)
  PROVE  BacklogBounded'
<1> DEFINE open == Pulsing(DOMAIN tracks)
           ended == Pulsing(gone)
<1>1. IsFiniteSet(open) /\ Cardinality(open) \in Nat
  BY PulsesAreFinite DEF TypeOK
<1>2. open \cap ended = ended
  BY DEF Pulsing
<1>3. DOMAIN tracks' = DOMAIN tracks \ gone /\ \A p \in DOMAIN tracks' : tracks'[p] = tracks[p]
  BY DEF Without, Restrict
<1>4. Pulsing(DOMAIN tracks)' = open \ ended
  BY <1>3 DEF Pulsing
<1>5. backlog' = backlog + Cardinality(ended) /\ backlog \in Nat
  BY DEF Queue, TypeOK
<1>6. backlog + Cardinality(open) < MaxPending + 2 * Cardinality(Paths \X Metrics)
  BY DEF BacklogBounded
<1> HIDE DEF open, ended
<1>7. Cardinality(open \ ended) = Cardinality(open) - Cardinality(ended)
  BY <1>1, <1>2, FS_Difference
<1>8. Cardinality(ended) \in Nat
  BY <1>1, <1>2, FS_Intersection, FS_CardinalityType
<1>9. backlog' + Cardinality(open \ ended) = backlog + Cardinality(open)
  BY <1>1, <1>5, <1>7, <1>8
<1>10. QED BY <1>4, <1>6, <1>9 DEF BacklogBounded

\* A frame is looked at only while there is room for one more pulse, and then ends one
\* pulse at most, and leaves one open at most, for each metric of a path.
LEMMA IngestIsBounded ==
  ASSUME TypeOK, HubTypeOK', BacklogBounded, NEW k, NEW item, NEW open, Ingest(k, item, open),
         ~Full => \E ended \in SUBSET (Paths \X Metrics) : Queue(ended)
  PROVE  BacklogBounded'
<1> DEFINE most == Cardinality(Paths \X Metrics)
<1>1. /\ MaxPending \in Nat /\ most \in Nat /\ backlog \in Nat
      /\ \A S \in SUBSET (Paths \X Metrics) : Cardinality(S) \in Nat /\ Cardinality(S) <= most
  BY Constants, PulsesAreFinite DEF TypeOK
<1>2. CASE Full
  <2>1. /\ tracks' = [p \in DOMAIN tracks |-> [tracks[p] EXCEPT !.missed = TRUE]]
        /\ backlog' = backlog
    BY <1>2 DEF Ingest
  <2>2. \A p \in DOMAIN tracks : tracks[p] \in Track
    BY DEF TypeOK, TracksOK
  <2>3. DOMAIN tracks' = DOMAIN tracks /\ \A p \in DOMAIN tracks : tracks'[p].held = tracks[p].held
    BY <2>1, <2>2 DEF Track
  <2>4. Pulsing(DOMAIN tracks)' = Pulsing(DOMAIN tracks)
    BY <2>3 DEF Pulsing
  <2>5. QED BY <2>1, <2>4 DEF BacklogBounded
<1>3. CASE ~ Full
  <2>1. backlog' \in Nat /\ backlog' <= backlog + most
    BY <1>3, QueueKeepsNat
  <2>2. backlog < MaxPending
    <3>1. Queued \in SUBSET (Paths \X Metrics)
      BY PulsesAreFinite DEF TypeOK, Queued
    <3>2. Cardinality(Queued) \in Nat
      BY <1>1, <3>1
    <3>3. QED BY <1>1, <1>3, <3>2 DEF Full
  <2>3. Pulsing(DOMAIN tracks)' \in SUBSET (Paths \X Metrics)
    BY DEF HubTypeOK, TracksOK, Pulsing
  <2>4. Cardinality(Pulsing(DOMAIN tracks)') <= most /\ Cardinality(Pulsing(DOMAIN tracks)') \in Nat
    BY <1>1, <2>3
  <2> HIDE DEF most
  <2>5. backlog' + Cardinality(Pulsing(DOMAIN tracks)') < MaxPending + 2 * most
    BY <1>1, <2>1, <2>2, <2>4
  <2>6. QED BY <2>5 DEF BacklogBounded, most
<1>4. QED BY <1>2, <1>3

\* The writer opens and ends no pulse.
LEMMA DrainIsBounded ==
  ASSUME TypeOK, BacklogBounded, Drain
  PROVE  BacklogBounded'
<1> DEFINE open == Pulsing(DOMAIN tracks)
           most == Cardinality(Paths \X Metrics)
<1>1. Pulsing(DOMAIN tracks)' = open
  BY DrainedTracks DEF Pulsing, TypeOK
<1>2. Cardinality(open) \in Nat /\ most \in Nat /\ MaxPending \in Nat
  BY PulsesAreFinite, Constants DEF TypeOK
<1>3. backlog \in Nat /\ backlog' \in Nat /\ backlog' <= backlog
  BY DEF Drain, TypeOK
<1>4. backlog + Cardinality(open) < MaxPending + 2 * most
  BY DEF BacklogBounded
<1> HIDE DEF open, most
<1>5. backlog' + Cardinality(open) < MaxPending + 2 * most
  BY <1>2, <1>3, <1>4
<1>6. QED BY <1>1, <1>5 DEF BacklogBounded, most

-----------------------------------------------------------------------------
(* What was dropped                                                         *)

\* The detector resumes after an overload with no track at all: every track is of a route.
LEMMA ResumedMissNothing ==
  ASSUME GapAfterOverload, TracksWithinConnections
  PROVE  \A p \in DOMAIN ResumedTracks : ~ ResumedTracks[p].missed
<1>1. CASE overloaded
  BY <1>1 DEF ResumedTracks, TracksWithinConnections, Without, Restrict
<1>2. CASE ~ overloaded
  BY <1>2 DEF ResumedTracks, GapAfterOverload
<1>3. QED BY <1>1, <1>2

\* So whatever a frame adds spans nothing that was dropped.
LEMMA IngestLeavesAGap ==
  ASSUME GapAfterOverload, TracksWithinConnections, NEW k, NEW item, NEW open, Ingest(k, item, open)
  PROVE  GapAfterOverload'
<1>1. CASE Full
  BY <1>1 DEF Ingest, GapAfterOverload
<1>2. CASE ~ Full /\ Keep(ResumedTracks)
  BY <1>2, ResumedMissNothing DEF Keep, GapAfterOverload
<1>3. ASSUME NEW q, NEW marked, Evaluate(k, q, marked, ResumedTracks)
      PROVE  GapAfterOverload'
  <2> DEFINE base == ResumedTracks
             dom == (DOMAIN base \ Split(k, q)) \cup Seen(k, q)
  <2>1. PICK held, told :
          tracks' = [p \in dom |-> IF p \in Seen(k, q) THEN Observed(p, q, base, held, told) ELSE base[p]]
    BY <1>3 DEF Evaluate
  <2>2. \A p \in DOMAIN base : ~ base[p].missed
    BY ResumedMissNothing
  <2> HIDE DEF base
  <2>3. \A p \in DOMAIN tracks' : ~ tracks'[p].missed
    BY <2>1, <2>2 DEF Observed
  <2>4. QED BY <2>3 DEF GapAfterOverload
<1>4. QED BY <1>1, <1>2, <1>3 DEF Ingest, Accept

-----------------------------------------------------------------------------
(* What the books say                                                       *)

\* A path whose legs keep their prices, and that is not evaluated, still matches.
LEMMA UntouchedMatches ==
  ASSUME NEW p, NEW r, NEW q, NEW qq, NEW context,
         {r.long, r.short} \subseteq DOMAIN q, context = Context(r, q),
         \A l \in {r.long, r.short} : l \in DOMAIN qq /\ qq[l].price = q[l].price
  PROVE  {r.long, r.short} \subseteq DOMAIN qq /\ context = Context(r, qq)
BY DEF Context

\* Evaluating paths with the quotes that are cached makes them match.
LEMMA EvaluateMatches ==
  ASSUME LiveMatchesBooks, NEW k, NEW item,
         NEW marked, marked = Marked(k \in DOMAIN quotes => quotes[k].price # item.price, ByKey(k)),
         NEW base, Evaluate(k, Written(quotes, k, item), marked, base),
         quotes' = Written(quotes, k, item), routes' = routes
  PROVE  LiveMatchesBooks'
<1> DEFINE q == Written(quotes, k, item)
           seen == Seen(k, q)
           split == Split(k, q)
           changed == k \in DOMAIN quotes => quotes[k].price # item.price
<1>1. /\ dirty' = marked \ seen
      /\ live' = [p \in (DOMAIN live \ split) \cup seen |->
                    IF p \in seen THEN Context(routes[p], q) ELSE live[p]]
  BY DEF Evaluate
<1>2. /\ DOMAIN q = DOMAIN quotes \cup {k} /\ q[k] = item
      /\ \A l \in DOMAIN quotes \ {k} : q[l] = quotes[l]
  BY DEF Written
<1>3. ASSUME NEW p \in seen
      PROVE  p \in DOMAIN routes /\ {routes[p].long, routes[p].short} \subseteq DOMAIN q
  BY <1>3 DEF Seen, Ready, ByKey, Aligned
<1>4. dirty \subseteq marked /\ (changed => ByKey(k) \subseteq marked)
  BY DEF Marked
<1> HIDE DEF q, seen, split
<1>5. ASSUME NEW p \in DOMAIN live' \ dirty'
      PROVE  /\ p \in DOMAIN routes /\ {routes[p].long, routes[p].short} \subseteq DOMAIN q
             /\ live'[p] = Context(routes[p], q)
  <2>1. CASE p \in seen
    BY <1>1, <1>3, <2>1
  <2>2. CASE p \notin seen
    <3>1. p \in DOMAIN live /\ p \notin dirty /\ live'[p] = live[p] /\ p \notin marked
      BY <1>1, <1>4, <2>2
    <3>2. /\ p \in DOMAIN routes /\ {routes[p].long, routes[p].short} \subseteq DOMAIN quotes
          /\ live[p] = Context(routes[p], quotes)
      BY <3>1 DEF LiveMatchesBooks
    <3>3. ASSUME NEW l \in {routes[p].long, routes[p].short}
          PROVE  l \in DOMAIN q /\ q[l].price = quotes[l].price
      <4>1. CASE l = k
        <5>1. p \in ByKey(k)
          BY <3>2, <4>1 DEF ByKey, Legs
        <5>2. ~ changed
          BY <1>4, <3>1, <5>1
        <5>3. QED BY <1>2, <4>1, <5>2
      <4>2. CASE l # k
        BY <1>2, <3>2, <4>2
      <4>3. QED BY <4>1, <4>2
    <3>4. QED BY <3>1, <3>2, <3>3, UntouchedMatches
  <2>3. QED BY <2>1, <2>2
<1>6. QED BY <1>5 DEF LiveMatchesBooks, q

\* So does a frame that is only cached, since it brings no other price.
LEMMA IngestMatches ==
  ASSUME LiveMatchesBooks, NEW k, NEW item, NEW open, Ingest(k, item, open), routes' = routes
  PROVE  LiveMatchesBooks'
<1>1. CASE UNCHANGED <<quotes, live, dirty>>
  BY <1>1 DEF LiveMatchesBooks, Context
<1> DEFINE q == Written(quotes, k, item)
           changed == k \in DOMAIN quotes => quotes[k].price # item.price
           marked == Marked(changed, ByKey(k))
<1>2. CASE ~ Full /\ quotes' = q /\ ~ changed /\ Keep(ResumedTracks)
  <2>1. /\ DOMAIN q = DOMAIN quotes \cup {k} /\ q[k] = item
        /\ \A l \in DOMAIN quotes \ {k} : q[l] = quotes[l]
    BY DEF Written
  <2>2. \A l \in DOMAIN quotes : l \in DOMAIN q /\ q[l].price = quotes[l].price
    BY <1>2, <2>1
  <2>3. quotes' = q /\ live' = live /\ dirty' = dirty
    BY <1>2 DEF Keep
  <2> HIDE DEF q
  <2>4. QED BY <2>2, <2>3 DEF LiveMatchesBooks, Context
<1>3. CASE quotes' = q /\ Evaluate(k, q, marked, ResumedTracks)
  BY <1>3, EvaluateMatches
<1>4. QED BY <1>1, <1>2, <1>3 DEF Ingest, Accept, Keep

\* A path ingest isolates loses its context, its track and its freshness at once, and a
\* path that has any of them again is no longer isolated.
LEMMA IngestSilences ==
  ASSUME IsolatedIsSilent, NEW k, NEW item, NEW open, Ingest(k, item, open)
  PROVE  IsolatedIsSilent'
<1>1. DOMAIN ResumedTracks \subseteq DOMAIN tracks
  BY ResumedIsSome
<1>2. CASE Full
  BY <1>2 DEF Ingest, IsolatedIsSilent
<1>3. CASE ~ Full /\ Keep(ResumedTracks)
  BY <1>1, <1>3 DEF Keep, IsolatedIsSilent
<1>4. ASSUME NEW q, NEW marked, Evaluate(k, q, marked, ResumedTracks)
      PROVE  IsolatedIsSilent'
  <2>1. /\ isolated' = (isolated \ Seen(k, q)) \cup Split(k, q)
        /\ fresh' = (fresh \ Split(k, q)) \cup Seen(k, q)
        /\ DOMAIN live' = (DOMAIN live \ Split(k, q)) \cup Seen(k, q)
        /\ DOMAIN tracks' = (DOMAIN ResumedTracks \ Split(k, q)) \cup Seen(k, q)
    BY <1>4 DEF Evaluate, Isolation
  <2>2. Seen(k, q) \cap Split(k, q) = {}
    BY DEF Seen
  <2>3. QED BY <1>1, <2>1, <2>2 DEF IsolatedIsSilent
<1>5. QED BY <1>2, <1>3, <1>4 DEF Ingest, Accept

-----------------------------------------------------------------------------
(* What is being confirmed                                                  *)

\* A confirmation still holds the book it was chosen for unless its key was written.
LEMMA OvertakenConfirms ==
  ASSUME ConfirmsWithinConnection, NEW ks, NEW open, open \subseteq asks,
         asks' = Overtaken(ks, open),
         \A k \in DOMAIN quotes \ ks : k \in DOMAIN quotes' /\ quotes'[k] = quotes[k],
         \A a \in asks : [a EXCEPT !.prev = "replaced"].prev = "replaced"
  PROVE  ConfirmsWithinConnection'
<1>1. ASSUME NEW a \in asks', a.prev = "same"
      PROVE  a.key \in DOMAIN quotes' /\ quotes'[a.key].conn = a.conn
  <2>1. PICK b \in open : a = IF b.key \in ks /\ b.prev = "same" THEN [b EXCEPT !.prev = "replaced"] ELSE b
    BY DEF Overtaken
  <2>2. a = b /\ b.key \notin ks
    BY <1>1, <2>1
  <2>3. QED BY <1>1, <2>2 DEF ConfirmsWithinConnection
<1>2. QED BY <1>1 DEF ConfirmsWithinConnection

\* Asks remember a state of the book they were chosen for.
LEMMA AsksRemember ==
  ASSUME NEW a \in Ask PROVE [a EXCEPT !.prev = "replaced"].prev = "replaced"
BY DEF Ask

\* What ingest writes, the confirmations of that key no longer hold (accept, quote_refresh.py).
LEMMA IngestConfirms ==
  ASSUME TypeOK, ConfirmsWithinConnection, NEW k, NEW item, NEW open, open \subseteq asks,
         Ingest(k, item, open)
  PROVE  ConfirmsWithinConnection'
<1>1. CASE asks' = open /\ UNCHANGED quotes
  BY <1>1 DEF ConfirmsWithinConnection
<1>2. CASE asks' = Overtaken({k}, open) /\ quotes' = Written(quotes, k, item)
  <2>1. \A l \in DOMAIN quotes \ {k} : l \in DOMAIN quotes' /\ quotes'[l] = quotes[l]
    BY <1>2 DEF Written
  <2>2. \A a \in asks : [a EXCEPT !.prev = "replaced"].prev = "replaced"
    BY AsksRemember DEF TypeOK
  <2>3. QED BY <1>2, <2>1, <2>2, OvertakenConfirms
<1>3. QED BY <1>1, <1>2 DEF Ingest, Accept

-----------------------------------------------------------------------------
(* The steps                                                                *)

\* What ingest does, whoever calls it.
LEMMA IngestKeepsBooks ==
  ASSUME IndInv, BooksInv, NEW k \in Keys, NEW item \in Quote, NEW open \in SUBSET asks,
         Ingest(k, item, open), routes' = routes
  PROVE  BooksInv'
<1>1. /\ TypeOK /\ TracksWithinConnections /\ LiveMatchesBooks /\ IsolatedIsSilent
      /\ ConfirmsWithinConnection /\ GapAfterOverload /\ BacklogBounded
  BY DEF IndInv, BooksInv, BooksAreHonest, LossIsBounded
<1>2. LiveMatchesBooks' /\ IsolatedIsSilent' /\ ConfirmsWithinConnection'
  BY <1>1, IngestMatches, IngestSilences, IngestConfirms
<1>3. open \in SUBSET Ask
  BY <1>1 DEF TypeOK
<1>4. GapAfterOverload' /\ BacklogBounded'
  BY <1>1, <1>3, IngestLeavesAGap, IngestIsBounded, IngestKeepsTypes
<1>5. QED BY <1>2, <1>4 DEF BooksInv, BooksAreHonest, LossIsBounded

\* Dropping quotes marks every path they belong to, and drops what was known of it.
LEMMA InvalidatedKeepsBooks ==
  ASSUME TypeOK, BooksInv, NEW ks, Invalidated(ks), routes' = routes, overloaded' = overloaded
  PROVE  BooksInv'
<1> DEFINE affected == UNION {ByKey(k) : k \in ks}
<1>1. /\ quotes' = Without(quotes, ks) /\ tracks' = Without(tracks, affected)
      /\ live' = Without(live, affected) /\ dirty' = dirty \cup affected
      /\ fresh' = fresh \ affected /\ isolated' = isolated \ affected
      /\ Queue(Pulsing(affected)) /\ asks' = Overtaken(ks, asks)
  BY DEF Invalidated
<1>2. \A p \in DOMAIN routes \ affected : {routes[p].long, routes[p].short} \cap ks = {}
  BY DEF ByKey, Legs
<1>3. BacklogBounded'
  BY <1>1, DropsAreBounded DEF BooksInv, LossIsBounded
<1> HIDE DEF affected
<1>4. /\ DOMAIN quotes' = DOMAIN quotes \ ks /\ \A k \in DOMAIN quotes' : quotes'[k] = quotes[k]
      /\ DOMAIN live' = DOMAIN live \ affected /\ \A p \in DOMAIN live' : live'[p] = live[p]
      /\ DOMAIN tracks' = DOMAIN tracks \ affected /\ \A p \in DOMAIN tracks' : tracks'[p] = tracks[p]
  BY <1>1 DEF Without, Restrict
<1>5. LiveMatchesBooks'
  <2>1. ASSUME NEW p \in DOMAIN live' \ dirty'
        PROVE  /\ p \in DOMAIN routes /\ {routes[p].long, routes[p].short} \subseteq DOMAIN quotes'
               /\ live'[p] = Context(routes[p], quotes')
    <3>1. p \in DOMAIN live \ dirty /\ p \notin affected /\ live'[p] = live[p]
      BY <1>1, <1>4
    <3>2. /\ p \in DOMAIN routes /\ {routes[p].long, routes[p].short} \subseteq DOMAIN quotes
          /\ live[p] = Context(routes[p], quotes)
      BY <3>1 DEF BooksInv, BooksAreHonest, LiveMatchesBooks
    <3>3. QED BY <1>2, <1>4, <3>1, <3>2 DEF Context
  <2>2. QED BY <2>1 DEF LiveMatchesBooks
<1>6. IsolatedIsSilent'
  BY <1>1, <1>4 DEF BooksInv, BooksAreHonest, IsolatedIsSilent
<1>7. ConfirmsWithinConnection'
  <2>1. \A k \in DOMAIN quotes \ ks : k \in DOMAIN quotes' /\ quotes'[k] = quotes[k]
    BY <1>4
  <2>2. \A a \in asks : [a EXCEPT !.prev = "replaced"].prev = "replaced"
    BY AsksRemember DEF TypeOK
  <2>3. QED BY <1>1, <2>1, <2>2, OvertakenConfirms DEF BooksInv, BooksAreHonest
<1>8. GapAfterOverload'
  BY <1>4 DEF BooksInv, LossIsBounded, GapAfterOverload
<1>9. QED BY <1>3, <1>5, <1>6, <1>7, <1>8 DEF BooksInv, BooksAreHonest, LossIsBounded

\* register() forgets the paths whose routes change; those it keeps have the routes they had.
LEMMA RegisterKeepsBooks ==
  ASSUME TypeOK, BooksInv, NEW s, Register(s)
  PROVE  BooksInv'
<1>1. PICK incoming \in Discovered(s) : Registered(Gone(s, incoming), incoming)
  BY DEF Register
<1> DEFINE gone == Gone(s, incoming)
<1>2. /\ routes' = [p \in (DOMAIN routes \ gone) \cup DOMAIN incoming |->
                      IF p \in DOMAIN incoming THEN incoming[p] ELSE routes[p]]
      /\ tracks' = Without(tracks, gone) /\ live' = Without(live, gone)
      /\ fresh' = fresh \ gone /\ isolated' = isolated \ gone /\ dirty' = dirty \ gone
      /\ Queue(Pulsing(gone))
      /\ UNCHANGED <<quotes, overloaded, owners, workers, asks>>
  BY <1>1 DEF Registered
<1>3. \A p \in DOMAIN incoming : p \in DOMAIN routes \ gone => incoming[p] = routes[p]
  BY DEF Gone, Discovered
<1>4. BacklogBounded'
  BY <1>2, DropsAreBounded DEF BooksInv, LossIsBounded
<1> HIDE DEF gone
<1>5. /\ DOMAIN live' = DOMAIN live \ gone /\ \A p \in DOMAIN live' : live'[p] = live[p]
      /\ DOMAIN tracks' = DOMAIN tracks \ gone /\ \A p \in DOMAIN tracks' : tracks'[p] = tracks[p]
  BY <1>2 DEF Without, Restrict
<1>6. \A p \in DOMAIN routes \ gone : p \in DOMAIN routes' /\ routes'[p] = routes[p]
  BY <1>2, <1>3
<1>7. LiveMatchesBooks'
  <2>1. quotes' = quotes /\ DOMAIN live' \ dirty' \subseteq (DOMAIN live \ dirty) \ gone
    BY <1>2, <1>5
  <2>2. QED BY <1>5, <1>6, <2>1 DEF BooksInv, BooksAreHonest, LiveMatchesBooks, Context
<1>8. IsolatedIsSilent'
  BY <1>2, <1>5 DEF BooksInv, BooksAreHonest, IsolatedIsSilent
<1>9. ConfirmsWithinConnection' /\ GapAfterOverload'
  BY <1>2, <1>5 DEF BooksInv, BooksAreHonest, LossIsBounded, ConfirmsWithinConnection, GapAfterOverload
<1>10. QED BY <1>4, <1>7, <1>8, <1>9 DEF BooksInv, BooksAreHonest, LossIsBounded

\* Asks may come and go while the hub's tables stay: those that hold a book hold one of
\* the connection they name.
LEMMA AsksKeepBooks ==
  ASSUME BooksInv, UNCHANGED <<routes, quoteVars, overloaded>>,
         \A a \in asks' : a \in asks \/ (a.prev = "same" => /\ a.key \in DOMAIN quotes
                                                             /\ quotes[a.key].conn = a.conn)
  PROVE  BooksInv'
<1>1. ConfirmsWithinConnection'
  BY DEF BooksInv, BooksAreHonest, ConfirmsWithinConnection, quoteVars
<1>2. QED BY <1>1 DEF BooksInv, BooksAreHonest, LossIsBounded, LiveMatchesBooks, Context,
      IsolatedIsSilent, GapAfterOverload, BacklogBounded, Pulsing, quoteVars

\* A book is chosen for confirmation with its owner's connection, which is its own.
LEMMA ChooseKeepsBooks ==
  ASSUME IndInv, BooksInv, NEW f, Choose(f)
  PROVE  BooksInv'
<1>1. PICK ks \in SUBSET Confirmable(f) : asks' = asks \cup {AskFor(k) : k \in ks}
  BY DEF Choose
<1>2. ASSUME NEW k \in ks, AskFor(k).prev = "same"
      PROVE  /\ AskFor(k).key \in DOMAIN quotes
             /\ quotes[AskFor(k).key].conn = AskFor(k).conn
  BY <1>2 DEF AskFor, IndInv, QuoteOwnership
<1>3. UNCHANGED <<routes, quoteVars, overloaded>>
  BY DEF Choose
<1>4. QED BY <1>1, <1>2, <1>3, AsksKeepBooks

\* An answer is ingested without its own ask, or only settles it.
LEMMA AnswerKeepsBooks ==
  ASSUME IndInv, BooksInv, NEW a \in asks, Answer(a)
  PROVE  BooksInv'
<1>1. a \in Ask /\ asks \ {a} \in SUBSET Ask /\ workers \in [Workers -> WorkerState]
  BY DEF IndInv, TypeOK
<1>2. ASSUME Acceptable(a), NEW price \in Prices, NEW age \in Ages,
             Ingest(a.key, [price |-> price, age |-> age, conn |-> ConnOf(a.owner),
                            asked |-> a.conn], asks \ {a}),
             routes' = routes
      PROVE  BooksInv'
  <2> DEFINE item == [price |-> price, age |-> age, conn |-> ConnOf(a.owner), asked |-> a.conn]
  <2>1. a.key \in Keys /\ item \in Quote
    BY <1>1 DEF Ask, Quote, ConnOf, WorkerState
  <2> HIDE DEF item
  <2>2. Ingest(a.key, item, asks \ {a})
    BY <1>2 DEF item
  <2>3. QED BY <1>2, <2>1, <2>2, IngestKeepsBooks
<1>3. CASE asks' = asks \ {a} /\ UNCHANGED <<routes, quoteVars, overloaded, owners, workers>>
  BY <1>3, AsksKeepBooks
<1>4. QED BY <1>2, <1>3 DEF Answer

\* A frame is ingested or ignored.
LEMMA FrameKeepsBooks ==
  ASSUME IndInv, BooksInv, NEW w \in Workers, Frame(w)
  PROVE  BooksInv'
<1>1. workers[w] \in WorkerState /\ asks \in SUBSET Ask
  BY DEF IndInv, TypeOK
<1>2. PICK k \in workers[w].keys, price \in Prices, age \in Ages :
        /\ \/ Ingest(k, [price |-> price, age |-> age, conn |-> ConnOf(w),
                         asked |-> ConnOf(w)], asks)
           \/ UNCHANGED <<quoteVars, overloaded, asks>>
        /\ UNCHANGED <<routes, owners>>
  BY DEF Frame
<1> DEFINE item == [price |-> price, age |-> age, conn |-> ConnOf(w), asked |-> ConnOf(w)]
<1>3. k \in Keys /\ item \in Quote
  BY <1>1 DEF WorkerState, Quote, ConnOf
<1> HIDE DEF item
<1>4. CASE Ingest(k, item, asks)
  BY <1>2, <1>3, <1>4, IngestKeepsBooks
<1>5. CASE UNCHANGED <<quoteVars, overloaded, asks>>
  BY <1>2, <1>5, AsksKeepBooks
<1>6. QED BY <1>2, <1>4, <1>5 DEF item

\* Time makes quotes older and asks wait longer; whose prices they are does not change.
LEMMA TickKeepsBooks ==
  ASSUME TypeOK, BooksInv, Tick
  PROVE  BooksInv'
<1>1. /\ quotes' = [k \in DOMAIN quotes |-> [quotes[k] EXCEPT !.age = Older(@)]]
      /\ asks' = {[a EXCEPT !.wait = Older(@)] : a \in asks}
      /\ UNCHANGED <<routes, dirty, fresh, live, isolated, tracks, backlog, overloaded>>
  BY DEF Tick
<1>2. \A k \in DOMAIN quotes : quotes[k] \in Quote
  BY DEF TypeOK, QuotesOK
<1>3. /\ DOMAIN quotes' = DOMAIN quotes
      /\ \A k \in DOMAIN quotes : /\ quotes'[k].price = quotes[k].price
                                  /\ quotes'[k].conn = quotes[k].conn
  BY <1>1, <1>2 DEF Quote
<1>4. ConfirmsWithinConnection'
  <2>1. ASSUME NEW b \in asks
        PROVE  LET a == [b EXCEPT !.wait = Older(@)]
               IN a.key = b.key /\ a.conn = b.conn /\ a.prev = b.prev
    BY DEF TypeOK, Ask
  <2>2. ASSUME NEW a \in asks', a.prev = "same"
        PROVE  a.key \in DOMAIN quotes' /\ quotes'[a.key].conn = a.conn
    <3>1. PICK b \in asks : a = [b EXCEPT !.wait = Older(@)]
      BY <1>1
    <3>2. a.key = b.key /\ a.conn = b.conn /\ b.prev = "same"
      BY <2>1, <2>2, <3>1
    <3>3. b.key \in DOMAIN quotes /\ quotes[b.key].conn = b.conn
      BY <3>2 DEF BooksInv, BooksAreHonest, ConfirmsWithinConnection
    <3>4. QED BY <1>3, <3>2, <3>3
  <2>3. QED BY <2>2 DEF ConfirmsWithinConnection
<1>5. LiveMatchesBooks'
  BY <1>1, <1>3 DEF BooksInv, BooksAreHonest, LiveMatchesBooks, Context
<1>6. QED BY <1>1, <1>4, <1>5 DEF BooksInv, BooksAreHonest, LossIsBounded, IsolatedIsSilent,
      GapAfterOverload, BacklogBounded, Pulsing

-----------------------------------------------------------------------------
(* The theorems                                                             *)

\* Nothing is cached, queued or asked for at first.
LEMMA InitBooks == Init => BooksInv
<1> SUFFICES ASSUME Init PROVE BooksInv
  OBVIOUS
<1>1. DOMAIN Nothing = {}
  BY DEF Nothing
<1>2. LiveMatchesBooks /\ IsolatedIsSilent /\ ConfirmsWithinConnection /\ GapAfterOverload
  BY <1>1 DEF Init, LiveMatchesBooks, IsolatedIsSilent, ConfirmsWithinConnection, GapAfterOverload
<1>3. Pulsing(DOMAIN tracks) = {} /\ TracksOK /\ backlog = 0
  BY <1>1 DEF Init, Pulsing, TracksOK
<1>4. BacklogBounded
  <2>1. /\ Cardinality(Paths \X Metrics) \in Nat /\ MaxPending \in Nat /\ MaxPending > 0
        /\ Cardinality(Pulsing(DOMAIN tracks)) = 0
    BY <1>3, PulsesAreFinite, FS_EmptySet, Constants
  <2> DEFINE most == Cardinality(Paths \X Metrics)
             now == Cardinality(Pulsing(DOMAIN tracks))
  <2> HIDE DEF most, now
  <2>2. backlog + now < MaxPending + 2 * most
    BY <1>3, <2>1 DEF most, now
  <2>3. QED BY <2>2 DEF BacklogBounded, most, now
<1>5. QED BY <1>2, <1>4 DEF BooksInv, BooksAreHonest, LossIsBounded

\* Every step keeps the books honest and the loss bounded.
LEMMA StepKeepsBooks ==
  ASSUME IndInv, BooksInv, [Next]_vars
  PROVE  BooksInv'
<1>1. TypeOK
  BY DEF IndInv
<1>2. ASSUME NEW s, Register(s) PROVE BooksInv'
  BY <1>1, <1>2, RegisterKeepsBooks
<1>3. CASE Reconcile
  BY <1>1, <1>3, InvalidatedKeepsBooks DEF Reconcile, Replan
<1>4. CASE UNCHANGED <<routes, quoteVars, overloaded, asks>>
  BY <1>4, AsksKeepBooks
<1>5. ASSUME NEW w \in Workers, Worker(w) PROVE BooksInv'
  <2>1. CASE CloseSocket(w)
    BY <1>1, <2>1, InvalidatedKeepsBooks DEF CloseSocket
  <2>2. CASE Dial(w) \/ Connect(w) \/ Clock(w) \/ Drop(w) \/ Retire(w)
    BY <1>4, <2>2 DEF Dial, Connect, Clock, Drop, Retire, hubVars, quoteVars
  <2>3. QED BY <1>5, <2>1, <2>2, FrameKeepsBooks DEF Worker
<1>6. ASSUME NEW f \in RestFeeds, Choose(f) PROVE BooksInv'
  BY <1>6, ChooseKeepsBooks
<1>7. ASSUME NEW a \in asks, Answer(a) PROVE BooksInv'
  BY <1>7, AnswerKeepsBooks
<1>8. CASE Drain
  <2>1. /\ backlog \in Nat /\ backlog' \in Nat /\ backlog' <= backlog
        /\ UNCHANGED <<routes, quotes, dirty, fresh, live, isolated, overloaded, asks>>
    BY <1>1, <1>8 DEF Drain, TypeOK
  <2>2. /\ DOMAIN tracks' = DOMAIN tracks
        /\ \A p \in DOMAIN tracks : /\ tracks'[p].held = tracks[p].held
                                     /\ tracks'[p].missed = tracks[p].missed
    BY <1>1, <1>8, DrainedTracks DEF TypeOK
  <2>3. BacklogBounded'
    BY <1>1, <1>8, DrainIsBounded DEF BooksInv, LossIsBounded
  <2>4. GapAfterOverload'
    BY <2>1, <2>2 DEF BooksInv, LossIsBounded, GapAfterOverload
  <2>5. QED BY <2>1, <2>2, <2>3, <2>4 DEF BooksInv, BooksAreHonest, LossIsBounded,
        LiveMatchesBooks, Context, IsolatedIsSilent, ConfirmsWithinConnection
<1>9. CASE Tick
  BY <1>1, <1>9, TickKeepsBooks
<1>10. QED BY <1>2, <1>3, <1>4, <1>5, <1>6, <1>7, <1>8, <1>9 DEF Next, vars, quoteVars

\* Both hold with the inductive invariant in every reachable state.
LEMMA BooksHold == Spec => []BooksInv
BY InitBooks, Inductive, StepKeepsBooks, PTL DEF Spec

\* A path that may be shown was evaluated with the prices now cached, an isolated path is
\* nowhere an opportunity, and an answer that may replace a book was asked for on the
\* connection that book came from (ingest, invalidate, register; quote_refresh choose and
\* accept).
THEOREM BooksHonest == Spec => []BooksAreHonest
<1>1. BooksInv => BooksAreHonest
  BY DEF BooksInv
<1>2. QED BY <1>1, BooksHold, PTL

\* No episode outside an overload spans dropped frames, and the ended pulses that wait
\* together with those still open stay below the cut-off plus two for each metric of
\* each path: one that a frame ends and one that it opens (ingest, _updates; observe).
THEOREM LossBounded == Spec => []LossIsBounded
<1>1. BooksInv => LossIsBounded
  BY DEF BooksInv
<1>2. QED BY <1>1, BooksHold, PTL
=============================================================================
