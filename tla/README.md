# Verification of the arbitrage system

TLA+ models of the parts of this program whose correctness depends on order, failure or time, with
TLC instances that check them and TLAPS proofs of the properties of most of them for every value of
their constants. Line numbers are those of the repository's source files. Operators such as `OwnersOfOld` or `ClearedKeys`, which no other
definition uses, are named for a mistake and stand just before the definition they would replace:
`PROJECT.json` lists, for each property, the one that breaks it.

## 1. The system

One Python process (or several, each a Flask application on one shared MySQL database) watches spot
and futures markets, shows spreads between venues and announces what moves. Its parts:

| Part (code) | State | Operations and neighbours |
|---|---|---|
| Live streams (`anomaly_streams.py`, `quote_refresh.py`) | routes, cached books and marks, owners and workers per shard, live and isolated paths, detector tracks, queue of pulses | discovery calls `register`; `reconcile` (every 30 s) starts and stops `PublicWorker` coroutines; they feed `accept`; REST threads choose, ask and answer; pages read `screening_quotes`; the writer takes pulses |
| Pulse detector (`anomaly_engine.py`) | per path and metric: compressed history, envelope, anchor, the open pulse | `observe` under `hub.lock`, `reset` at gaps; emits evidence |
| Pulse persistence and reminders (`anomaly_streams.py`, `persistence_policy.py`, `alert_reminders.py`, `app.py:3569-3685`) | `hub.pending`, checkpoints, the tables of pulses and of reminder bounds | one writer thread: take a batch, commit, acknowledge; restart from the tables |
| Chart history (`spread_history.py`) | a minute buffer per series, one SQLite file a day | market threads observe; the history thread snapshots, writes, acknowledges |
| Opportunity ledgers (`opportunity_activity.py`, `opportunity_validation.py`) | path states, episodes, cohorts and their outcomes, in memory and in SQLite | observed by market threads, persisted by the history thread |
| Alert history index (`alert_history_index.py`, hooks in `app.py`) | a projection of committed alert rows, dirty ids, a generation | session hooks invalidate; page requests refresh; other processes write unseen |
| Verdicts (`app.py` 8600-9250, 13890-15110) | trade plans, trend hypotheses, sudden-pump alerts and their reviews | page requests replay plans; background threads judge hypotheses, push alerts and review them |
| Market transport (`market_transport.py`) | per host a pool of connections, a cooldown, a deadline per request | `get_json` is called by every collector |
| Payload cache (`app.py:1571-1660`, `fetch_market_payloads`) | per URL the last payload, the time it is dated, the last failure | two market threads and page requests |
| Market refresh and snapshots (`app.py`: `symbol_alias_rows` 1503, `save_latest_*_snapshot` 3127 and 3747, `spot_futures_snapshot` 3915, `dual_futures_snapshot` 4038, the alias pages 5018-5110, the threads 15349-15381; `snapshot_persistence.py`, `background_runtime.py`) | the latest snapshot of each lane in memory and in a table, the alias cache | one background thread per lane; edits of aliases by administrators; pages and all other parts read the snapshots |
| Funding history (`funding_history.py`, `app.py` 15515-15703) | settled rates in a table, a state per contract, a checkpoint file | a collector per exchange; sums shown on pages and used by the ledgers |
| Funding alerts (`funding_alerts.py`, `persistence_policy.py`, `app.py` 15384-15509) | a state per contract, limit events, reminders | one background pass over the snapshots |
| Opportunity pool (`opportunity_pool.py`, `opportunity_history.py`, `opportunity_funding.py`, `app.py` 13186-13456) | book samples waiting and in files, profiles, watch lists | market threads, history thread, pages |
| Thought push and trend reports (`app.py` 8152-8450, 9196-11960, 12575, 15831-15960) | the last push of each symbol, a candidate direction, the medium-term view, marks of reports sent | background threads send to Lark under a lock in the database |
| Accounts (`app.py` 892-1120, 4464-4860, 5172-5394) | one session per account and kind of device, invitations, warnings | logins, every request, administrators |
| Chat (`app.py` 1001-1090, 5397-6455; `static/app.js` 1224-1270) | messages, each account's cursors, the open page of each browser | page requests; a clean-up thread |
| Boards of the first page (`app.py` 6463-7180, 16101) | quotes of majors, their analysis, rankings | page requests refresh under a lock, and share with a background thread |
| Basis alerts and divergences (`app.py` 414-450, 3379-3760, 16006-16096) | divergence states, trackings per path | three lanes call it with each snapshot |
| Transfer networks (`app.py` 2182-2348, 5114, 15894) | deposit and withdrawal states per exchange and asset | one background thread; lanes read them when they judge a path |
| On-chain pages, catalogues, page templates, deployment | | see "Not modelled" |

Hard behaviours: sockets that die, are retired or replaced while quotes, REST answers and
coroutine clean-ups of the old connection are under way; four writers that copy state under a
lock, commit without it and acknowledge afterwards, with failures before and after the commit and
restarts anywhere; hooks that run after the commit they announce; messages whose delivery is not
known; replays that are repeated over a moving window of candles; limits of queues and buffers;
answers that arrive in another order than they were asked for; rounds in which only some of the
sources answer; signals that must last before something is said of them, and pauses before it is
said again, across restarts; page requests of one account that overlap.
`PROJECT.json` ("hazards") gives each at its line with the properties that cover it.

What makes the parts correct, in one line each. Streams: what is shown live was evaluated on the
cached books of unbroken connections. Detector: no displacement missed, no silence bridged.
Persistence: nothing lost but by a crash, nothing repeated, nobody starved. Charts: the file is the
exact reduction of its samples. Ledgers: what the tables claim was observed. Index: an answer is no
older than what was announced before the request. Verdicts: what is said of a signal is what the
candles did. Transport and payloads: an answer belongs to its request and is as fresh as it says.
Snapshots: the table follows the memory, a removed alias ends. Funding: the table holds what was
published and all of it where an audit says so; a reminder is a day from the last. Pushes: nothing is
said twice without news, no view flips on interrupted evidence. Accounts: one session per kind of
device, earned after the last edit. Chat: a recall reaches every open page. Boards and transfers:
nothing old is shown or used as current. Basis: a divergence is confirmed and released by an
unbroken time of agreeing observations.

## 2. Modules

| Module | Models | Correspondence |
|---|---|---|
| `AlertStreams` | hub, workers, REST confirmation | an action per section under `hub.lock`; a worker's coroutine is `Dial, Connect, Frame, Clock, Drop, CloseSocket, Retire` with its program counter in `phase`; a REST round trip is `Choose` then `Answer`; times are ages that saturate where no guard distinguishes them; a path has one track record, which says of each metric whether its pulse is held and whether it is queued; values and sequence numbers are abstract, so any frame may be refused for them (the invalidation after a lower sequence needs a Bybit `orderbook.1` frame, and `subscription` asks for tickers only) |
| `ShardPlan` | what `reconcile` promises of its shards: a relation, used by `AlertStreams` in place of one particular plan | |
| `ShardTable` | the plan the code computes (retained symbols, holes in the numbering, filling) | `ShardsFollow` (checked and proved) shows it satisfies `ShardPlan`; the rounds of filling are written as what they leave: each kept shard takes the slice of the additions that starts after the free places of the shards before it (`PlacesBefore`), and every opened shard one slice of the rest |
| `PulseLife` | the life of a pulse as seen from outside the detector: the abstract specification | evidence records with state, direction, peak, notice, version |
| `PulseTrack` | `PulseDetector.observe` and its `Track`, for one metric | `observe` per reading; implements `PulseLife` (property `LifeSpec`) |
| `Reminders` | `admit_pulse` | an operator over a scope's points and bounds |
| `PulseStore` | pending queue, batches, transaction, acknowledgement, restart | composes `PulseLife` (what is emitted) with `Reminders` (what is announced) |
| `ChartHistory` | `HistoryBuffer` and `HistoryStore` | `observe, snapshot, commit, fail, acknowledge, crash, tick` |
| `Episodes`, `Cohorts` | `ActivityLedger`, `ValidationLedger` | observation, copy, commit, failure, acknowledgement, restore, expiry, funding evidence |
| `AlertHistory` | session hooks and `AlertHistoryIndex.snapshot` | one action per flush, bulk statement, savepoint event, commit, hook, and query of a refresh |
| `Candles` | the closed five-minute candles and the table caching them | shared by the three verdict modules |
| `BookSamples` | `opportunity_history.BookBuffer` | the market thread's `TakeBook`; the history thread's `CopyBooks`, then `CommitBooks, PopBooks` per day file |
| `Transport` | `get_json` of one host: pool, wait for a place, keep-alive, one retry, deadline, cooldown | a request is a program counter; a connection remembers the answers it still has to deliver |
| `Payloads` | `fetch_market_payloads` for the two market threads | `Begin`, one answer or failure per URL in any order, `End` with its fallbacks |
| `Snapshots` | the end of a pass of each lane and the aliases it reads | read aliases, publish, save or fail, restart; edits that commit and invalidate |
| `FundingSync` | the collector of one exchange | `Plan`, `Ask` per page, `Store` or `RefuseFetch` per contract, `Finish`, the tail batch, restart from the checkpoint |
| `SettledFacts` | what the table of settled rates promises: the abstract specification | implemented by `FundingSync` (property `AuditsAreComplete`) |
| `FundingAlerts` | `advance` and the pass that stores what it returns | observations of one contract, gaps, changed limits and intervals, failed commits, restart |
| `ThoughtPush` | judgement, lock, reservation, delivery, answer | an action per commit or call, for two processes; a symbol's class decides which rules it has |
| `ThoughtHorizon` | the medium-term view | one action per scan |
| `TrendScans` | the half-hourly and the daily scan | scan, deliver, mark; midnight; restart |
| `Accounts` | logins, enrolments, edits, unbinding, warnings, registrations | an action per transaction of a request; enrolments, edits and registrations are several |
| `Chat` | reading, sending, recalling, hiding, pinning, clearing, retention | a request is split where it reads and where it commits; the page's cursors are those of `static/app.js` |
| `Boards` | quotes, analysis and rankings with their times | a round asks each venue; answers may fail or lag |
| `Basis` | `update_spot_divergences` and `track_basis` | one action per observation of a lane, one per restart |
| `Transfers` | the synchronisation of transfer states and its readers | `Begin`, an answer per source, `End` |
| `TradePlans`, `TrendHorizons`, `PushReviews` | replay and renewal of plans; hypotheses of every horizon; scan, confirm, send, commit, review | an action per request or pass; a pass that fails may stop after each of its commits |

The modules `MC...` give the constants their values. `MCDurability`, `MCStores`, `MCVerdicts` and
`MCServices` explore components that share no state within one run: a variable `subject` chosen in the
initial state says which one moves, so that a state graph is the sum of the parts' graphs, never
their product. A property of one part then speaks of the states in which that part moves; in the
others it stands still at its initial value. Parts that do share state are composed instead:
`PulseStore` of `PulseLife` and `Reminders`, `AlertStreams` of `ShardPlan` and the hub, the verdicts
on one table of candles.

Abstractions common to all: prices and spreads come from small sets of integers chosen around the
thresholds, and thresholds keep their order and, where a rule depends on it, their ratios; formats,
wording, counters and status pages are left out; every bound is a CONSTANT with `Max` in its name or
is listed below.

## 3. What is checked

| Run | Bounds (all others are in the .cfg) | Shows |
|---|---|---|
| `streams_books` | one path, two workers, two metrics, shards of one key, ages to 1, a queue of one pulse, one connection each | `BooksAreHonest` (what is live was evaluated on the cached books; an isolated path is silent; a confirmation belongs to its connection), `LossIsBounded` (no episode spans an overload; the backlog has its limit, with ended and restarted pulses of each metric), `TracksWithinConnections`, `QuoteOwnership`, `TypeOK` |
| `streams_live` | one path that moves between books of a shard of three, fairness | `WorkersSucceed` (stopped workers end, keys get owners), `QuotesFallWithTheirOwner`, `OwnersRun` |
| `streams_confirm` | two connections, ages to 3 | **violated**: `ConfirmedOnOneConnection` (finding 1) |
| `durability` | both writers under their threads' fairness; two pulses in two scopes, batches of one; minutes of three ticks, one of them in memory; one failure, one crash | `TransitionsBecomeDurable`, `PastMinutesLeave`, `ChartIsWhole` (the file is the exact reduction of its samples; the rest waits or was counted) |
| `chart_full` | two series, room for one record, one minute, no failure | **violated**: `AckErasesNothing` (finding 2) |
| `stores` | two pulses of one scope with a reminder window that passes; two paths with room for one state; one route with two horizons; two paths with room for two samples; failures, unheard successes and restarts | `NothingIsLost` (unsaved is queued, what is not due is covered, bounds match notices), `NobodyStarves`, `NothingIsTakenBack` (evidence only grows, no notice twice), `EpisodesAreObserved`, `CohortsAreSound` (outcomes were watched, cohorts follow each other, saved is stored), `OutcomeStands`, `BooksAreKept` |
| `index` | two alerts, one dated ahead of the clock; three writes, one fault; six symbols in shards of two | `AnswersAreWhole` (no answer older than what was announced, or than its audit saw; nothing announced is forgotten), `ShardsFollow` (the shard table is what `ShardPlan` promises and leaves unchanged shards alone) |
| `services` | fifteen subjects, each with the smallest number of actors its hazard needs | see the next table |
| `chat_read` | both accounts write and read, pages of three lines, three messages | **violated**: `ReadMeansServed` (finding 3) |
| `thought_switch` | one symbol, an old and a new process, two pushes, a pause of two | **violated**: `SwitchIsSustained` (finding 4) |
| `verdicts` | five, four and four candles out of four or five shapes, two plans, three hypotheses, two reviews | `PlanIsItsCandles`, `FirstHitIsFirst`, `PushesAreJudged` (phases only rise, a review is what its window did), `VerdictStands` |
| `plan_rewritten` | a chart window of two candles | **violated**: `StopIsFinal` (finding 5) |

The subjects of `services`:

| Subject | Smallest story it has room for | Shows |
|---|---|---|
| pulses | two pulses of one track, readings inside, at and beyond each limit at any of five half seconds, windows of 1.5, 2 and 2.5 s, baselines of at most 2.5 s | `NeverBridgesAGap`, `NoJumpMissed`, and `LifeSpec`: `PulseTrack` implements `PulseLife` |
| payloads | two threads, one URL they share, one that is kept a while | `PayloadsAreHonest`: the age told of a payload is never too small, and a thread never sees one older than before |
| transport | three requests, a pool of two, one second of patience, a pause | `AnswersAreOwn` |
| snapshots | one lane with its alias, two edits, one restart | `SnapshotsKeepUp`: a failed save is made up for, and a removed alias ends within the life of its cache |
| sync | one contract with three pages of history, one failure, one restart | `AuditsAreComplete`: `FundingSync` implements `SettledFacts` |
| reminders | one contract, one limit or none, two intervals, gaps, four hours, a day of two | `RemindersAreSpaced` |
| chat | one account writes and recalls, the other reads and acts; pages of one message, one time unit per request, a recall overlap of three | `RecallsReach` |
| accounts, invitations | three browsers of two kinds, two edits; two visitors with one invitation | `SessionsAreEarned` |
| thoughts | an old process beside its successor, two directions | `NotSaidAgain` |
| horizon | twelve steps, three agreeing scans in four or two of them | `FlipsAreSustained` |
| scans | one symbol, two stages, two days, a lost answer or mark, a restart | `ToldOnce` |
| boards | one major on two venues, one of the two rankings | `BoardIsHonest` |
| basis | one path, bases at and around both thresholds, a restart | `BasisIsEarned` |
| transfers | two sources, one fault | `StatesAreRecent` |

Why the bounds are enough to mean something: each instance has room for the smallest story in which
the hazard bites. Two workers are an old and a new owner of a key; two pulses are one that starves
another or one that repeats the other's notice; a limit of one is reached by the second element; one
failure and one crash may fall before, between or after the other steps; a window shorter than the
time explored lets things leave it; the candles are the inside, target-only, stop-only and both cases
of every comparison; a funding history of three pages has an interior gap; a wait of two scans or a
release of two observations is interrupted once. A limit is kept apart from the limits it is compared
with: where the code orders two durations (a cache's life within a window, an overlap beyond a
request) the constants keep the order, as the ASSUME of the module says. For every property a mistake planted in the model is found in the same instance
(`PROJECT.json`, "mutants"). Deadlock is checked for
the streams, which never stop; the other instances stop at the end of their bounded time.

### Fairness

* `AlertStreams`: `Reconcile` (called every 30 s), the clock, answers (request threads have
  timeouts), `Dial`, and, for a stopped coroutine, `Drop`, `CloseSocket` and `Retire` (the event
  loop runs a cancelled coroutine to its end). Nothing obliges a connection to succeed, a frame to
  arrive or a route to stay; hence `KeysGetOwners` says owner, not quote.
* The writers (`durability`): the steps of each writer thread (`Take, Commit, Acknowledge`;
  `snapshot, commit, acknowledge`), and the clock of the chart. `background_alert_pulses` and
  `background_spread_history` loop for ever and catch every exception. Failures are bounded: a
  database that always fails makes nothing durable.
* The services have no liveness property: what they do late they do in a later pass, and none of them
  waits for another; the audits of a funding history may even be put off (known limits).

### Refinements

* `LifeSpec`: every step of `PulseTrack` is a step of `PulseLife` or leaves its pulses alone, with the
  mapping that forgets the compressed history. `PulseStore` uses `PulseLife` for what the detector
  emits, so the persistence is checked against everything the detector may do, not one trace of it.
* `AuditsAreComplete`: `FundingSync` implements `SettledFacts`, which knows neither pages nor batches:
  what is stored was published, what is still summed stays, and what the collector vouches for is
  there. A contract is vouched for with what had been published when its last complete audit began:
  this history variable (`vouch`) is the only state of the model that the code has not. When the
  exchange does not know the name, the code drops the pages it had, stores nothing and notes the audit as
  any other (`NameRefused`); such an audit vouches for nothing, so the promise does not speak of it: until
  the next daily audit an interior gap of that contract stays.
* `ShardsFollow`: the plan `ShardTable` computes is one `ShardPlan` allows; `AlertStreams` and its proofs
  use no more than that relation.

### Findings

1. `quote_refresh.py:195`: an answer to a request that found no book is accepted after a reconnect,
   since `None is None` and the worker object is the same, against the comments at 71-72 and 193-194.
2. `spread_history.py:110`: `acknowledge` sets the saved version on a record that was evicted and
   created anew; its first samples then count as saved though never written.
3. `app.py:6125`: opening a chat marks everything older than the newest message of the page as read,
   also what no page contained, against `docs/聊天模块设计.md:135`.
4. `app.py:10759`: a candidate direction survives observations of the pushed one during the cooldown
   or the repeat window, so that a switch is confirmed by observations that were not consecutive,
   against `app.py:10699` and `10612`.
5. `app.py:15081`: the detail page replays closed plans on a window of three days; when the entry
   candle has left it a closed plan becomes planned or open again, against the docstring at 13971.

## 4. What is proved

Eight modules hold the proofs. Every theorem is for all values of the constants that satisfy the named
assumption of the module it is about; the inductive invariants named here were checked by TLC on the
instances of section 3 before they were proved. One proof pattern recurs: an invariant with named parts,
one lemma per action of `Next`, a lemma for the parts that several actions share, and a last step that
combines them by `PTL`. What a function that recurs over a number computes is proved by its least
counterexample (`LeastExists`, from the well-foundedness of `<` on the naturals), since the induction
theorems of the library take an operator as a parameter.

### Live streams (`AlertStreams_proof`)

From `StreamAssumption` (limits are naturals, the queue holds at least one pulse, routes name known
keys, paths and metrics are finite) and the assumptions of `ShardPlan`:

* `TypeCorrect`, `OwnersCorrect`, `QuotesOwned`, `TracksUnbroken`: `Spec => []P` for `TypeOK`,
  `OwnersRun`, `QuoteOwnership`, `TracksWithinConnections`;
* `QuotesFall`: the action property `QuotesFallWithTheirOwner`;
* `BooksHonest` and `LossBounded`: `Spec => []P` for `BooksAreHonest` and `LossIsBounded`.

The inductive invariant `IndInv` is the conjunction of the first four state predicates. None is
inductive alone: `reconcile` keeps an owner only because a worker owns its whole shard (`OwnersRun`), so
without it a kept owner might have been retired and `QuoteOwnership` would break; an item extends a track
only because the book it replaces came from the same connection, which is `QuoteOwnership` for that key;
and `TracksWithinConnections` needs every drop of a quote to drop the tracks on it, which holds since
`Invalidated` computes them from routes of the right type. `Reconcile` is proved from the relation
`IsPlan` alone, so the result holds for every plan with that property; that the code's plan has it is
`PlanFollowed`, below.

The books and the losses are kept by every step given `IndInv`: the detector resumes after an overload
without any track since every track is of a route; a book chosen for confirmation came from the
connection the ask names, since that is its owner's; a path that is not evaluated again still matches
because a new price marks all paths of its key (`EvaluateMatches`). The bound of the queue holds since
dropping a track moves its pulse from the open to the waiting ones (`DropsAreBounded`) and a frame is
looked at only below the cut-off, after which each metric of each path adds one ended and one opened
pulse at most (`IngestIsBounded`). What the code guarantees is therefore not `MaxPending` but less than
`MaxPending + 2 * Cardinality(Paths \X Metrics)`: one frame is seen by every path of its key, and `observe`
may return for each of the metrics both the pulse that ended and the one that restarts.

### Detector (`Samples_proof`)

`TrackImplementsLife` (`Spec => LifeSpec`) and `GapsKept` (`Spec => []NeverBridgesAGap`) from
`LifeAssumption` and `TrackAssumption`, for any readings, windows, limits and clock. Both rest on
`TrackInv`: all a track keeps - its buckets, the anchor, the baseline and the turning point of the held
pulse - was read since the latest gap, and `Holding` ties the track to the evidence it emitted last: its
pulse runs, is no later than the last reading, and has not outgrown its stage. Without the last two a
tick could be too early for `Ticks`, and a reading that is no new peak could make a pulse "expanded".
Most of the proof is one reading of a held pulse: a reading that finds a retracement or a settlement is
no new peak (`NoPeakThen`), only a retraced pulse has a next one (`NextIsSeen`), and so what the code
makes of the evidence is one of the steps `PulseLife` has (`AfterIsAStep`). A displacement is never zero
(`DisplacedMoves`) because a limit is positive.

`JumpsCaught` (`Spec => NoJumpMissed`) needs `RulesAssumption` too: a longer window asks for no less, a
second is no longer than the longest window, and that is no longer than a baseline may be old (1, 120 and
300 s in the code). Otherwise a history could be emptied while the envelope lives on, or a plateau's later
reading could be asked for more than the reading it stands for. `JumpInv` says of a path between two readings
that every reading no window has passed is between the extremes of a bucket of which neither is a second older
than it (`Stands`), that a bucket holds one second, that the envelope encloses all buckets, and that
the latest reading missed none; the last is what a repeated value rests on, for which the code does not
scan at all (`RepeatMissesNone`). `RememberKeeps` shows that remembering keeps this in each of its cases and
that an expired bucket stands only for readings of no window; `SearchFinds`, that the extreme on the side the
value moved away from is at least as far away, eligible when the reading is, and not ruled out by
the envelope; `StrongestExists`, that among candidates one is strongest, since the quotients the code
compares order them as numbers do (`StrongerIs`). The invariant showed a bound of the run to be too
kind: with three time units in a second a value repeated within the second can be nearly two seconds
younger than any extreme that stands for it, so a repeat counts as the reading it repeats.

### Charts (`Samples_proof`)

`ChartWhole` (`ChartSpec => []ChartIsWhole`) from `HistoryAssumption`, for any finite set of series, any
quotes, gaps, sizes of the buffer and of a batch, failures and one death of the process. The assumption
asks nothing else of the constants. First the operators, then the memory and the file:

* Lists of times in order are counted by rank (`OrderedIs`, `OrderedAt`), so that two sequences are equal
  as soon as their sets are. The first, lowest, highest and last of a set are those of any subset that
  keeps them (`ExtremesWithin`): nothing is lost by reducing twice.
* A part's opening never falls inside the range of another part (`Straddles`), hence where the ranges of two
  reductions begin and end is where the parts of all their samples do (`OpeningsAre`, `EndIs`). Together:
  `MergedIs`, merging the reductions of two sets of samples gives the reduction of their union, however
  they overlap. `AddPointIs` is the same for one later sample added in memory.
* `ChartInv` holds one record and one copy per minute, each the reduction of its samples. A record that
  counts as saved is in the file; a copy was taken of a record that is still held and unsaved, and
  what was committed but not acknowledged is in the file: an acknowledgement of an older version
  therefore leaves the later samples unsaved. Both are said of minutes whose unsaved record was never
  dropped: after such a drop a new record counts its versions from the start, and an acknowledgement of
  the old copy may mark it as saved, which the run `chart_full` shows.

### Pulses and reminders become durable (`Stores_proof`)

From `LifeAssumption` and `StoreAssumption`, for any pulses, scopes, levels, batch limits, windows,
failures and crashes: `NothingLost` (`Spec => []NothingIsLost`), `NobodyStarved`
(`Spec => []NobodyStarves`) and `NothingTakenBack` (`Spec => NothingIsTakenBack`). The argument:

* `Later` orders the evidence of one pulse: a later version has as many notices or more, a peak that only
  moved outwards, and another stage only with a notice or the end. Every step of `PulseLife` goes up in it.
* `QueueSound`: the queue holds the newest evidence of each pulse that waits, once; `WriterSound`: the
  batch is comparable with what is queued, lives and is stored, so a transaction that is repeated after
  an unheard success, or after a restart, changes nothing it should not.
* `TablesSound` and `BoundsMatch`: a notice a scope still counts is a level it knows, and it knows no
  level without a notice of its time. A transaction is `admit_pulse` for each member of the batch in turn
  (`After`); that it keeps both, stores every member and touches no other pulse is proved by its least
  counterexample (`CommittedIs`).
* `MarksSound`: a mark of what was acknowledged says what some evidence said that the store has or has
  gone beyond. Evidence that is not due agrees with a mark; in the order the mark's evidence lies below what is stored,
  what is stored below the evidence, and two ends that agree enclose what lies between: what is not due is covered.
* `Turns`: for every pulse that waits, `passed * Limit` plus its place in the queue stays below the
  number of pulses, since every batch that passes it over takes `Limit` others that were ahead of it, and
  what is queued again goes behind. It begins with no more than the number of pulses because none is
  queued twice, which takes a count of the queue.

### Ledgers and samples of books (`Stores_proof`)

* `CohortsSound` and `OutcomesStand`: `CohortInit /\ [][CohortNext]_cohortVars` implies
  `[]CohortsAreSound` and `OutcomeStands`, from `CohortAssumption`, for any paths, horizons, shares, limits,
  failures and restarts. The assumption orders two gaps as the code's constants are: quotes that are
  next to each other are closer (20 s) than a hole may be long (300 s). `CohortInv` says:
  - of the progress of a cohort, in memory, in the copy being written or in the table, that it rests on
    what was looked at (`ProgressSound`): each second it counts lies between two quotes next to each
    other, no quote is missing for longer than its hole, and each verdict of "observed" has its quotes
    (`WatchedEnough`). One observation keeps it for any progress (`ObservationSound`), so a restart,
    which takes a row for progress, keeps it too;
  - of the three versions of a cohort, that each goes on where the other ended: the row `Holds` what the
    record once was, the copy was `LeftBehind` by the record, and verdicts are only added or become final
    (`Extends`). Thus a record that takes itself for saved equals its row, whatever was observed
    during the commit;
  - of an open ledger, that every unfinished cohort in the table is active (`UnfinishedHeld`). Room for
    them is needed: `restore` loads no more than the limit, and would leave an older one behind for
    good if there were more. Then a cohort is entered only when those before it are over (`CohortsInOrder`).
* `BooksKept`: `BooksInit /\ [][BooksNext]_bookVars` implies `BooksAreKept`, from `BookAssumption`, for any
  books, buckets, capacities, failures and restarts. `BookInv` says that what is about to be popped is in the
  files and that no more samples are missing than were counted as dropped. An observation drops at most
  one, and popping removes the samples of written buckets only (`PoppedKeeps`, by its least counterexample).

* `EpisodesObserved`: `EpisodeSpec` implies `[]EpisodesAreObserved`, from `EpisodeAssumption`, for any paths,
  spreads, limits, failures and restarts. First the readings alone: one more reading changes the episodes
  of a sequence in two ways, the one that goes on is followed through and a new one may open (`SeenIs`), and the
  active event of `observe` is always the episode that goes on (`ActiveIs`), so the state machine
  computes what the definition of an episode says. An episode that ended never changes (`EndedStays`), hence a
  version that was in the table and is current again was current all the time (`VersionsDoNotReturn`). Then
  the memory, the copy and the table, with one relation (`Covers`): the waiting versions are
  exactly what a state has over an older one, for the starts the retention spares. It holds between memory and
  table, and between copy and table until the commit; `RowsAre` shows that replacing rows by key then gives the
  episodes of the copied state, and `CoversWritten` that what is observed meanwhile is still covered. A
  state that leaves the memory as expired opened nothing since the retention (`PastAre`).

### Alert history index (`AlertHistory_proof`)

`AnswersWhole` (`Spec => []AnswersAreWhole`) for any rows, windows, clock, deletions and writers outside
the process. A table is compared with the log of committed contents (`Fits`: the row is as of some version
from a given one on, or is absent since that version has none). `IndexInv` says that every change awaits its announcement, in the
session and then in the hook (`ChangesAwaited`); that the projection is current but for the ids that are
remembered as dirty (`ProjectionSound`); that the revisions belong to rows it has (`RevisionsCovered`);
and of a refresh in progress what it took (`TakenSound`), what it read by id or by window (`LoadedSound`)
and what its audit saw (`AuditSound`). A change announced while a refresh runs leaves its id dirty or asks for a full reload (`TakenSound`), and a
refresh forgets only what it took when it began.

### Shards of a feed (`AlertHistory_proof`)

`PlanFollowed` (`TableSpec => ShardsFollow`): for any symbols, limit and sequence of universes, the table
`reconcile` computes is one `ShardPlan` allows, and a shard that neither loses nor gains keeps its
number and its tuple. It assumes of the feed that its symbols are finitely many and ordered and that its limit is positive
(`FeedAssumption`). The invariant is `TableInv`: rows are lists of distinct symbols, none empty or above the limit, and no
symbol is in two. It is needed because `retained` is taken shard by shard from what remains: only since
shards are disjoint does each keep all that is wanted of it (`RetainedIs`). The free places of the kept
shards lie one after the other (`PlacesFollow`: no two shards share a place, and each place up to the
total is of one shard), so the additions each go to one shard and something is left only when all are full
(`FilledIs`); the chunks of what is left cover it, all but the last are full, and there are unused
numbers enough (`OpenedIs`). A symbol in an old shard and in a new one thus means the same number
(`SharesOne`), from which the plan's clauses follow (`DesiredIsPlan`, `UntouchedStays`). `AlertStreams`
takes any plan of `ShardPlan`, so its theorems hold of the plan of the code.

### Market (`Market_proof`)

* `PayloadsHonest` (`PayloadSpec => PayloadsAreHonest`, an invariant and an action property) from
  `PayloadAssumption`, for any threads, URLs and lives of entries. `PayloadInv` says of each running call
  that its start is no earlier than what its thread was shown and no later than the present, and of each
  of its results that it lies between what was shown and what the cache holds now. Other threads only make the
  cache newer (`OthersStay`), and each way a call gets a result - kept entry, answer, fallback - has its lemma.
* `AnswersOwned` (`TransportSpec => []AnswersAreOwn`) from `TransportAssumption`, for any requests and
  places. `TransportInv` adds that a pooled connection owes no answer, that one in use owes at most that of
  its holder, and that free places and holders together are `PoolSize`; `PlaceStays` and `PlaceReturns`
  settle that count for all steps at once.
* `SnapshotsAreRecent` (`SnapshotSpec => []SnapshotsKeepUp`) from `SnapshotAssumption`, for any lanes,
  paths and intervals. The rows of the list of aliases travel from a query to the cache, from the cache to
  a pass and from the pass to the snapshot, and each stage may be stale. `SnapshotInv` gives each stage
  the time it vouches for and says that no alias in it had been removed by then (`Stands`): an edit
  happens now, and each copy vouches for no later time than what it was made from. What then bounds the age
  of a snapshot is arithmetic (`SoundExpires`): the life of a cached list and the time a query may take.
  That a failed save is made up for needs that the time of the last save is that of a write (`SavesKnown`).

### Funding (`Market_proof`)

* `CollectorKeepsItsPromise` (`FundingSpec => AuditsAreComplete`): the collector implements
  `SettledFacts`, from `FundingAssumption` (times are naturals, sums reach less far back than histories). A
  contract may be vouched for only if its pages left no gap. So `FundingInv` says of every fetch that all it
  had to find lies above its cursor and has been got, and of every state, the saved ones too since a
  crash may load them, that what it vouches for and is still summed is in the table. The step that carries
  the proof is `PageReadSound`: a page is closed upwards among what is left (`PageIs`), so that a full one
  leaves no gap and a short one is all there is. `StepImplements` then maps `Wait` to `Age`, `SettleRate`
  to `Publish` and every other step to `Maintain`.
* `RemindedOnceADay` (`AlertSpec => []RemindersAreSpaced`), for any contracts' limits, intervals, gaps,
  failed commits and restarts. `AlertInv` adds that both states, the row and the one in memory, know every reminder
  of the last day (`Knows`), so that whichever a pass begins with, `advance` sees it and stays silent.

### What the pages are given (`Pages_proof`)

* `PathsJudgedRecently` (`TransferSpec => []StatesAreRecent`): a row is no older than one call when it is
  written, and a round knows of each source it has passed that it failed or was heard since it began
  (`TransferInv`).
* `BoardsHonest` (`BoardSpec => []BoardIsHonest`): a row holds the prices of one round and the date of its
  oldest, so that one which is not stale is not stale among the majors either; a ranking is dated when its
  refresh began and never before what it shows, and only the one by open interest carries an error when
  what it shows is older (`BoardInv`).
* `AccessEarned` (`AccountSpec => SessionsAreEarned`), for any browsers, kinds of devices, invitations and
  overlapping edits. Tokens and device rows are numbers drawn once: those of two browsers, or of two
  kinds, stay `Apart`, including the ones requests still carry; a session of the account and one of a
  device exclude each other; and a session that came up beside an edit that read none is younger than it.
* `RecallsAlwaysReach` (`ChatSpec => []RecallsReach`): what a page shows of the other is not cleared or hidden, and
  a recall it does not show is younger than its cursor reaches back (`PageSound`); a read under way knows
  all its page shows, and every recall but those committed since it began (`ReadSound`); the id of a
  message on its way is nowhere yet (`SendSound`). The overlap of the code must exceed the longest request: `ChatAssumption`.

### What is pushed and marked (`Pushes_proof`)

* `SaidOnce` (`Locking => (ThoughtSpec => []NotSaidAgain)`): with the named lock of MySQL one process is in
  a pass at a time, what was judged last of a symbol is its last event, and a pass that will push has news
  of it or its cooldown is over (`ThoughtInv`). Without the lock (SQLite) two processes can both say it; hence the hypothesis, which the
  deployment satisfies.
* `TurnsAreSustained` (`HorizonSpec => FlipsAreSustained`): what the view counts for a candidate was shown
  by the live snapshots, for as long and as often (`Backed`).
* `StagesToldOnce` (`ScanSpec => []ToldOnce`): a stage that was told had been reserved; a report is told
  once more than there are doubts at the most. `DayOpen` counts the doubt of a report that midnight
  overtook separately.
* `MarksAreEarned` (`BasisSpec => BasisIsEarned`): a row of a divergence counts no more than the unbroken
  agreeing time before it (`PathsSound`); trackings, candidate and quiet observations agree (`TrackingInv`).

### Verdicts on signals (`Verdicts_proof`)

Each subject is proved alone with the candles (`TrendSpec`, `PushSpec`, `TradeSpec`: a step of the subject, or
a bucket that closes), as the run explores them, from the assumptions of `Candles` (prices are integers)
and of its own module. A subject only appends to what it knows of the candles, so each invariant says what
the closed buckets say of a row and is kept when one more closes.

* `FirstHitHolds` (`TrendSpec => []FirstHitIsFirst`) and `VerdictsStand` (`TrendSpec => VerdictStands`), for any
  candles, halts, horizons, levels and late passes. `TrendInv` says of each row that it `Follows` the
  buckets between its anchor and the latest it was judged by: its verdict is that of the first that touched
  it, its gain the greatest, its soft stop and its reversal known from one of them. One more candle keeps each of the four (`Judged`
  splits into widening, softening, the hit and the path); that a pass judges all that is due, none twice, is
  proved by the least candle for which it would not (`JudgedOn` is a function on the buckets). `Carries` is
  what a pass leaves of an earlier row, and passes compose (`PassesCompose`).
* `PushesHonest` (`PushSpec => []PushesAreJudged`), for any episodes, stages, attempts, lost answers and
  failed commits. `BoxInv` says that a message under way announces what the table does not know, in a phase above all
  that were told; `ReviewInv` that a review with a result has its window complete and is what the first candle
  in it that touched a line says. The code counts the rows of a window; that as many as there are buckets are all of
  them takes the cardinality of an interval.
* `PlansAreTheirCandles` (`TradeSpec => []PlanIsItsCandles`), for any candles, halts, signals, distances and
  visits. `TradeInv` says that a plan was entered by the first candle since its creation that could, and ended by
  the first after it that ended it (`Tells`). A replay does not begin there: once a plan is open it begins at the bucket
  *before* the recorded entry, and that bucket must not enter it. It lies at or after the creation, where
  the entry was the first, or just before the creation, where a signal's entry lay beyond the extremes
  (`PlanSound` keeps this for the whole life of the plan); so the replay finds the same entry and, from there, the same end
  (`ReplayTells`), whatever the previous visits wrote. That a replay of any length tells the story is
  again proved by its least counterexample. Plans that were cancelled, or that the chart no longer reaches, are
  excluded, and run `plan_rewritten` shows why the latter must be.

### Only model-checked

Liveness and everything that speaks of ENABLED, which the prover does not reach:
`TransitionsBecomeDurable`, `PastMinutesLeave`, `WorkersSucceed`.

## 5. Known limits of the program, not shown by a run

* `alert_history_index.py:99` overwrites the revisions with those of the audit's query, forgetting
  the one of a row loaded after it; if another process deletes that row before the next audit it
  stays until it leaves the window. `AuditCatchesOthers` (in `AnswersAreWhole`) excludes deleted rows.
* `opportunity_activity.py:50`: a state popped as expired, whose deletion has not been committed,
  together with a path admitted meanwhile leaves more states in the file than the limit; a restart
  may leave out a path with an open episode. `EpisodesAreObserved` excludes it (`cropped`).
* `app.py:14929`: the seeded plan of an older scheme can flip its entry between the bucket before
  its creation and its creation. `PlanIsItsCandles` speaks of plans of the present scheme.
* Two concurrent page requests can each create a plan for the same symbol (`app.py:14892`); the
  requests of the model are taken one at a time.
* Trend hypotheses: a late pass judges candles after `expires_at`; `stop_then_target` is
  overwritten by a later `stop_then_recovery`.
* Push reviews: the epoch is taken before up to three deliveries, so the first candle of the window
  may begin before the alert arrived.
* `market_transport.py` assigns cooldowns without taking the larger: a 60-second one can shorten a
  longer Retry-After.
* `refresh_equity_spot_snapshot` (`app.py:3832`) dates its payloads by the current cache entry, which
  the other thread may have replaced; the minimum with the exchange's time limits the error. The
  metadata of equities are dated when their request ends.
* The alias cache may be filled again with rows read before an edit's commit; it expires with its TTL
  (`AliasesExpire`). The table of spot snapshots never drops an absent path, and a pass in flight
  publishes old pairings after an edit (`docs/架构设计.md:205`). The instance moves one lane.
* Funding history: a retry of a missing settlement takes the slot reserved for audits
  (`funding_history.py:216-228`), so a due contract may wait as long as the batch is full.
* Accounts: an enrolment in flight brings its session back when it commits after an edit that did not
  see it; an edit does not write a session it read as empty. `EditsSignOut` speaks of the sessions
  that began before the edit.
* Chat: two concurrent requests of one account can move its last read message back, leave two pins or
  undo a clear; the model has one request per page at a time. After one's own send the page's cursor
  passes messages of the other that were not shown until the next poll.
* Trend scans: `docs/决策记录.md:344-348` says a restart does not repeat the daily report and that it
  is sent between 8 and 9 only; a crash between delivery and mark repeats it, and the code has no
  upper hour. `ToldOnce` counts each such doubt.
* Wallet-state ages (`app.py:3460-3464`) compare local time with UTC, which agree because the server
  runs with TZ=UTC (`docs/架构设计.md:38`). `Basis` takes one clock.

## 6. Not modelled

* Profiles, page statistics and watch lists of the opportunity pool: computed anew from the stores
  that are modelled, or read and written under one row lock.
* Parsers of announcements and the tables they fill (one upsert per announcement); formats of
  exchange answers; the arithmetic of market rows.
* Asset catalogue, equity metadata, market calendars and trend references: lookups without state that
  changes. On-chain pages: caches of other sites' answers behind one lock, as the rankings of `Boards`.
* The runtime that restarts background threads (`background_runtime.py`): in every model a pass that
  raises ends and the next begins, which is all the parts see of it.
* Images, remarks and browser notifications of the chat; passwords, places and audit texts of accounts;
  page templates, the service worker, deployment scripts.

