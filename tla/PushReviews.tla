----------------------------- MODULE PushReviews -----------------------------
(***************************************************************************)
(* The sudden-pump alerts of one symbol and their reviews (app.py). One       *)
(* thread scans, confirms, sends to Lark and then commits what was sent,      *)
(* together with a review of it; another holds every pending review against   *)
(* the candles after the push. Lark may accept a message whose response is    *)
(* lost, a commit may fail, and the process may die between any two steps.    *)
(***************************************************************************)
EXTENDS Candles

CONSTANTS Stages,       \* ranks: pre_ignition 1, ignition 2, acceleration 3, extreme_15m 4
          Accelerated,  \* the rank from which a rise may be confirmed as bullish
          Episode,      \* 6: buckets of one episode
          Remembered,   \* 4: buckets a confirmation is kept
          Attempts,     \* 3 deliveries of one message
          ReviewWindow, \* validation_minutes, in buckets
          Grace,        \* PUSH_SIGNAL_VALIDATION_GRACE_SECONDS, in buckets
          Continuation, \* target_move_pct and failure_move_pct, as distances
          LastScan,     \* bound: the last bucket that is scanned
          MaxReviews    \* bound: reviews the model has

ASSUME ReviewAssumption ==
  /\ Stages \subseteq Nat \ {0} /\ Episode \in Nat \ {0} /\ Remembered \in Nat /\ Attempts \in Nat \ {0}
  /\ ReviewWindow \in Nat \ {0} /\ Grace \in Nat /\ Continuation \in Nat \ {0}

VARIABLES confirmations,     \* SUDDEN_PUMP_CONFIRMATIONS: <<bucket, rank>> observed once
          outbox,            \* the message being sent, or None
          sent,              \* table lark_push_state: <<episode, rank>>, rank 0 for bullish
          reviews,           \* table push_signal_validation
          heard              \* history: what the last delivery announced

pushVars == <<confirmations, outbox, sent, reviews, heard>>

PushInit == /\ confirmations = {} /\ sent = {} /\ reviews = <<>>
            /\ outbox = None /\ heard = {}

EpisodeOf(b) == b \div Episode

-----------------------------------------------------------------------------
\* fetch_sudden_pump_context: the forming candle, or the one before it when that closed as
\* a formal alert.
Items == {i \in [bucket : {Forming, Forming - 1}, rank : Stages, bullish : BOOLEAN] :
            /\ i.bucket \in 1 .. Len(market) => i.rank > 1
            /\ i.bullish => i.rank >= Accelerated}

\* sudden_pump_confirmation_ready: a closed candle at once, a live one when it was seen
\* before, at least five seconds ago.
Ready(item, late) == item.bucket < Forming \/ (<<item.bucket, item.rank>> \in confirmations /\ late)
Observed(item) == IF item.bucket < Forming THEN confirmations
                  ELSE confirmations \cup {<<item.bucket, item.rank>>}

Announced(item) == {k[2] : k \in {s \in sent : s[1] = EpisodeOf(item.bucket)}}
PhaseUnsent(item) == item.rank \notin Announced(item)
PhaseIsNew(item) == \A r \in Announced(item) : r < item.rank
BullishIsNew(item) == item.bullish /\ 0 \notin Announced(item)
StateKeys(item) == {<<EpisodeOf(item.bucket), r>> :
                      r \in (IF PhaseIsNew(item) THEN {item.rank} ELSE {})
                            \cup (IF BullishIsNew(item) THEN {0} ELSE {})}
ReviewKey(item) == <<EpisodeOf(item.bucket), IF PhaseIsNew(item) THEN item.rank ELSE 0>>

\* scan_intraday_sudden_pumps, up to the first delivery.
Scan ==
  /\ outbox = None /\ Forming <= LastScan
  /\ \E item \in Items, late \in BOOLEAN :
       /\ confirmations' = {k \in Observed(item) : k[1] + Remembered >= Forming}
       /\ outbox' = IF Ready(item, late) /\ StateKeys(item) # {}
                    THEN [keys |-> StateKeys(item), review |-> ReviewKey(item),
                          at |-> Forming, tries |-> 0, delivered |-> FALSE]
                    ELSE None
  /\ UNCHANGED <<sent, reviews, heard>>

\* One delivery: accepted or not, and the answer may be lost.
Deliver ==
  /\ outbox # None /\ ~ outbox.delivered /\ outbox.tries < Attempts
  /\ \/ outbox' = [outbox EXCEPT !.delivered = TRUE] /\ heard' = outbox.keys
     \/ outbox' = [outbox EXCEPT !.tries = @ + 1] /\ heard' \in {outbox.keys, {}}
  /\ UNCHANGED <<confirmations, sent, reviews>>

\* After the last attempt the error is raised and nothing is written.
GiveUp ==
  /\ outbox # None /\ ~ outbox.delivered /\ outbox.tries = Attempts
  /\ outbox' = None /\ heard' = {}
  /\ UNCHANGED <<confirmations, sent, reviews>>

\* create_push_signal_validation, against a trigger price of 0.
NewReview(key, at) == [key |-> key, at |-> at, status |-> "pending"]
HasReview(key) == \E i \in DOMAIN reviews : reviews[i].key = key

\* The keys and the review are one transaction, which may fail.
Commit ==
  /\ outbox # None /\ outbox.delivered
  /\ \/ /\ Len(reviews) < MaxReviews
        /\ sent' = sent \cup outbox.keys
        /\ reviews' = IF HasReview(outbox.review) THEN reviews
                      ELSE Append(reviews, NewReview(outbox.review, outbox.at))
     \/ UNCHANGED <<sent, reviews>>
  /\ outbox' = None /\ heard' = {} /\ UNCHANGED confirmations

Restart == /\ confirmations' = {} /\ outbox' = None /\ heard' = {}
           /\ UNCHANGED <<sent, reviews>>

-----------------------------------------------------------------------------
\* push_signal_validation_bounds: the buckets after that of the push.
WindowOf(r) == (r.at + 1) .. (r.at + ReviewWindow)
SeenFromPush(r, n) == Tabled(r.at .. (r.at + ReviewWindow - 1), n)
Seen(r, n) == Tabled(WindowOf(r), n)

Continues(b) == Reaches(market[b], 1, Continuation)
Breaks(b) == Falls(market[b], 1, 0 - Continuation)

\* evaluate_push_signal_validation on the candles it got, the first n buckets being closed.
Evaluated(r, n) ==
  LET seen  == Seen(r, n)
      touch == {b \in seen : Continues(b) \/ Breaks(b)}
      first == Least(touch)
      whole == Cardinality(seen) = ReviewWindow
      end   == r.at + ReviewWindow
  IN IF n < end \/ (~ whole /\ n < end + Grace) THEN "pending"
     ELSE IF ~ whole THEN "insufficient_data"
     ELSE IF touch = {} THEN "neutral"
     ELSE IF Continues(first) /\ Breaks(first) THEN "insufficient_data"
     ELSE IF Continues(first) THEN "win" ELSE "loss"

\* refresh_push_signal_validations: one request per pending review; without an answer it
\* waits until the grace period is over.
Unanswered(r) == IF Len(market) >= r.at + ReviewWindow + Grace THEN "insufficient_data" ELSE "pending"
Review ==
  /\ \E answered \in SUBSET DOMAIN reviews :
       reviews' = [i \in DOMAIN reviews |->
         IF reviews[i].status # "pending" THEN reviews[i]
         ELSE [reviews[i] EXCEPT !.status = IF i \in answered THEN Evaluated(reviews[i], Len(market))
                                                             ELSE Unanswered(reviews[i])]]
  /\ UNCHANGED <<confirmations, outbox, sent, heard>>

PushNext == /\ Scan \/ Deliver \/ GiveUp \/ Commit \/ Restart \/ Review
            /\ UNCHANGED candleVars
PushSpec == /\ CandleInit /\ PushInit
            /\ [][PushNext \/ (CloseBucket /\ UNCHANGED pushVars)]_<<candleVars, pushVars>>

-----------------------------------------------------------------------------
\* A phase the table knows is never announced again in its episode, nor is a lower one
\* after it, whichever attempt, retry or restart sends it; only what a lost answer or a
\* failed commit kept out of the table is repeated.
PhasesRise ==
  \A k \in heard : /\ k \notin sent
                   /\ k[2] # 0 => \A s \in sent : s[1] = k[1] => s[2] < k[2]

\* A review that is counted saw its whole window, and says which line the price touched
\* first after the push; a candle that touched both decides nothing.
FirstAfterPush(r) == {b \in WindowOf(r) : Continues(b) \/ Breaks(b)}
ReviewIsItsWindow ==
  \A i \in DOMAIN reviews :
    LET r == reviews[i] IN
    r.status \in {"win", "loss", "neutral"} =>
      /\ WindowOf(r) \subseteq {b \in DOMAIN market : Traded(b)}
      /\ IF FirstAfterPush(r) = {} THEN r.status = "neutral"
         ELSE LET b == Least(FirstAfterPush(r))
              IN /\ r.status = "win" <=> Continues(b) /\ ~ Breaks(b)
                 /\ r.status = "loss" <=> Breaks(b) /\ ~ Continues(b)

\* A push is announced once and judged by its own window.
PushesAreJudged == PhasesRise /\ ReviewIsItsWindow
===============================================================================
