----------------------------- MODULE Pages_proof -----------------------------
(***************************************************************************)
(* Proofs about what the pages are given, whoever asks and whatever runs     *)
(* beside it: the transfer states that judge a path, the boards of the first *)
(* page, the sessions of an account and the recalls of a conversation.       *)
(***************************************************************************)
EXTENDS Transfers, Boards, Accounts, Chat, FiniteSetTheorems, WellFoundedInduction, TLAPS

-----------------------------------------------------------------------------
(* Transfer states. *)

\* A row is no older than one call when it is written.
RowSound(r) ==
  \/ r = NoRow
  \/ r.captured \in Int /\ r.seen \in Int /\ r.captured - r.seen <= LongestCall

\* A round knows of each source it has passed that it failed, or answered since it began.
SyncType == [at : Nat, began : Int, called : Int, answer : [seen : Int], errors : SUBSET Exchanges]
SyncSound(run, now, heard) ==
  \/ run = NoSync
  \/ /\ run \in SyncType
     /\ run.began <= now /\ run.called <= now /\ now - run.called <= LongestCall
     /\ run.answer # NoAnswer => run.called <= run.answer.seen /\ run.answer.seen <= now
     /\ \A i \in DOMAIN Sources :
          i < run.at => Sources[i] \in run.errors \/ heard[Sources[i]] >= run.began

TransferInv ==
  /\ transferTime \in Nat /\ interval \in SyncIntervals
  /\ networks = [e \in Exchanges |-> networks[e]] /\ \A e \in Exchanges : RowSound(networks[e])
  /\ SyncSound(sync, transferTime, answered)
  /\ status \in Int /\ status <= transferTime /\ answered \in [Exchanges -> Int]
  /\ \A e \in Exchanges : status <= answered[e] /\ answered[e] <= transferTime

\* The sources are numbered from one on.
LEMMA SourcesCounted ==
  /\ Len(Sources) \in Nat /\ DOMAIN Sources = 1 .. Len(Sources)
  /\ \A i \in DOMAIN Sources : Sources[i] \in Exchanges
BY TransferAssumption DEF TransferAssumption, Exchanges

\* A round that goes on to its next source, which failed or was just heard.
LEMMA OnwardSound ==
  ASSUME TransferInv, sync # NoSync, sync.at \in DOMAIN Sources, NEW failed \in BOOLEAN,
         NEW heard \in [Exchanges -> Int],
         \A e \in Exchanges : heard[e] >= answered[e],
         ~ failed => heard[Source] = transferTime
  PROVE  SyncSound(Onward(failed), transferTime, heard)
<1>1. sync \in SyncType /\ transferTime \in Nat /\ LongestCall \in Nat
  BY TransferAssumption DEF TransferInv, SyncSound, TransferAssumption
<1>2. sync.at \in Nat /\ sync.began \in Int /\ sync.errors \subseteq Exchanges
  BY <1>1 DEF SyncType
<1>3. Source \in Exchanges
  BY DEF Source, Exchanges
<1>4. Errors(failed) \subseteq Exchanges /\ sync.errors \subseteq Errors(failed)
      /\ (failed => Source \in Errors(failed))
  BY <1>2, <1>3 DEF Errors
<1>5. Onward(failed) \in SyncType
  <2>1. NoAnswer \in [seen : Int] /\ sync.at + 1 \in Nat /\ transferTime \in Int
    BY <1>1, <1>2 DEF NoAnswer
  <2>2. Errors(failed) \in SUBSET Exchanges
    BY <1>4
  <2> HIDE DEF NoAnswer
  <2>3. QED BY <1>1, <2>1, <2>2 DEF Onward, SyncType
<1>6. /\ Onward(failed).at = sync.at + 1 /\ Onward(failed).began = sync.began
      /\ Onward(failed).called = transferTime /\ Onward(failed).answer = NoAnswer
      /\ Onward(failed).errors = Errors(failed)
  BY <1>1 DEF Onward, SyncType
<1>7. ASSUME NEW i \in DOMAIN Sources, i < sync.at + 1
      PROVE  Sources[i] \in Errors(failed) \/ heard[Sources[i]] >= sync.began
  <2>1. CASE i < sync.at
    <3>1. Sources[i] \in sync.errors \/ answered[Sources[i]] >= sync.began
      BY <2>1 DEF TransferInv, SyncSound
    <3>2. Sources[i] \in Exchanges
      BY SourcesCounted
    <3>3. answered[Sources[i]] \in Int /\ heard[Sources[i]] \in Int
      BY <3>2 DEF TransferInv
    <3>4. QED BY <3>1, <3>2, <3>3, <1>2, <1>4
  <2>2. CASE i = sync.at
    <3>1. Sources[i] = Source
      BY <2>2 DEF Source
    <3>2. sync.began <= transferTime
      BY <1>1 DEF TransferInv, SyncSound
    <3>3. QED BY <3>1, <3>2, <1>4
  <2>3. i \in Nat
    BY SourcesCounted
  <2>4. QED BY <2>1, <2>2, <2>3, <1>2, <1>7
<1>8. sync.began <= transferTime
  BY <1>1 DEF TransferInv, SyncSound
<1>9. QED BY <1>1, <1>5, <1>6, <1>7, <1>8 DEF SyncSound

\* The invariant holds at the start.
LEMMA TransferStarts == TransferInit => TransferInv
<1>1. QED BY TransferAssumption DEF TransferInit, TransferInv, RowSound, SyncSound, TransferAssumption

\* And every step keeps it.
LEMMA TransferKept == TransferInv /\ [TransferNext]_transferVars => TransferInv'
<1> SUFFICES ASSUME TransferInv, [TransferNext]_transferVars PROVE TransferInv'
  OBVIOUS
<1> USE DEF TransferInv
<1>0. LongestCall \in Nat /\ SyncIntervals \subseteq Nat
  BY TransferAssumption DEF TransferAssumption
<1>1. CASE StartSync
  <2>1. SyncSound(sync', transferTime, answered)
    <3>1. sync' \in SyncType
      BY <1>1 DEF StartSync, SyncType, NoAnswer
    <3>2. \A i \in DOMAIN Sources : ~ (i < 1)
      BY SourcesCounted
    <3>3. QED BY <1>0, <1>1, <3>1, <3>2 DEF StartSync, SyncSound
  <2>2. QED BY <1>1, <2>1 DEF StartSync
<1>2. CASE Answers
  <2>1. sync \in SyncType /\ transferTime \in Int
    BY <1>2 DEF Answers, Calling, SyncSound
  <2>2. sync' = [at |-> sync.at, began |-> sync.began, called |-> sync.called,
                 answer |-> [seen |-> transferTime], errors |-> sync.errors]
    BY <1>2, <2>1 DEF Answers, SyncType
  <2>3. sync' \in SyncType
    BY <2>1, <2>2 DEF SyncType
  <2>4. SyncSound(sync', transferTime, answered)
    BY <1>2, <2>1, <2>2, <2>3 DEF Answers, Calling, SyncSound
  <2>5. QED BY <1>2, <2>4 DEF Answers
<1>3. CASE StoreSource
  <2>1. sync \in SyncType /\ Source \in Exchanges /\ transferTime \in Int
    BY <1>3 DEF StoreSource, SyncSound, Source, Exchanges
  <2>2. SyncSound(sync', transferTime, answered')
    <3>1. answered' \in [Exchanges -> Int] /\ answered'[Source] = transferTime
          /\ \A e \in Exchanges : answered'[e] = answered[e] \/ e = Source
      BY <1>3, <2>1 DEF StoreSource
    <3>2. \A e \in Exchanges : answered[e] \in Int
      OBVIOUS
    <3>3. \A e \in Exchanges : answered'[e] >= answered[e]
      BY <3>1, <3>2, <2>1
    <3>4. SyncSound(Onward(FALSE), transferTime, answered')
      BY <1>3, <3>1, <3>3, OnwardSound DEF StoreSource
    <3>5. QED BY <1>3, <3>4 DEF StoreSource
  <2>3. \A e \in Exchanges : status <= answered'[e] /\ answered'[e] <= transferTime
    BY <1>3, <2>1 DEF StoreSource
  <2>4. ASSUME NEW chains \in Listed,
               networks' = [networks EXCEPT ![Source] =
                 [captured |-> transferTime, seen |-> sync.answer.seen, chains |-> chains]]
        PROVE  \A e \in Exchanges : RowSound(networks'[e])
    <3>1. sync.called \in Int /\ sync.answer.seen \in Int
      BY <2>1 DEF SyncType
    <3>2. transferTime - sync.called <= LongestCall /\ sync.called <= sync.answer.seen
      BY <1>3 DEF StoreSource, SyncSound
    <3>3. transferTime - sync.answer.seen <= LongestCall
      BY <1>0, <2>1, <3>1, <3>2
    <3>4. RowSound([captured |-> transferTime, seen |-> sync.answer.seen, chains |-> chains])
      BY <2>1, <3>1, <3>3 DEF RowSound
    <3>5. QED BY <2>1, <2>4, <3>4
  <2>5. networks' = [e \in Exchanges |-> networks'[e]] /\ \A e \in Exchanges : RowSound(networks'[e])
    BY <1>3, <2>4 DEF StoreSource
  <2>6. answered' \in [Exchanges -> Int]
    BY <1>3, <2>1 DEF StoreSource
  <2>7. status' = status /\ interval' = interval /\ transferTime' = transferTime
    BY <1>3 DEF StoreSource
  <2>8. QED BY <2>2, <2>3, <2>5, <2>6, <2>7
<1>4. CASE SourceFails
  <2>1. SyncSound(Onward(TRUE), transferTime, answered)
    <3>1. \A e \in Exchanges : answered[e] \in Int
      OBVIOUS
    <3>2. \A e \in Exchanges : answered[e] >= answered[e]
      BY <3>1
    <3>3. QED BY <1>4, <3>2, OnwardSound DEF SourceFails
  <2>2. QED BY <1>4, <2>1 DEF SourceFails
<1>5. CASE EndSync
  <2>1. status' \in Int /\ status' <= transferTime /\ \A e \in Exchanges : status' <= answered[e]
    <3>1. CASE sync.errors = {}
      <4>1. sync \in SyncType /\ sync.began <= transferTime
        BY <1>5 DEF EndSync, SyncSound
      <4>2. sync.began \in Int /\ sync.at \in Nat
        BY <4>1 DEF SyncType
      <4>3. ASSUME NEW i \in DOMAIN Sources PROVE answered[Sources[i]] >= sync.began
        <5>1. i < sync.at
          BY <1>5, <4>2, SourcesCounted DEF EndSync
        <5>2. QED BY <1>5, <3>1, <5>1 DEF EndSync, SyncSound
      <4>4. \A e \in Exchanges : answered[e] >= sync.began /\ answered[e] \in Int
        BY <4>3 DEF Exchanges
      <4>5. QED BY <1>5, <3>1, <4>1, <4>2, <4>4 DEF EndSync
    <3>2. CASE sync.errors # {}
      BY <1>5, <3>2 DEF EndSync
    <3>3. QED BY <3>1, <3>2
  <2>2. QED BY <1>5, <2>1 DEF EndSync, SyncSound
<1>6. CASE SetInterval
  BY <1>6 DEF SetInterval
<1>7. CASE TransferTicks
  <2>1. SyncSound(sync, transferTime + 1, answered)
    <3>1. CASE sync = NoSync
      BY <3>1 DEF SyncSound
    <3>2. CASE sync # NoSync
      <4>1. sync.called \in Int /\ sync.began \in Int /\ sync.answer.seen \in Int /\ sync \in SyncType
        BY <3>2 DEF SyncSound, SyncType
      <4>2. transferTime - sync.called < LongestCall
        BY <1>7, <3>2 DEF TransferTicks
      <4>3. sync.began <= transferTime /\ sync.called <= transferTime
            /\ (sync.answer # NoAnswer => sync.called <= sync.answer.seen /\ sync.answer.seen <= transferTime)
        BY <3>2 DEF SyncSound
      <4>4. sync.began <= transferTime + 1 /\ sync.called <= transferTime + 1
            /\ transferTime + 1 - sync.called <= LongestCall
        BY <1>0, <4>1, <4>2, <4>3
      <4>5. sync.answer # NoAnswer => sync.called <= sync.answer.seen /\ sync.answer.seen <= transferTime + 1
        BY <4>1, <4>3
      <4>6. QED BY <3>2, <4>1, <4>4, <4>5 DEF SyncSound
    <3>3. QED BY <3>1, <3>2
  <2>2. transferTime' \in Nat /\ status <= transferTime'
    BY <1>7 DEF TransferTicks
  <2>3. QED BY <1>7, <2>1, <2>2 DEF TransferTicks
<1>8. CASE UNCHANGED transferVars
  BY <1>8 DEF transferVars
<1>9. QED
  BY <1>1, <1>2, <1>3, <1>4, <1>5, <1>6, <1>7, <1>8 DEF TransferNext

\* What judges a path was said within the age limit and one call.
LEMMA TransferRecent == TransferInv => StatesAreRecent
<1> SUFFICES ASSUME TransferInv PROVE StatesAreRecent
  OBVIOUS
<1>1. LongestCall \in Nat /\ MaxAge \in Nat
  BY TransferAssumption DEF TransferAssumption, MaxAge, TransferInv
<1>2. ASSUME NEW e \in Exchanges, Restricted(e) \/ Normal(e)
      PROVE  transferTime - networks[e].seen <= MaxAge + LongestCall
  <2>1. networks[e] # NoRow /\ transferTime - networks[e].captured <= MaxAge
    BY <1>2 DEF Restricted, Normal, IsFresh
  <2>2. /\ networks[e].captured \in Int /\ networks[e].seen \in Int
        /\ networks[e].captured - networks[e].seen <= LongestCall
    BY <2>1 DEF TransferInv, RowSound
  <2>3. transferTime \in Int
    BY DEF TransferInv
  <2>4. QED BY <1>1, <2>1, <2>2, <2>3
<1>3. \A e \in Exchanges : answered[e] >= status
  BY DEF TransferInv
<1>4. QED BY <1>2, <1>3 DEF StatesAreRecent

\* StatesAreRecent, for all sources, intervals and limits: whatever sources fail, what
\* judges a path was said by the exchange within the age limit and one call, and a success
\* means that every source answered since its round began
\* (refresh_public_transfer_networks, load_transfer_statuses).
THEOREM PathsJudgedRecently == TransferSpec => []StatesAreRecent
<1>1. QED BY TransferStarts, TransferKept, TransferRecent, PTL DEF TransferSpec

-----------------------------------------------------------------------------
(* Boards. *)

\* A set of naturals has a least element.
LEMMA LeastExists ==
  ASSUME NEW S, S \subseteq Nat, S # {}
  PROVE  \E m \in S : \A u \in S : m <= u
<1>1. PICK m \in S : \A u \in S : ~ (<<u, m>> \in OpToRel(<, Nat))
  BY NatLessThanWellFounded, WFMin
<1>2. \A u \in S : ~ (u < m)
  BY <1>1 DEF OpToRel
<1>3. QED BY <1>2

\* The prices of a round were read within one quote.
PricesOf(prices, from, to) ==
  /\ prices = [v \in DOMAIN prices |-> prices[v]]
  /\ \A v \in DOMAIN prices : prices[v] \in Nat /\ from <= prices[v] /\ prices[v] <= to
RoundSound ==
  \/ round = NotQuoting
  \/ /\ round = [since |-> round.since, got |-> round.got]
     /\ round.since \in Nat /\ round.since <= boardTime /\ boardTime <= round.since + LongestQuote
     /\ round.got = [m \in Majors |-> round.got[m]]
     /\ \A m \in Majors : PricesOf(round.got[m], round.since, boardTime)

\* A row holds the prices of one round and the date of its oldest.
BoardRowSound(row) ==
  /\ row.date \in Nat
  /\ \A v \in DOMAIN row.prices : row.prices[v] \in Nat /\ row.date <= row.prices[v]
  /\ \A v, w \in DOMAIN row.prices : row.prices[v] - row.prices[w] <= LongestQuote

RankingSound ==
  /\ ranking = [of |-> ranking.of, date |-> ranking.date, items |-> ranking.items, error |-> ranking.error]
  /\ ranking.date \in Nat /\ ranking.items \in Nat /\ ranking.items <= ranking.date
  /\ ranking.of = "oi_market_cap" /\ ranking.items < ranking.date => ranking.error
  /\ ranker # NoRanker => ranker.since \in Nat /\ ranking.date <= ranker.since /\ ranker.since <= boardTime
  /\ ranking.date <= boardTime

BoardInv ==
  /\ boardTime \in Nat /\ RoundSound /\ RankingSound
  /\ \A m \in DOMAIN board : BoardRowSound(board[m])

\* The oldest price of a row.
LEMMA EarliestIs ==
  ASSUME NEW S, S \subseteq Nat, S # {}
  PROVE  Earliest(S) \in S /\ \A u \in S : Earliest(S) <= u
<1>1. \E m \in S : \A u \in S : m <= u
  BY LeastExists
<1>2. QED BY <1>1 DEF Earliest

\* A row made of the prices of a round.
LEMMA RowFromRound ==
  ASSUME BoardInv, round # NotQuoting, NEW m \in Majors, round.got[m] # Unquoted
  PROVE  BoardRowSound(RowOf(m))
<1> DEFINE prices == round.got[m]
<1>1. /\ prices = [v \in DOMAIN prices |-> prices[v]]
      /\ \A v \in DOMAIN prices : prices[v] \in Nat /\ round.since <= prices[v] /\ prices[v] <= boardTime
      /\ round.since \in Nat /\ boardTime \in Nat /\ boardTime <= round.since + LongestQuote
  BY DEF BoardInv, RoundSound, PricesOf
<1>2. DOMAIN prices # {}
  BY <1>1 DEF Unquoted
<1>3. RowOf(m) = [prices |-> prices, date |-> Earliest(TimesIn(prices))]
  BY DEF RowOf, Row
<1> HIDE DEF prices
<1>4. TimesIn(prices) \subseteq Nat /\ TimesIn(prices) # {} /\ \A v \in DOMAIN prices : prices[v] \in TimesIn(prices)
  BY <1>1, <1>2 DEF TimesIn
<1>5. Earliest(TimesIn(prices)) \in Nat /\ \A v \in DOMAIN prices : Earliest(TimesIn(prices)) <= prices[v]
  BY <1>4, EarliestIs
<1>6. LongestQuote \in Nat
  BY BoardAssumption DEF BoardAssumption
<1>7. \A v, w \in DOMAIN prices : prices[v] - prices[w] <= LongestQuote
  BY <1>1, <1>6
<1>8. QED BY <1>1, <1>3, <1>5, <1>7 DEF BoardRowSound

\* The invariant holds at the start.
LEMMA BoardStarts == BoardInit => BoardInv
BY DEF BoardInit, BoardInv, RoundSound, RankingSound

\* And every step keeps it.
LEMMA BoardKept == BoardInv /\ [BoardNext]_boardVars => BoardInv'
<1> SUFFICES ASSUME BoardInv, [BoardNext]_boardVars PROVE BoardInv'
  OBVIOUS
<1> USE DEF BoardInv
<1>0. LongestQuote \in Nat
  BY BoardAssumption DEF BoardAssumption
<1>1. CASE StartRound
  <2>1. RoundSound'
    BY <1>0, <1>1 DEF StartRound, RoundSound, PricesOf, Unquoted
  <2>2. QED BY <1>1, <2>1 DEF StartRound, RankingSound
<1>2. ASSUME NEW m \in Majors, NEW v \in Venues, Quote(m, v)
      PROVE  BoardInv'
  <2> DEFINE got == round.got
             row == [w \in DOMAIN got[m] \cup {v} |-> IF w = v THEN boardTime ELSE got[m][w]]
  <2>1. /\ round = [since |-> round.since, got |-> got] /\ round.since \in Nat
        /\ round.since <= boardTime /\ boardTime <= round.since + LongestQuote
        /\ got = [n \in Majors |-> got[n]] /\ \A n \in Majors : PricesOf(got[n], round.since, boardTime)
    BY <1>2 DEF Quote, RoundSound
  <2>2. round' = [since |-> round.since, got |-> [got EXCEPT ![m] = row]]
    BY <1>2, <2>1 DEF Quote
  <2>3. PricesOf(row, round.since, boardTime)
    <3>1. boardTime \in Nat /\ \A w \in DOMAIN got[m] :
            got[m][w] \in Nat /\ round.since <= got[m][w] /\ got[m][w] <= boardTime
      BY <2>1 DEF PricesOf
    <3>2. row = [w \in DOMAIN row |-> row[w]] /\ DOMAIN row = DOMAIN got[m] \cup {v}
      OBVIOUS
    <3>3. \A w \in DOMAIN row : row[w] = boardTime \/ (w \in DOMAIN got[m] /\ row[w] = got[m][w])
      OBVIOUS
    <3> HIDE DEF row, got
    <3>4. QED BY <2>1, <3>1, <3>2, <3>3 DEF PricesOf
  <2> HIDE DEF row, got
  <2>4. round'.got = [n \in Majors |-> IF n = m THEN row ELSE got[n]]
    BY <2>1, <2>2
  <2>5. \A n \in Majors : PricesOf(round'.got[n], round.since, boardTime)
    BY <2>1, <2>3, <2>4
  <2>6. round'.since = round.since /\ boardTime' = boardTime /\ round' = [since |-> round'.since, got |-> round'.got]
    BY <1>2, <2>2 DEF Quote
  <2>7. round'.got = [n \in Majors |-> round'.got[n]]
    BY <2>4
  <2>8. RoundSound'
    BY <2>1, <2>5, <2>6, <2>7 DEF RoundSound
  <2>9. QED BY <1>2, <2>8 DEF Quote, RankingSound
<1>3. CASE EndRound
  <2> DEFINE quoted == {m \in Majors : round.got[m] # Unquoted}
  <2>1. board' = [m \in quoted \cup DOMAIN board |-> IF m \in quoted THEN RowOf(m) ELSE board[m]]
    BY <1>3 DEF EndRound
  <2>2. ASSUME NEW m \in DOMAIN board'
        PROVE  BoardRowSound(board'[m])
    <3>1. CASE m \in quoted
      <4>1. BoardRowSound(RowOf(m))
        BY <1>3, <3>1, RowFromRound DEF EndRound
      <4>2. QED BY <2>1, <3>1, <4>1
    <3>2. CASE m \notin quoted
      BY <2>1, <2>2, <3>2
    <3>3. QED BY <3>1, <3>2
  <2>3. QED BY <1>3, <2>2 DEF EndRound, RankingSound, RoundSound, BoardRowSound
<1>4. CASE Analyse
  BY <1>4 DEF Analyse, RankingSound, RoundSound
<1>5. CASE StartRanking
  BY <1>5 DEF StartRanking, RankingSound, RoundSound
<1>6. CASE EndRanking
  <2>1. CASE UNCHANGED ranking
    BY <1>6, <2>1 DEF EndRanking, RankingSound, RoundSound
  <2>2. CASE ranking' # ranking
    <3>0. PICK found \in BOOLEAN, failed \in BOOLEAN :
            /\ found \/ failed
            /\ ranking' = [ranking EXCEPT !.date = ranker.since,
                                          !.items = IF found THEN ranker.since ELSE @,
                                          !.error = failed /\ ranking.of = "oi_market_cap"]
      BY <1>6, <2>2 DEF EndRanking
    <3>1. ranker.since \in Nat /\ ranking.date <= ranker.since /\ ranker.since <= boardTime
          /\ ranking.items \in Nat /\ ranking.items <= ranking.date /\ ranking.date \in Nat
      BY <1>6 DEF EndRanking, RankingSound
    <3>2. ranking' = [of |-> ranking.of, date |-> ranker.since,
                      items |-> IF found THEN ranker.since ELSE ranking.items,
                      error |-> failed /\ ranking.of = "oi_market_cap"]
      BY <3>0 DEF RankingSound
    <3>3. ~ found /\ ranking'.of = "oi_market_cap" => ranking'.error
      BY <3>0, <3>2
    <3>4. ranking'.date \in Nat /\ ranking'.items \in Nat /\ ranking'.items <= ranking'.date
          /\ ranking'.date <= boardTime
      BY <3>1, <3>2
    <3>5. found => ranking'.items = ranking'.date
      BY <3>2
    <3>6. ranking'.of = "oi_market_cap" /\ ranking'.items < ranking'.date => ranking'.error
      BY <3>3, <3>4, <3>5
    <3>7. ranker' = NoRanker /\ boardTime' = boardTime
      BY <1>6 DEF EndRanking
    <3>8. ranking' = [of |-> ranking'.of, date |-> ranking'.date, items |-> ranking'.items,
                      error |-> ranking'.error]
      BY <3>2
    <3>9. RankingSound'
      BY <3>4, <3>6, <3>7, <3>8 DEF RankingSound
    <3>10. QED BY <1>6, <3>9 DEF EndRanking, RoundSound
  <2>3. QED BY <2>1, <2>2
<1>7. CASE BoardTicks
  <2>1. RoundSound'
    <3>1. CASE round # NotQuoting
      <4>1. boardTime < round.since + LongestQuote /\ boardTime' = boardTime + 1 /\ round' = round
        BY <1>7, <3>1 DEF BoardTicks
      <4>2. \A m \in Majors : PricesOf(round.got[m], round.since, boardTime + 1)
        BY <3>1 DEF RoundSound, PricesOf
      <4>3. QED BY <1>0, <3>1, <4>1, <4>2 DEF RoundSound
    <3>2. QED BY <1>7, <3>1 DEF BoardTicks, RoundSound
  <2>2. RankingSound'
    BY <1>7 DEF BoardTicks, RankingSound
  <2>3. QED BY <1>7, <2>1, <2>2 DEF BoardTicks
<1>8. CASE UNCHANGED boardVars
  BY <1>8 DEF boardVars, RankingSound, RoundSound
<1>9. QED BY <1>1, <1>2, <1>3, <1>4, <1>5, <1>6, <1>7, <1>8 DEF BoardNext

\* What the invariant says of what a request finds.
LEMMA BoardShown == BoardInv => BoardIsHonest
<1> SUFFICES ASSUME BoardInv PROVE BoardIsHonest
  OBVIOUS
<1>1. StaleAfter \in Nat /\ boardTime \in Nat
  BY BoardAssumption DEF BoardAssumption, BoardInv
<1>2. \A m \in DOMAIN board : \A v, w \in DOMAIN board[m].prices :
        board[m].prices[v] - board[m].prices[w] <= LongestQuote
  BY DEF BoardInv, BoardRowSound
<1>3. ASSUME NEW m \in DOMAIN board, ~ Stale(m), NEW time \in TimesIn(board[m].prices)
      PROVE  boardTime - time <= StaleAfter
  <2>1. board[m].date \in Nat /\ time \in Nat /\ board[m].date <= time
    BY <1>3 DEF BoardInv, BoardRowSound, TimesIn
  <2>2. ~ (boardTime - board[m].date > StaleAfter)
    BY <1>3 DEF Stale
  <2>3. QED BY <1>1, <2>1, <2>2
<1>4. ASSUME NEW m \in Majors, Priced(m), ~ Stale(m)
      PROVE  ~ QuoteStale(m)
  <2>1. m \in DOMAIN board /\ board[m].prices[MainVenue] \in TimesIn(board[m].prices)
    BY <1>4 DEF Priced, TimesIn
  <2>2. boardTime - board[m].prices[MainVenue] <= StaleAfter
    BY <1>3, <1>4, <2>1
  <2>3. board[m].prices[MainVenue] \in Nat
    BY <1>4 DEF Priced, BoardInv, BoardRowSound
  <2>4. QED BY <1>1, <1>4, <2>2, <2>3 DEF QuoteStale
<1>5. /\ ranking.items <= ranking.date
      /\ ranking.of = "oi_market_cap" /\ ranking.items < ranking.date => ranking.error
  BY DEF BoardInv, RankingSound
<1>6. QED BY <1>2, <1>3, <1>4, <1>5 DEF BoardIsHonest

\* BoardIsHonest, for all majors, venues and limits: whatever lanes fail or lag, a row has
\* the prices of one round, shows none too old without saying so, on either block of the
\* page, no ranking is dated before what it shows and an old one by open interest carries
\* its error (refresh_dashboard_opportunities, load_momentum_scores).
THEOREM BoardsHonest == BoardSpec => []BoardIsHonest
<1>1. QED BY BoardStarts, BoardKept, BoardShown, PTL DEF BoardSpec

-----------------------------------------------------------------------------
(* Accounts. *)

DeviceRows == [row : Nat, key : Browsers \cup {""}, session : Nat]
Enrolments == {NoEnrolment} \cup [token : Nat, device : DeviceRows]
SessionTypes ==
  /\ tokens \in Nat
  /\ account = [level |-> account.level, active |-> account.active, session |-> account.session]
  /\ account.session \in Nat
  /\ devices \in [Kinds -> DeviceRows]
  /\ cookies \in [Browsers -> [token : Nat, row : Nat]]
  /\ enrolling \in [Browsers -> Enrolments]
  /\ editing = [request |-> editing.request, made |-> editing.made]
  /\ editing.request # NoEdit =>
       editing.request.seen \in Nat /\ editing.request.began \in Nat /\ editing.request.began <= tokens

\* The tokens of each browser, and the device rows of each kind: those of two browsers, or
\* of two kinds, differ.
RowRead(enrolment) == IF enrolment = NoEnrolment THEN 0 ELSE enrolment.device.row
OfKind(k) == {b \in Browsers : DeviceKind[b] = k}
TokensOf(cs, es) == [b \in Browsers |-> {cs[b].token, es[b].token}]
RowsOf(ds, cs, es) ==
  [k \in Kinds |-> {ds[k].row} \cup {cs[b].row : b \in OfKind(k)} \cup {RowRead(es[b]) : b \in OfKind(k)}]
Apart(names, used, last) ==
  /\ \A i \in names : used[i] \subseteq 0 .. last
  /\ \A i, j \in names : i # j => used[i] \cap used[j] \subseteq {0}

Given(i, x, name) == IF i = x THEN {name} ELSE {}

\* A session of the account and one of a device exclude each other; and one that came up
\* beside an edit that read none is younger than the edit.
SessionInv ==
  /\ SessionTypes
  /\ Apart(Browsers, TokensOf(cookies, enrolling), tokens)
  /\ Apart(Kinds, RowsOf(devices, cookies, enrolling), tokens)
  /\ account.session # 0 => \A k \in Kinds : devices[k].session = 0
  /\ editing.request # NoEdit /\ editing.request.seen = 0 /\ account.session # 0
       => account.session > editing.request.began
InviteInv ==
  /\ invites = [i \in Invites |-> invites[i]]
  /\ \A i \in Invites : "by" \in DOMAIN invites[i]
  /\ \A i \in Invites : invites[i].by = {} \/ \E v \in Visitors : invites[i].by = {v}
AccountInv == SessionInv /\ InviteInv

\* Names stay apart when one holder may get a new name and nobody gets another's.
LEMMA ApartKept ==
  ASSUME NEW names, NEW used, NEW last \in Nat, Apart(names, used, last), NEW x, NEW after,
         NEW next \in Nat, NEW n \in Nat, next >= last, n = 0 \/ (n > last /\ n <= next),
         \A i \in names : after[i] \subseteq used[i] \cup {0} \cup Given(i, x, n)
  PROVE  Apart(names, after, next)
<1>1. ASSUME NEW i \in names PROVE after[i] \subseteq 0 .. next
  <2>1. used[i] \subseteq 0 .. last /\ after[i] \subseteq used[i] \cup {0, n}
    BY DEF Apart, Given
  <2>2. QED BY <2>1
<1>2. ASSUME NEW i \in names, NEW j \in names, i # j, NEW t \in after[i], t \in after[j]
      PROVE  t = 0
  <2>1. used[i] \subseteq 0 .. last /\ used[j] \subseteq 0 .. last /\ (n = 0 \/ n \notin 0 .. last)
    BY DEF Apart
  <2>2. used[i] \cap used[j] \subseteq {0}
    BY <1>2 DEF Apart
  <2>3. t \in used[i] \cup {0} \/ (i = x /\ t = n)
    BY <1>2 DEF Given
  <2>4. t \in used[j] \cup {0} \/ (j = x /\ t = n)
    BY <1>2 DEF Given
  <2>5. QED BY <1>2, <2>1, <2>2, <2>3, <2>4
<1>3. QED BY <1>1, <1>2 DEF Apart

\* Reading the names in use.
LEMMA NamesInUse ==
  /\ \A cs, es : \A b \in Browsers : TokensOf(cs, es)[b] = {cs[b].token, es[b].token}
  /\ \A ds, cs, es : \A k \in Kinds : RowsOf(ds, cs, es)[k] =
       {ds[k].row} \cup {cs[b].row : b \in OfKind(k)} \cup {RowRead(es[b]) : b \in OfKind(k)}
  /\ \A b \in Browsers : DeviceKind[b] \in Kinds /\ b \in OfKind(DeviceKind[b])
  /\ \A b \in Browsers : \A k \in Kinds : b \in OfKind(k) => k = DeviceKind[b]
BY AccountAssumption DEF AccountAssumption, TokensOf, RowsOf, OfKind

\* What one browser's request may do to its cookie, its enrolment and its device: it may
\* bring one new name, n, of tokens or rows, and moves those there are among its own.
BrowserStep(b, n) ==
  /\ tokens' \in Nat /\ tokens' >= tokens /\ n \in Nat /\ (n = 0 \/ (n > tokens /\ n <= tokens'))
  /\ \A c \in Browsers : c # b => cookies'[c] = cookies[c] /\ enrolling'[c] = enrolling[c]
  /\ cookies'[b].token \in {cookies[b].token, enrolling[b].token, 0, n}
  /\ enrolling'[b].token \in {cookies[b].token, enrolling[b].token, 0, n}
  /\ \A k \in Kinds : devices'[k].row \in {devices[k].row, 0} \/
       (k = DeviceKind[b] /\ devices'[k].row \in {n, RowRead(enrolling[b])})
  /\ cookies'[b].row \in {0, n, cookies[b].row, devices[DeviceKind[b]].row, RowRead(enrolling[b])}
  /\ RowRead(enrolling'[b]) \in {0, RowRead(enrolling[b]), devices[DeviceKind[b]].row}
\* Such a step keeps the names apart.
LEMMA NamesStayApart ==
  ASSUME SessionInv, NEW b \in Browsers, NEW n, BrowserStep(b, n)
  PROVE  /\ Apart(Browsers, TokensOf(cookies, enrolling)', tokens')
         /\ Apart(Kinds, RowsOf(devices, cookies, enrolling)', tokens')
<1> DEFINE held == TokensOf(cookies, enrolling)
           rows == RowsOf(devices, cookies, enrolling)
<1>0. tokens \in Nat /\ tokens' \in Nat /\ tokens' >= tokens /\ n \in Nat /\ (n = 0 \/ (n > tokens /\ n <= tokens'))
  BY DEF BrowserStep, SessionInv, SessionTypes
<1>1. ASSUME NEW c \in Browsers
      PROVE  held'[c] \subseteq held[c] \cup {0} \cup Given(c, b, n)
  <2>1. held'[c] = {cookies'[c].token, enrolling'[c].token}
        /\ held[c] = {cookies[c].token, enrolling[c].token}
    BY NamesInUse
  <2>2. CASE c = b
    BY <2>1, <2>2 DEF Given, BrowserStep
  <2>3. CASE c # b
    BY <2>1, <2>3 DEF Given, BrowserStep
  <2>4. QED BY <2>2, <2>3
<1>2. ASSUME NEW k \in Kinds, NEW r \in rows'[k]
      PROVE  r \in rows[k] \cup {0} \cup Given(k, DeviceKind[b], n)
  <2>1. rows[k] = {devices[k].row} \cup {cookies[c].row : c \in OfKind(k)}
                  \cup {RowRead(enrolling[c]) : c \in OfKind(k)}
    BY NamesInUse
  <2>2. r = devices'[k].row \/ (\E c \in OfKind(k) : r = cookies'[c].row)
        \/ (\E c \in OfKind(k) : r = RowRead(enrolling'[c]))
    BY <1>2, NamesInUse
  <2>3. k = DeviceKind[b] => b \in OfKind(k)
    BY NamesInUse
  <2>4. CASE r = devices'[k].row
    BY <2>1, <2>3, <2>4 DEF Given, BrowserStep
  <2>5. ASSUME NEW c \in OfKind(k), r = cookies'[c].row \/ r = RowRead(enrolling'[c])
        PROVE  r \in rows[k] \cup {0} \cup Given(k, DeviceKind[b], n)
    <3>1. c \in Browsers /\ DeviceKind[c] = k
      BY DEF OfKind
    <3>2. CASE c = b
      BY <2>1, <2>3, <2>5, <3>1, <3>2 DEF Given, BrowserStep
    <3>3. CASE c # b
      BY <2>1, <2>5, <3>1, <3>3 DEF BrowserStep
    <3>4. QED BY <3>2, <3>3
  <2>6. QED BY <2>2, <2>4, <2>5
<1>3. Apart(Browsers, held, tokens) /\ Apart(Kinds, rows, tokens)
  BY DEF SessionInv
<1> HIDE DEF held, rows
<1>4. Apart(Browsers, held', tokens')
  BY <1>0, <1>1, <1>3, ApartKept
<1>5. \A k \in Kinds : rows'[k] \subseteq rows[k] \cup {0} \cup Given(k, DeviceKind[b], n)
  BY <1>2
<1>6. Apart(Kinds, rows', tokens')
  BY <1>0, <1>3, <1>5, ApartKept
<1>7. QED BY <1>4, <1>6 DEF held, rows

-----------------------------------------------------------------------------
\* A login of a level above one.
LEMMA OpenLoginKeeps ==
  ASSUME SessionInv, NEW b \in Browsers, LoginOpenly(b)
  PROVE  SessionInv'
<1> USE DEF LoginOpenly
<1>1. SessionTypes /\ tokens \in Nat /\ tokens' = tokens + 1
  BY DEF SessionInv, SessionTypes
<1>2. \A c \in Browsers : c # b => cookies'[c] = cookies[c] /\ enrolling'[c] = enrolling[c]
  BY <1>1 DEF SessionTypes
<1>3. cookies'[b] = [token |-> tokens + 1, row |-> 0] /\ enrolling'[b] = enrolling[b]
  BY <1>1 DEF SessionTypes
<1>5. \A k \in Kinds : devices'[k].row = devices[k].row /\ devices'[k].session = 0 /\ devices'[k] \in DeviceRows
  BY <1>1 DEF SignedOut, SessionTypes, DeviceRows
<1>6. BrowserStep(b, tokens + 1)
  BY <1>1, <1>2, <1>3, <1>5 DEF BrowserStep
<1>7. account'.session = tokens + 1
      /\ account' = [level |-> account.level, active |-> account.active, session |-> tokens + 1]
  BY <1>1 DEF SessionTypes
<1>8. SessionTypes'
  <2>1. devices' \in [Kinds -> DeviceRows]
    BY <1>5 DEF SignedOut
  <2>2. cookies' \in [Browsers -> [token : Nat, row : Nat]]
    BY <1>1 DEF SessionTypes
  <2>3. account' = [level |-> account'.level, active |-> account'.active, session |-> account'.session]
    BY <1>7
  <2>4. QED BY <1>1, <1>7, <2>1, <2>2, <2>3 DEF SessionTypes
<1>9. editing.request # NoEdit => account'.session > editing.request.began
  BY <1>1, <1>7 DEF SessionTypes
<1>10. QED BY <1>5, <1>6, <1>8, <1>9, NamesStayApart DEF SessionInv

\* A login of level one.
LEMMA DeviceLoginKeeps ==
  ASSUME SessionInv, NEW b \in Browsers, LoginOnDevice(b)
  PROVE  SessionInv'
<1> DEFINE k == DeviceKind[b]
           row == IF devices[k].row = 0 THEN tokens' ELSE devices[k].row
<1>1. SessionTypes /\ tokens \in Nat /\ tokens' = tokens + 1 /\ k \in Kinds /\ enrolling' = enrolling
      /\ editing' = editing
  BY NamesInUse DEF SessionInv, SessionTypes, LoginOnDevice
<1>2. /\ devices' = [devices EXCEPT ![k] = [row |-> row, key |-> b, session |-> tokens']]
      /\ cookies' = [cookies EXCEPT ![b] = [token |-> tokens', row |-> row]]
      /\ account' = [account EXCEPT !.session = 0]
  BY DEF LoginOnDevice, AfterDeviceLogin
<1>3. row \in Nat /\ row \in {tokens + 1, devices[k].row}
  <2>1. devices[k] \in DeviceRows
    BY <1>1 DEF SessionTypes
  <2>2. devices[k].row \in Nat
    BY <2>1 DEF DeviceRows
  <2>3. QED BY <1>1, <2>2
<1> HIDE DEF row, k
<1>4. \A c \in Browsers : c # b => cookies'[c] = cookies[c]
  BY <1>1, <1>2 DEF SessionTypes
<1>5. cookies'[b] = [token |-> tokens + 1, row |-> row]
  BY <1>1, <1>2 DEF SessionTypes
<1>6. \A l \in Kinds : IF l = k THEN devices'[l] = [row |-> row, key |-> b, session |-> tokens']
                                 ELSE devices'[l] = devices[l]
  BY <1>1, <1>2 DEF SessionTypes
<1>7. BrowserStep(b, tokens + 1)
  <2>1. \A l \in Kinds : devices'[l].row = devices[l].row \/ (l = k /\ devices'[l].row = row)
    BY <1>6
  <2>2. cookies'[b].token = tokens + 1 /\ cookies'[b].row = row
    BY <1>5
  <2>3. \A l \in Kinds : devices'[l].row \in {devices[l].row, 0}
                         \/ (l = k /\ devices'[l].row \in {tokens + 1, RowRead(enrolling[b])})
    BY <1>3, <2>1
  <2>4. cookies'[b].row \in {0, tokens + 1, cookies[b].row, devices[k].row, RowRead(enrolling[b])}
    BY <1>3, <2>2
  <2>5. QED BY <1>1, <1>4, <2>2, <2>3, <2>4 DEF BrowserStep, k
<1>8. account'.session = 0
      /\ account' = [level |-> account'.level, active |-> account'.active, session |-> account'.session]
  BY <1>1, <1>2 DEF SessionTypes
<1>9. SessionTypes'
  <2>1. [row |-> row, key |-> b, session |-> tokens'] \in DeviceRows
    <3>1. tokens' \in Nat /\ row \in Nat
      BY <1>1, <1>3
    <3>2. QED BY <3>1 DEF DeviceRows
  <2>2. devices' \in [Kinds -> DeviceRows]
    BY <1>1, <1>2, <2>1 DEF SessionTypes
  <2>3. [token |-> tokens', row |-> row] \in [token : Nat, row : Nat]
    BY <1>1, <1>3
  <2>4. cookies' \in [Browsers -> [token : Nat, row : Nat]]
    BY <1>1, <1>2, <2>3 DEF SessionTypes
  <2>5. QED BY <1>1, <1>8, <2>2, <2>4 DEF SessionTypes
<1>10. QED BY <1>7, <1>8, <1>9, NamesStayApart DEF SessionInv

\* A cookie that goes, with or without the session behind it.
LEMMA CookieGoes ==
  ASSUME SessionInv, NEW b \in Browsers, cookies' = [cookies EXCEPT ![b] = NoCookie],
         tokens' = tokens, enrolling' = enrolling \/ enrolling' = [enrolling EXCEPT ![b] = NoEnrolment],
         editing' = editing,
         account' = account \/ account' = [account EXCEPT !.session = 0],
         devices' = devices \/ (\E K \in SUBSET Kinds : devices' =
           [k \in Kinds |-> IF k \in K THEN [devices[k] EXCEPT !.session = 0] ELSE devices[k]])
  PROVE  SessionInv'
<1>1. SessionTypes /\ tokens \in Nat /\ account.session \in Nat
  BY DEF SessionInv, SessionTypes
<1>2. devices' \in [Kinds -> DeviceRows] /\ \A k \in Kinds : devices'[k].row = devices[k].row
        /\ (devices[k].session = 0 => devices'[k].session = 0)
  <2>1. CASE devices' = devices
    BY <1>1, <2>1 DEF SessionTypes
  <2>2. ASSUME NEW K \in SUBSET Kinds, devices' =
           [k \in Kinds |-> IF k \in K THEN [devices[k] EXCEPT !.session = 0] ELSE devices[k]]
        PROVE  devices' \in [Kinds -> DeviceRows] /\ \A k \in Kinds : devices'[k].row = devices[k].row
                 /\ (devices[k].session = 0 => devices'[k].session = 0)
    <3>1. \A k \in Kinds : devices[k] \in DeviceRows
      BY <1>1 DEF SessionTypes
    <3>2. \A k \in Kinds : /\ devices'[k] \in DeviceRows /\ devices'[k].row = devices[k].row
                           /\ devices'[k].session \in {devices[k].session, 0}
      BY <2>2, <3>1 DEF DeviceRows
    <3>3. devices' = [k \in Kinds |-> devices'[k]]
      BY <2>2
    <3>4. QED BY <3>2, <3>3
  <2>3. QED BY <2>1, <2>2
<1>3. /\ account' = [level |-> account'.level, active |-> account'.active, session |-> account'.session]
      /\ account'.session \in {0, account.session}
  BY <1>1 DEF SessionTypes
<1>4. cookies' \in [Browsers -> [token : Nat, row : Nat]] /\ cookies'[b] = NoCookie
      /\ \A c \in Browsers : c # b => cookies'[c] = cookies[c]
  BY <1>1 DEF SessionTypes, NoCookie
<1>5. enrolling' \in [Browsers -> Enrolments] /\ enrolling'[b] \in {NoEnrolment, enrolling[b]}
      /\ \A c \in Browsers : c # b => enrolling'[c] = enrolling[c]
  BY <1>1 DEF SessionTypes, Enrolments
<1>6. BrowserStep(b, 0)
  <2>1. cookies'[b].token = 0 /\ cookies'[b].row = 0
    BY <1>4 DEF NoCookie
  <2>2. enrolling'[b].token \in {0, enrolling[b].token} /\ RowRead(enrolling'[b]) \in {0, RowRead(enrolling[b])}
    BY <1>5 DEF NoEnrolment, RowRead
  <2>3. QED BY <1>1, <1>2, <1>4, <1>5, <2>1, <2>2 DEF BrowserStep
<1>7. SessionTypes'
  BY <1>1, <1>2, <1>3, <1>4, <1>5 DEF SessionTypes
<1>8. QED BY <1>2, <1>3, <1>6, <1>7, NamesStayApart DEF SessionInv

\* The reading half of an enrolment.
LEMMA StartEnrolmentKeeps ==
  ASSUME SessionInv, NEW b \in Browsers, StartEnrolment(b)
  PROVE  SessionInv'
<1> DEFINE read == [token |-> cookies[b].token, device |-> devices[DeviceKind[b]]]
<1>1. SessionTypes /\ tokens \in Nat /\ DeviceKind[b] \in Kinds
  BY NamesInUse DEF SessionInv, SessionTypes
<1>2. enrolling' = [enrolling EXCEPT ![b] = read] /\ UNCHANGED <<sessionVars, editing>>
  BY DEF StartEnrolment
<1>3. tokens' = tokens /\ account' = account /\ devices' = devices /\ cookies' = cookies /\ editing' = editing
  BY <1>2 DEF sessionVars
<1>4. read \in Enrolments /\ read.token = cookies[b].token /\ RowRead(read) \in {0, devices[DeviceKind[b]].row}
  BY <1>1 DEF SessionTypes, Enrolments, RowRead
<1> HIDE DEF read
<1>5. enrolling' \in [Browsers -> Enrolments] /\ enrolling'[b] = read
      /\ \A c \in Browsers : c # b => enrolling'[c] = enrolling[c]
  BY <1>1, <1>2, <1>4 DEF SessionTypes
<1>6. BrowserStep(b, 0)
  BY <1>1, <1>3, <1>4, <1>5 DEF BrowserStep
<1>7. SessionTypes'
  BY <1>1, <1>3, <1>5 DEF SessionTypes
<1>8. QED BY <1>3, <1>6, <1>7, NamesStayApart DEF SessionInv

\* The writing half, when it goes through.
LEMMA EnrolKeeps ==
  ASSUME SessionInv, NEW b \in Browsers, enrolling[b] # NoEnrolment, Enrol(b),
         enrolling' = [enrolling EXCEPT ![b] = NoEnrolment], editing' = editing
  PROVE  SessionInv'
<1> DEFINE seen == enrolling[b].device
           k == DeviceKind[b]
           row == IF seen.row = 0 THEN tokens + 1 ELSE seen.row
           n == IF seen.row = 0 THEN tokens + 1 ELSE 0
           token == enrolling[b].token
<1>1. SessionTypes /\ tokens \in Nat /\ k \in Kinds
  BY NamesInUse DEF SessionInv, SessionTypes
<1>2. /\ devices' = [devices EXCEPT ![k] = [row |-> row, key |-> b, session |-> token]]
      /\ cookies' = [cookies EXCEPT ![b] = [token |-> token, row |-> row]]
      /\ account' = [account EXCEPT !.session = 0]
      /\ tokens' = IF seen.row = 0 THEN tokens + 1 ELSE tokens
  BY DEF Enrol
<1>3. enrolling[b] \in [token : Nat, device : DeviceRows]
  BY <1>1 DEF SessionTypes, Enrolments
<1>4. seen.row \in Nat /\ token \in Nat /\ RowRead(enrolling[b]) = seen.row
  BY <1>3 DEF DeviceRows, RowRead
<1>5. row \in Nat /\ row \in {n, RowRead(enrolling[b])} /\ tokens' \in Nat /\ tokens' >= tokens /\ n \in Nat
      /\ (n = 0 \/ (n > tokens /\ n <= tokens'))
  BY <1>1, <1>2, <1>4
<1> HIDE DEF row, k, n, seen, token
<1>6. /\ \A c \in Browsers : c # b => cookies'[c] = cookies[c] /\ enrolling'[c] = enrolling[c]
      /\ enrolling' \in [Browsers -> Enrolments] /\ enrolling'[b] = NoEnrolment
  BY <1>1, <1>2 DEF SessionTypes, Enrolments
<1>7. cookies'[b] = [token |-> token, row |-> row]
  BY <1>1, <1>2 DEF SessionTypes
<1>8. \A l \in Kinds : IF l = k THEN devices'[l] = [row |-> row, key |-> b, session |-> token]
                                 ELSE devices'[l] = devices[l]
  BY <1>1, <1>2 DEF SessionTypes
<1>9. BrowserStep(b, n)
  <2>1. \A l \in Kinds : devices'[l].row = devices[l].row \/ (l = k /\ devices'[l].row = row)
    BY <1>8
  <2>2. cookies'[b].token = token /\ cookies'[b].row = row
    BY <1>7
  <2>3. \A l \in Kinds : devices'[l].row \in {devices[l].row, 0}
                         \/ (l = k /\ devices'[l].row \in {n, RowRead(enrolling[b])})
    BY <1>5, <2>1
  <2>4. cookies'[b].row \in {0, n, cookies[b].row, devices[k].row, RowRead(enrolling[b])}
    BY <1>5, <2>2
  <2>5. enrolling'[b].token = 0 /\ RowRead(enrolling'[b]) = 0
    BY <1>6 DEF NoEnrolment, RowRead
  <2>6. cookies'[b].token \in {cookies[b].token, enrolling[b].token, 0, n}
    BY <2>2 DEF token
  <2>7. QED BY <1>5, <1>6, <2>3, <2>4, <2>5, <2>6 DEF BrowserStep, k
<1>10. account'.session = 0
      /\ account' = [level |-> account'.level, active |-> account'.active, session |-> account'.session]
  BY <1>1, <1>2 DEF SessionTypes
<1>11. SessionTypes'
  <2>1. [row |-> row, key |-> b, session |-> token] \in DeviceRows
    BY <1>4, <1>5 DEF DeviceRows
  <2>2. devices' \in [Kinds -> DeviceRows]
    BY <1>1, <1>2, <2>1 DEF SessionTypes
  <2>3. [token |-> token, row |-> row] \in [token : Nat, row : Nat]
    BY <1>4, <1>5
  <2>4. cookies' \in [Browsers -> [token : Nat, row : Nat]]
    BY <1>1, <1>2, <2>3 DEF SessionTypes
  <2>5. editing.request # NoEdit => editing.request.began <= tokens'
    BY <1>1, <1>5 DEF SessionTypes
  <2>6. QED BY <1>1, <1>5, <1>6, <1>10, <2>2, <2>4, <2>5 DEF SessionTypes
<1>12. QED BY <1>9, <1>10, <1>11, NamesStayApart DEF SessionInv

\* Steps that touch devices and the account only.
LEMMA DevicesOnly ==
  ASSUME SessionInv, UNCHANGED <<tokens, cookies, enrolling>>,
         \A k \in Kinds : devices'[k].row \in {devices[k].row, 0}
  PROVE  /\ Apart(Browsers, TokensOf(cookies, enrolling)', tokens')
         /\ Apart(Kinds, RowsOf(devices, cookies, enrolling)', tokens')
<1> DEFINE rows == RowsOf(devices, cookies, enrolling)
<1>1. tokens \in Nat /\ tokens' = tokens
  BY DEF SessionInv, SessionTypes
<1>2. \A k \in Kinds : rows'[k] \subseteq rows[k] \cup {0} \cup Given(k, k, 0)
  <2>1. ASSUME NEW k \in Kinds, NEW r \in rows'[k] PROVE r \in rows[k] \cup {0}
    BY <2>1, NamesInUse
  <2>2. QED BY <2>1
<1>3. Apart(Kinds, rows, tokens)
  BY DEF SessionInv
<1> HIDE DEF rows
<1>4. \A k \in Kinds : rows'[k] \subseteq rows[k] \cup {0}
  BY <1>2 DEF Given
<1>5. Apart(Kinds, rows', tokens)
  BY <1>3, <1>4, <1>1 DEF Apart
<1>6. Apart(Browsers, TokensOf(cookies, enrolling)', tokens')
  BY DEF SessionInv
<1>7. QED BY <1>1, <1>5, <1>6 DEF rows

\* The administrator's edit.
LEMMA StartEditKeeps ==
  ASSUME SessionInv, StartEdit
  PROVE  SessionInv'
<1>1. SessionTypes
  BY DEF SessionInv
<1>2. tokens' = tokens /\ account' = account /\ devices' = devices /\ cookies' = cookies /\ enrolling' = enrolling
  BY DEF StartEdit, sessionVars
<1>3. /\ editing' = [request |-> editing'.request, made |-> editing'.made]
      /\ editing'.request.seen = account.session /\ editing'.request.began = tokens
  BY DEF StartEdit
<1>4. SessionTypes'
  BY <1>1, <1>2, <1>3 DEF SessionTypes
<1>5. editing'.request.seen = 0 => account.session = 0
  BY <1>3
<1>6. QED BY <1>2, <1>4, <1>5 DEF SessionInv
\* Its end: every session that it knew of goes.
LEMMA FinishEditKeeps ==
  ASSUME SessionInv, FinishEdit
  PROVE  SessionInv'
<1>1. SessionTypes /\ account.session \in Nat
  BY DEF SessionInv, SessionTypes
<1>2. tokens' = tokens /\ cookies' = cookies /\ enrolling' = enrolling
      /\ editing' = [editing EXCEPT !.request = NoEdit]
      /\ devices' = SignedOut /\ account' = Edited(editing.request)
  BY DEF FinishEdit
<1>3. editing'.request = NoEdit /\ editing' = [request |-> editing'.request, made |-> editing'.made]
  BY <1>1, <1>2 DEF SessionTypes
<1>4. devices' \in [Kinds -> DeviceRows]
      /\ \A k \in Kinds : devices'[k].session = 0 /\ devices'[k].row = devices[k].row
  BY <1>1, <1>2 DEF SignedOut, SessionTypes, DeviceRows
<1>5. account' = [level |-> account'.level, active |-> account'.active, session |-> account'.session]
      /\ account'.session \in {0, account.session}
  <2> DEFINE active == IF editing.request.kind \in {"active", "inactive"}
                       THEN editing.request.kind = "active" ELSE account.active
  <2>1. \A x, y, z : [level |-> x, active |-> y, session |-> z] =
          [level |-> [level |-> x, active |-> y, session |-> z].level,
           active |-> [level |-> x, active |-> y, session |-> z].active,
           session |-> [level |-> x, active |-> y, session |-> z].session]
    OBVIOUS
  <2>2. account'.session = IF editing.request.seen # 0 THEN 0 ELSE account.session
    BY <1>2 DEF Edited
  <2>3. \E x, y, z : account' = [level |-> x, active |-> y, session |-> z]
    BY <1>2 DEF Edited
  <2>4. QED BY <2>1, <2>2, <2>3
<1>6. SessionTypes'
  BY <1>1, <1>2, <1>3, <1>4, <1>5 DEF SessionTypes
<1>7. QED BY <1>2, <1>3, <1>4, <1>6, DevicesOnly DEF SessionInv

\* A device that is unbound.
LEMMA UnbindKeeps ==
  ASSUME SessionInv, NEW k \in Kinds, Unbind(k)
  PROVE  SessionInv'
<1>1. SessionTypes
  BY DEF SessionInv
<1>2. devices' = [devices EXCEPT ![k] = NoDevice] /\ UNCHANGED <<tokens, account, cookies, enrolling, editing>>
  BY DEF Unbind
<1>3. NoDevice \in DeviceRows /\ NoDevice.row = 0 /\ NoDevice.session = 0
  BY DEF NoDevice, DeviceRows
<1>4. devices' \in [Kinds -> DeviceRows]
      /\ \A l \in Kinds : devices'[l] \in {devices[l], NoDevice}
  BY <1>1, <1>2, <1>3 DEF SessionTypes
<1>5. \A l \in Kinds : devices'[l].row \in {devices[l].row, 0}
        /\ (devices[l].session = 0 => devices'[l].session = 0)
  BY <1>3, <1>4
<1>6. SessionTypes'
  BY <1>1, <1>2, <1>4 DEF SessionTypes
<1>7. QED BY <1>2, <1>5, <1>6, DevicesOnly DEF SessionInv

\* The end of an enrolment, whatever it finds.
LEMMA FinishEnrolmentKeeps ==
  ASSUME SessionInv, NEW b \in Browsers, FinishEnrolment(b)
  PROVE  SessionInv'
<1>1. enrolling[b] # NoEnrolment /\ enrolling' = [enrolling EXCEPT ![b] = NoEnrolment] /\ editing' = editing
  BY DEF FinishEnrolment
<1>2. CASE Enrol(b)
  BY <1>1, <1>2, EnrolKeeps
<1>3. CASE EnrolmentRefused(b)
  BY <1>1, <1>3, CookieGoes DEF EnrolmentRefused
<1>4. CASE EnrolmentFails(b)
  <2>1. tokens' = tokens /\ account' = account /\ devices' = devices /\ cookies' = cookies
    BY <1>4 DEF EnrolmentFails, sessionVars
  <2>2. SessionTypes /\ tokens \in Nat
    BY DEF SessionInv, SessionTypes
  <2>3. enrolling' \in [Browsers -> Enrolments] /\ enrolling'[b] = NoEnrolment
        /\ \A c \in Browsers : c # b => enrolling'[c] = enrolling[c]
    BY <1>1, <2>2 DEF SessionTypes, Enrolments
  <2>4. enrolling'[b].token = 0 /\ RowRead(enrolling'[b]) = 0
    BY <2>3 DEF NoEnrolment, RowRead
  <2>5. BrowserStep(b, 0)
    BY <2>1, <2>2, <2>3, <2>4 DEF BrowserStep
  <2>6. SessionTypes'
    BY <1>1, <2>1, <2>2, <2>3 DEF SessionTypes
  <2>7. QED BY <1>1, <2>1, <2>5, <2>6, NamesStayApart DEF SessionInv
<1>5. QED BY <1>2, <1>3, <1>4 DEF FinishEnrolment

\* Registrations keep each invitation to one account.
LEMMA RegisterKeeps ==
  ASSUME InviteInv, NEW v \in Visitors, Register(v)
  PROVE  InviteInv'
<1>1. CASE UNCHANGED invites
  BY <1>1 DEF InviteInv
<1>2. CASE registering[v] \in Invites /\ Claimable(registering[v])
           /\ invites' = [invites EXCEPT ![registering[v]].by = @ \cup {v}]
  <2> DEFINE i == registering[v]
  <2>1. i \in Invites /\ invites[i].by = {}
    BY <1>2 DEF Claimable, InviteFree
  <2>2. \A j \in Invites : j # i => invites'[j] = invites[j]
    BY <1>2, <2>1 DEF InviteInv
  <2>3. invites'[i] = [invites[i] EXCEPT !.by = {v}]
    BY <1>2, <2>1 DEF InviteInv
  <2>4. "by" \in DOMAIN invites[i]
    BY <2>1 DEF InviteInv
  <2>5. invites'[i].by = {v} /\ "by" \in DOMAIN invites'[i]
    BY <2>3, <2>4
  <2>6. invites' = [j \in Invites |-> invites'[j]]
    BY <1>2 DEF InviteInv
  <2>7. QED BY <2>2, <2>5, <2>6 DEF InviteInv
<1>3. QED BY <1>1, <1>2 DEF Register

\* The invariant holds at the start.
LEMMA AccountStarts == AccountInit => AccountInv
<1> SUFFICES ASSUME AccountInit PROVE AccountInv
  OBVIOUS
<1> USE DEF AccountInit
<1>1. NoDevice \in DeviceRows /\ NoCookie \in [token : Nat, row : Nat] /\ NoEnrolment \in Enrolments
      /\ NoDevice.row = 0 /\ NoDevice.session = 0 /\ NoCookie.token = 0 /\ NoCookie.row = 0
      /\ NoEnrolment.token = 0 /\ RowRead(NoEnrolment) = 0
  BY DEF NoDevice, NoCookie, NoEnrolment, DeviceRows, Enrolments, RowRead
<1>2. SessionTypes
  BY <1>1 DEF SessionTypes
<1>3. \A b \in Browsers : TokensOf(cookies, enrolling)[b] = {0}
  BY <1>1, NamesInUse
<1>4. ASSUME NEW k \in Kinds PROVE RowsOf(devices, cookies, enrolling)[k] \subseteq {0}
  <2>1. \A b \in OfKind(k) : b \in Browsers
    BY DEF OfKind
  <2>2. QED BY <1>1, <2>1, NamesInUse
<1>5. Apart(Browsers, TokensOf(cookies, enrolling), tokens)
  BY <1>3 DEF Apart
<1>6. Apart(Kinds, RowsOf(devices, cookies, enrolling), tokens)
  BY <1>4 DEF Apart
<1>7. SessionInv
  BY <1>2, <1>5, <1>6 DEF SessionInv
<1>8. InviteInv
  BY DEF InviteInv
<1>9. QED BY <1>7, <1>8 DEF AccountInv

\* What does not touch a session keeps what is said of sessions.
LEMMA SessionsUntouched ==
  ASSUME SessionInv, UNCHANGED <<sessionVars, enrolling, editing>>
  PROVE  SessionInv'
BY DEF SessionInv, SessionTypes, sessionVars

\* Every step keeps the invariant.
LEMMA AccountKept == AccountInv /\ [AccountNext]_accountVars => AccountInv'
<1> SUFFICES ASSUME AccountInv, [AccountNext]_accountVars PROVE AccountInv'
  OBVIOUS
<1> USE DEF AccountInv
<1>1. ASSUME NEW b \in Browsers, LoginOpenly(b)
      PROVE  AccountInv'
  BY <1>1, OpenLoginKeeps DEF LoginOpenly, InviteInv
<1>2. ASSUME NEW b \in Browsers, LoginOnDevice(b)
      PROVE  AccountInv'
  <2>1. invites' = invites
    BY <1>2 DEF LoginOnDevice
  <2>2. QED BY <1>2, <2>1, DeviceLoginKeeps DEF InviteInv
<1>3. ASSUME NEW b \in Browsers, Refuse(b)
      PROVE  AccountInv'
  BY <1>3, SessionsUntouched DEF Refuse, InviteInv
<1>4. ASSUME NEW b \in Browsers, Turn(b)
      PROVE  AccountInv'
  <2>1. SessionInv'
    BY <1>4, CookieGoes DEF Turn
  <2>2. QED BY <1>4, <2>1 DEF Turn, InviteInv
<1>5. ASSUME NEW b \in Browsers, Logout(b)
      PROVE  AccountInv'
  <2>1. account' = account \/ account' = [account EXCEPT !.session = 0]
    BY <1>5 DEF Logout
  <2>2. devices' = devices \/ (\E K \in SUBSET Kinds : devices' =
           [k \in Kinds |-> IF k \in K THEN [devices[k] EXCEPT !.session = 0] ELSE devices[k]])
    <3>1. CASE DeviceOf(b) = {}
      BY <1>5, <3>1 DEF Logout
    <3>2. CASE DeviceOf(b) # {}
      <4> DEFINE K == {k \in Kinds : k \in DeviceOf(b) /\ OnDevice(b)}
      <4>1. devices' = [k \in Kinds |-> IF k \in K THEN [devices[k] EXCEPT !.session = 0] ELSE devices[k]]
        BY <1>5, <3>2 DEF Logout
      <4>2. K \in SUBSET Kinds
        OBVIOUS
      <4> HIDE DEF K
      <4>3. QED BY <4>1, <4>2
    <3>3. QED BY <3>1, <3>2
  <2>3. /\ cookies' = [cookies EXCEPT ![b] = NoCookie]
        /\ tokens' = tokens /\ enrolling' = enrolling /\ editing' = editing /\ invites' = invites
    BY <1>5 DEF Logout
  <2>4. SessionInv'
    BY <2>1, <2>2, <2>3, CookieGoes
  <2>5. QED BY <2>3, <2>4 DEF InviteInv
<1>6. ASSUME NEW b \in Browsers, StartEnrolment(b)
      PROVE  AccountInv'
  BY <1>6, StartEnrolmentKeeps DEF StartEnrolment, InviteInv
<1>7. ASSUME NEW b \in Browsers, FinishEnrolment(b)
      PROVE  AccountInv'
  BY <1>7, FinishEnrolmentKeeps DEF FinishEnrolment, InviteInv
<1>8. CASE StartEdit
  BY <1>8, StartEditKeeps DEF StartEdit, InviteInv
<1>9. CASE FinishEdit
  BY <1>9, FinishEditKeeps DEF FinishEdit, InviteInv
<1>10. CASE ReadAlerts
  BY <1>10, SessionsUntouched DEF ReadAlerts, InviteInv
<1>11. ASSUME NEW k \in Kinds, Unbind(k)
       PROVE  AccountInv'
  BY <1>11, UnbindKeeps DEF Unbind, InviteInv
<1>12. ASSUME NEW v \in Visitors, Apply(v)
       PROVE  AccountInv'
  BY <1>12, SessionsUntouched DEF Apply, InviteInv
<1>13. ASSUME NEW v \in Visitors, Register(v)
       PROVE  AccountInv'
  BY <1>13, SessionsUntouched, RegisterKeeps DEF Register
<1>14. ASSUME NEW i \in Invites, Expire(i)
       PROVE  AccountInv'
  <2>1. \A j \in Invites : invites'[j] \in {invites[j], [invites[j] EXCEPT !.expired = TRUE]}
    BY <1>14 DEF Expire, InviteInv
  <2>2. \A j \in Invites : "by" \in DOMAIN invites[j]
    BY DEF InviteInv
  <2>3. \A j \in Invites : invites'[j].by = invites[j].by /\ "by" \in DOMAIN invites'[j]
    BY <2>1, <2>2
  <2>4. invites' = [j \in Invites |-> invites'[j]]
    BY <1>14 DEF Expire, InviteInv
  <2>5. InviteInv'
    BY <2>3, <2>4 DEF InviteInv
  <2>6. QED BY <1>14, <2>5, SessionsUntouched DEF Expire
<1>15. CASE UNCHANGED accountVars
  BY <1>15, SessionsUntouched DEF accountVars, sessionVars, InviteInv
<1>16. QED
  BY <1>1, <1>2, <1>3, <1>4, <1>5, <1>6, <1>7, <1>8, <1>9, <1>10, <1>11, <1>12, <1>13, <1>14, <1>15
  DEF AccountNext

-----------------------------------------------------------------------------
\* Two browsers are signed in only by their devices.
LEMMA AccessFollows == AccountInv => AccessIsSingle
<1> SUFFICES ASSUME AccountInv PROVE AccessIsSingle
  OBVIOUS
<1>1. SessionInv /\ InviteInv /\ SessionTypes
  BY DEF AccountInv, SessionInv
<1>2. \A i \in Invites : Cardinality(invites[i].by) <= 1
  <2>1. Cardinality({}) <= 1
    BY FS_EmptySet
  <2>2. \A v \in Visitors : Cardinality({v}) <= 1
    <3>1. \A x : Cardinality({x}) = 1
      BY FS_Singleton
    <3>2. QED BY <3>1
  <2>3. QED BY <1>1, <2>1, <2>2 DEF InviteInv
<1>3. ASSUME NEW b \in Browsers, NEW c \in Browsers, b # c,
             cookies[b].token # 0, cookies[b].token = cookies[c].token
      PROVE  FALSE
  <2>1. TokensOf(cookies, enrolling)[b] \cap TokensOf(cookies, enrolling)[c] \subseteq {0}
    BY <1>1, <1>3 DEF SessionInv, Apart
  <2>2. cookies[b].token \in TokensOf(cookies, enrolling)[b] /\ cookies[c].token \in TokensOf(cookies, enrolling)[c]
    BY NamesInUse
  <2>3. QED BY <1>3, <2>1, <2>2
<1>4. ASSUME NEW b \in Browsers, NEW k \in DeviceOf(b)
      PROVE  k = DeviceKind[b]
  <2>1. k \in Kinds /\ cookies[b].row # 0 /\ devices[k].row = cookies[b].row /\ DeviceKind[b] \in Kinds
    BY <1>4, NamesInUse DEF DeviceOf
  <2>2. cookies[b].row \in RowsOf(devices, cookies, enrolling)[k]
        /\ cookies[b].row \in RowsOf(devices, cookies, enrolling)[DeviceKind[b]]
    BY <2>1, NamesInUse
  <2>3. QED BY <1>1, <2>1, <2>2 DEF SessionInv, Apart
<1>5. ASSUME NEW b \in Browsers, OnDevice(b)
      PROVE  /\ cookies[b].token # 0 /\ devices[DeviceKind[b]].session = cookies[b].token
             /\ DeviceKind[b] \in Kinds
  BY <1>4, <1>5, NamesInUse DEF OnDevice, Presents
<1>6. ASSUME NEW b \in Browsers, NEW c \in Browsers, b # c, SignedIn(b), SignedIn(c), ~ OnDevice(b)
      PROVE  FALSE
  <2>1. OnAccount(b) /\ (OnAccount(c) \/ OnDevice(c))
    BY <1>6 DEF SignedIn
  <2>2. cookies[b].token # 0 /\ account.session = cookies[b].token
    BY <2>1 DEF OnAccount, Presents
  <2>3. CASE OnAccount(c)
    BY <1>3, <1>6, <2>2, <2>3 DEF OnAccount, Presents
  <2>4. CASE OnDevice(c)
    BY <1>1, <1>5, <2>2, <2>4 DEF SessionInv
  <2>5. QED BY <2>1, <2>3, <2>4
<1>7. ASSUME NEW b \in Browsers, NEW c \in Browsers, b # c, SignedIn(b), SignedIn(c)
      PROVE  OnDevice(b) /\ OnDevice(c) /\ DeviceKind[b] # DeviceKind[c]
  <2>1. OnDevice(b) /\ OnDevice(c)
    BY <1>6, <1>7
  <2>2. DeviceKind[b] # DeviceKind[c]
    BY <1>3, <1>5, <1>7, <2>1
  <2>3. QED BY <2>1, <2>2
<1>8. QED BY <1>2, <1>7 DEF AccessIsSingle

\* After an edit only a session younger than the edit is left.
LEMMA EditsFollow == AccountInv /\ [AccountNext]_accountVars => EditsSignOut
<1> SUFFICES ASSUME AccountInv, [AccountNext]_accountVars,
                    editing.request # NoEdit, editing'.request = NoEdit,
                    NEW b \in Browsers, SignedIn(b)'
             PROVE  cookies'[b].token > editing.request.began
  BY DEF EditsSignOut
<1>1. SessionInv /\ SessionTypes
  BY DEF AccountInv, SessionInv
<1>2. FinishEdit
  <2>1. editing' # editing
    OBVIOUS
  <2>2. QED
    BY <2>1 DEF AccountNext, accountVars, LoginOpenly, LoginOnDevice, Refuse, Turn, Logout, StartEnrolment,
      FinishEnrolment, StartEdit, ReadAlerts, Unbind, Apply, Register, Expire
<1>3. devices' = SignedOut /\ account' = Edited(editing.request) /\ cookies' = cookies
  BY <1>2 DEF FinishEdit
<1>4. \A k \in Kinds : devices'[k].session = 0
  BY <1>1, <1>3 DEF SignedOut, SessionTypes, DeviceRows
<1>5. cookies'[b].token # 0 /\ account'.session = cookies'[b].token
  BY <1>4 DEF SignedIn, OnAccount, OnDevice, DeviceOf, Presents
<1>6. account'.session = IF editing.request.seen # 0 THEN 0 ELSE account.session
  BY <1>3 DEF Edited
<1>7. QED BY <1>1, <1>5, <1>6 DEF SessionInv

\* SessionsAreEarned, for any number of browsers, kinds of devices, invitations and edits:
\* no login, enrolment or edit, however they overlap, signs a second browser in, and no
\* session older than an edit outlives it (login_api, enroll_current_device_api,
\* set_user_account_level and its likes, register_api).
THEOREM AccessEarned == AccountSpec => SessionsAreEarned
<1>1. QED BY AccountStarts, AccountKept, AccessFollows, EditsFollow, PTL DEF AccountSpec, SessionsAreEarned

-----------------------------------------------------------------------------
(* Chat. *)

\* A row of a message keeps its fields, and no recall is stamped later than now.
PostFields == {"from", "at", "recalled", "read"}
PostsSound(rows, last, now) ==
  /\ DOMAIN rows \subseteq 1 .. last /\ rows = [i \in DOMAIN rows |-> rows[i]]
  /\ \A i \in DOMAIN rows : /\ DOMAIN rows[i] = PostFields
                            /\ rows[i].at \in Int /\ rows[i].recalled \in Int /\ rows[i].recalled <= now

\* What a page shows of the other is neither cleared nor hidden; a recall that it does not
\* show is younger than its cursor reaches back, or the message has expired.
Told(page, i, post, now) ==
  \/ page.shown[i] \/ post.recalled = 0 \/ post.recalled > page.cursor - Overlap
  \/ post.at <= now - Retention
PageShape(page, last) ==
  /\ DOMAIN page = {"shown", "last", "cursor"}
  /\ page.shown = [i \in DOMAIN page.shown |-> page.shown[i]]
  /\ DOMAIN page.shown \subseteq 1 .. last
PageSound(p, page, rows, cleared, hidden, now, last) ==
  /\ PageShape(page, last) /\ page.cursor \in Nat /\ page.cursor <= now
  /\ \A i \in DOMAIN page.shown : i \in DOMAIN rows /\ rows[i].from # p =>
       i > cleared /\ i \notin hidden /\ page.cursor # 0 /\ Told(page, i, rows[i], now)

\* A running read knows all that its page shows of the other, and every recall but those
\* committed since it began.
ReadSound(p, read, page, rows, cleared, hidden, last) ==
  /\ DOMAIN read.posts \subseteq 1 .. last /\ hidden \subseteq read.hidden /\ cleared = read.view.cleared
  /\ \A i \in DOMAIN read.posts : /\ read.posts[i].at \in Int /\ read.posts[i].recalled \in Int
                                  /\ read.posts[i].recalled <= read.at
  /\ \A i \in DOMAIN read.posts : i \in DOMAIN rows =>
       /\ read.posts[i].at = rows[i].at
       /\ rows[i].recalled = read.posts[i].recalled \/ rows[i].recalled >= read.at - Longest
  /\ \A i \in DOMAIN page.shown : i \in DOMAIN rows /\ rows[i].from # p =>
       i \in DOMAIN read.posts /\ i \notin read.hidden

\* The id of a message on its way is nowhere yet.
SendSound(p) ==
  /\ requests[p].id \in 1 .. lastId /\ requests[p].id \notin DOMAIN posts
  /\ \A q \in People \ {p} :
       /\ requests[p].id \notin DOMAIN pages[q].shown
       /\ requests[q].kind = "read" => requests[p].id \notin DOMAIN requests[q].posts
       /\ requests[q].kind = "send" => requests[p].id # requests[q].id

Timely(request, now) ==
  request # NoRequest => request.at \in Nat \ {0} /\ request.at <= now /\ now <= request.at + Longest
ChatShape ==
  /\ chatTime \in Nat \ {0} /\ lastId \in Nat /\ PostsSound(posts, lastId, chatTime)
  /\ requests = [p \in People |-> requests[p]] /\ pages = [p \in People |-> pages[p]]
  /\ views = [p \in People |-> views[p]] /\ marks = [p \in People |-> marks[p]]
  /\ \A p \in People : /\ views[p] = [read |-> views[p].read, cleared |-> views[p].cleared]
                       /\ marks[p] = [hidden |-> marks[p].hidden, pinned |-> marks[p].pinned]
PersonSound(p) ==
  /\ Timely(requests[p], chatTime)
  /\ PageSound(p, pages[p], posts, views[p].cleared, marks[p].hidden, chatTime, lastId)
  /\ requests[p].kind = "read" =>
       ReadSound(p, requests[p], pages[p], posts, views[p].cleared, marks[p].hidden, lastId)
  /\ requests[p].kind = "send" => SendSound(p)
ChatInv == ChatShape /\ \A p \in People : PersonSound(p)

-----------------------------------------------------------------------------
\* What a step may do to the messages: it changes neither author nor time, it recalls as
\* of a moment ago, and it adds what was being sent.
RowsEvolve ==
  \A i \in DOMAIN posts' :
    \/ /\ i \in DOMAIN posts /\ posts'[i].from = posts[i].from /\ posts'[i].at = posts[i].at
       /\ posts'[i].recalled = posts[i].recalled \/ posts'[i].recalled >= chatTime - Longest
    \/ \E p \in People : /\ requests[p].kind = "send" /\ i = requests[p].id
                         /\ posts'[i].from = p /\ requests'[p] = NoRequest

\* A step of x leaves the page and the request of the others alone.
ShapeKept ==
  /\ requests' = [p \in People |-> requests'[p]] /\ pages' = [p \in People |-> pages'[p]]
  /\ views' = [p \in People |-> views'[p]] /\ marks' = [p \in People |-> marks'[p]]
  /\ \A p \in People : /\ views'[p] = [read |-> views'[p].read, cleared |-> views'[p].cleared]
                       /\ marks'[p] = [hidden |-> marks'[p].hidden, pinned |-> marks'[p].pinned]
ClocksMove == /\ chatTime' \in Nat \ {0} /\ chatTime' >= chatTime
              /\ lastId' \in Nat /\ lastId' >= lastId
OthersStay(x) ==
  \A q \in People \ {x} :
    /\ requests'[q] = requests[q] /\ pages'[q] = pages[q]
    /\ views'[q].cleared = views[q].cleared /\ marks'[q].hidden \subseteq marks[q].hidden
ActorMoves(x) ==
  /\ requests'[x].kind = "send" => requests'[x].id = lastId + 1 /\ lastId' = lastId + 1
  /\ requests'[x].kind = "read" => DOMAIN requests'[x].posts \subseteq DOMAIN posts
  /\ \A i \in DOMAIN pages'[x].shown : \/ i \in DOMAIN pages[x].shown
                                       \/ requests[x].kind = "read" /\ i \in DOMAIN requests[x].posts
                                       \/ requests[x].kind = "send" /\ i = requests[x].id
ChatStep(x) ==
  /\ ClocksMove /\ PostsSound(posts', lastId', chatTime') /\ RowsEvolve /\ ShapeKept
  /\ \A q \in People : Timely(requests'[q], chatTime')
  /\ OthersStay(x) /\ (x \in People => ActorMoves(x))

\* The bounds are numbers.
LEMMA ChatBounds ==
  Longest \in Nat /\ Overlap \in Nat /\ 2 * Longest < Overlap /\ Retention \in Nat
BY ChatAssumption DEF ChatAssumption

\* The greater of two numbers.
LEMMA HighestOfTwo ==
  ASSUME NEW a \in Int, NEW b \in Int
  PROVE  Highest({a}, b) \in {a, b} /\ Highest({a}, b) >= a /\ Highest({a}, b) >= b
<1>1. \E i \in {a} \cup {b} : \A j \in {a} \cup {b} : j <= i
  OBVIOUS
<1>2. QED BY <1>1 DEF Highest

\* What shows of the other was there before, unless it was being sent by the page's owner.
LEMMA OldRows ==
  ASSUME ChatInv, RowsEvolve, NEW p \in People, NEW i \in DOMAIN posts', posts'[i].from # p,
         i \in DOMAIN pages[p].shown
  PROVE  /\ i \in DOMAIN posts /\ posts[i].from # p /\ posts'[i].at = posts[i].at
         /\ posts'[i].recalled = posts[i].recalled \/ posts'[i].recalled >= chatTime - Longest
<1>1. ASSUME NEW q \in People, requests[q].kind = "send", i = requests[q].id, posts'[i].from = q
      PROVE  FALSE
  BY <1>1 DEF ChatInv, PersonSound, SendSound
<1>2. QED BY <1>1 DEF RowsEvolve

\* A page stays sound when what it shows of the other was shown before.
LEMMA PageStays ==
  ASSUME ChatInv, NEW x, ChatStep(x), NEW p \in People, views'[p].cleared = views[p].cleared,
         pages'[p].cursor = pages[p].cursor, PageShape(pages'[p], lastId'),
         \A i \in DOMAIN pages'[p].shown : i \in DOMAIN posts' /\ posts'[i].from # p =>
           /\ i \in DOMAIN pages[p].shown /\ (i \in marks'[p].hidden => i \in marks[p].hidden)
           /\ pages[p].shown[i] => pages'[p].shown[i]
  PROVE  PageSound(p, pages[p], posts, views[p].cleared, marks[p].hidden, chatTime, lastId)'
<1>1. PageSound(p, pages[p], posts, views[p].cleared, marks[p].hidden, chatTime, lastId)
  BY DEF ChatInv, PersonSound
<1>2. /\ chatTime \in Nat /\ chatTime' \in Nat /\ chatTime' >= chatTime
      /\ pages[p].cursor \in Nat /\ pages[p].cursor <= chatTime
  BY <1>1 DEF ChatStep, ClocksMove, ChatInv, ChatShape, PageSound
<1>3. PostsSound(posts, lastId, chatTime) /\ PostsSound(posts', lastId', chatTime') /\ RowsEvolve
  BY DEF ChatStep, ChatInv, ChatShape
<1>4. ASSUME NEW i \in DOMAIN pages'[p].shown, i \in DOMAIN posts', posts'[i].from # p
      PROVE  /\ i > views'[p].cleared /\ i \notin marks'[p].hidden /\ pages'[p].cursor # 0
             /\ Told(pages'[p], i, posts'[i], chatTime')
  <2>1. i \in DOMAIN pages[p].shown
    BY <1>4
  <2>2. /\ i \in DOMAIN posts /\ posts[i].from # p /\ posts'[i].at = posts[i].at
        /\ posts'[i].recalled = posts[i].recalled \/ posts'[i].recalled >= chatTime - Longest
    BY <1>3, <1>4, <2>1, OldRows
  <2>3. i > views[p].cleared /\ i \notin marks[p].hidden /\ pages[p].cursor # 0
        /\ Told(pages[p], i, posts[i], chatTime)
    BY <1>1, <2>1, <2>2 DEF PageSound
  <2>4. posts[i].at \in Int /\ posts[i].recalled \in Int /\ posts'[i].recalled \in Int
    BY <1>3, <1>4, <2>2 DEF PostsSound
  <2>5. Told(pages'[p], i, posts'[i], chatTime')
    <3>1. CASE posts'[i].recalled = posts[i].recalled /\ posts[i].recalled = 0
      BY <3>1 DEF Told
    <3>2. CASE posts'[i].recalled = posts[i].recalled /\ posts[i].recalled > pages[p].cursor - Overlap
      BY <3>2 DEF Told
    <3>3. CASE posts[i].at <= chatTime - Retention
      <4>1. posts'[i].at <= chatTime' - Retention
        BY <1>2, <2>2, <2>4, <3>3, ChatBounds
      <4>2. QED BY <4>1 DEF Told
    <3>4. CASE pages[p].shown[i]
      BY <1>4, <3>4 DEF Told
    <3>5. CASE posts'[i].recalled >= chatTime - Longest
      <4>1. posts'[i].recalled > pages[p].cursor - Overlap
        BY <1>2, <2>4, <3>5, ChatBounds
      <4>2. QED BY <4>1 DEF Told
    <3>6. QED BY <2>2, <2>3, <3>1, <3>2, <3>3, <3>4, <3>5 DEF Told
  <2>6. QED BY <1>4, <2>3, <2>5
<1>5. QED BY <1>2, <1>4 DEF PageSound

\* So does a page that shows nothing.
LEMMA BlankSound ==
  ASSUME ChatInv, NEW x, ChatStep(x), NEW p \in People, pages'[p] = Blank
  PROVE  PageSound(p, pages[p], posts, views[p].cleared, marks[p].hidden, chatTime, lastId)'
<1>1. chatTime' \in Nat
  BY DEF ChatStep, ClocksMove
<1>2. Blank.shown = [i \in {} |-> FALSE] /\ Blank.cursor = 0
      /\ DOMAIN Blank = {"shown", "last", "cursor"}
  BY DEF Blank
<1>3. DOMAIN Blank.shown = {}
  BY <1>2
<1> HIDE DEF Blank
<1>4. QED BY <1>1, <1>2, <1>3 DEF PageSound, PageShape

\* A read that goes on while others act.
LEMMA ReadStays ==
  ASSUME ChatInv, NEW x, ChatStep(x), NEW p \in People, p # x, requests[p].kind = "read"
  PROVE  ReadSound(p, requests[p], pages[p], posts, views[p].cleared, marks[p].hidden, lastId)'
<1> DEFINE read == requests[p]
<1>1. ReadSound(p, read, pages[p], posts, views[p].cleared, marks[p].hidden, lastId)
  BY DEF ChatInv, PersonSound
<1>2. /\ requests'[p] = read /\ pages'[p] = pages[p]
      /\ views'[p].cleared = views[p].cleared /\ marks'[p].hidden \subseteq marks[p].hidden
  BY DEF ChatStep, OthersStay
<1>3. PostsSound(posts, lastId, chatTime) /\ PostsSound(posts', lastId', chatTime') /\ RowsEvolve
      /\ lastId \in Nat /\ lastId' \in Nat /\ lastId' >= lastId /\ chatTime \in Nat
  BY DEF ChatStep, ClocksMove, ChatInv, ChatShape
<1>4. read.at \in Nat /\ read.at <= chatTime
  <2>1. read # NoRequest
    BY DEF NoRequest
  <2>2. QED BY <2>1 DEF ChatInv, PersonSound, Timely
<1> HIDE DEF read
<1>5. DOMAIN read.posts \subseteq 1 .. lastId'
  BY <1>1, <1>3 DEF ReadSound
<1>6. ASSUME NEW i \in DOMAIN read.posts, i \in DOMAIN posts'
      PROVE  /\ read.posts[i].at = posts'[i].at
             /\ posts'[i].recalled = read.posts[i].recalled \/ posts'[i].recalled >= read.at - Longest
  <2>1. ASSUME NEW q \in People, requests[q].kind = "send", i = requests[q].id
        PROVE  FALSE
    <3>1. q # p
      BY <2>1
    <3>2. SendSound(q)
      BY <2>1 DEF ChatInv, PersonSound
    <3>3. QED BY <1>6, <2>1, <3>1, <3>2 DEF SendSound, read
  <2>2. /\ i \in DOMAIN posts /\ posts'[i].at = posts[i].at
        /\ posts'[i].recalled = posts[i].recalled \/ posts'[i].recalled >= chatTime - Longest
    BY <1>3, <1>6, <2>1 DEF RowsEvolve
  <2>3. posts'[i].recalled \in Int
    BY <1>3, <1>6 DEF PostsSound
  <2>4. posts'[i].recalled >= chatTime - Longest => posts'[i].recalled >= read.at - Longest
    BY <1>3, <1>4, <2>3, ChatBounds
  <2>5. QED BY <1>1, <1>6, <2>2, <2>4 DEF ReadSound
<1>7. ASSUME NEW i \in DOMAIN pages[p].shown, i \in DOMAIN posts', posts'[i].from # p
      PROVE  i \in DOMAIN read.posts /\ i \notin read.hidden
  <2>1. i \in DOMAIN posts /\ posts[i].from # p
    BY <1>3, <1>7, OldRows
  <2>2. QED BY <1>1, <1>7, <2>1 DEF ReadSound
<1>8. ReadSound(p, read, pages[p], posts', views'[p].cleared, marks'[p].hidden, lastId')
  BY <1>1, <1>2, <1>5, <1>6, <1>7 DEF ReadSound
<1>9. QED BY <1>2, <1>8

\* The ids on their way stay apart.
LEMMA SendsStay ==
  ASSUME ChatInv, NEW x, ChatStep(x), NEW p \in People, requests'[p].kind = "send"
  PROVE  SendSound(p)'
<1>1. PostsSound(posts, lastId, chatTime) /\ RowsEvolve
      /\ lastId \in Nat /\ lastId' \in Nat /\ lastId' >= lastId
  BY DEF ChatStep, ClocksMove, ChatInv, ChatShape
<1>2. \A q \in People : /\ requests[q].kind = "send" => SendSound(q)
                        /\ requests[q].kind = "read" => DOMAIN requests[q].posts \subseteq 1 .. lastId
                        /\ DOMAIN pages[q].shown \subseteq 1 .. lastId
  BY DEF ChatInv, PersonSound, ReadSound, PageSound, PageShape
<1>3. \A q \in People \ {x} : requests'[q] = requests[q] /\ pages'[q] = pages[q]
  BY DEF ChatStep, OthersStay
<1>4. x \in People => ActorMoves(x)
  BY DEF ChatStep
<1>5. CASE p # x
  <2> DEFINE id == requests[p].id
  <2>1. requests'[p] = requests[p] /\ SendSound(p)
    BY <1>2, <1>3, <1>5
  <2>2. id \in 1 .. lastId /\ id \notin DOMAIN posts
    BY <2>1 DEF SendSound
  <2>3. id \notin DOMAIN posts'
    <3>1. ASSUME NEW q \in People, requests[q].kind = "send", id = requests[q].id, requests'[q] = NoRequest
          PROVE  FALSE
      <4>1. q # p
        BY <2>1, <3>1 DEF NoRequest
      <4>2. QED BY <2>1, <3>1, <4>1 DEF SendSound
    <3>2. QED BY <1>1, <2>2, <3>1 DEF RowsEvolve
  <2>4. ASSUME NEW q \in People \ {p}
        PROVE  /\ id \notin DOMAIN pages'[q].shown
               /\ requests'[q].kind = "read" => id \notin DOMAIN requests'[q].posts
               /\ requests'[q].kind = "send" => id # requests'[q].id
    <3>1. /\ id \notin DOMAIN pages[q].shown
          /\ requests[q].kind = "read" => id \notin DOMAIN requests[q].posts
          /\ requests[q].kind = "send" => id # requests[q].id
      BY <2>1 DEF SendSound
    <3>2. CASE q # x
      BY <1>3, <3>1, <3>2
    <3>3. CASE q = x
      BY <1>1, <1>4, <2>2, <3>1, <3>3 DEF ActorMoves
    <3>4. QED BY <3>2, <3>3
  <2>5. id \in 1 .. lastId'
    BY <1>1, <2>2
  <2>6. QED BY <2>1, <2>3, <2>4, <2>5 DEF SendSound
<1>6. CASE p = x
  <2> DEFINE id == requests'[p].id
  <2>1. id = lastId + 1 /\ lastId' = lastId + 1
    BY <1>4, <1>6 DEF ActorMoves
  <2>2. id \notin 1 .. lastId /\ id \in 1 .. lastId'
    BY <1>1, <2>1
  <2>3. id \notin DOMAIN posts'
    <3>1. \A q \in People : requests[q].kind = "send" => requests[q].id # id
      BY <1>2, <2>2 DEF SendSound
    <3>2. id \notin DOMAIN posts
      BY <1>1, <2>2 DEF PostsSound
    <3>3. QED BY <1>1, <3>1, <3>2 DEF RowsEvolve
  <2>4. ASSUME NEW q \in People \ {p}
        PROVE  /\ id \notin DOMAIN pages'[q].shown
               /\ requests'[q].kind = "read" => id \notin DOMAIN requests'[q].posts
               /\ requests'[q].kind = "send" => id # requests'[q].id
    <3>1. requests'[q] = requests[q] /\ pages'[q] = pages[q]
      BY <1>3, <1>6
    <3>2. requests[q].kind = "send" => requests[q].id \in 1 .. lastId
      BY <1>2 DEF SendSound
    <3>3. QED BY <1>2, <2>2, <3>1, <3>2
  <2>5. QED BY <2>2, <2>3, <2>4 DEF SendSound
<1>7. QED BY <1>5, <1>6

\* What remains of a step is what it does to its own page.
LEMMA ChatStepKeeps ==
  ASSUME ChatInv, NEW x, ChatStep(x),
         x \in People =>
           PageSound(x, pages[x], posts, views[x].cleared, marks[x].hidden, chatTime, lastId)',
         x \in People /\ requests'[x].kind = "read" =>
           ReadSound(x, requests[x], pages[x], posts, views[x].cleared, marks[x].hidden, lastId)'
  PROVE  ChatInv'
<1>1. ChatShape'
  BY DEF ChatStep, ClocksMove, ShapeKept, ChatShape
<1>2. ASSUME NEW p \in People, p # x
      PROVE  PageSound(p, pages[p], posts, views[p].cleared, marks[p].hidden, chatTime, lastId)'
  <2>1. /\ requests'[p] = requests[p] /\ pages'[p] = pages[p]
        /\ views'[p].cleared = views[p].cleared /\ marks'[p].hidden \subseteq marks[p].hidden
    BY <1>2 DEF ChatStep, OthersStay
  <2>2. PageShape(pages[p], lastId')
    <3>1. lastId \in Nat /\ lastId' \in Nat /\ lastId' >= lastId
      BY DEF ChatInv, ChatShape, ChatStep, ClocksMove
    <3>2. PageShape(pages[p], lastId)
      BY DEF ChatInv, PersonSound, PageSound
    <3>3. 1 .. lastId \subseteq 1 .. lastId'
      BY <3>1
    <3>4. DOMAIN pages[p].shown \subseteq 1 .. lastId'
      BY <3>2, <3>3 DEF PageShape
    <3>5. PageShape(pages'[p], lastId')
      BY <2>1, <3>2, <3>4 DEF PageShape
    <3>6. QED BY <2>1, <3>5
  <2>3. \A i \in DOMAIN pages'[p].shown : i \in DOMAIN posts' /\ posts'[i].from # p =>
           /\ i \in DOMAIN pages[p].shown /\ (i \in marks'[p].hidden => i \in marks[p].hidden)
           /\ pages[p].shown[i] => pages'[p].shown[i]
    BY <2>1
  <2>4. QED BY <2>1, <2>2, <2>3, PageStays
<1>3. ASSUME NEW p \in People, p # x, requests'[p].kind = "read"
      PROVE  ReadSound(p, requests[p], pages[p], posts, views[p].cleared, marks[p].hidden, lastId)'
  <2>1. requests'[p] = requests[p]
    BY <1>3 DEF ChatStep, OthersStay
  <2>2. QED BY <1>3, <2>1, ReadStays
<1>4. \A p \in People : Timely(requests'[p], chatTime')
  BY DEF ChatStep
<1>5. ASSUME NEW p \in People PROVE PersonSound(p)'
  <2>1. requests'[p].kind = "send" => SendSound(p)'
    BY SendsStay
  <2>2. CASE p # x
    BY <1>2, <1>3, <1>4, <2>1, <2>2 DEF PersonSound
  <2>3. CASE p = x
    BY <1>4, <2>1, <2>3 DEF PersonSound
  <2>4. QED BY <2>2, <2>3
<1>6. QED BY <1>1, <1>5 DEF ChatInv

-----------------------------------------------------------------------------
\* Messages that are only marked as read.
LEMMA OnlyRead ==
  ASSUME ChatInv, chatTime' = chatTime, lastId' = lastId,
         posts' = [i \in DOMAIN posts |-> posts'[i]],
         \A i \in DOMAIN posts : posts'[i] \in {posts[i], [posts[i] EXCEPT !.read = TRUE]}
  PROVE  PostsSound(posts', lastId', chatTime') /\ RowsEvolve
<1>1. PostsSound(posts, lastId, chatTime)
  BY DEF ChatInv, ChatShape
<1>2. DOMAIN posts' = DOMAIN posts
  OBVIOUS
<1>3. ASSUME NEW i \in DOMAIN posts
      PROVE  /\ DOMAIN posts'[i] = PostFields /\ posts'[i].from = posts[i].from
             /\ posts'[i].at = posts[i].at /\ posts'[i].recalled = posts[i].recalled
  <2>1. DOMAIN posts[i] = {"from", "at", "recalled", "read"}
    BY <1>1 DEF PostsSound, PostFields
  <2>2. QED BY <2>1 DEF PostFields
<1>4. PostsSound(posts', lastId', chatTime')
  BY <1>1, <1>2, <1>3 DEF PostsSound
<1>5. QED BY <1>2, <1>3, <1>4 DEF RowsEvolve

\* Messages that stay, or of which some are removed.
LEMMA OnlyLess ==
  ASSUME ChatInv, chatTime' \in Nat, chatTime' >= chatTime, lastId' \in Nat, lastId' >= lastId,
         NEW S, posts' = [i \in DOMAIN posts \ S |-> posts[i]]
  PROVE  PostsSound(posts', lastId', chatTime') /\ RowsEvolve
<1>1. PostsSound(posts, lastId, chatTime) /\ chatTime \in Nat /\ lastId \in Nat
  BY DEF ChatInv, ChatShape
<1>2. DOMAIN posts' \subseteq DOMAIN posts /\ \A i \in DOMAIN posts' : posts'[i] = posts[i]
  OBVIOUS
<1>3. 1 .. lastId \subseteq 1 .. lastId'
  BY <1>1
<1>4. DOMAIN posts' \subseteq 1 .. lastId'
  BY <1>1, <1>2, <1>3 DEF PostsSound
<1>5. posts' = [i \in DOMAIN posts' |-> posts'[i]]
  OBVIOUS
<1>6. ASSUME NEW i \in DOMAIN posts'
      PROVE  posts'[i].recalled <= chatTime'
  <2>1. posts'[i] = posts[i] /\ posts[i].recalled \in Int /\ posts[i].recalled <= chatTime
    BY <1>1, <1>2 DEF PostsSound
  <2>2. QED BY <1>1, <2>1
<1>7. PostsSound(posts', lastId', chatTime')
  BY <1>1, <1>2, <1>4, <1>5, <1>6 DEF PostsSound
<1>8. QED BY <1>2, <1>7 DEF RowsEvolve

\* And none changed at all.
LEMMA SamePosts ==
  ASSUME ChatInv, chatTime' \in Nat, chatTime' >= chatTime, lastId' \in Nat, lastId' >= lastId, posts' = posts
  PROVE  PostsSound(posts', lastId', chatTime') /\ RowsEvolve
<1>1. posts' = [i \in DOMAIN posts \ {} |-> posts[i]]
  BY DEF ChatInv, ChatShape, PostsSound
<1>2. QED BY <1>1, OnlyLess

\* A request that begins.
LEMMA StartsSound ==
  ASSUME ChatInv, NEW p \in People, NEW request, requests' = [requests EXCEPT ![p] = request],
         request.at = chatTime, UNCHANGED <<chatTime, posts, views, marks, pages>>,
         lastId' \in {lastId, lastId + 1},
         request.kind = "send" => request.id = lastId + 1 /\ lastId' = lastId + 1,
         request.kind = "read" => request.posts = posts
  PROVE  ChatStep(p) /\ PageSound(p, pages[p], posts, views[p].cleared, marks[p].hidden, chatTime, lastId)'
<1>1. chatTime \in Nat \ {0} /\ lastId \in Nat
  BY DEF ChatInv, ChatShape
<1>2. ClocksMove
  BY <1>1 DEF ClocksMove
<1>3. PostsSound(posts', lastId', chatTime') /\ RowsEvolve
  BY <1>1, SamePosts
<1>4. requests' = [q \in People |-> requests'[q]] /\ requests'[p] = request
      /\ \A q \in People : q # p => requests'[q] = requests[q]
  BY DEF ChatInv, ChatShape
<1>5. ShapeKept
  BY <1>4 DEF ShapeKept, ChatInv, ChatShape
<1>6. Timely(request, chatTime)
  BY <1>1, ChatBounds DEF Timely
<1>7. \A q \in People : Timely(requests'[q], chatTime')
  BY <1>4, <1>6 DEF ChatInv, PersonSound
<1>8. OthersStay(p) /\ ActorMoves(p)
  <2>1. pages' = pages /\ views' = views /\ marks' = marks
    OBVIOUS
  <2>2. OthersStay(p)
    BY <1>4, <2>1 DEF OthersStay
  <2>3. requests'[p].kind = "read" => DOMAIN requests'[p].posts \subseteq DOMAIN posts
    BY <1>4
  <2>4. requests'[p].kind = "send" => requests'[p].id = lastId + 1 /\ lastId' = lastId + 1
    BY <1>4
  <2>5. \A i \in DOMAIN pages'[p].shown : i \in DOMAIN pages[p].shown
    BY <2>1
  <2>6. QED BY <2>2, <2>3, <2>4, <2>5 DEF ActorMoves
<1>9. ChatStep(p)
  BY <1>2, <1>3, <1>5, <1>7, <1>8 DEF ChatStep
<1>10. PageShape(pages'[p], lastId')
  <2>1. PageShape(pages[p], lastId)
    BY DEF ChatInv, PersonSound, PageSound
  <2>2. 1 .. lastId \subseteq 1 .. lastId'
    BY <1>1
  <2>3. DOMAIN pages[p].shown \subseteq 1 .. lastId'
    BY <2>1, <2>2 DEF PageShape
  <2>4. QED BY <2>1, <2>3 DEF PageShape
<1>11. QED BY <1>9, <1>10, PageStays

\* The three kinds of requests begin.
LEMMA StartReadKeeps ==
  ASSUME ChatInv, NEW p \in People, StartRead(p)
  PROVE  ChatInv'
<1> DEFINE request == [kind |-> "read", at |-> chatTime, posts |-> posts, view |-> views[p],
                       hidden |-> marks[p].hidden]
<1>1. requests' = [requests EXCEPT ![p] = request] /\ UNCHANGED <<chatTime, lastId, posts, views, marks, pages>>
  BY DEF StartRead, Starts
<1>2. /\ request.kind = "read" /\ request.at = chatTime /\ request.posts = posts
      /\ request.view = views[p] /\ request.hidden = marks[p].hidden
  OBVIOUS
<1> HIDE DEF request
<1>3. ChatStep(p) /\ PageSound(p, pages[p], posts, views[p].cleared, marks[p].hidden, chatTime, lastId)'
  BY <1>1, <1>2, StartsSound
<1>4. ReadSound(p, request, pages[p], posts, views[p].cleared, marks[p].hidden, lastId)
  <2>1. PostsSound(posts, lastId, chatTime)
        /\ PageSound(p, pages[p], posts, views[p].cleared, marks[p].hidden, chatTime, lastId)
    BY DEF ChatInv, ChatShape, PersonSound
  <2>2. QED BY <1>2, <2>1 DEF ReadSound, PostsSound, PageSound
<1>5. requests'[p] = request
  BY <1>1 DEF ChatInv, ChatShape
<1>6. ReadSound(p, requests[p], pages[p], posts, views[p].cleared, marks[p].hidden, lastId)'
  BY <1>1, <1>4, <1>5
<1>7. QED BY <1>3, <1>6, ChatStepKeeps
\* A send takes an id that nobody has seen.
LEMMA StartSendKeeps ==
  ASSUME ChatInv, NEW p \in People, StartSend(p)
  PROVE  ChatInv'
<1> DEFINE request == [kind |-> "send", at |-> chatTime, id |-> lastId + 1]
<1>1. requests' = [requests EXCEPT ![p] = request] /\ UNCHANGED <<chatTime, posts, views, marks, pages>>
      /\ lastId' = lastId + 1
  BY DEF StartSend, Starts
<1>2. request.kind = "send" /\ request.at = chatTime /\ request.id = lastId + 1
  OBVIOUS
<1> HIDE DEF request
<1>3. ChatStep(p) /\ PageSound(p, pages[p], posts, views[p].cleared, marks[p].hidden, chatTime, lastId)'
  BY <1>1, <1>2, StartsSound
<1>4. requests'[p] = request
  BY <1>1 DEF ChatInv, ChatShape
<1>5. QED BY <1>2, <1>3, <1>4, ChatStepKeeps
\* A recall takes its stamp.
LEMMA StartRecallKeeps ==
  ASSUME ChatInv, NEW p \in People, StartRecall(p)
  PROVE  ChatInv'
<1>1. PICK i \in DOMAIN posts : Starts(p, [kind |-> "recall", at |-> chatTime, id |-> i])
  BY DEF StartRecall
<1> DEFINE request == [kind |-> "recall", at |-> chatTime, id |-> i]
<1>2. requests' = [requests EXCEPT ![p] = request] /\ UNCHANGED <<chatTime, lastId, posts, views, marks, pages>>
  BY <1>1 DEF StartRecall, Starts
<1>3. request.kind = "recall" /\ request.at = chatTime
  OBVIOUS
<1> HIDE DEF request
<1>4. ChatStep(p) /\ PageSound(p, pages[p], posts, views[p].cleared, marks[p].hidden, chatTime, lastId)'
  BY <1>2, <1>3, StartsSound
<1>5. requests'[p] = request
  BY <1>2 DEF ChatInv, ChatShape
<1>6. QED BY <1>3, <1>4, <1>5, ChatStepKeeps

-----------------------------------------------------------------------------
\* A request that ends, or an act of a page that has none running.
Settles(p) ==
  /\ chatTime' = chatTime /\ lastId' = lastId
  /\ \/ requests' = [requests EXCEPT ![p] = NoRequest]
     \/ requests' = requests /\ requests[p] = NoRequest
\* Then no request of the page is left.
LEMMA SettlesSound ==
  ASSUME ChatInv, NEW p \in People, Settles(p)
  PROVE  /\ ClocksMove /\ requests' = [q \in People |-> requests'[q]]
         /\ \A q \in People : Timely(requests'[q], chatTime')
         /\ requests'[p] = NoRequest /\ \A q \in People \ {p} : requests'[q] = requests[q]
         /\ requests'[p].kind # "read" /\ requests'[p].kind # "send"
<1>1. requests' = [q \in People |-> requests'[q]] /\ requests'[p] = NoRequest
      /\ \A q \in People \ {p} : requests'[q] = requests[q]
  BY DEF Settles, ChatInv, ChatShape
<1>2. ClocksMove
  BY DEF Settles, ClocksMove, ChatInv, ChatShape
<1>3. Timely(NoRequest, chatTime)
  BY DEF Timely
<1>4. \A q \in People : Timely(requests'[q], chatTime')
  BY <1>1, <1>3 DEF Settles, ChatInv, PersonSound
<1>5. NoRequest.kind = "none"
  BY DEF NoRequest
<1>6. QED BY <1>1, <1>2, <1>4, <1>5

\* A step that changes one page, of one person.
LEMMA PageChanges ==
  ASSUME ChatInv, NEW p \in People, NEW page, pages' \in {pages, [pages EXCEPT ![p] = page]}
  PROVE  /\ pages' = [q \in People |-> pages'[q]] /\ \A q \in People \ {p} : pages'[q] = pages[q]
         /\ pages'[p] \in {pages[p], page}
BY DEF ChatInv, ChatShape

\* What a page shows now is still numbered.
LEMMA PageWas ==
  ASSUME ChatInv, NEW p \in People
  PROVE  /\ PageShape(pages[p], lastId) /\ pages[p].cursor \in Nat /\ pages[p].cursor <= chatTime
         /\ PageSound(p, pages[p], posts, views[p].cleared, marks[p].hidden, chatTime, lastId)
BY DEF ChatInv, PersonSound, PageSound

\* A settled step of one page, in general.
SettledAs(p, page) ==
  /\ Settles(p) /\ PostsSound(posts', lastId', chatTime') /\ RowsEvolve
  /\ pages' = pages \/ pages' = [pages EXCEPT ![p] = page]
  /\ views' = [q \in People |-> views'[q]] /\ marks' = [q \in People |-> marks'[q]]
  /\ \A q \in People : /\ views'[q] = [read |-> views'[q].read, cleared |-> views'[q].cleared]
                       /\ marks'[q] = [hidden |-> marks'[q].hidden, pinned |-> marks'[q].pinned]
  /\ \A q \in People \ {p} : views'[q].cleared = views[q].cleared /\ marks'[q].hidden \subseteq marks[q].hidden
  /\ \A i \in DOMAIN page.shown : \/ i \in DOMAIN pages[p].shown
                                 \/ (requests[p].kind = "read" /\ i \in DOMAIN requests[p].posts)
\* It is a step of that page alone.
LEMMA SettledStep ==
  ASSUME ChatInv, NEW p \in People, NEW page, SettledAs(p, page)
  PROVE  ChatStep(p) /\ pages'[p] \in {pages[p], page} /\ requests'[p].kind # "read"
<1> USE DEF SettledAs
<1>1. /\ ClocksMove /\ requests' = [q \in People |-> requests'[q]]
      /\ \A q \in People : Timely(requests'[q], chatTime')
      /\ \A q \in People \ {p} : requests'[q] = requests[q]
      /\ requests'[p].kind # "read" /\ requests'[p].kind # "send"
  BY SettlesSound
<1>2. /\ pages' = [q \in People |-> pages'[q]] /\ \A q \in People \ {p} : pages'[q] = pages[q]
      /\ pages'[p] \in {pages[p], page}
  BY DEF ChatInv, ChatShape
<1>3. ActorMoves(p)
  BY <1>1, <1>2 DEF ActorMoves
<1>4. ShapeKept
  BY <1>1, <1>2 DEF ShapeKept
<1>5. OthersStay(p)
  BY <1>1, <1>2 DEF OthersStay
<1>6. QED BY <1>1, <1>2, <1>3, <1>4, <1>5 DEF ChatStep

\* The sender's page shows what was sent.
LEMMA FinishSendKeeps ==
  ASSUME ChatInv, NEW p \in People, FinishSend(p)
  PROVE  ChatInv'
<1> DEFINE id == requests[p].id
           row == [from |-> p, at |-> requests[p].at, recalled |-> 0, read |-> FALSE]
           sent == Overlaid(posts, [i \in {id} |-> row])
           page == [pages[p] EXCEPT !.shown = Overlaid(@, [i \in {id} |-> FALSE]), !.last = Highest({id}, @)]
<1>1. requests[p].kind = "send" /\ requests' = [requests EXCEPT ![p] = NoRequest]
      /\ UNCHANGED <<chatTime, lastId, views, marks>>
  BY DEF FinishSend, EndRequest
<1>2. \/ posts' = sent /\ pages' \in {pages, [pages EXCEPT ![p] = page]}
      \/ posts' = posts /\ pages' = pages
  BY DEF FinishSend
<1>3. id \in 1 .. lastId /\ id \notin DOMAIN posts /\ chatTime \in Nat /\ lastId \in Nat
  BY <1>1 DEF ChatInv, ChatShape, PersonSound, SendSound
<1>4. requests[p].at \in Int
  <2>1. requests[p] # NoRequest
    BY <1>1 DEF NoRequest
  <2>2. QED BY <2>1 DEF ChatInv, PersonSound, Timely
<1>5. /\ ClocksMove /\ requests' = [q \in People |-> requests'[q]]
      /\ \A q \in People : Timely(requests'[q], chatTime')
      /\ requests'[p] = NoRequest /\ \A q \in People \ {p} : requests'[q] = requests[q]
      /\ requests'[p].kind # "read" /\ requests'[p].kind # "send"
  <2>1. Settles(p)
    BY <1>1 DEF Settles
  <2>2. QED BY <2>1, SettlesSound
<1>6. row.from = p /\ row.at = requests[p].at /\ row.recalled = 0 /\ DOMAIN row = PostFields
  BY DEF PostFields
<1> HIDE DEF row
<1>7. sent = [i \in DOMAIN posts \cup {id} |-> IF i = id THEN row ELSE posts[i]]
  BY DEF Overlaid
<1>8. PostsSound(posts, lastId, chatTime)
  BY DEF ChatInv, ChatShape
<1>9. PostsSound(posts', lastId', chatTime') /\ RowsEvolve
  <2>1. CASE posts' = posts
    BY <1>1, <1>3, <2>1, SamePosts
  <2>2. CASE posts' = sent
    <3>1. DOMAIN posts' = DOMAIN posts \cup {id} /\ posts'[id] = row
          /\ \A i \in DOMAIN posts : posts'[i] = posts[i]
      BY <1>3, <1>7, <2>2
    <3>2. posts' = [i \in DOMAIN posts' |-> posts'[i]]
      BY <1>7, <2>2
    <3> HIDE DEF sent
    <3>3. PostsSound(posts', lastId', chatTime')
      <4>1. DOMAIN posts' \subseteq 1 .. lastId'
        BY <1>1, <1>3, <1>8, <3>1 DEF PostsSound
      <4>2. row.at \in Int /\ row.recalled \in Int /\ row.recalled <= chatTime
        BY <1>3, <1>4, <1>6
      <4>3. QED BY <1>1, <1>6, <1>8, <3>1, <3>2, <4>1, <4>2 DEF PostsSound
    <3>4. RowsEvolve
      BY <1>1, <1>5, <1>6, <3>1 DEF RowsEvolve
    <3>5. QED BY <3>3, <3>4
  <2>3. QED BY <1>2, <2>1, <2>2
<1>10. PageShape(pages[p], lastId)
  BY PageWas
<1> DEFINE grown == [i \in DOMAIN pages[p].shown \cup {id} |-> IF i = id THEN FALSE ELSE pages[p].shown[i]]
<1>11. page.shown = grown /\ page.cursor = pages[p].cursor /\ DOMAIN page = {"shown", "last", "cursor"}
  <2>1. DOMAIN pages[p] = {"shown", "last", "cursor"}
    BY <1>10 DEF PageShape
  <2>2. page.shown = Overlaid(pages[p].shown, [i \in {id} |-> FALSE]) /\ page.cursor = pages[p].cursor
        /\ DOMAIN page = {"shown", "last", "cursor"}
    BY <2>1
  <2>3. Overlaid(pages[p].shown, [i \in {id} |-> FALSE]) = grown
    BY DEF Overlaid
  <2> HIDE DEF page, grown
  <2>4. QED BY <2>2, <2>3
<1> HIDE DEF page, sent
<1>12. pages' \in {pages, [pages EXCEPT ![p] = page]}
  BY <1>2
<1>13. /\ pages' = [q \in People |-> pages'[q]] /\ \A q \in People \ {p} : pages'[q] = pages[q]
       /\ pages'[p] \in {pages[p], page}
  BY <1>12, PageChanges
<1>14. ActorMoves(p)
  BY <1>1, <1>5, <1>11, <1>13 DEF ActorMoves
<1>15. ShapeKept
  BY <1>1, <1>5, <1>13 DEF ShapeKept, ChatInv, ChatShape
<1>16. ChatStep(p)
  BY <1>1, <1>5, <1>9, <1>13, <1>14, <1>15 DEF ChatStep, OthersStay
<1>17. PageShape(page, lastId)
  <2>1. DOMAIN page.shown \subseteq 1 .. lastId
    BY <1>3, <1>10, <1>11 DEF PageShape
  <2>2. page.shown = [i \in DOMAIN page.shown |-> page.shown[i]]
    BY <1>11
  <2>3. QED BY <1>11, <2>1, <2>2 DEF PageShape
<1>18. PageShape(pages'[p], lastId') /\ pages'[p].cursor = pages[p].cursor
  BY <1>1, <1>10, <1>11, <1>13, <1>17
<1>19. ASSUME NEW i \in DOMAIN pages'[p].shown, i \in DOMAIN posts', posts'[i].from # p
       PROVE  i \in DOMAIN pages[p].shown /\ (pages[p].shown[i] => pages'[p].shown[i])
  <2>1. CASE pages'[p] = pages[p]
    BY <1>19, <2>1
  <2>2. CASE pages'[p] = page /\ pages'[p] # pages[p]
    <3>1. posts' = sent
      BY <1>2, <2>2
    <3>2. i # id
      BY <1>6, <1>7, <1>19, <3>1
    <3>3. QED BY <1>11, <1>19, <2>2, <3>2
  <2>3. QED BY <1>13, <2>1, <2>2
<1>20. PageSound(p, pages[p], posts, views[p].cleared, marks[p].hidden, chatTime, lastId)'
  BY <1>1, <1>16, <1>18, <1>19, PageStays
<1>21. QED BY <1>5, <1>16, <1>20, ChatStepKeeps

\* A recall is stamped within the longest request, and its page shows it.
LEMMA FinishRecallKeeps ==
  ASSUME ChatInv, NEW p \in People, FinishRecall(p)
  PROVE  ChatInv'
<1> DEFINE id == requests[p].id
           page == [pages[p] EXCEPT !.shown = [i \in DOMAIN pages[p].shown |-> pages[p].shown[i] \/ i = id]]
<1>1. requests[p].kind = "recall" /\ requests' = [requests EXCEPT ![p] = NoRequest]
      /\ UNCHANGED <<chatTime, lastId, views>>
  BY DEF FinishRecall, EndRequest
<1>2. ChatShape /\ chatTime \in Nat /\ lastId \in Nat /\ PostsSound(posts, lastId, chatTime)
  BY DEF ChatInv, ChatShape
<1>3. Settles(p)
  BY <1>1 DEF Settles
<1>4. PageShape(pages[p], lastId)
  BY PageWas
<1>5. /\ DOMAIN page = {"shown", "last", "cursor"} /\ page.cursor = pages[p].cursor
      /\ page.shown = [i \in DOMAIN pages[p].shown |-> pages[p].shown[i] \/ i = id]
  BY <1>4 DEF PageShape
<1>6. /\ DOMAIN page.shown = DOMAIN pages[p].shown /\ page.shown = [i \in DOMAIN page.shown |-> page.shown[i]]
      /\ \A i \in DOMAIN page.shown : pages[p].shown[i] => page.shown[i]
  BY <1>5
<1>7. CASE id \notin DOMAIN posts
  <2>1. posts' = posts /\ marks' = marks /\ pages' = pages
    BY <1>7 DEF FinishRecall
  <2>2. PostsSound(posts', lastId', chatTime') /\ RowsEvolve
    BY <1>1, <1>2, <2>1, SamePosts
  <2>3. ChatStep(p) /\ requests'[p].kind # "read"
    <3>1. SettledAs(p, pages[p])
      BY <1>1, <1>2, <1>3, <2>1, <2>2 DEF ChatShape, SettledAs
    <3>2. QED BY <3>1, SettledStep
  <2>4. PageSound(p, pages[p], posts, views[p].cleared, marks[p].hidden, chatTime, lastId)'
    BY <1>1, <1>4, <2>1, <2>3, PageStays
  <2>5. QED BY <2>3, <2>4, ChatStepKeeps
<1>8. CASE id \in DOMAIN posts
  <2>1. /\ posts' = [posts EXCEPT ![id].recalled = requests[p].at]
        /\ marks' = [q \in People |-> [hidden |-> marks[q].hidden \ {id}, pinned |-> marks[q].pinned \ {id}]]
        /\ pages' \in {pages, [pages EXCEPT ![p] = page]}
    BY <1>8 DEF FinishRecall
  <2>2. requests[p].at \in Nat /\ requests[p].at <= chatTime /\ chatTime <= requests[p].at + Longest
    <3>1. requests[p] # NoRequest
      BY <1>1 DEF NoRequest
    <3>2. QED BY <3>1 DEF ChatInv, PersonSound, Timely
  <2>3. PostsSound(posts', lastId', chatTime') /\ RowsEvolve
    <3>1. DOMAIN posts' = DOMAIN posts /\ posts' = [i \in DOMAIN posts' |-> posts'[i]]
          /\ \A i \in DOMAIN posts : i # id => posts'[i] = posts[i]
      BY <1>2, <1>8, <2>1 DEF PostsSound
    <3>2. DOMAIN posts[id] = {"from", "at", "recalled", "read"}
      BY <1>2, <1>8 DEF PostsSound, PostFields
    <3>3. posts'[id] = [posts[id] EXCEPT !.recalled = requests[p].at]
      BY <1>8, <2>1
    <3>4. /\ DOMAIN posts'[id] = PostFields /\ posts'[id].from = posts[id].from /\ posts'[id].at = posts[id].at
          /\ posts'[id].recalled = requests[p].at
      BY <3>2, <3>3 DEF PostFields
    <3>5. PostsSound(posts', lastId', chatTime')
      BY <1>1, <1>2, <1>8, <2>2, <3>1, <3>4 DEF PostsSound
    <3>6. requests[p].at >= chatTime - Longest
      BY <1>2, <2>2, ChatBounds
    <3>7. RowsEvolve
      BY <3>1, <3>4, <3>6 DEF RowsEvolve
    <3>8. QED BY <3>5, <3>7
  <2>4. /\ views' = [q \in People |-> views'[q]] /\ marks' = [q \in People |-> marks'[q]]
        /\ \A q \in People : /\ views'[q] = [read |-> views'[q].read, cleared |-> views'[q].cleared]
                             /\ marks'[q] = [hidden |-> marks'[q].hidden, pinned |-> marks'[q].pinned]
                             /\ views'[q].cleared = views[q].cleared /\ marks'[q].hidden \subseteq marks[q].hidden
    BY <1>1, <1>2, <2>1 DEF ChatShape
  <2> HIDE DEF page
  <2>5. ChatStep(p) /\ pages'[p] \in {pages[p], page} /\ requests'[p].kind # "read"
    <3>1. SettledAs(p, page)
      BY <1>3, <1>6, <2>1, <2>3, <2>4 DEF SettledAs
    <3>2. QED BY <3>1, SettledStep
  <2>6. PageShape(pages'[p], lastId') /\ pages'[p].cursor = pages[p].cursor
        /\ \A i \in DOMAIN pages'[p].shown : i \in DOMAIN pages[p].shown /\ (pages[p].shown[i] => pages'[p].shown[i])
    BY <1>1, <1>4, <1>5, <1>6, <2>5 DEF PageShape
  <2>7. \A i \in marks'[p].hidden : i \in marks[p].hidden
    BY <2>4
  <2>8. PageSound(p, pages[p], posts, views[p].cleared, marks[p].hidden, chatTime, lastId)'
    BY <2>4, <2>5, <2>6, <2>7, PageStays
  <2>9. QED BY <2>5, <2>8, ChatStepKeeps
<1>9. QED BY <1>7, <1>8

\* A page that is opened again shows nothing yet.
LEMMA OpenPageKeeps ==
  ASSUME ChatInv, NEW p \in People, OpenPage(p)
  PROVE  ChatInv'
<1>1. ChatShape /\ chatTime \in Nat /\ lastId \in Nat
  BY DEF ChatInv, ChatShape
<1>2. /\ requests[p] = NoRequest /\ pages' = [pages EXCEPT ![p] = Blank]
      /\ UNCHANGED <<chatTime, lastId, posts, views, marks, requests>>
  BY DEF OpenPage
<1>3. Settles(p)
  BY <1>2 DEF Settles
<1>4. PostsSound(posts', lastId', chatTime') /\ RowsEvolve
  BY <1>1, <1>2, SamePosts
<1>5. DOMAIN Blank.shown = {}
  BY DEF Blank
<1> HIDE DEF Blank
<1>6. ChatStep(p) /\ requests'[p].kind # "read"
  <2>1. SettledAs(p, Blank)
    BY <1>1, <1>2, <1>3, <1>4, <1>5 DEF SettledAs, ChatShape
  <2>2. QED BY <2>1, SettledStep
<1>7. pages'[p] = Blank
  BY <1>1, <1>2 DEF ChatShape
<1>8. PageSound(p, pages[p], posts, views[p].cleared, marks[p].hidden, chatTime, lastId)'
  BY <1>6, <1>7, BlankSound
<1>9. QED BY <1>6, <1>8, ChatStepKeeps

\* What the owner of a page does to it.
LEMMA ActKeeps ==
  ASSUME ChatInv, NEW p \in People, Act(p)
  PROVE  ChatInv'
<1>1. ChatShape /\ chatTime \in Nat /\ lastId \in Nat /\ PageShape(pages[p], lastId)
      /\ posts = [i \in DOMAIN posts |-> posts[i]]
  BY PageWas DEF ChatInv, ChatShape, PostsSound
<1>2. requests[p] = NoRequest /\ UNCHANGED <<chatTime, lastId, requests>>
  BY DEF Act
<1>3. Settles(p)
  BY <1>2 DEF Settles
<1>4. CASE Hide(p)
  <2>1. PICK i \in DOMAIN posts :
          /\ marks' = [marks EXCEPT ![p] = [hidden |-> @.hidden \cup {i}, pinned |-> @.pinned \ {i}]]
          /\ pages' = [pages EXCEPT ![p].shown = Without(@, {i})]
          /\ UNCHANGED <<posts, views>>
    BY <1>4 DEF Hide
  <2> DEFINE page == [pages[p] EXCEPT !.shown = Without(pages[p].shown, {i})]
  <2>2. pages' = [pages EXCEPT ![p] = page]
    BY <2>1
  <2>3. page.shown = [j \in DOMAIN pages[p].shown \ {i} |-> pages[p].shown[j]] /\ page.cursor = pages[p].cursor
        /\ DOMAIN page = {"shown", "last", "cursor"}
    BY <1>1 DEF PageShape, Without
  <2>4. /\ marks' = [q \in People |-> marks'[q]]
        /\ marks'[p] = [hidden |-> marks[p].hidden \cup {i}, pinned |-> marks[p].pinned \ {i}]
        /\ \A q \in People \ {p} : marks'[q] = marks[q]
    BY <1>1, <2>1 DEF ChatShape
  <2>5. \A q \in People : marks'[q] = [hidden |-> marks'[q].hidden, pinned |-> marks'[q].pinned]
    BY <1>1, <2>4 DEF ChatShape
  <2>6. PostsSound(posts', lastId', chatTime') /\ RowsEvolve
    BY <1>1, <1>2, <2>1, SamePosts
  <2> HIDE DEF page
  <2>7. ChatStep(p) /\ requests'[p].kind # "read"
    <3>1. SettledAs(p, page)
      BY <1>1, <1>3, <2>1, <2>2, <2>3, <2>4, <2>5, <2>6 DEF SettledAs, ChatShape
    <3>2. QED BY <3>1, SettledStep
  <2>8. pages'[p] = page
    BY <1>1, <2>2 DEF ChatShape
  <2>9. DOMAIN page.shown = DOMAIN pages[p].shown \ {i} /\ page.shown = [j \in DOMAIN page.shown |-> page.shown[j]]
        /\ \A j \in DOMAIN page.shown : page.shown[j] = pages[p].shown[j]
    BY <2>3
  <2>10. PageShape(pages'[p], lastId') /\ pages'[p].cursor = pages[p].cursor
    BY <1>1, <1>2, <2>3, <2>8, <2>9 DEF PageShape
  <2>11. \A j \in DOMAIN pages'[p].shown :
           /\ j \in DOMAIN pages[p].shown /\ (j \in marks'[p].hidden => j \in marks[p].hidden)
           /\ pages[p].shown[j] => pages'[p].shown[j]
    BY <2>4, <2>8, <2>9
  <2>12. PageSound(p, pages[p], posts, views[p].cleared, marks[p].hidden, chatTime, lastId)'
    BY <2>1, <2>7, <2>10, <2>11, PageStays
  <2>13. QED BY <2>7, <2>12, ChatStepKeeps
<1>5. CASE Pin(p)
  <2>1. PICK i \in DOMAIN posts :
          /\ marks' = [marks EXCEPT ![p].pinned = IF i \in @ THEN {} ELSE {i}]
          /\ UNCHANGED <<posts, views, pages>>
    BY <1>5 DEF Pin
  <2>2. /\ marks' = [q \in People |-> marks'[q]] /\ \A q \in People \ {p} : marks'[q] = marks[q]
        /\ marks'[p].hidden = marks[p].hidden
        /\ marks'[p] = [hidden |-> marks'[p].hidden, pinned |-> marks'[p].pinned]
    <3>1. marks' = [marks EXCEPT ![p] = [marks[p] EXCEPT !.pinned = IF i \in marks[p].pinned THEN {} ELSE {i}]]
      BY <2>1
    <3>2. marks[p] = [hidden |-> marks[p].hidden, pinned |-> marks[p].pinned] /\ marks = [q \in People |-> marks[q]]
      BY <1>1 DEF ChatShape
    <3>3. [marks[p] EXCEPT !.pinned = IF i \in marks[p].pinned THEN {} ELSE {i}]
            = [hidden |-> marks[p].hidden, pinned |-> IF i \in marks[p].pinned THEN {} ELSE {i}]
      BY <3>2
    <3>4. marks' = [marks EXCEPT ![p] = [hidden |-> marks[p].hidden,
                                        pinned |-> IF i \in marks[p].pinned THEN {} ELSE {i}]]
      BY <3>1, <3>3
    <3>5. QED BY <3>2, <3>4
  <2>3. \A q \in People : marks'[q] = [hidden |-> marks'[q].hidden, pinned |-> marks'[q].pinned]
    BY <1>1, <2>2 DEF ChatShape
  <2>4. PostsSound(posts', lastId', chatTime') /\ RowsEvolve
    BY <1>1, <1>2, <2>1, SamePosts
  <2>5. \A j \in DOMAIN pages[p].shown : j \in DOMAIN pages[p].shown
    OBVIOUS
  <2>6. pages' = pages /\ views' = views
    BY <2>1
  <2>7. ChatStep(p) /\ requests'[p].kind # "read"
    <3>1. SettledAs(p, pages[p])
      BY <1>1, <1>3, <2>2, <2>3, <2>4, <2>5, <2>6 DEF SettledAs, ChatShape
    <3>2. QED BY <3>1, SettledStep
  <2>8. PageSound(p, pages[p], posts, views[p].cleared, marks[p].hidden, chatTime, lastId)'
    BY <1>1, <1>2, <2>2, <2>6, <2>7, PageStays
  <2>9. QED BY <2>7, <2>8, ChatStepKeeps
<1>6. CASE Clear(p)
  <2> DEFINE latest == Highest({i \in DOMAIN posts : posts[i].at > chatTime - Retention}, 0)
             view == [read |-> Highest({latest}, views[p].read), cleared |-> Highest({latest}, views[p].cleared)]
  <2>1. /\ views' = [views EXCEPT ![p] = view] /\ pages' = [pages EXCEPT ![p] = Blank] /\ marks' = marks
        /\ posts' = [i \in DOMAIN posts |-> IF posts[i].from # p /\ i <= latest
                                           THEN [posts[i] EXCEPT !.read = TRUE] ELSE posts[i]]
    BY <1>6 DEF Clear
  <2>2. view = [read |-> view.read, cleared |-> view.cleared]
    OBVIOUS
  <2> HIDE DEF view, latest
  <2>3. /\ views' = [q \in People |-> views'[q]] /\ \A q \in People \ {p} : views'[q] = views[q]
        /\ views'[p] = view
    BY <1>1, <2>1 DEF ChatShape
  <2>4. \A q \in People : views'[q] = [read |-> views'[q].read, cleared |-> views'[q].cleared]
    BY <1>1, <2>2, <2>3 DEF ChatShape
  <2>5. posts' = [i \in DOMAIN posts |-> posts'[i]]
        /\ \A i \in DOMAIN posts : posts'[i] \in {posts[i], [posts[i] EXCEPT !.read = TRUE]}
    BY <2>1
  <2>6. PostsSound(posts', lastId', chatTime') /\ RowsEvolve
    BY <1>2, <2>5, OnlyRead
  <2>7. DOMAIN Blank.shown = {}
    BY DEF Blank
  <2> HIDE DEF Blank
  <2>8. ChatStep(p) /\ requests'[p].kind # "read"
    <3>1. SettledAs(p, Blank)
      BY <1>1, <1>3, <2>1, <2>3, <2>4, <2>6, <2>7 DEF SettledAs, ChatShape
    <3>2. QED BY <3>1, SettledStep
  <2>9. pages'[p] = Blank
    BY <1>1, <2>1 DEF ChatShape
  <2>10. PageSound(p, pages[p], posts, views[p].cleared, marks[p].hidden, chatTime, lastId)'
    BY <2>8, <2>9, BlankSound
  <2>11. QED BY <2>8, <2>10, ChatStepKeeps
<1>7. QED BY <1>4, <1>5, <1>6 DEF Act

-----------------------------------------------------------------------------
\* Whatever rows a read asks for, it gets visible ones.
LEMMA RowsVisible ==
  ASSUME NEW p \in People, NEW mode \in {"initial", "newer", "older", "around"}, NEW rows \in RowSets(p, mode)
  PROVE  rows \subseteq Visible(p)
<1>1. \A S, n : Newest(S, n) \subseteq S /\ Oldest(S, n) \subseteq S
  BY DEF Newest, Oldest
<1>2. \A S, i, n : Preceding(S, i, n) \subseteq S /\ Following(S, i, n) \subseteq S
  BY <1>1 DEF Preceding, Following
<1>3. FirstPage(p) \subseteq Visible(p)
  BY <1>1 DEF FirstPage
<1>4. \A i \in Visible(p) : Around(p, i) \subseteq Visible(p)
  BY <1>2 DEF Around
<1>5. CASE mode = "initial"
  BY <1>3, <1>5 DEF RowSets
<1>6. CASE mode = "newer"
  <2>1. rows = IF pages[p].last = 0 THEN FirstPage(p) ELSE Following(Visible(p), pages[p].last, PageSize)
    BY <1>6 DEF RowSets
  <2>2. QED BY <1>2, <1>3, <2>1
<1>7. CASE mode = "older"
  <2>1. rows = FirstPage(p) \/ \E i : rows = Preceding(Visible(p), i, PageSize)
    BY <1>7 DEF RowSets
  <2>2. QED BY <1>2, <1>3, <2>1
<1>8. CASE mode = "around"
  <2>1. PICK i \in Visible(p) : rows = Around(p, i)
    BY <1>8 DEF RowSets
  <2>2. QED BY <1>4, <2>1
<1>9. QED BY <1>5, <1>6, <1>7, <1>8

\* What the page shows after an answer: what it showed, and what came.
LEMMA PageAfterIs ==
  ASSUME NEW p \in People, NEW mode, NEW rows, NEW began
  PROVE  LET page == PageAfter(p, mode, rows, began) IN
    /\ DOMAIN page = {"shown", "last", "cursor"} /\ page.cursor = Highest({began}, pages[p].cursor)
    /\ page.shown = [i \in DOMAIN page.shown |-> page.shown[i]]
    /\ \A i \in DOMAIN page.shown : i \in rows \/ i \in DOMAIN pages[p].shown
    /\ \A i \in DOMAIN page.shown : i \in rows /\ Recalled(requests[p].posts[i]) => page.shown[i]
    /\ \A i \in DOMAIN page.shown : i \notin rows /\ pages[p].shown[i] => page.shown[i]
    /\ \A i \in DOMAIN page.shown : i \in RecalledRows(p, began) => page.shown[i]
<1> DEFINE page == PageAfter(p, mode, rows, began)
           fresh == mode \in {"initial", "around"} \/ (mode = "newer" /\ pages[p].last = 0)
           added == IF fresh THEN Shown(p, rows) ELSE Overlaid(pages[p].shown, Shown(p, rows))
           upto == IF fresh THEN Highest(rows, 0)
                   ELSE IF mode = "newer" THEN Highest(rows, pages[p].last) ELSE pages[p].last
           taken == RecalledRows(p, began)
           shown == [i \in DOMAIN added |-> added[i] \/ i \in taken]
           cursor == Highest({began}, pages[p].cursor)
<1>1. page = [shown |-> shown, last |-> upto, cursor |-> cursor]
  BY DEF PageAfter
<1>2. DOMAIN page = {"shown", "last", "cursor"} /\ page.cursor = cursor /\ page.shown = shown
  <2> HIDE DEF page, shown, upto, cursor
  <2>1. QED BY <1>1
<1>3. DOMAIN Shown(p, rows) = rows /\ \A i \in rows : Recalled(requests[p].posts[i]) => Shown(p, rows)[i]
  BY DEF Shown
<1>4. /\ \A i \in DOMAIN added : i \in rows \/ i \in DOMAIN pages[p].shown
      /\ \A i \in DOMAIN added : i \in rows /\ Recalled(requests[p].posts[i]) => added[i]
      /\ \A i \in DOMAIN added : i \notin rows /\ pages[p].shown[i] => added[i]
  <2>1. CASE fresh
    <3>1. added = Shown(p, rows)
      BY <2>1
    <3>2. QED BY <1>3, <3>1
  <2>2. CASE ~ fresh
    <3>1. added = Overlaid(pages[p].shown, Shown(p, rows))
      BY <2>2
    <3>2. DOMAIN added = DOMAIN pages[p].shown \cup rows
          /\ \A i \in DOMAIN added : added[i] = IF i \in rows THEN Shown(p, rows)[i] ELSE pages[p].shown[i]
      BY <1>3, <3>1 DEF Overlaid
    <3> HIDE DEF added, fresh
    <3>3. QED BY <1>3, <3>2
  <2>3. QED BY <2>1, <2>2
<1> HIDE DEF added, fresh, taken
<1>5. DOMAIN shown = DOMAIN added /\ shown = [i \in DOMAIN shown |-> shown[i]]
      /\ \A i \in DOMAIN added : (added[i] => shown[i]) /\ (i \in taken => shown[i])
  OBVIOUS
<1> HIDE DEF shown, cursor, page
<1>6. QED BY <1>2, <1>4, <1>5 DEF page, taken, cursor

\* The end of a read.
LEMMA FinishReadKeeps ==
  ASSUME ChatInv, NEW p \in People, FinishRead(p)
  PROVE  ChatInv'
<1> DEFINE read == requests[p]
<1>1. ChatShape /\ chatTime \in Nat /\ lastId \in Nat /\ PostsSound(posts, lastId, chatTime)
      /\ PageShape(pages[p], lastId) /\ pages[p].cursor \in Nat /\ pages[p].cursor <= chatTime
      /\ PageSound(p, pages[p], posts, views[p].cleared, marks[p].hidden, chatTime, lastId)
  BY PageWas DEF ChatInv, ChatShape
<1>2. read.kind = "read" /\ requests' = [requests EXCEPT ![p] = NoRequest]
      /\ UNCHANGED <<chatTime, lastId, marks>>
  BY DEF FinishRead, EndRequest
<1>3. Settles(p)
  BY <1>2 DEF Settles
<1>4. ReadSound(p, read, pages[p], posts, views[p].cleared, marks[p].hidden, lastId)
      /\ read.at \in Nat \ {0} /\ read.at <= chatTime /\ chatTime <= read.at + Longest
  <2>1. read # NoRequest
    BY <1>2 DEF NoRequest
  <2>2. QED BY <1>2, <2>1 DEF ChatInv, PersonSound, Timely
<1>5. PICK mode \in {"initial", "newer", "older", "around"}, began \in read.at .. chatTime :
    \E rows \in RowSets(p, mode) :
    /\ posts' = IF Delivered(p, rows) = {} THEN posts ELSE NowRead(p, rows)
    /\ views' = IF Delivered(p, rows) = {} THEN views
                ELSE [views EXCEPT ![p].read = ReadThrough(p, rows)]
    /\ pages' \in {pages, [pages EXCEPT ![p] = PageAfter(p, mode, rows, began)]}
  BY DEF FinishRead
<1>6. PICK rows \in RowSets(p, mode) :
    /\ posts' = IF Delivered(p, rows) = {} THEN posts ELSE NowRead(p, rows)
    /\ views' = IF Delivered(p, rows) = {} THEN views
                ELSE [views EXCEPT ![p].read = ReadThrough(p, rows)]
    /\ pages' \in {pages, [pages EXCEPT ![p] = PageAfter(p, mode, rows, began)]}
  BY <1>5
<1> DEFINE page == PageAfter(p, mode, rows, began)
<1>7. rows \subseteq Visible(p)
  BY RowsVisible
<1>8. \A i \in Visible(p) : /\ i \in DOMAIN read.posts /\ i > views[p].cleared
                            /\ i \notin read.hidden /\ i \notin marks[p].hidden
  BY <1>4 DEF Visible, ReadSound
<1>9. /\ DOMAIN page = {"shown", "last", "cursor"} /\ page.cursor = Highest({began}, pages[p].cursor)
      /\ page.shown = [i \in DOMAIN page.shown |-> page.shown[i]]
      /\ \A i \in DOMAIN page.shown : i \in rows \/ i \in DOMAIN pages[p].shown
      /\ \A i \in DOMAIN page.shown : i \in rows /\ Recalled(read.posts[i]) => page.shown[i]
      /\ \A i \in DOMAIN page.shown : i \notin rows /\ pages[p].shown[i] => page.shown[i]
      /\ \A i \in DOMAIN page.shown : i \in RecalledRows(p, began) => page.shown[i]
  BY PageAfterIs
<1>10. posts' = [i \in DOMAIN posts |-> posts'[i]]
       /\ \A i \in DOMAIN posts : posts'[i] \in {posts[i], [posts[i] EXCEPT !.read = TRUE]}
  <2>1. CASE posts' = posts
    BY <1>1, <2>1 DEF PostsSound
  <2>2. CASE posts' = NowRead(p, rows)
    BY <2>2 DEF NowRead
  <2>3. QED BY <1>6, <2>1, <2>2
<1>11. PostsSound(posts', lastId', chatTime') /\ RowsEvolve
  BY <1>2, <1>10, OnlyRead
<1>12. views' = [q \in People |-> views'[q]] /\ \A q \in People : views'[q].cleared = views[q].cleared
         /\ views'[q] = [read |-> views'[q].read, cleared |-> views'[q].cleared]
  <2>1. CASE views' = views
    BY <1>1, <2>1 DEF ChatShape
  <2>2. CASE views' = [views EXCEPT ![p].read = ReadThrough(p, rows)]
    <3> DEFINE last == ReadThrough(p, rows)
    <3>1. views[p] = [read |-> views[p].read, cleared |-> views[p].cleared]
      BY <1>1 DEF ChatShape
    <3>2. [views[p] EXCEPT !.read = last] = [read |-> last, cleared |-> views[p].cleared]
      BY <3>1
    <3>3. views' = [views EXCEPT ![p] = [read |-> last, cleared |-> views[p].cleared]]
      BY <2>2, <3>2
    <3> HIDE DEF last
    <3>4. QED BY <1>1, <3>3 DEF ChatShape
  <2>3. QED BY <1>6, <2>1, <2>2
<1>13. \A i \in DOMAIN page.shown : i \in DOMAIN pages[p].shown \/ i \in DOMAIN read.posts
  BY <1>7, <1>8, <1>9
<1> HIDE DEF page
<1>14. ChatStep(p) /\ pages'[p] \in {pages[p], page} /\ requests'[p].kind # "read"
  <2>1. pages' \in {pages, [pages EXCEPT ![p] = page]}
    BY <1>6 DEF page
  <2>2. SettledAs(p, page)
    BY <1>1, <1>2, <1>3, <1>11, <1>12, <1>13, <2>1 DEF SettledAs, ChatShape
  <2>3. QED BY <2>2, SettledStep
<1>15. CASE pages'[p] = pages[p]
  <2>1. PageSound(p, pages[p], posts, views[p].cleared, marks[p].hidden, chatTime, lastId)'
    BY <1>1, <1>2, <1>12, <1>14, <1>15, PageStays
  <2>2. QED BY <1>14, <2>1, ChatStepKeeps
<1>16. CASE pages'[p] = page
  <2>1. began \in Nat \ {0} /\ began <= chatTime /\ began >= read.at
    BY <1>1, <1>4
  <2>2. page.cursor \in Nat /\ page.cursor <= chatTime /\ page.cursor # 0
    <3>1. Highest({began}, pages[p].cursor) \in {began, pages[p].cursor}
          /\ Highest({began}, pages[p].cursor) >= began
      BY <1>1, <2>1, HighestOfTwo
    <3>2. QED BY <1>1, <1>9, <2>1, <3>1
  <2>3. PageShape(page, lastId)
    <3>1. DOMAIN page.shown \subseteq 1 .. lastId
      BY <1>1, <1>4, <1>13 DEF PageShape, ReadSound
    <3>2. QED BY <1>9, <3>1 DEF PageShape
  <2>4. ASSUME NEW i \in DOMAIN page.shown, i \in DOMAIN posts, posts[i].from # p
        PROVE  /\ i > views[p].cleared /\ i \notin marks[p].hidden /\ i \in DOMAIN read.posts
               /\ Told(page, i, posts[i], chatTime)
    <3>1. i \in rows \/ (i \notin rows /\ i \in DOMAIN pages[p].shown)
      BY <1>9
    <3>2. i > views[p].cleared /\ i \notin marks[p].hidden /\ i \notin read.hidden /\ i \in DOMAIN read.posts
      BY <1>1, <1>4, <1>7, <1>8, <2>4, <3>1 DEF PageSound, ReadSound
    <3> DEFINE post == posts[i]
               copy == read.posts[i]
    <3>3. /\ copy.at = post.at /\ post.recalled \in Int /\ copy.recalled \in Int /\ copy.recalled <= read.at
          /\ post.recalled = copy.recalled \/ post.recalled >= read.at - Longest
      BY <1>1, <1>4, <2>4, <3>2 DEF ReadSound, PostsSound
    <3> HIDE DEF post, copy
    <3>4. CASE post.recalled >= read.at - Longest
      <4>1. post.recalled > page.cursor - Overlap
        BY <1>1, <1>4, <2>2, <3>3, <3>4, ChatBounds
      <4>2. QED BY <3>2, <4>1 DEF Told, post
    <3>5. CASE post.recalled = copy.recalled /\ post.recalled # 0 /\ i \in rows
      <4>1. Recalled(read.posts[i])
        BY <3>5 DEF Recalled, copy
      <4>2. page.shown[i]
        BY <1>9, <2>4, <3>5, <4>1
      <4>3. QED BY <3>2, <4>2 DEF Told, post
    <3>6. CASE post.recalled = copy.recalled /\ post.recalled # 0 /\ i \notin rows
      <4>1. i \in DOMAIN pages[p].shown
        BY <3>1, <3>6
      <4>2. Told(pages[p], i, posts[i], chatTime) /\ pages[p].cursor # 0
        BY <1>1, <2>4, <4>1 DEF PageSound
      <4>3. CASE pages[p].shown[i]
        <5>1. page.shown[i]
          BY <1>9, <2>4, <3>6, <4>3
        <5>2. QED BY <3>2, <5>1 DEF Told
      <4>4. CASE post.recalled > pages[p].cursor - Overlap /\ post.at > chatTime - Retention
        <5>1. i \in Visible(p)
          BY <1>4, <3>2, <3>3, <4>4 DEF Visible, copy, ReadSound
        <5>2. /\ copy.recalled # 0 /\ FromOverlap(p) < copy.recalled /\ copy.recalled <= began
          BY <1>1, <1>4, <2>1, <3>3, <3>6, <4>4, ChatBounds DEF FromOverlap
        <5>3. i \in RecalledRows(p, began)
          BY <4>2, <5>1, <5>2 DEF RecalledRows, copy
        <5>4. page.shown[i]
          BY <1>9, <2>4, <5>3
        <5>5. QED BY <3>2, <5>4 DEF Told
      <4>5. CASE post.at <= chatTime - Retention
        BY <3>2, <4>5 DEF Told, post
      <4>6. post.at \in Int
        BY <1>1, <2>4 DEF PostsSound, post
      <4>7. post.at > chatTime - Retention \/ post.at <= chatTime - Retention
        BY <1>1, <4>6, ChatBounds
      <4>8. QED BY <3>6, <4>2, <4>3, <4>4, <4>5, <4>7 DEF Told, post
    <3>7. CASE post.recalled = 0
      BY <3>2, <3>7 DEF Told, post
    <3>8. QED BY <3>3, <3>4, <3>5, <3>6, <3>7
  <2>5. \A i \in DOMAIN posts : /\ posts'[i].from = posts[i].from
                               /\ posts'[i].at = posts[i].at /\ posts'[i].recalled = posts[i].recalled
    <3>1. ASSUME NEW i \in DOMAIN posts
          PROVE  /\ posts'[i].from = posts[i].from
                 /\ posts'[i].at = posts[i].at /\ posts'[i].recalled = posts[i].recalled
      <4>1. DOMAIN posts[i] = {"from", "at", "recalled", "read"}
        BY <1>1 DEF PostsSound, PostFields
      <4>2. posts'[i] \in {posts[i], [posts[i] EXCEPT !.read = TRUE]}
        BY <1>10
      <4>3. QED BY <4>1, <4>2
    <3>2. QED BY <3>1
  <2>6. DOMAIN posts' = DOMAIN posts
    BY <1>10
  <2>7. \A i \in DOMAIN posts : Told(page, i, posts[i], chatTime) => Told(page, i, posts'[i], chatTime)
    BY <2>5 DEF Told
  <2>8. PageSound(p, page, posts', views'[p].cleared, marks'[p].hidden, chatTime', lastId')
    BY <1>2, <1>12, <2>2, <2>3, <2>4, <2>5, <2>6, <2>7 DEF PageSound
  <2>9. PageSound(p, pages[p], posts, views[p].cleared, marks[p].hidden, chatTime, lastId)'
    BY <1>16, <2>8
  <2>10. QED BY <1>14, <2>9, ChatStepKeeps
<1>17. QED BY <1>14, <1>15, <1>16

\* Time passes, or old messages are deleted.
LEMMA CleanUpKeeps ==
  ASSUME ChatInv, CleanUp
  PROVE  ChatInv'
<1> DEFINE expired == {i \in DOMAIN posts : posts[i].at <= chatTime - Retention}
<1>1. ChatShape /\ chatTime \in Nat \ {0} /\ lastId \in Nat
  BY DEF ChatInv, ChatShape
<1>2. /\ posts' = [i \in DOMAIN posts \ expired |-> posts[i]]
      /\ marks' = [q \in People |-> [hidden |-> marks[q].hidden \ expired, pinned |-> marks[q].pinned \ expired]]
      /\ UNCHANGED <<chatTime, lastId, views, requests, pages>>
  BY DEF CleanUp, Without
<1> HIDE DEF expired
<1>3. PostsSound(posts', lastId', chatTime') /\ RowsEvolve
  <2>1. chatTime' \in Nat /\ chatTime' >= chatTime /\ lastId' \in Nat /\ lastId' >= lastId
    BY <1>1, <1>2
  <2>2. posts' = [i \in DOMAIN posts \ expired |-> posts[i]]
    BY <1>2
  <2>3. QED BY <2>1, <2>2, OnlyLess
<1>4. /\ marks' = [q \in People |-> marks'[q]] /\ \A q \in People : marks'[q].hidden \subseteq marks[q].hidden
         /\ marks'[q] = [hidden |-> marks'[q].hidden, pinned |-> marks'[q].pinned]
  BY <1>2
<1>5. PICK x : x \notin People
  BY NoSetContainsEverything
<1>6. ShapeKept /\ ClocksMove
  <2>1. ClocksMove
    BY <1>1, <1>2 DEF ClocksMove
  <2>2. views' = views /\ requests' = requests /\ pages' = pages
    BY <1>2
  <2>3. \A q \in People : views'[q] = [read |-> views'[q].read, cleared |-> views'[q].cleared]
    BY <1>1, <2>2 DEF ChatShape
  <2>4. ShapeKept
    BY <1>1, <1>4, <2>2, <2>3 DEF ShapeKept, ChatShape
  <2>5. QED BY <2>1, <2>4
<1>7. \A q \in People : Timely(requests'[q], chatTime')
  BY <1>2 DEF ChatInv, PersonSound
<1>8. ChatStep(x)
  BY <1>2, <1>3, <1>4, <1>5, <1>6, <1>7 DEF ChatStep, OthersStay
<1>9. QED BY <1>5, <1>8, ChatStepKeeps
\* Time passes while every request keeps to its limit.
LEMMA ChatTicksKeeps ==
  ASSUME ChatInv, ChatTicks
  PROVE  ChatInv'
<1>1. ChatShape /\ chatTime \in Nat \ {0} /\ lastId \in Nat
  BY DEF ChatInv, ChatShape
<1>2. /\ chatTime' = chatTime + 1 /\ UNCHANGED <<lastId, posts, views, marks, requests, pages>>
      /\ \A p \in People : requests[p] # NoRequest => chatTime < requests[p].at + Longest
  BY DEF ChatTicks
<1>3. PostsSound(posts', lastId', chatTime') /\ RowsEvolve
  BY <1>1, <1>2, SamePosts
<1>4. PICK x : x \notin People
  BY NoSetContainsEverything
<1>5. ShapeKept /\ ClocksMove
  BY <1>1, <1>2 DEF ShapeKept, ClocksMove, ChatShape
<1>6. ASSUME NEW q \in People PROVE Timely(requests'[q], chatTime')
  <2>1. Timely(requests[q], chatTime)
    BY DEF ChatInv, PersonSound
  <2>2. QED BY <1>1, <1>2, <2>1, ChatBounds DEF Timely
<1>7. ChatStep(x)
  BY <1>2, <1>3, <1>4, <1>5, <1>6 DEF ChatStep, OthersStay
<1>8. QED BY <1>4, <1>7, ChatStepKeeps

-----------------------------------------------------------------------------
\* The invariant holds at the start.
LEMMA ChatStarts == ChatInit => ChatInv
<1> SUFFICES ASSUME ChatInit PROVE ChatInv
  OBVIOUS
<1> USE DEF ChatInit
<1>1. NoRequest.kind = "none" /\ DOMAIN Blank = {"shown", "last", "cursor"} /\ Blank.shown = [i \in {} |-> FALSE]
      /\ Blank.cursor = 0
  BY DEF NoRequest, Blank
<1>2. ChatShape
  BY DEF ChatShape, PostsSound
<1>3. ASSUME NEW p \in People PROVE PersonSound(p)
  <2>1. DOMAIN Blank.shown = {}
    BY <1>1
  <2>2. pages[p] = Blank /\ requests[p] = NoRequest
    OBVIOUS
  <2> HIDE DEF Blank
  <2>3. PageSound(p, Blank, posts, views[p].cleared, marks[p].hidden, chatTime, lastId)
    <3>1. chatTime \in Nat /\ 0 <= chatTime /\ Blank.cursor \in Nat
      BY <1>1
    <3>2. PageShape(Blank, lastId)
      BY <1>1, <2>1 DEF PageShape
    <3>3. QED BY <1>1, <2>1, <3>1, <3>2 DEF PageSound
  <2>4. QED BY <1>1, <2>2, <2>3 DEF PersonSound, Timely
<1>4. QED BY <1>2, <1>3 DEF ChatInv

\* Every step keeps it.
LEMMA ChatKept == ChatInv /\ [ChatNext]_chatVars => ChatInv'
<1> SUFFICES ASSUME ChatInv, [ChatNext]_chatVars PROVE ChatInv'
  OBVIOUS
<1>1. ASSUME NEW p \in People, StartRead(p) \/ StartSend(p) \/ StartRecall(p)
      PROVE  ChatInv'
  BY <1>1, StartReadKeeps, StartSendKeeps, StartRecallKeeps
<1>2. ASSUME NEW p \in People, FinishRead(p) \/ FinishSend(p) \/ FinishRecall(p)
      PROVE  ChatInv'
  BY <1>2, FinishReadKeeps, FinishSendKeeps, FinishRecallKeeps
<1>3. ASSUME NEW p \in People, OpenPage(p) \/ Act(p)
      PROVE  ChatInv'
  BY <1>3, OpenPageKeeps, ActKeeps
<1>4. CASE CleanUp
  BY <1>4, CleanUpKeeps
<1>5. CASE ChatTicks
  BY <1>5, ChatTicksKeeps
<1>6. CASE UNCHANGED chatVars
  BY <1>6 DEF chatVars, ChatInv, ChatShape, PersonSound, SendSound
<1>7. QED BY <1>1, <1>2, <1>3, <1>4, <1>5, <1>6 DEF ChatNext

\* A page that a recall has not reached yet has a cursor within the overlap of it.
LEMMA RecallsFollow == ChatInv => RecallsReach
<1> SUFFICES ASSUME ChatInv, NEW p \in People, NEW i \in DOMAIN pages[p].shown,
                    i \in Theirs(p), Recalled(posts[i]), posts[i].at > chatTime - Retention,
                    posts[i].recalled <= pages[p].cursor - Overlap
             PROVE  pages[p].shown[i]
  BY DEF RecallsReach
<1>1. i \in DOMAIN posts /\ posts[i].from # p
  BY DEF Theirs
<1>2. Told(pages[p], i, posts[i], chatTime)
  BY <1>1, PageWas DEF PageSound
<1>3. /\ posts[i].at \in Int /\ posts[i].recalled \in Int /\ pages[p].cursor \in Int /\ chatTime \in Int
      /\ Overlap \in Int /\ Retention \in Int
  BY <1>1, PageWas, ChatBounds DEF ChatInv, ChatShape, PostsSound
<1>4. ~ (posts[i].recalled > pages[p].cursor - Overlap) /\ ~ (posts[i].at <= chatTime - Retention)
  BY <1>3
<1>5. QED BY <1>2, <1>4 DEF Told, Recalled

\* RecallsReach, for all ids, pages and times: an overlap of more than two requests is
\* enough for a page to see every recall, whenever it is committed beside its reads
\* (chat_messages_api, recall_chat_message, loadChatMessages).
THEOREM RecallsAlwaysReach == ChatSpec => []RecallsReach
<1>1. QED BY ChatStarts, ChatKept, RecallsFollow, PTL DEF ChatSpec
=============================================================================
