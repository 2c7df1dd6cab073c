------------------------------- MODULE Boards -------------------------------
(***************************************************************************)
(* The boards of the first page (app.py): a lane quotes the majors on every    *)
(* venue, another analyses them, and a ranking is made by its own lane and by   *)
(* requests that find it old. A price is named by the moment it was read; which  *)
(* venue is the cheapest and what a ranking says are left out.                   *)
(***************************************************************************)
EXTENDS Integers, FiniteSets

CONSTANTS Majors, Venues, MainVenue,
          StaleAfter,      \* three refresh intervals
          RankingLasts,    \* MOMENTUM_SCORE_CACHE_SECONDS, OI_MARKET_CAP_CACHE_SECONDS
          LongestQuote,    \* the time limit of a quote
          MaxBoard         \* bound

\* Two caches kept the same way; an instance of the board has one of them.
Rankings == {"momentum", "oi_market_cap"}

ASSUME BoardAssumption ==
  /\ MainVenue \in Venues /\ LongestQuote \in Nat /\ StaleAfter \in Nat /\ LongestQuote <= StaleAfter

VARIABLES boardTime,
          board,       \* DASHBOARD_OPPORTUNITY_CACHE: the prices of each row and its date
          round,       \* the running round of quotes
          analysis,    \* MAJOR_MARKET_CACHE: the price each analysis was made with
          ranking,     \* MOMENTUM_SCORE_CACHE, OI_MARKET_CAP_CACHE: their date, content, error
          ranker       \* who holds the lock of the ranking, since when

boardVars == <<boardTime, board, round, analysis, ranking, ranker>>

NotQuoting == [since |-> -1]
NoRanker == [since |-> -1]
Unquoted == [v \in {} |-> 0]
BoardInit ==
  /\ boardTime = 1 /\ board = [m \in {} |-> 0] /\ round = NotQuoting /\ analysis = [m \in {} |-> 0]
  /\ \E r \in Rankings : ranking = [of |-> r, date |-> 0, items |-> 0, error |-> FALSE]
  /\ ranker = NoRanker

Earliest(S) == CHOOSE t \in S : \A u \in S : t <= u
TimesIn(prices) == {prices[v] : v \in DOMAIN prices}
Row(prices) == [prices |-> prices, date |-> Earliest(TimesIn(prices))]

\* fetch_dashboard_symbol_quotes: the venues of a major answer at once or not at all.
StartRound == /\ round = NotQuoting /\ round' = [since |-> boardTime, got |-> [m \in Majors |-> Unquoted]]
              /\ UNCHANGED <<boardTime, board, analysis, ranking, ranker>>
Quote(m, v) ==
  /\ round # NotQuoting /\ v \notin DOMAIN round.got[m]
  /\ round' = [round EXCEPT !.got[m] = [w \in DOMAIN @ \cup {v} |-> IF w = v THEN boardTime ELSE @[w]]]
  /\ UNCHANGED <<boardTime, board, analysis, ranking, ranker>>

\* refresh_dashboard_opportunities: a row is of one round; a major without any price keeps
\* the row it had, with its date.
Completed(m) == Row([v \in DOMAIN round.got[m] \cup DOMAIN board[m].prices |->
                       IF v \in DOMAIN round.got[m] THEN round.got[m][v] ELSE board[m].prices[v]])
Patched(m) == IF m \in DOMAIN board
              THEN [Completed(m) EXCEPT !.date = Earliest(TimesIn(round.got[m]))]
              ELSE Row(round.got[m])
RowOf(m) == Row(round.got[m])
EndRound ==
  LET quoted == {m \in Majors : round.got[m] # Unquoted}
  IN /\ round # NotQuoting /\ round' = NotQuoting
     /\ board' = [m \in quoted \cup DOMAIN board |-> IF m \in quoted THEN RowOf(m) ELSE board[m]]
     /\ UNCHANGED <<boardTime, analysis, ranking, ranker>>

\* fetch_major_market_overview: what fails is missing from the next generation.
Analyse ==
  /\ \E done \in SUBSET Majors \ {{}} : analysis' = [m \in done |-> boardTime]
  /\ UNCHANGED <<boardTime, board, round, ranking, ranker>>

\* load_momentum_scores, load_open_interest_market_cap_opportunities: the lane forces them,
\* a request does only when they are old; who finds the lock taken goes on with what is
\* there. A failure dates the ranking too, and keeps its content; only the ranking by open
\* interest tells of it, also when a source failed and the other answered. Without its
\* candidates a ranking ends as it was.
OldRanking == ranking.date = 0 \/ boardTime - ranking.date >= RankingLasts
StartRanking ==
  /\ ranker = NoRanker /\ (\E force \in BOOLEAN : force \/ OldRanking)
  /\ ranker' = [since |-> boardTime]
  /\ UNCHANGED <<boardTime, board, round, analysis, ranking>>
EndRanking ==
  /\ ranker # NoRanker /\ ranker' = NoRanker
  /\ \/ UNCHANGED ranking
     \/ \E found, failed \in BOOLEAN :
          /\ found \/ failed
          /\ ranking' = [ranking EXCEPT !.date = ranker.since,
                                        !.items = IF found THEN ranker.since ELSE @,
                                        !.error = failed /\ ranking.of = "oi_market_cap"]
  /\ UNCHANGED <<boardTime, board, round, analysis>>

BoardTicks == /\ boardTime < MaxBoard /\ boardTime' = boardTime + 1
              /\ round # NotQuoting => boardTime < round.since + LongestQuote
              /\ UNCHANGED <<board, round, analysis, ranking, ranker>>
BoardNext == \/ StartRound \/ (\E m \in Majors, v \in Venues : Quote(m, v)) \/ EndRound
             \/ Analyse \/ StartRanking \/ EndRanking \/ BoardTicks
BoardSpec == BoardInit /\ [][BoardNext]_boardVars

-----------------------------------------------------------------------------
\* live_dashboard_opportunities, live_dashboard_majors, as a request finds them.
Stale(m) == boardTime - board[m].date > StaleAfter
Priced(m) == m \in DOMAIN board /\ MainVenue \in DOMAIN board[m].prices
QuoteStale(m) == ~ Priced(m) \/ boardTime - board[m].prices[MainVenue] > StaleAfter

\* Whatever lanes fail or lag, a row compares prices of one round only; one that is not
\* marked as stale shows no price older than that, and is not marked so among the majors,
\* which judge it by its main price; a ranking is never dated before what it shows, and
\* the one by open interest says so when what it shows is older than its date.
BoardIsHonest ==
  /\ \A m \in DOMAIN board : \A v, w \in DOMAIN board[m].prices :
       board[m].prices[v] - board[m].prices[w] <= LongestQuote
  /\ \A m \in DOMAIN board : ~ Stale(m) => \A t \in TimesIn(board[m].prices) : boardTime - t <= StaleAfter
  /\ \A m \in Majors : Priced(m) /\ ~ Stale(m) => ~ QuoteStale(m)
  /\ ranking.items <= ranking.date
  /\ ranking.of = "oi_market_cap" /\ ranking.items < ranking.date => ranking.error
=============================================================================
