----------------------------- MODULE TrendScans -----------------------------
(***************************************************************************)
(* The two scans for trends (app.py): the thread that scans every half hour    *)
(* and pushes a strong stage once, and the daily one, which rewrites the same   *)
(* rows and sends the report. What the candles show is an input; a row is what   *)
(* decides a push: the symbol, whether it is strong, its stage. The web site      *)
(* runs in one process and may restart at any time.                              *)
(***************************************************************************)
EXTENDS Integers, FiniteSets

CONSTANTS Watched, Stages,
          Days, MaxDoubts, MaxPushes, MaxScanRestarts   \* bounds

ASSUME ScanAssumption == {Days, MaxDoubts, MaxPushes, MaxScanRestarts} \subseteq Nat /\ Days >= 1

VARIABLES day,          \* the date, and whether the time of the report has come
          early,        \* EarlyTrendSignal of the day (its DailyHornSignal rows go with it)
          pushMarks,       \* LarkPushState of both channels
          halfHour,     \* the scan of the half hour
          daily,        \* the daily thread, with LAST_HORN_SCAN_DATE
          told,         \* history: how often each stage and each report arrived
          doubts,       \* history: reports whose answer or mark was lost, or that midnight overtook
          scanRestarts

scanVars == <<day, early, pushMarks, halfHour, daily, told, doubts, scanRestarts>>

NoScan == [at |-> "idle"]
Report(date) == [date |-> date]
MarkOf(date, row) == [date |-> date, symbol |-> row.symbol, stage |-> row.stage]
Times(key) == IF key \in DOMAIN told THEN told[key] ELSE 0
Arrived(keys) == [k \in DOMAIN told \cup keys |-> Times(k) + IF k \in keys THEN 1 ELSE 0]

ScanInit ==
  /\ day = [date |-> 1, due |-> FALSE] /\ early = {} /\ pushMarks = {} /\ doubts = 0 /\ scanRestarts = 0
  /\ halfHour = NoScan /\ daily = [at |-> "idle", last |-> 0] /\ told = [k \in {} |-> 0]

\* classify_early_trend_stage: what one scan finds, at most one row for a symbol.
ScanRows == [symbol : Watched, strong : BOOLEAN, stage : Stages]
Findings == {found \in SUBSET ScanRows : \A a, b \in found : a.symbol = b.symbol => a = b}

-----------------------------------------------------------------------------
\* scan_intraday_early_trends: the rows of the day are replaced in one transaction; what
\* is strong and was not there in this stage is to be pushed.
Fresh(found) == {row \in found : row.strong /\ ~ \E old \in early : /\ old.symbol = row.symbol
                                                                     /\ old.stage = row.stage}
ScanHalfHour ==
  /\ halfHour = NoScan
  /\ \E found \in Findings :
       /\ early' = found
       /\ halfHour' = IF Fresh(found) = {} THEN NoScan ELSE [at |-> "staged", rows |-> Fresh(found)]
  /\ UNCHANGED <<day, pushMarks, daily, told, doubts, scanRestarts>>

\* send_early_trend_stage_push: reserved before it is sent, and not sent again.
AnyRow(date, row) == TRUE
Unsaid(date, row) == MarkOf(date, row) \notin pushMarks
ReserveStages ==
  /\ halfHour.at = "staged" /\ Cardinality(DOMAIN told) < MaxPushes
  /\ LET keys == {MarkOf(day.date, row) : row \in {r \in halfHour.rows : Unsaid(day.date, r)}}
     IN /\ pushMarks' = pushMarks \cup keys
        /\ halfHour' = IF keys = {} THEN NoScan ELSE [at |-> "reserved", keys |-> keys]
  /\ UNCHANGED <<day, early, daily, told, doubts, scanRestarts>>
SendStages ==
  /\ halfHour.at = "reserved" /\ halfHour' = NoScan
  /\ told' \in {told, Arrived(halfHour.keys)}
  /\ UNCHANGED <<day, early, pushMarks, daily, doubts, scanRestarts>>
FailHalfHour == /\ halfHour # NoScan /\ halfHour' = NoScan
                /\ UNCHANGED <<day, early, pushMarks, daily, told, doubts, scanRestarts>>

-----------------------------------------------------------------------------
\* background_daily_horn_scan.
ByMemory(date) == daily.last = date
AlreadyPushed(date) == Report(date) \in pushMarks
StartDaily ==
  /\ daily.at = "idle" /\ day.due /\ daily.last # day.date
  /\ daily' = IF AlreadyPushed(day.date) THEN [daily EXCEPT !.last = day.date]
              ELSE [at |-> "scanning", last |-> daily.last, date |-> day.date]
  /\ UNCHANGED <<day, early, pushMarks, halfHour, told, doubts, scanRestarts>>
\* scan_daily_horn_signals; without a market snapshot it leaves the rows alone.
ScanDaily ==
  /\ daily.at = "scanning" /\ daily' = [daily EXCEPT !.at = "scanned"]
  /\ (early' = early \/ early' \in Findings)
  /\ UNCHANGED <<day, pushMarks, halfHour, told, doubts, scanRestarts>>
\* send_daily_lark_trend_report. Without the answer the day is over for this process.
SendReport ==
  /\ daily.at = "scanned"
  /\ \/ /\ told' = Arrived({Report(day.date)}) /\ UNCHANGED doubts
        /\ daily' = [daily EXCEPT !.at = "sent"]
     \/ /\ told' = Arrived({Report(day.date)}) /\ doubts < MaxDoubts /\ doubts' = doubts + 1
        /\ daily' = [at |-> "idle", last |-> daily.date]
     \/ UNCHANGED <<told, doubts>> /\ daily' = [at |-> "idle", last |-> daily.date]
  /\ UNCHANGED <<day, early, pushMarks, halfHour, scanRestarts>>
\* mark_lark_daily_trend_pushed, with the date the loop began with.
MarkReport ==
  /\ daily.at = "sent" /\ pushMarks' = pushMarks \cup {Report(daily.date)}
  /\ daily' = [at |-> "idle", last |-> daily.date]
  /\ UNCHANGED <<day, early, halfHour, told, doubts, scanRestarts>>
\* An error of the scan ends the round, and the next minute tries again.
FailDaily == /\ daily.at \in {"scanning", "scanned"} /\ daily' = [at |-> "idle", last |-> daily.last]
             /\ UNCHANGED <<day, early, pushMarks, halfHour, told, doubts, scanRestarts>>

ScanRestart ==
  /\ scanRestarts < MaxScanRestarts /\ scanRestarts' = scanRestarts + 1
  /\ halfHour' = NoScan /\ daily' = [at |-> "idle", last |-> 0]
  /\ doubts' = IF daily.at = "sent" THEN doubts + 1 ELSE doubts
  /\ UNCHANGED <<day, early, pushMarks, told>>
NextHour ==
  /\ IF day.due THEN /\ day.date < Days /\ day' = [date |-> day.date + 1, due |-> FALSE] /\ early' = {}
                ELSE day' = [day EXCEPT !.due = TRUE] /\ UNCHANGED early
  /\ doubts' = IF day.due /\ daily.at # "idle" THEN doubts + 1 ELSE doubts
  /\ UNCHANGED <<pushMarks, halfHour, daily, told, scanRestarts>>

ScanNext == \/ ScanHalfHour \/ ReserveStages \/ SendStages \/ FailHalfHour
            \/ StartDaily \/ ScanDaily \/ SendReport \/ MarkReport \/ FailDaily
            \/ ScanRestart \/ NextHour
ScanSpec == ScanInit /\ [][ScanNext]_scanVars

-----------------------------------------------------------------------------
\* A stage of a symbol is told once a day, though the daily scan rewrites the rows that
\* the other compares with, and restarts fall anywhere; a report comes again only where an
\* answer was lost, or its mark, or midnight passed while it was made.
ToldOnce ==
  \A key \in DOMAIN told :
    told[key] <= 1 + (IF key \in {Report(date) : date \in 1 .. Days} THEN doubts ELSE 0)
=============================================================================
