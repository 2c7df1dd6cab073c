------------------------------ MODULE MCServices ------------------------------
(* TLC instance: the services of the background and of the pages, each alone.    *)
EXTENDS PulseTrack, Payloads, Transport, Snapshots, FundingSync, FundingAlerts, Chat,
        Accounts, MCThoughtPush, ThoughtHorizon, TrendScans, Boards, Basis, Transfers

CONSTANTS p1, p2, s1, m, up, off
VARIABLE subject

\* Pulses: one scope, readings within, at and beyond each limit, at any half second.
OneScope == [p \in Pulses |-> s1]
Near == {0, 3, 5, 10}
HalfSeconds == <<3, 4, 5>>
ThreeLimits == <<5, 7, 10>>

\* Payloads: both threads ask for the books, one also for what is kept a while.
TwoOf == [c \in Callers |-> IF c = "spot" THEN Urls ELSE {"books"}]
Keeping == [u \in Urls |-> IF u = "books" THEN 0 ELSE 1]

\* Chat: one account writes and recalls, the other reads and acts on what it reads.
Halves == [p \in People |-> IF p = "alice" THEN {"send", "recall"} ELSE {"read", "act"}]
KindsOf == [b \in Browsers |-> IF b = "phone" THEN "mobile" ELSE "desktop"]

\* Bases beyond, at and between the thresholds, on both sides.
Few == {-6, -5, 0, 4, 5, 6}
Two == <<"gate", "bitget">>

-----------------------------------------------------------------------------
Subjects == {"pulses", "payloads", "transport", "snapshots", "sync", "reminders", "chat",
             "accounts", "invitations", "thoughts", "horizon", "scans", "boards", "basis",
             "transfers"}

\* What an instance may begin with counts only for its subject.
ServicesInit ==
  /\ subject \in Subjects
  /\ Init /\ PayloadInit /\ TransportInit /\ SnapshotInit /\ FundingInit /\ AlertInit
  /\ ChatInit /\ AccountInit /\ ThoughtInit /\ HorizonInit /\ ScanInit /\ BoardInit
  /\ BasisInit /\ TransferInit
  /\ subject # "snapshots" => aliasTable = Seeded
  /\ \A k \in Contracts : published[k] = IF subject = "sync" THEN Settlements(FirstTime) ELSE {}
  /\ subject # "thoughts" => \A s \in Symbols : classOf[s] = "plain"
  /\ subject # "boards" => ranking.of = "momentum"
  /\ subject # "basis" => lane = "watch"
  /\ subject # "transfers" => interval = 0

\* Registrations touch nothing of a session, nor the reverse: each goes alone.
Alone(name, Step, theirs) == IF subject = name THEN Step ELSE UNCHANGED theirs
ServicesNext ==
  /\ Alone("pulses", Next, vars)
  /\ Alone("payloads", PayloadNext, payloadVars)
  /\ Alone("transport", TransportNext, transportVars)
  /\ Alone("snapshots", SnapshotNext, snapshotVars)
  /\ Alone("sync", FundingNext, fundingVars)
  /\ Alone("reminders", AlertNext, alertVars)
  /\ Alone("chat", ChatNext, chatVars)
  /\ CASE subject = "accounts"    -> UNCHANGED <<invites, registering>> /\ AccountNext
       [] subject = "invitations" -> UNCHANGED <<sessionVars, enrolling, editing, warned>> /\ AccountNext
       [] OTHER                   -> UNCHANGED accountVars
  /\ Alone("thoughts", ThoughtNext, thoughtVars)
  /\ Alone("horizon", Scan, horizonVars)
  /\ Alone("scans", ScanNext, scanVars)
  /\ Alone("boards", BoardNext, boardVars)
  /\ Alone("basis", BasisNext, basisVars)
  /\ Alone("transfers", TransferNext, transferVars)
  /\ subject' = subject
Services ==
  ServicesInit /\ [][ServicesNext]_<<vars, payloadVars, transportVars, snapshotVars, fundingVars,
    alertVars, chatVars, accountVars, thoughtVars, horizonVars, scanVars, boardVars, basisVars,
    transferVars, subject>>
===============================================================================
