SPECIFICATION Services
CHECK_DEADLOCK FALSE
CONSTANTS
  p1 = p1
  p2 = p2
  s1 = s1
  Pulses = {p1, p2}
  Scopes = {s1}
  ScopeOf <- OneScope
  Levels <- Near
  Baselines <- Near
  Large = 10
  MaxNow = 5
  Second = 2
  Gap = 2
  Windows <- HalfSeconds
  Limits <- ThreeLimits
  RetraceQuiet = 2
  PeakQuiet = 3
  OldestBaseline = 5
  Callers = {"spot", "dual"}
  Urls = {"books", "info"}
  UrlsOf <- TwoOf
  KeepFor <- Keeping
  MaxMoment = 2
  Requests = {"r1", "r2", "r3"}
  PoolSize = 2
  Patience = 1
  Pauses = {1}
  EndOfTime = 1
  Lanes = {"dual"}
  Pruning = {"dual"}
  m = m
  Markets = {m}
  Aliased = {m}
  Seeded = {}
  AliasTTL = 1
  QueryTime = 1
  PersistEvery = 2
  MaxClock = 2
  MaxEdits = 2
  MaxSnapshotRestarts = 1
  Contracts = {1}
  Period = 1
  RefreshEvery = 1
  AuditEvery = 2
  CleanEvery = 1
  Lately = 1
  Window = 3
  SummedOf = 2
  LongestPause = 1
  AnswerSize = 1
  Pages = 3
  AtOnce = 1
  FirstTime = 3
  LastTime = 5
  MaxFailures = 1
  MaxCrashes = 1
  up = up
  off = off
  RateLimits = {up}
  Off = off
  Intervals = {1, 2}
  Day = 2
  AlertGap = 1
  Keep = 1
  SaveEvery = 2
  MaxHour = 3
  People = {"alice", "bob"}
  PageSize = 1
  Overlap = 3
  Longest = 1
  Retention = 4
  MaxPosts = 1
  MaxChat = 6
  Does <- Halves
  Browsers = {"desk", "lap", "phone"}
  Kinds = {"desktop", "mobile"}
  DeviceKind <- KindsOf
  Invites = {"i"}
  Visitors = {"u", "v"}
  MaxTokens = 2
  MaxEditsMade = 2
  Symbols = {"s"}
  Directions = {"up", "down"}
  Zones = {1}
  Processes = {"old", "new"}
  Locking = TRUE
  CountOf <- Counts
  LastsOf <- Lasts
  RepeatOf <- Repetitions
  RepeatCooldown = 1
  MaxThought = 2
  MaxEvents = 2
  OppositeFor = 4
  OtherFor = 2
  ScansNeeded = 3
  MaxHorizon = 12
  LongestScan = 2
  Watched = {"a"}
  Stages = {1, 2}
  Days = 2
  MaxDoubts = 1
  MaxPushes = 2
  MaxScanRestarts = 1
  Majors = {"btc"}
  Venues = {"bn", "ok"}
  MainVenue = "bn"
  StaleAfter = 2
  RankingLasts = 2
  LongestQuote = 1
  MaxBoard = 4
  Paths = {"gate"}
  ConfirmClosed = 2
  ConfirmOpen = 4
  RecoverFor = 2
  LongestGap = 1
  SamplesNeeded = 3
  Bases <- Few
  Threshold = 5
  QuietBelow = 4
  MaxBasisTime = 7
  Sources <- Two
  Chains = {"bsc"}
  SyncIntervals = {0, 1}
  LeastAge = 0
  LongestCall = 1
  MaxTransferTime = 2
  MaxTransferFaults = 1
INVARIANTS AnswersAreOwn SnapshotsKeepUp RemindersAreSpaced RecallsReach NotSaidAgain ToldOnce BoardIsHonest StatesAreRecent NeverBridgesAGap
PROPERTIES LifeSpec NoJumpMissed PayloadsAreHonest AuditsAreComplete SessionsAreEarned FlipsAreSustained BasisIsEarned
