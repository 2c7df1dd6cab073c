SPECIFICATION Stores
CHECK_DEADLOCK FALSE
SYMMETRY Interchangeable
CONSTANTS
  p1 = p1
  p2 = p2
  s1 = s1
  Pulses = {p1, p2}
  Scopes = {s1}
  ScopeOf <- OneScope
  Levels <- Steps
  Baselines <- Zero
  Large = 7
  MaxNow = 2
  Window = 1
  Prices = {}
  Limit = 1
  Checkpoint = 2
  Watermarks = 1
  MaxFailures = 1
  MayCrash = TRUE
  path = path
  other = other
  Paths = {path, other}
  Spreads <- Quarters
  StateLimit = 1
  PendingLimit = 2
  Contiguous = 1
  Retention = 2
  LastSecond = 5
  MaxReadings = 4
  MaxLosses = 2
  Routes = {path}
  Spans = {1, 3}
  Share <- LeastShare
  Grace = 1
  Adjacent = 1
  MaxHole = 1
  FundingDelay = 1
  FundingWait = 2
  Flush = 2
  ActiveLimit = 1
  RecordLimit = 2
  LastMoment = 4
  MaxBreaks = 1
  BookPaths = {path, other}
  Bucket = 2
  DayLength = 4
  Behind = 1
  Ahead = 0
  BookLimit = 2
  KnownLimit = 1
  KnownFor = 3
  MaxBookTime = 4
  MaxBookLosses = 1
INVARIANTS NothingIsLost NobodyStarves EpisodesAreObserved CohortsAreSound
PROPERTIES NothingIsTakenBack OutcomeStands BooksAreKept
