SPECIFICATION FairBoth
CHECK_DEADLOCK FALSE
CONSTANTS
  p1 = p1
  p2 = p2
  s1 = s1
  s2 = s2
  Pulses = {p1, p2}
  Scopes = {s1, s2}
  ScopeOf <- ScopeEach
  Levels <- OneStep
  Baselines <- Zero
  Large = 7
  MaxNow = 1
  Window = 2
  Prices = {}
  Limit = 1
  Checkpoint = 2
  Watermarks = 2
  MaxFailures = 1
  MayCrash = TRUE
  series = series
  Series = {series}
  Quotes = {1, 2}
  Minute = 3
  MaxGap = 1
  MaxMinutes = 1
  Batch = 1
  MaxTime = 3
  MaxFaults = 1
  MayDie = TRUE
INVARIANT ChartIsWhole
PROPERTIES TransitionsBecomeDurable PastMinutesLeave
