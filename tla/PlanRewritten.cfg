SPECIFICATION Spec
CHECK_DEADLOCK FALSE
CONSTANTS
  Subjects = {"plans"}
  Shapes <- All
  MayHalt = TRUE
  Buckets = 6
  Directions <- Both
  Seeded = FALSE
  Risk = 1
  Target1 = 1
  Target2 = 2
  HalfHour = 2
  Window = 2
  Momentum = 1
  MaxHold = 2
  Cooldown = 1
  ReverseAge = 1
  RepriceAge = 2
  DriftAge = 2
  ExpireAge = 3
  Drift = 2
  FarAway = 3
  Reprice = 2
  MaxPlans = 2
  Horizons = {"short", "long"}
  Expires <- Expiry
  Reviews <- Middle
  Distance <- Apart
  MaxRows = 3
  Stages = {1, 2}
  Accelerated = 2
  Episode = 2
  Remembered = 0
  Attempts = 1
  ReviewWindow = 2
  Grace = 1
  Continuation = 2
  MaxReviews = 2
  LastScan = 2
PROPERTY StopIsFinal
