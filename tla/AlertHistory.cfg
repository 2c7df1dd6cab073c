SPECIFICATION BothSpec
CHECK_DEADLOCK FALSE
CONSTANTS
  e1 = e1
  e2 = e2
  Events = {e1, e2}
  CreatedAt <- Dates
  Window = 1
  DirtyLimit = 1
  MaxNow = 1
  MaxWrites = 3
  MaxFaults = 1
  Feed = "bitget"
  Keys <- Symbols
  FeedOf <- OneFeedOf
  ShardSize <- Two
INVARIANT AnswersAreWhole
PROPERTY ShardsFollow
