SPECIFICATION FairSpec
CONSTANTS
  spot = spot
  future = future
  extra = extra
  p1 = p1
  w1 = w1
  w2 = w2
  spread = spread
  basis = basis
  Keys <- SharedKeys
  FeedOf <- SharedFeedOf
  ShardSize <- ThreePerShard
  Paths = {p1}
  Metrics = {spread}
  StrategyOf <- OneStrategy
  RouteSpecs <- MovingRoute
  Workers = {w1, w2}
  Prices = {1}
  ReceiptFeeds = {}
  RestFeeds = {}
  BulkFeeds = {}
  MaxAge = 0
  MaxSkew = 0
  MaxFuture = 0
  Quiet = 0
  Backoff = 0
  MaxPending = 1
  MaxConn = 1
INVARIANT OwnersRun
PROPERTIES QuotesFallWithTheirOwner WorkersSucceed
