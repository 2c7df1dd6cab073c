SPECIFICATION Spec
CONSTANTS
  spot = spot
  future = future
  extra = extra
  p1 = p1
  w1 = w1
  w2 = w2
  spread = spread
  basis = basis
  Keys <- BookKeys
  FeedOf <- BookFeedOf
  ShardSize <- OnePerShard
  Paths = {p1}
  Metrics = {spread, basis}
  StrategyOf <- OneStrategy
  RouteSpecs <- SplitRoutes
  Workers = {w1, w2}
  Prices = {1, 2}
  ReceiptFeeds = {"bn_spot"}
  RestFeeds = {"bn_future"}
  BulkFeeds = {}
  MaxAge = 1
  MaxSkew = 0
  MaxFuture = 0
  Quiet = 0
  Backoff = 0
  MaxPending = 1
  MaxConn = 1
SYMMETRY Interchangeable
INVARIANTS TypeOK BooksAreHonest LossIsBounded TracksWithinConnections QuoteOwnership
