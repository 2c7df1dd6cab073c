SPECIFICATION Spec
CONSTANTS
  spot = spot
  future = future
  extra = extra
  p1 = p1
  w1 = w1
  w2 = w2
  spread = spread
  basis = basis
  Keys <- BookKeys
  FeedOf <- BookFeedOf
  ShardSize <- OnePerShard
  Paths = {p1}
  Metrics = {spread}
  StrategyOf <- OneStrategy
  RouteSpecs <- BookRoutes
  Workers = {w1, w2}
  Prices = {1}
  ReceiptFeeds = {"bn_spot"}
  RestFeeds = {"bn_spot", "bn_future"}
  BulkFeeds = {"bn_spot"}
  MaxAge = 3
  MaxSkew = 0
  MaxFuture = 0
  Quiet = 2
  Backoff = 2
  MaxPending = 1
  MaxConn = 2
INVARIANT ConfirmedOnOneConnection
