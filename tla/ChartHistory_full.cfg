SPECIFICATION ChartSpec
CHECK_DEADLOCK FALSE
CONSTANTS
  Series = {"a", "b"}
  Quotes = {1}
  Minute = 2
  MaxGap = 1
  MaxMinutes = 1
  Batch = 1
  MaxTime = 2
  MaxFaults = 0
  MayDie = FALSE
INVARIANT AckErasesNothing
