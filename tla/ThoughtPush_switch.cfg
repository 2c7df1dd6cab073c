SPECIFICATION ThoughtSpec
CHECK_DEADLOCK FALSE
CONSTANTS
  Symbols = {"s"}
  Directions = {"up", "down"}
  Zones = {1}
  Processes = {"old", "new"}
  Locking = TRUE
  CountOf <- Counts
  LastsOf <- Lasts
  RepeatOf <- Repetitions
  RepeatCooldown = 2
  MaxThought = 3
  MaxEvents = 2
INVARIANT SwitchIsSustained
