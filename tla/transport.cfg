SPECIFICATION MCSpec
CONSTANTS
  WindowSize = 2
  Free = 3
  Start = 9
  Counts = {1, 2}
  MaxCommands = 3
  MaxQueued = 3
  MaxInTransit = 2
  MaxAge = 8
  Drops = TRUE
INVARIANT AckedIsReceived
PROPERTIES ChannelIsFifo AllDelivered EndsNoticed
CHECK_DEADLOCK FALSE
