CONSTANTS
  Meters = {m1}
  LastTime = 2
  MaxMessages = 2
  MaxOffsets = 2
  Delay = 1
  Window = 2
  MaxCrashes = 1
  DayEnd = 2
  Grace = 0
SPECIFICATION HandOverSpec
INVARIANT CountersMatchBookkeeping
