CONSTANTS
  Meters = {m1}
  LastTime = 4
  MaxMessages = 3
  MaxOffsets = 2
  Delay = 1
  Window = 2
  MaxCrashes = 1
  DayEnd = 4
  Grace = 0
SPECIFICATION HandOverSpec
INVARIANTS DifferenceIsExplained RecordedIsKept ProgressIsArchived MessagesCountedOnce NeverCountedTwice AggregatedOnce TimelyIsAggregated
PROPERTIES WindowsOnlyGrow EveryMessageIsKept
