CONSTANTS
  NumDays = 1
  MaxVersions = 4
  NumFiles = 2
  Commands = {c1}
  MaxErrors = 2
  MaxRestarts = 1
  OnePublisher = TRUE
SPECIFICATION FairSpec
INVARIANTS TypeOK CompleteIsWhole SupersedesWhatWasServed RevisionsAddUp
PROPERTIES PublishedStays PlannedDayIsPublished
