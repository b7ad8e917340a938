CONSTANTS
  NumDays = 1
  MaxVersions = 2
  NumFiles = 2
  Commands = {}
  MaxErrors = 1
  MaxRestarts = 0
  OnePublisher = TRUE
SPECIFICATION FairSpec
PROPERTY FailedPublicationIsRetried
