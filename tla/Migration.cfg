SPECIFICATION FairSpec
CONSTANTS
  NumGPUs = 2
  NumPages = 2
  Place <- AllOnFirst
  MaxMigrations = 2
  MaxWrites = 1
  None = None
INVARIANTS
  NoWriteLost
  TranslationsCurrent
  RemoteAccessKept
  OneCopyAtATime
PROPERTIES
  RequestAnswered
CHECK_DEADLOCK FALSE
