SPECIFICATION FairSpec
CONSTANTS
  agent = agent
  blog = blog
  database = database
  blank = blank
  null = null
  Missing = Missing
  Broken = Broken
  Entries <- AllEntries
  Blank = blank
  Null = null
  Files <- SomeFiles
  MaxFaults = 3
  MaxRuns = 5
CHECK_DEADLOCK FALSE
INVARIANTS
  OkMeansRegistered
  OneCopyPerRun
PROPERTY
  Recovers
