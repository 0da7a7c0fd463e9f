CONSTANTS
  Jobs = {c1}
  w1 = w1
  w2 = w2
  w3 = w3
  e1 = e1
  e2 = e2
  e3 = e3
  c1 = c1
  Schedules = {{c1}}
  Kind <- MCKind
  Limit <- MCLimit
  Logged = {}
  Malformed = {}
  Concurrency = 2
  MaxLost <- MCMaxLost
  Faults = {}
SPECIFICATION FairSpec
PROPERTIES
  ScheduledCleanupRuns
