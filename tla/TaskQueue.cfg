CONSTANTS
  Jobs = {w1, w2, w3, e1, e2, e3, c1}
  w1 = w1
  w2 = w2
  w3 = w3
  e1 = e1
  e2 = e2
  e3 = e3
  c1 = c1
  Schedules <- MCSchedules
  Kind <- MCKind
  Limit <- MCLimit
  Logged = {e2}
  Malformed = {w3}
  Concurrency = 2
  MaxLost <- MCMaxLost
  Faults = {"refusal", "late", "silence", "broker"}
SPECIFICATION FairSpec
INVARIANTS
  TypeOK
  NothingLost
  AttemptsExhausted
  GivenUpLate
  SeenAsReported
PROPERTIES
  WebhooksSettle
