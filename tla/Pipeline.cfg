CONSTANTS
  Requests = {r1, r2}
  Keys = {k1, k2}
  Users = {u1, u2, u3}
  Accounts = {a1}
  r1 = r1
  r2 = r2
  r3 = r3
  k1 = k1
  k2 = k2
  u1 = u1
  u2 = u2
  a1 = a1
  NoKey = NoKey
  NoRow = NoRow
  ActiveUsers = {u1, u2}
  Owner <- MCOwner
  ActiveAccounts = {a1}
  InitialBalance <- MCBalance
  Payloads <- MCPayloads
  Workloads <- AgreeingWorkloads
  RawScores <- MCRawScores
  OtherRisks = {"low", "high"}
  VelocityLimit = 5
  Hour = 1
  Day = 1
  MaxTime = 2
  PoolSize = 2
  Faults = {"crash", "db", "redis", "broker"}
SYMMETRY Interchangeable
SPECIFICATION Spec
INVARIANTS
  TypeOK
  NotificationsBacked
  RecordBacksLedger
  RepliesMatchLedger
  AlertsMatchLedger
PROPERTIES
  LedgerAppendOnly
  KeepsPromise
