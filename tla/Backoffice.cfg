CONSTANTS
  Edits = {e1, e2, e3}
  RuleIds = {1, 2, 3}
  Names = {"strict", "mild", "watch"}
  Payments = {p1, p2, p3}
  RuleTables <- MCRuleTables
  EditLoads <- MCEditLoads
  RawScores <- MCRaw
  NoRule = NoRule
  Resolutions = {s1, s2}
  Analysts = {amy, bob}
  Notes = {fraud, benign}
  NoOne = NoOne
  Readers = {q}
  Scenarios <- MCScenarios
  PerPage = 1
  e1 = e1
  e2 = e2
  e3 = e3
  p1 = p1
  p2 = p2
  p3 = p3
  s1 = s1
  s2 = s2
  q = q
  amy = amy
  bob = bob
  fraud = fraud
  benign = benign
SPECIFICATION Spec
INVARIANTS
  TypeOK
  NamesUnique
  EditsSurvive
  StatsConsistent
  PagesMissOnlyResolved
  TotalCoversPage
PROPERTIES
  DeactivationSticks
  RulesTakeEffect
