CONSTANTS
  Inputs <- MCInputs
  RuleTables <- MCTables
  OccursIn <- MCOccursIn
  Upper <- MCUpper
  Printed <- MCPrinted
SPECIFICATION Spec
INVARIANTS
  TypeOK
  WorstRuleWins
  TriggeredIsComplete
  SystemRulesBind
  BlockedIsAlerted
CHECK_DEADLOCK FALSE
