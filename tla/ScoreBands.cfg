CONSTANTS
  Inputs <- MCInputs
  RuleTables <- MCTables
  OccursIn <- MCOccursIn
  Upper <- MCUpper
  Printed <- MCPrinted
SPECIFICATION Spec
INVARIANT ScoreBandsDecide
CHECK_DEADLOCK FALSE
