SPECIFICATION Spec
CONSTANTS
  Printed <- MCPrinted
  Parsed <- MCParsed
  Valid <- MCValid
  Lowered <- MCLowered
INVARIANT TextKeepsModule MisreadIsRejected
CHECK_DEADLOCK FALSE
