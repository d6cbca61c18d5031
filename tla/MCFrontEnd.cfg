SPECIFICATION Spec
CONSTANTS
  MAX_DEPTH = 11
  BuiltinModules = {"spill"}
  Parsed <- MCParsed
  Printed <- MCPrinted
  Resolved <- MCResolved
  Sources <- MCSources
  Inserts <- MCInserts
  Cwd <- MCCwd
  Entry <- MCEntry
INVARIANTS
  PrintingKeepsTree
  FixedPoint
  NoCommentDropped
  BuildReadsEachFileOnce
  NamesKeepMeaning
CHECK_DEADLOCK FALSE
