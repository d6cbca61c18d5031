CONSTANTS
  AddrMax = 63
  MinCap = 4
  MinAlign = 4
  Reserve = 3
  Bases <- MCBases
  Requests <- MCRequests
  MaxAllocs = 3
  MaxResets = 2
SPECIFICATION Spec
INVARIANTS SoundBlocks ReceiptsHonest OneHop ReplayIsFree
CHECK_DEADLOCK FALSE
