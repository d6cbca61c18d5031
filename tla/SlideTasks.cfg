CONSTANTS
  Main = main
  Threads = {main, t1, t2}
  Handles = {h1, h2}
  NoThread = NoThread
  NoHandle = NoHandle
  OwnersFree = TRUE
SPECIFICATION TaskSpec
INVARIANTS JoinMeansDone NoRace
PROPERTY JoinersReturn
CHECK_DEADLOCK FALSE
