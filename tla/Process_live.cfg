SPECIFICATION FairSpec
CONSTANTS
  Proc = {p1, p2}
  NULL = NULL
  NumEvents = 1
  UserEvent = {"go"}
  IrqProc = {p1}
  Calls = {"post", "poll", "addpoll", "start", "exit"}
  MaxOps = 1
  MaxDepth = 2
INVARIANTS TypeOK PollKept
PROPERTIES PollServed FullQueueDrains
