SPECIFICATION Spec
CONSTANTS
  Proc = {p1, p2, p3}
  NULL = NULL
  NumEvents = 2
  UserEvent = {"go"}
  IrqProc = {}
  Calls = {"synch", "post", "start", "exit", "end"}
  MaxOps = 1
  MaxDepth = 3
SYMMETRY ProcSymmetry
VIEW HeldView
INVARIANTS ListEnds CurrentIsRunner NoneSilenced ExitSkipsOnlyCallers StackWellNested BroadcastDelivers
PROPERTIES QueueIsFifo
