SPECIFICATION FairSpec
CONSTANTS
  Client = {p1, p2}
  Device = {d1}
  NumIds = 8
  NULL = NULL
  SD = SD
  Uses <- CardUses
  d1 = d1
  d2 = d2
  Server = {}
  RequestId = {9}
  Ticks = 0
PROPERTIES ImportantKept WaiterResumed
