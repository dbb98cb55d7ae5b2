SPECIFICATION Spec
CONSTANTS
  Client = {p1, p2}
  Device = {d1}
  NumIds = 8
  NULL = NULL
  SD = SD
  Uses <- ServerUses
  d1 = d1
  d2 = d2
  Server = {"request", "ignored", "garbage"}
  RequestId = {9}
  Ticks = 0
SYMMETRY ClientSymmetry
VIEW View
INVARIANTS WaiterHasPacket
PROPERTIES NotSentTwice
