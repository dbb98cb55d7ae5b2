SPECIFICATION Spec
CONSTANTS
  Client = {p1, p2}
  Device = {d1, d2}
  NumIds = 8
  NULL = NULL
  SD = SD
  Uses <- ClientUses
  d1 = d1
  d2 = d2
  Server = {}
  RequestId = {9}
  Ticks = 0
SYMMETRY ClientSymmetry
VIEW View
INVARIANTS TypeOK PointersLive ReplyMatchesRequest
PROPERTIES SendsOnlyPending
