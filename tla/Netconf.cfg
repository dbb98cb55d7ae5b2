\* Devices and a time server that wait for addresses, over a lossy network.
SPECIFICATION Spec
CONSTANTS
  NULL = NULL
  a = a
  b = b
  x = x
  Name = {a, b, x}
  Literal = {x}
  Width = 4
  Pace = 2
  MaxRetries = 3
  MaxRequests = 2
  QueueSize = 3
  MaxGiveUps = 2
  Uses <- AllUses
CHECK_DEADLOCK FALSE
INVARIANTS TypeOK RightAddress
PROPERTIES EveryDeviceTold
