\* A primary and a backup server; and one server with hosts that connect.
SPECIFICATION Spec
CONSTANTS
  Dev = {1, 2}
  NumConns = 2
  MaxAttempts = 1
  NULL = NULL
  a = a
  b = b
  x = x
  Address = {a, b, x}
  DevIdOf <- Ids
  Uses <- AllUses
INVARIANTS TypeOK StateSound
PROPERTIES Reconnects
