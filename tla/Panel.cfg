SPECIFICATION FairSpec
CONSTANTS
  NumAsks = 2
  Digit = {3}
  Base = 4
  MaxNumber = 3
  NumberMod = 2
  CodeLength = 2
  PinEnable = {TRUE, FALSE}
  NumEvents = 2
  Announced = {1}
INVARIANTS TypeOK OneScreen WaitScreen NumberKnown ActivationGranted CodeCleared
PROPERTIES Returns
