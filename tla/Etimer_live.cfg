\* Two processes, of which one exits and starts, with a timer each.
SPECIFICATION FairSpec
CONSTANTS
  p1 = p1
  p2 = p2
  t1 = t1
  t2 = t2
  Timer = {t1, t2}
  Proc = {p1, p2}
  NULL = NULL
  ClockMod = 5
  Interval = {1, 2}
  NumEvents = 1
  MaxLag = 1
  Calls <- AllCalls
INVARIANTS TypeOK NoMissedExpiry ExpiredIffDue ListSound
PROPERTIES DueIsServed
