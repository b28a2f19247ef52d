\* A restart more than the idle window after the start, minutes after the last change.
SPECIFICATION StoreSpec
CONSTANTS
  p1 = p1
  c1 = c1
  m1 = m1
  t1 = t1
  tonight = tonight
  later = later
  None = None
  Theirs = theirs
  Post <- OnePost
  Reply <- OneReply
  Photo <- OnePhoto
  Track <- OneTrack
  Mine <- TwoParties
  MaxLines = 1
  MaxMishaps = 1
INVARIANTS NightIsResumed
CHECK_DEADLOCK FALSE
