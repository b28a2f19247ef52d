\* The wall of a Mac, its journal and its party: failed writes, restarts and a join.
SPECIFICATION StoreSpec
CONSTANTS
  p1 = p1
  c1 = c1
  m1 = m1
  t1 = t1
  tonight = tonight
  later = later
  None = None
  Theirs = theirs
  Post <- OnePost
  Reply <- OneReply
  Photo <- OnePhoto
  Track <- OneTrack
  Mine <- TwoParties
  MaxLines = 3
  MaxMishaps = 2
SYMMETRY Symmetry
INVARIANTS WallIsReplay JoinerKeepsLink
PROPERTIES IsFeedSource
CHECK_DEADLOCK FALSE
