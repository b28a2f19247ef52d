\* A page with its loop and its forced polls, against a Mac that restarts and changes party.
SPECIFICATION FeedSpec
CONSTANTS
  p1 = p1
  None = None
  Post <- OnePost
  Stamp <- FewStamps
  Poller <- TwoPolls
  MaxMoves = 1
  MaxMishaps = 2
INVARIANTS NothingBehindCursor
PROPERTIES CatchesUp
CHECK_DEADLOCK FALSE
