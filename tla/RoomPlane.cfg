\* A guest reading and posting while the Mac publishes and the room is swept,
\* and what is left once everything has come to rest.
SPECIFICATION ShownSpec
CONSTANTS
  g1 = g1
  feed = feed
  b1 = b1
  b2 = b2
  Readers <- OneGuest
  Posters <- OneGuest
  Kinds <- OneKind
  Feed = feed
  Bodies <- TwoBodies
  NoBody = NoBody
  MaxQueue = 2
  MaxPlanes = 2
  MaxChanges = 2
  MaxPosts = 3
  MaxFaults = 1
INVARIANTS NoLostWakeup TagNamesContent AppliedInOrder
PROPERTIES GuestsCatchUp
CHECK_DEADLOCK FALSE
