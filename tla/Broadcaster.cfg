SPECIFICATION Spec
CONSTANTS
  MaxStarts = 2
  MaxStops = 2
CHECK_DEADLOCK FALSE
INVARIANTS StopHolds LiveHasEncoder NoOrphan GoLiveIsAnswered
PROPERTIES BlameIsHonest StoppingEnds
