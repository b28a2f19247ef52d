\* Two rooms whose incarnations are lost, two assets, every change under a running
\* cycle, and recovery once all that stops.
SPECIFICATION OrderedSpec
CONSTANTS
  r1 = r1
  r2 = r2
  a1 = a1
  a2 = a2
  NoRoom = NoRoom
  Rooms <- TwoRooms
  Assets <- TwoAssets
  Window = 1
  MaxHead = 2
  MaxRev = 2
  MaxGen = 3
  MaxEpoch = 2
  MaxFaults = 1
INVARIANTS BeliefsHold AssetsAreStored RunningOnlyWhileSending
PROPERTIES MediaBeforePlaylist Recovers
CHECK_DEADLOCK FALSE
