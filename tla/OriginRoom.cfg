\* Eviction, pins and photos in a store of two objects.
SPECIFICATION Spec
CONSTANTS
  a1 = a1
  p1 = p1
  p2 = p2
  Assets <- OneAsset
  Photos <- TwoPhotos
  Window = 1
  MaxMedia = 2
  MaxPhotos = 1
  MaxQueue = 1
  Lag = 1
  MaxSegment = 2
  MaxInit = 2
SYMMETRY PhotoSymmetry
INVARIANTS MemoryBounded RefusedLeavesNothing
PROPERTIES KeptForTheSet OldestGoes
CHECK_DEADLOCK FALSE
