\* The registration loop and one other caller at a time.
SPECIFICATION Spec
CONSTANTS
  n1 = n1
  n2 = n2
  o1 = o1
  o2 = o2
  w1 = w1
  Networks <- TwoNetworks
  Targets <- TwoTargets
  Workers <- OneWorker
  Overrides <- DirectOrRelay
  Reaches <- BothReaches
SYMMETRY Symmetry
INVARIANTS ModeIsServiceable NoDecisionLost RememberedIsVouched DirectIsVouchedHere DecisionArrives
CHECK_DEADLOCK FALSE
