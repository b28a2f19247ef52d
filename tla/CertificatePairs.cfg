\* Two processes look for, fetch and publish pairs while writes are cut short.
SPECIFICATION FairSpec
CONSTANTS
  app = app
  previous = previous
  None = None
  Link = Link
  Caller <- TwoCallers
  Pair <- ThreePairs
  MaxCrashes = 1
  MaxErrors = 1
  MaxDamage = 1
INVARIANTS HalvesAgree
PROPERTIES IsRegister Renews
CHECK_DEADLOCK FALSE
