\* The activation loop and the relay loop, an install forgotten, a base moved.
SPECIFICATION FairSpec
CONSTANTS
  loop = loop
  relay = relay
  Loop <- OneLoop
  Relay <- OneRelay
  Bases = 2
  MaxForgets = 2
  MaxFaults = 1
  MaxRenewals = 1
INVARIANTS OneReplacement
PROPERTIES IdentityKept CommitsAreCurrent Converges
CHECK_DEADLOCK FALSE
