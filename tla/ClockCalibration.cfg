\* Every placing of an exchange and its publication in a few milliseconds.
SPECIFICATION ClockSpec
CONSTANTS
  Quantum = 3
  MaxRtt = 5
  Thetas <- NearThetas
  MaxNow = 9
INVARIANTS OffsetIsHonest SourceTimeIsHonest
CHECK_DEADLOCK FALSE
