CONSTANTS
  Timers = {t1, t2, t3}
  Counts <- MCCounts
  MaxCalls = 3
  none = none
SPECIFICATION FairSpec
INVARIANTS
  TypeOK
  Paired
  ExactCalls
  OnlyCancelsBreak
PROPERTIES
  ImplementsTimers
  RunsOn
CHECK_DEADLOCK FALSE
