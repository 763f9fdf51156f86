\* Four slots, two values: full and empty ring, wrap-around, every stale load.
CONSTANTS
  Values = {a, b}
  Blank = Blank
  Torn = Torn
  Slots = 4
SPECIFICATION FairSpec
INVARIANTS TypeOK NoDataRace EofIsFinal
PROPERTIES OccupancyNeverUnderstates ImplementsFIFO ImplementsLiveFIFO
\* The queue may stop: the producer may never push or close again.
CHECK_DEADLOCK FALSE
