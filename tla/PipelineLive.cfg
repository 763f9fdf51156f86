\* Three events, fixed batches of two (so the run has a tail), one exception per
\* thread and the deadline.
CONSTANTS
  Events = 3
  FeatureRoom = 1
  BatchRoom = 1
  Adaptive = FALSE
  Faults = {"launch", "event", "trace", "write", "deadline"}
  BatchMin = 1
  BatchMax = 2
  BatchInitial = 2
  ShrinkNum = 1
  ShrinkDen = 3
  GrowNum = 23
  GrowDen = 20
SPECIFICATION LiveSpec
PROPERTIES EndsWithVisibleQueues EndsByDeadline
