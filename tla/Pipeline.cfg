\* Four events through one-place queues, every exception possible.  The batch
\* bounds 1..3 with shrink = 1/3 and grow = 1.15 reach both clamps and the
\* small sizes at which floor(size * grow) alone would not grow.
CONSTANTS
  Events = 4
  FeatureRoom = 1
  BatchRoom = 1
  Adaptive = TRUE
  Faults = {"launch", "source", "event", "trace", "score", "write", "deadline"}
  BatchMin = 1
  BatchMax = 3
  BatchInitial = 2
  ShrinkNum = 1
  ShrinkDen = 3
  GrowNum = 23
  GrowDen = 20
SPECIFICATION Spec
INVARIANTS TypeOK NothingLostInFlight AbandonedWorkHasCause PressureCausality
           TraceExplainsBatches ConservationCheckRedundant
PROPERTIES ImplementsEventStream
