SPECIFICATION Spec
CONSTANTS
  BatchMin = 1
  BatchMax = 4
  BatchInitial = 2
  ShrinkNum = 1
  ShrinkDen = 2
  GrowNum = 3
  GrowDen = 2
  QueueCap = 1
  GainDen = 2
  MaxSamples = 6
  LowTenths = 3
  HighTenths = 6
  AlphaMin = 1
  AlphaMax = 4
  AlphaDelta = 1
  AlphaInitial = 2
  Modes = {"fixed", "batch", "alpha", "joint"}
  MaxEvents = 6
  FeatureRoom = 2
  Scale = 72
  MaxRuns = 2
  Cohorts <- MCCohorts
  NoLabel = NoLabel
  EventCounts = {0, 3}
  RawScore <- MCRawScore
  DefaultScore = 22
  Policies = {"fixed_cadence_u20", "budget_matched", "fixed_cadence_u1", "dynamic_pressure"}
  FixedWrites = 1
  OtherWrites = 4
  DefaultEvents = 5
  EvalSplits <- MCEvalSplits
  PublishedAPs = {36, 72}
  HeadlineAP = 36
INVARIANT ReplayDecides
INVARIANT LowPressureRecovers
INVARIANT AcceptedRunIsOwn
INVARIANT PassMeansReplayed
CHECK_DEADLOCK FALSE
