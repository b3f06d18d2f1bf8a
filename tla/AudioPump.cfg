CONSTANTS
  Interval = 2
  Quiet = 5
  SamplesPerFrame = 2
  Samples = 5
  MaxTime = 16
SPECIFICATION FairSpec
INVARIANTS
  QuietAtFirst
  TimestampsElapsed
  PromptContiguous
PROPERTY PromptEnds
\* The run ends at MaxTime.
CHECK_DEADLOCK FALSE
