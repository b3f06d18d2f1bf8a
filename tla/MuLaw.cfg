SPECIFICATION Spec
CONSTANT Samples <- AllSamples
INVARIANTS
  EncodesToLevel
  DecodesInSegment
CHECK_DEADLOCK FALSE
