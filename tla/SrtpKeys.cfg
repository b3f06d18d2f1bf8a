SPECIFICATION Spec
CONSTANTS
  k1 = k1
  k2 = k2
  Ends = {a, b}
  Sender = a
  Masters <- TwoMasters
  None = None
  Base = 8
  XorByte <- BitwiseXor
  Salt <- TwoSalts
  KeyLengths = {15, 16}
  Batches = {1, 7, 56, 1984}
  Indexes = {0, 7, 63, 2047}
  MaxFailures = 1
INVARIANTS
  DerivationsDisjoint
  RtpKeysAgree
