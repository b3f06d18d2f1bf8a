SPECIFICATION Spec
CONSTANTS
  u1 = u1
  u2 = u2
  Nobody = Nobody
  Usernames <- TwoUsers
  AttrTypes <- TwoTypes
  Words <- SomeWords
  MaxWords = 2
  Attributes <- SomeAttributes
  MaxAttributes = 3
  SoftwareNames <- SomeNames
INVARIANTS
  ParsesLaidOut
  ReplyWellFormed
  SignedForTheNamedCall
