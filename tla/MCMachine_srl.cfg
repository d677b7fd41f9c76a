\* Words around the boundaries, shifted by one bit.
CONSTANTS
  ByteBits = 4
  Reg = {0, 1, 2, 3, 4, 5, 29, 31}
  PageSize = 64
  NumPhysPages = 8
  Thread = {"t1", "t2", "k"}
  Tests <- ShiftTests
  Program <- NoPrograms
SPECIFICATION Spec
INVARIANT
  SrlIsLogical
