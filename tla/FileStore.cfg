CONSTANTS
  u1 = u1 u2 = u2 n1 = n1 n2 = n2 f1 = f1 f2 = f2 r1 = r1 r2 = r2
  User <- MCUser
  Staff <- MCStaff
  Name <- MCName
  FileId <- MCFileId
  Request <- MCRequest
  MaxFiles = 2
  MaxCalls = 3
  MaxVersion = 4
  MaxFaults = 1
  NoFile = NoFile
  NoName = NoName
  NoKey = NoKey
SYMMETRY MCSymmetry
SPECIFICATION Spec
CONSTRAINT CallsOrPuts
INVARIANTS TypeOK FileHasContent ServesLastVersion OnlyStraysAreOrphans OnlySelfLocksStall
PROPERTIES NoFileLost
CHECK_DEADLOCK FALSE
