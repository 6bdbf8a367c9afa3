CONSTANTS
  u1 = u1 u2 = u2 e1 = e1 e2 = e2 c1 = c1 c2 = c2
  User <- MCUser
  Reader <- MCReader
  Email <- MCEmail
  Creator <- MCCreator
  MaxChanges = 1
  NoUser = NoUser
  NoNote = NoNote
  NoEmail = NoEmail
SYMMETRY MCSymmetry
SPECIFICATION Spec
CONSTRAINT OneMishap
INVARIANTS TypeOK WelcomedUnlessMishap NothingMissed
PROPERTIES ConflictExplained
CHECK_DEADLOCK FALSE
