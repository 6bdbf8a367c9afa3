CONSTANTS
  p1 = p1 p2 = p2 acc = acc oth = oth
  Instance <- MCInstance
  MaxRoles = 4
  User <- MCUser
  Account = acc
  Templates = 2
  MaxStarts = 3
  MaxEvents = 2
  NoUser = NoUser
SYMMETRY MCSymmetry
SPECIFICATION Spec
CONSTRAINT StartsOrEvents
INVARIANTS NobodyLockedOut ComesUpSeeded PromotionLasts
CHECK_DEADLOCK FALSE
