CONSTANTS
  t1 = t1
  t2 = t2
  Tab = {t1, t2}
  Graphiql = {t2}
  MaxPairs = 3
SPECIFICATION Spec
CONSTRAINTS OneMishap TwoLogins
INVARIANTS SuccessEndsSession NoDeadCookie
CHECK_DEADLOCK FALSE
