SPECIFICATION Spec
CONSTANTS
  u1 = u1  u2 = u2  c1 = c1  c2 = c2  e1 = e1  e2 = e2  k1 = k1
  w1 = w1  w2 = w2  v1 = v1  v2 = v2  o1 = o1  o2 = o2
  None = None  Unborn = Unborn  Gone = Gone
  Ids = {u1, u2}
  Emails = {e1, e2}
  StudentCodes = {k1}
  Cohorts = {c1, c2}
  Forms <- Forms1
  Batches <- Batches1
  Edits <- Edits1
  Workers = {w1, w2}
  Environments <- Environments1
  Codes = {o1, o2}
  Visitors = {v1, v2}
  MaxPassword = 2
INVARIANTS TypeOK EnrolmentEndures CodesAreSingleUse ResetEndsSessions
PROPERTY EnrolmentTakesEffect
CHECK_DEADLOCK FALSE
