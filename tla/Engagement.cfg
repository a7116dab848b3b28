SPECIFICATION Spec
CONSTANTS
  s1 = s1  s2 = s2  f1 = f1  c1 = c1  x1 = x1  i1 = i1  w1 = w1  w2 = w2  g1 = g1
  None = None  Removed = Removed
  Students = {s1, s2}
  Facilitators = {f1}
  Cohorts = {c1}
  Sessions = {x1}
  Items = {i1}
  Bodies <- Bodies1
  Edits <- Edits1
  Workers = {w1, w2}
  MaxNotices = 3
  MaxOwed = 1
  GoalIds = {g1}
  GoalForms = {"active", "achieved"}
  GoalEdits = {None, "active", "achieved"}
  Environments <- Environments1
INVARIANTS TypeOK PickedParticipate ToldOnce
PROPERTY AchievementsAreTold
CHECK_DEADLOCK FALSE
