SPECIFICATION SteadySpec
CONSTANTS
  f1 = f1  f2 = f2  f3 = f3  c1 = c1  c2 = c2  w1 = w1  w2 = w2  w3 = w3
  NoCohort = NoCohort
  Facilitators = {f1, f2}
  Students = {"s1"}
  Cohorts = {c1}
  Workers = {w1, w2, w3}
  Overlapping = TRUE
  Removals = FALSE
INVARIANT NeverOrphaned
PROPERTY AssignmentTakesEffect
