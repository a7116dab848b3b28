SPECIFICATION Spec
CONSTANTS
  a1 = a1  a2 = a2  d1 = d1  d2 = d2  s1 = s1  f1 = f1  w1 = w1  w2 = w2
  NoScore = NoScore
  Students = {s1}
  Facilitators = {f1}
  Mentors <- OneMentor
  Workers = {w1, w2}
  Assessments = {a1}
  StudentOf <- OneAssessment
  StartOf <- OneStart
  Dimensions = {d1}
  Scores = {1, 4}
  Scales = {5}
  Overlapping = TRUE
CHECK_DEADLOCK FALSE
PROPERTY CompletedIsFrozen
