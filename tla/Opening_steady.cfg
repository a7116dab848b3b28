SPECIFICATION SteadySpec
CONSTANTS
  p1 = p1   s1 = s1  s2 = s2  f1 = f1  w1 = w1  w2 = w2
  NoOne = NoOne
  Periods = {p1}
  Students = {s1, s2}
  Facilitators = {f1}
  MentorOf <- OneMentored
  Workers = {w1, w2}
  Backward = TRUE
PROPERTIES OpenedIsGenerated GeneratedIsAnnounced ImplementsProgramme
CHECK_DEADLOCK FALSE
