SPECIFICATION Spec
CONSTANTS
  s1 = s1  s2 = s2  f1 = f1  f2 = f2  c1 = c1  c2 = c2
  d1 = d1  d2 = d2  p1 = p1  p2 = p2
  NoScore = NoScore  NoCohort = NoCohort  NoAccount = NoAccount
  Students = {s1, s2}
  Facilitators = {f1, f2}
  Cohorts = {c1, c2}
  Dimensions = {d1, d2}
  Periods = {p1, p2}
  CohortOf <- Homes
  StartOf <- Starts
  Payloads <- Reviews1
  Setups <- Setups1
  Enrolments <- Enrolments1
  Assignable <- Assignable1
  CohortEdits <- Edits1
  Creatable = {p1}
  Retirable = {d2}
  Deactivatable = {s1, s2}
INVARIANTS TypeOK PagesAgree AtRiskIsGraded HistoryStaysVisible OverviewAddsUp
  RiskCountMatches WorkloadMatchesList
PROPERTIES RiskIsStable GradedIsKept
