-------------------------- MODULE ProgrammeAnalytics --------------------------
(***************************************************************************)
(* AnalyticsService over the tables of Programme: what each endpoint       *)
(* answers, as a function of the database.  Its queries run in one         *)
(* Promise.all; they are taken at one moment here.  Names, labels and the  *)
(* order of lists are left out.  Rows of scores are functions from a       *)
(* dimension to a score in hundredths, series are sequences by start date. *)
(***************************************************************************)
EXTENDS Programme, AnalyticsLogic, SequencesExt

-----------------------------------------------------------------------------
(* The repository's queries. *)

\* ORDER BY startDate: what has k - 1 others before it comes in place k.
Ordered(rows, start) ==
  LET Place(r) == Cardinality({q \in rows : start[q] <= start[r]})
  IN  [k \in 1 .. Cardinality(rows) |-> CHOOSE r \in rows : Place(r) = k]

Chronological(rows) == Ordered(rows, [r \in rows |-> StartOf[r[2]]])

CompletedForStudent(s) == Chronological({r \in Completed : r[1] = s})

InCohort(r, c) == CohortOf[r[2]] = c

CompletedForCohort(c) == {r \in Completed : InCohort(r, c)}

\* Fault: dimensions that were retired since are no longer shown.
DimensionsForCohortActive(c) == {d \in active : CohortOf[d] = c}

DimensionsForCohort(c) == {d \in Dimensions : CohortOf[d] = c}

ExistingPeriods(c) == {p \in Periods : CohortOf[p] = c /\ period[p] # "none"}

PeriodsForCohort(c) == Ordered(ExistingPeriods(c), StartOf)

ActiveCohorts == {c \in Cohorts : cohort[c].status = "active"}

\* Fault: a closed cohort may be the current one.
CurrentCohortsAny ==
  LET Size(c) == Cardinality(Enrolled(c))
  IN  {c \in Cohorts : Size(c) > 0 /\ \A e \in Cohorts : Size(c) >= Size(e)}

\* The most populated active cohort with anybody on it, then the most recent.
CurrentCohorts ==
  LET manned == {c \in ActiveCohorts : Enrolled(c) # {}}
      Size(c) == Cardinality(Enrolled(c))
  IN  {c \in manned : \A e \in manned \ {c} :
         Size(c) > Size(e) \/ (Size(c) = Size(e) /\ StartOf[c] >= StartOf[e])}

ActiveScales == {cohort[c].scale : c \in ActiveCohorts}

-----------------------------------------------------------------------------
(* One assessment. *)

\* Its agreed scores that are not null: agreedValues, agreedScores.
AgreedValues(r) == [d \in DOMAIN assessment[r].agreed |-> 100 * assessment[r].agreed[d]]

CoachingFlags(r) == Cardinality(assessment[r].flagged)

ScaleOf(r) == cohort[CohortOf[r[2]]].scale

RiskOf(r, scaleMax) ==
  IsAtRisk(Average(AgreedValues(r)), scaleMax, CoachingFlags(r))

\* The last one per student of a chronological list.
Latest(rows) ==
  {r \in rows : \A q \in rows : q[1] = r[1] => StartOf[q[2]] <= StartOf[r[2]]}

-----------------------------------------------------------------------------
(* student() *)

\* Points per dimension with the growth since the one before.
BuildTrends(rows) ==
  LET scored == UNION {DOMAIN assessment[rows[i]].agreed : i \in DOMAIN rows}
      Scores(d) == LET having == SelectSeq(rows, LAMBDA r : d \in DOMAIN assessment[r].agreed)
                   IN  [i \in DOMAIN having |-> AgreedValues(having[i])[d]]
  IN  [d \in scored |->
         [i \in DOMAIN Scores(d) |->
            [agreed |-> Scores(d)[i],
             delta |-> Delta(Scores(d)[i], IF i = 1 THEN NoScore ELSE Scores(d)[i - 1])]]]

BuildLatest(r, scaleMax) ==
  [row |-> r,
   overallAverage |-> Average(AgreedValues(r)),
   zones |-> [d \in DOMAIN assessment[r].agreed |->
                ClassifyZone(AgreedValues(r)[d], scaleMax)]]

\* Fault: a cycle counts as graded once its scores are agreed.
PeriodAverageAgreed(s, p) ==
  IF <<s, p>> \in Rows THEN AverageOrNull(AgreedValues(<<s, p>>)) ELSE NoScore

\* Only a completed cycle counts as graded.
PeriodAverage(s, p) ==
  IF <<s, p>> \in Completed THEN AverageOrNull(AgreedValues(<<s, p>>)) ELSE NoScore

NotEnrolled == [scaleMax |-> 0, trend |-> "stagnant", periods |-> <<>>,
                trends |-> <<>>, latest |-> <<>>]

\* One entry per period of the cohort the student is in now; the trends and the
\* latest are of everything the student ever completed.  `latest` holds at most
\* one record.
StudentView(s) ==
  IF member[s] = NoCohort THEN NotEnrolled
  ELSE LET periods == PeriodsForCohort(member[s])
           averages == [i \in DOMAIN periods |-> PeriodAverage(s, periods[i])]
           completed == CompletedForStudent(s)
           scaleMax == cohort[member[s]].scale
       IN  [scaleMax |-> scaleMax,
            trend |-> ClassifyTrend(averages),
            periods |-> averages,
            trends |-> BuildTrends(completed),
            latest |-> IF completed = <<>> THEN <<>>
                       ELSE <<BuildLatest(Last(completed), scaleMax)>>]

-----------------------------------------------------------------------------
(* cohort() *)

Tally(p) ==
  LET rows == {r \in Rows : r[2] = p}
  IN  [total |-> Cardinality(rows),
       completed |-> Cardinality(rows \cap Completed),
       started |-> Cardinality({r \in rows : assessment[r].status # "draft"})]

CompletionRates(c) ==
  [p \in ExistingPeriods(c) |->
     [total |-> Tally(p).total, completed |-> Tally(p).completed,
      rate |-> IF Tally(p).total = 0 THEN 0
               ELSE Rounded(100 * Tally(p).completed, Tally(p).total)]]

OpenPeriods == {p \in Periods : period[p] = "active"}

ParticipationRate(c) ==
  LET open == {p \in OpenPeriods : CohortOf[p] = c}
  IN  Percentage(SumFunction([p \in open |-> Tally(p).started]),
                 SumFunction([p \in open |-> Tally(p).total]))

\* Per dimension over all completed assessments; null when unscored.
DimensionAverages(c) ==
  LET done == CompletedForCohort(c)
      having(d) == {r \in done : d \in DOMAIN assessment[r].agreed}
  IN  [d \in DimensionsForCohort(c) |->
         AverageOrNull([r \in having(d) |-> AgreedValues(r)[d]])]

\* The three lowest that have data, or all if there are fewer: what this may be.
\* Which of equals is among them is up to the `order` column, which is left out.
WeakestDimensions(c) ==
  LET averages == DimensionAverages(c)
      scored == {d \in DOMAIN averages : averages[d] # NoScore}
      size == Cardinality(scored)
  IN  {W \in SUBSET scored :
         /\ Cardinality(W) = IF size < 3 THEN size ELSE 3
         /\ \A d \in W, e \in scored \ W : averages[d] <= averages[e]}

\* Of each period, the average of its students' averages.
Trendline(c) ==
  LET rows(p) == {r \in CompletedForCohort(c) :
                    r[2] = p /\ AverageOrNull(AgreedValues(r)) # NoScore}
  IN  [p \in ExistingPeriods(c) |->
         AverageOrNull([r \in rows(p) |-> Average(AgreedValues(r))])]

\* A row per student who ever completed a cycle of this cohort.
Heatmap(c) ==
  LET done == CompletedForCohort(c)
      History(s) == LET rows == Chronological({r \in done : r[1] = s})
                    IN  [i \in DOMAIN rows |-> AverageOrNull(AgreedValues(rows[i]))]
      shown == DimensionsForCohort(c)
  IN  {[student |-> r[1], trend |-> ClassifyTrend(History(r[1])),
        average |-> AverageOrNull(AgreedValues(r)),
        scores |-> [d \in shown \cap DOMAIN assessment[r].agreed |-> AgreedValues(r)[d]]]
       : r \in Latest(done)}

\* Fault: only students who are still enrolled.
AtRiskStudentsEnrolled(c) ==
  {[student |-> r[1], latestAverage |-> Average(AgreedValues(r)),
    coachingFlags |-> CoachingFlags(r)] :
      r \in {q \in Latest(CompletedForCohort(c)) :
               q[1] \in Enrolled(c) /\ RiskOf(q, cohort[c].scale)}}

AtRiskStudents(c) ==
  {[student |-> r[1], latestAverage |-> Average(AgreedValues(r)),
    coachingFlags |-> CoachingFlags(r)] :
      r \in {q \in Latest(CompletedForCohort(c)) : RiskOf(q, cohort[c].scale)}}

-----------------------------------------------------------------------------
(* overview() and publicSummary() *)

\* Fault: the rate is taken over all periods, closed ones included.
CompletionRateOverall ==
  Percentage(Cardinality(Completed), Cardinality(Rows))

\* countsByStatusForOpenPeriods.
CompletionRate ==
  LET open == {r \in Rows : r[2] \in OpenPeriods}
  IN  Percentage(Cardinality(open \cap Completed), Cardinality(open))

\* Fault: every student is held to the default scale.
AtRiskCountOnOneScale ==
  Cardinality({r \in Latest(Completed) : RiskOf(r, 5)})

\* The latest completed assessment of each student, on its own cohort's scale.
AtRiskCountAcrossCohorts ==
  Cardinality({r \in Latest(Completed) : RiskOf(r, ScaleOf(r))})

\* Fault: an agreed review still waits on the facilitator.
MentorWorkloadAgreed(f) ==
  LET rows == {row \in roster : row[1] = f}
      Count(statuses) ==
        SumFunction([row \in rows |->
          Cardinality({r \in Rows : r[1] = row[2] /\ assessment[r].status \in statuses})])
  IN  [assignedStudents |-> Cardinality(rows),
       completedReviews |-> Count({"completed"}),
       pendingReviews |-> Count(Pending \cup {"agreed"})]

\* One entry per active assignment row, so a student may occur twice.
MentorWorkload(f) ==
  LET rows == {row \in roster : row[1] = f}
      Count(statuses) ==
        SumFunction([row \in rows |->
          Cardinality({r \in Rows : r[1] = row[2] /\ assessment[r].status \in statuses})])
  IN  [assignedStudents |-> Cardinality(rows),
       completedReviews |-> Count({"completed"}),
       pendingReviews |-> Count(Pending)]

DefaultScaleMax == 5

\* `dimensions` is the list of a cohort that CurrentCohorts may name.
PublicSummary ==
  [scaleMin |-> IF ActiveScales = {} THEN DefaultScaleMax
                ELSE CHOOSE n \in ActiveScales : \A k \in ActiveScales : n <= k,
   scaleMax |-> IF ActiveScales = {} THEN DefaultScaleMax
                ELSE CHOOSE n \in ActiveScales : \A k \in ActiveScales : n >= k,
   dimensions |-> IF CurrentCohorts = {} THEN {{}}
                  ELSE {{d \in active : CohortOf[d] = c} : c \in CurrentCohorts}]

-----------------------------------------------------------------------------
(* Who may see which assessments. *)

\* AssessmentsService.assertCanRead and AnalyticsService.assertStudentAccess,
\* for a facilitator.
CanRead(f, r) == IsAssigned(f, r[1])

\* Fault: an empty roster sets no condition.
ScopedStudentsOpen(f) ==
  IF StudentIdsForFacilitator(f) = {} THEN Students ELSE StudentIdsForFacilitator(f)

\* The role scope of buildScopedWhere; NO_MATCH for an empty roster.
ScopedStudents(f) == StudentIdsForFacilitator(f)

\* findAll for a facilitator: role scope first, then the filters of the query,
\* each a set of what it admits.
Listed(f, students, cohorts, facilitators) ==
  {r \in Rows :
     /\ r[1] \in ScopedStudents(f) \cap students
     /\ CohortOf[r[2]] \in cohorts
     /\ facilitators = Facilitators \/ \E g \in facilitators : IsAssigned(g, r[1])}

-----------------------------------------------------------------------------
(* Properties. *)

\* The tables hold what their columns admit; an assessment exists only for an
\* account and a period that exist.
TypeOK ==
  /\ member \in [Students -> Cohorts \cup {NoCohort, NoAccount}]
  /\ cohort \in [Cohorts -> [scale: Nat \ {0}, status: {"active", "completed", "archived"}]]
  /\ active \subseteq Dimensions
  /\ period \in [Periods -> PeriodStatus]
  /\ roster \subseteq Facilitators \X Accounts \X Cohorts
  /\ Rows \subseteq Accounts \X {p \in Periods : period[p] # "none"}
  /\ \A r \in Rows : IsAssessment(assessment[r])

\* The completed cycles of a student all belong to one cohort.
Settled(s, c) == \A r \in Completed : r[1] = s => InCohort(r, c)

\* The student page and the cohort page agree: as long as all that a student
\* completed belongs to the cohort he is in, both show one direction of travel
\* and one latest average, although one is computed from the periods of the
\* cohort and the other from the assessments (analytics.service.ts:353, :748).
PagesAgree ==
  \A s \in Accounts :
    (member[s] # NoCohort /\ Settled(s, member[s])) =>
      LET view == StudentView(s)
          shown == {h \in Heatmap(member[s]) : h.student = s}
      IN  /\ (view.latest = <<>>) = (shown = {})
          /\ \A h \in shown : /\ h.trend = view.trend
                              /\ h.average = view.latest[1].overallAverage
                              /\ DOMAIN h.scores = DOMAIN view.latest[1].zones

\* Whoever is listed as at risk has been graded: the average that put him on the
\* list is no "no data" zero (analytics-logic.ts:24, :29), also in a cohort whose
\* dimensions were all inactive when the period opened.
AtRiskIsGraded ==
  \A c \in Cohorts : \A e \in AtRiskStudents(c) :
    \E h \in Heatmap(c) : h.student = e.student /\ h.average = e.latestAverage

\* No agreed score of a shown cycle drops out of the heatmap or of a dimension's
\* average because the dimension was retired (analytics.service.ts:380, :750).
HistoryStaysVisible ==
  \A c \in Cohorts : \A r \in Latest(CompletedForCohort(c)) :
    /\ \E h \in Heatmap(c) : h.student = r[1] /\ h.scores = AgreedValues(r)
    /\ \A d \in DOMAIN assessment[r].agreed : DimensionAverages(c)[d] # NoScore

\* The overview adds up: completions per period over all cohorts are the total,
\* those of open periods give its completion rate, and what a cohort completed
\* of its open cycle never exceeds its participation.  The dimensions quoted on
\* the landing page are those of a cohort whose scale lies within the range
\* quoted there (analytics.service.ts:435, :438).
OverviewAddsUp ==
  LET rates == [p \in {q \in Periods : period[q] # "none"} |->
                  CompletionRates(CohortOf[p])[p]]
      Sum(P, F(_)) == SumFunction([p \in P |-> F(rates[p])])
  IN  /\ Sum(DOMAIN rates, LAMBDA e : e.completed) = Cardinality(Completed)
      /\ CompletionRate = Percentage(Sum(OpenPeriods, LAMBDA e : e.completed),
                                     Sum(OpenPeriods, LAMBDA e : e.total))
      /\ \A p \in OpenPeriods :
           (\A q \in OpenPeriods : CohortOf[q] = CohortOf[p] => q = p) =>
             rates[p].rate <= ParticipationRate(CohortOf[p])
      /\ \A c \in CurrentCohorts :
           cohort[c].scale \in PublicSummary.scaleMin .. PublicSummary.scaleMax

AtRiskAnywhere == UNION {{e.student : e \in AtRiskStudents(c)} : c \in Cohorts}

\* The overview counts the students its cohorts list as at risk
\* (analytics.service.ts:846), as long as nobody completed cycles in two cohorts:
\* a student is judged once, by the last cycle of all he completed, so that one
\* whom a cohort he has left still lists may be missing from the count.
RiskCountMatches ==
  (\A s \in Accounts : \E c \in Cohorts : Settled(s, c)) =>
    AtRiskCountAcrossCohorts = Cardinality(AtRiskAnywhere)

\* A list shows a facilitator exactly what he may open: without filters all of
\* it, and no filter widens it, nor does an empty roster
\* (assessments.service.ts:376, :414).  His workload is what he finds there,
\* unless one of his students is assigned to him in two cohorts
\* (analytics.service.ts:796).
WorkloadMatchesList ==
  /\ \A f \in Facilitators :
       LET readable == {r \in Rows : CanRead(f, r)}
       IN  /\ Listed(f, Students, Cohorts, Facilitators) = readable
           /\ \A s \in Students, c \in Cohorts, g \in Facilitators :
                Listed(f, {s}, {c}, {g}) \subseteq readable
  /\ \A f \in Facilitators :
       (\A x, y \in roster : (x[1] = f /\ y[1] = f /\ x[2] = y[2]) => x = y) =>
         LET mine == Listed(f, Students, Cohorts, Facilitators)
             Of(statuses) == {r \in mine : assessment[r].status \in statuses}
         IN  /\ MentorWorkload(f).pendingReviews = Cardinality(Of(Pending))
             /\ MentorWorkload(f).completedReviews = Cardinality(Of({"completed"}))

\* A student's standing moves only when an assessment completes or is deleted or
\* the cohort changes its scale: neither by moving, nor by a new mentor, nor by
\* retiring a dimension or closing a period (analytics.service.ts:765).
RiskIsStable ==
  [][\A c \in Cohorts :
       (AtRiskStudents(c)' # AtRiskStudents(c)) =>
         Completed' # Completed \/ cohort'[c].scale # cohort[c].scale]_vars

\* Graded work is kept: no step but the removal of the user or of the period
\* changes a completed row (schema.prisma:299, dimensions.service.ts:58).
GradedIsKept ==
  [][\A r \in Completed :
       \/ r \in DOMAIN assessment' /\ assessment'[r] = assessment[r]
       \/ member'[r[1]] = NoAccount
       \/ period'[r[2]] = "none"]_vars
=============================================================================
