------------------------------- MODULE Programme -------------------------------
(***************************************************************************)
(* The programme as a whole: users, cohorts, dimensions, periods, mentor   *)
(* assignments and assessments, with every handler one step.  That is what *)
(* the handlers amount to when requests do not overlap: the modules        *)
(* AssessmentLifecycle, PeriodOpening, MentorAssignments and Accounts take *)
(* them apart.  Here they are composed, because what a reader is shown     *)
(* (ProgrammeAnalytics) depends on all of them at once: students move      *)
(* between cohorts, cohorts change their scale, dimensions are retired,    *)
(* periods are closed, and the assessments of before remain.               *)
(*                                                                         *)
(* Of an assessment the status, the agreed scores and the flags are kept.  *)
(* Self and mentor scores are shown as they are stored, so are left out.   *)
(***************************************************************************)
EXTENDS Integers, FiniteSets

CONSTANTS
  Students, Facilitators, Cohorts, Dimensions, Periods,
  CohortOf,     \* the cohort of a period or dimension
  StartOf,      \* the start date of a period or cohort
  NoCohort,     \* an account that is not enrolled
  NoAccount,    \* no such user
  Setups,       \* initial databases: accounts, periods and active dimensions
  \* What requests ask for, each a bound on the inputs:
  Payloads,     \* the agreed scores a review gives, of some dimensions or none
  Enrolments,   \* student and cohort
  Assignable,   \* facilitator, student and cohort
  CohortEdits,  \* cohort, scoringScaleMax and status; also what Init may hold
  Creatable,    \* periods, by id
  Retirable,    \* dimensions
  Deactivatable \* students whose account may be inactive, or of another role

ASSUME ProgrammeAssumption ==
  /\ \A S \in {Students, Facilitators, Cohorts, Dimensions, Periods} : IsFiniteSet(S)
  /\ \A x \in Periods \cup Dimensions : CohortOf[x] \in Cohorts
  /\ \A x \in Periods \cup Cohorts : StartOf[x] \in Nat
  /\ \A p, q \in Periods : StartOf[p] = StartOf[q] => p = q
  /\ \A given \in Payloads : /\ DOMAIN given \subseteq Dimensions
                            /\ \A d \in DOMAIN given : given[d] \in Nat \ {0}
  /\ NoCohort \notin Cohorts /\ NoAccount \notin Cohorts /\ NoCohort # NoAccount
  /\ Setups \subseteq [students: SUBSET Students, periods: SUBSET Periods,
                       dimensions: SUBSET Dimensions]
  /\ Enrolments \subseteq Students \X Cohorts
  /\ Assignable \subseteq Facilitators \X Students \X Cohorts
  /\ CohortEdits \subseteq Cohorts \X (Nat \ {0}) \X {"active", "completed", "archived"}
  /\ Creatable \subseteq Periods /\ Retirable \subseteq Dimensions
  /\ Deactivatable \subseteq Students

VARIABLES
  member,      \* cohort_members: the cohort a student's account is in
  cohort,      \* cohorts: scale and status
  active,      \* dimensions whose isActive is set
  period,      \* assessment_periods: the status, "none" without a row
  roster,      \* the active mentor_assignments, <<facilitator, student, cohort>>
  assessment   \* assessments by <<student, period>>, joined with their scores

vars == <<member, cohort, active, period, roster, assessment>>

-----------------------------------------------------------------------------
(* Data. *)

Accounts == {s \in Students : member[s] # NoAccount}

Enrolled(c) == {s \in Accounts : member[s] = c}

PeriodStatus == {"none", "upcoming", "active", "completed"}

Statuses == {"draft", "self_submitted", "mentor_review", "agreed", "completed"}

Pending == {"self_submitted", "mentor_review"}

\* `scored` are the dimensions with a score row; `agreed` maps those that have
\* an agreed score to it.
IsAssessment(a) ==
  /\ a.status \in Statuses
  /\ a.scored \subseteq Dimensions
  /\ a.flagged \subseteq DOMAIN a.agreed /\ DOMAIN a.agreed \subseteq a.scored
  /\ \A d \in DOMAIN a.agreed : a.agreed[d] \in Nat \ {0}

Rows == DOMAIN assessment

Completed == {r \in Rows : assessment[r].status = "completed"}

Without(rows) == [r \in Rows \ rows |-> assessment[r]]

\* mentor_assignments.active by student id.
IsAssigned(f, s) == \E c \in Cohorts : <<f, s, c>> \in roster

StudentIdsForFacilitator(f) == {s \in Students : IsAssigned(f, s)}

-----------------------------------------------------------------------------
(* Users, cohorts and dimensions. *)

\* users.update with a cohortId: setCohort replaces the membership.  Nothing
\* else follows the student: neither assessments nor assignments.
Enrol(s, c) ==
  /\ s \in Accounts /\ member[s] # c
  /\ member' = [member EXCEPT ![s] = c]
  /\ UNCHANGED <<cohort, active, period, roster, assessment>>

\* Fault: the assignments of a removed user stay.
RemoveUserOrphaning(s) ==
  /\ s \in Accounts
  /\ member' = [member EXCEPT ![s] = NoAccount]
  /\ assessment' = Without({r \in Rows : r[1] = s})
  /\ UNCHANGED <<cohort, active, period, roster>>

\* users.remove: the foreign keys cascade.
RemoveUser(s) ==
  /\ s \in Accounts
  /\ member' = [member EXCEPT ![s] = NoAccount]
  /\ roster' = {r \in roster : r[2] # s}
  /\ assessment' = Without({r \in Rows : r[1] = s})
  /\ UNCHANGED <<cohort, active, period>>

\* cohorts.update; scores already given keep their values.
UpdateCohort(c, scale, status) ==
  /\ cohort' = [cohort EXCEPT ![c] = [scale |-> scale, status |-> status]]
  /\ UNCHANGED <<member, active, period, roster, assessment>>

\* dimensions.update or deactivate; score rows stay.
SetDimension(d, isActive) ==
  /\ active' = IF isActive THEN active \cup {d} ELSE active \ {d}
  /\ UNCHANGED <<member, cohort, period, roster, assessment>>

-----------------------------------------------------------------------------
(* Assignments. *)

\* deactivateForStudent, which spares the facilitator being assigned.
Retire(f, s) == {r \in roster : r[2] = s => r[1] = f}

\* assignments.create; without a cohortId it is the student's cohort.  A request
\* refused for a user's role (assignments.service.ts:25) changes nothing.
Assign(f, s, c) ==
  /\ s \in Accounts
  /\ roster' = Retire(f, s) \cup {<<f, s, c>>}
  /\ UNCHANGED <<member, cohort, active, period, assessment>>

\* assignments.remove deletes one row.
Unassign(row) ==
  /\ roster' = roster \ {row}
  /\ UNCHANGED <<member, cohort, active, period, assessment>>

-----------------------------------------------------------------------------
(* Periods. *)

\* Fault: students who have an assessment already are not skipped.
DraftedAgain(p, idle) ==
  LET new == {<<s, p>> : s \in Enrolled(CohortOf[p]) \ idle}
      seeded == {d \in active : CohortOf[d] = CohortOf[p]}
  IN  [r \in Rows \cup new |->
         IF r \in new
         THEN [status |-> "draft", scored |-> seeded, agreed |-> <<>>, flagged |-> {}]
         ELSE assessment[r]]

\* generateForPeriod: a draft, with a score row per active dimension, for
\* every active student of the cohort who has none yet.
Drafted(p, idle) ==
  LET new == {<<s, p>> : s \in Enrolled(CohortOf[p]) \ idle} \ Rows
      seeded == {d \in active : CohortOf[d] = CohortOf[p]}
  IN  [r \in Rows \cup new |->
         IF r \in Rows THEN assessment[r]
         ELSE [status |-> "draft", scored |-> seeded, agreed |-> <<>>, flagged |-> {}]]

\* A period that becomes active is opened.  users.update writes role and isActive
\* at any time; they are not kept, and `idle` is whoever is no active student
\* just then.
PutPeriod(p, status) ==
  /\ period' = [period EXCEPT ![p] = status]
  /\ \/ /\ status = "active"
        /\ \E idle \in SUBSET Deactivatable : assessment' = Drafted(p, idle)
     \/ /\ status # "active"
        /\ assessment' = assessment
  /\ UNCHANGED <<member, cohort, active, roster>>

\* periods.create, with any status.
CreatePeriod(p, status) ==
  /\ period[p] = "none"
  /\ PutPeriod(p, status)

\* periods.update.
SetPeriod(p, status) ==
  /\ period[p] # "none" /\ status # period[p]
  /\ PutPeriod(p, status)

\* periods.remove: only an upcoming one; its assessments cascade.
RemovePeriod(p) ==
  /\ period[p] = "upcoming"
  /\ period' = [period EXCEPT ![p] = "none"]
  /\ assessment' = Without({r \in Rows : r[2] = p})
  /\ UNCHANGED <<member, cohort, active, roster>>

-----------------------------------------------------------------------------
(* Assessments: the cycle of ReviewCycle, whatever the period's status. *)

Becomes(r, a) ==
  /\ assessment' = [assessment EXCEPT ![r] = a]
  /\ UNCHANGED <<member, cohort, active, period, roster>>

\* saveSelf and submitSelf, by the student.  Without score rows there is
\* nothing left to score.
SubmitSelf(r) ==
  /\ assessment[r].status = "draft"
  /\ Becomes(r, [assessment[r] EXCEPT !.status = "self_submitted"])

\* Fault: a review need not mention a dimension.
ReviewableEmpty(f, r) ==
  /\ IsAssigned(f, r[1])
  /\ assessment[r].status \in Pending \cup {"agreed"}

\* assertMentorOf, the status check, and the DTO's @ArrayMinSize(1): a payload
\* names at least one dimension, and only ones that have a score row.
Reviewable(f, r) ==
  /\ IsAssigned(f, r[1])
  /\ assessment[r].status \in Pending \cup {"agreed"}
  /\ assessment[r].scored # {}

InRange(scores, scaleMax) == \A d \in DOMAIN scores : scores[d] <= scaleMax

\* What is given is written over what there is; a dimension left out is left alone.
Overlay(stored, given) ==
  [d \in DOMAIN stored \cup DOMAIN given |->
     IF d \in DOMAIN given THEN given[d] ELSE stored[d]]

\* The first edit moves the assessment into review, an agreed one stays agreed.
ReviewStatus(status, mark) ==
  IF mark THEN "agreed" ELSE IF status = "self_submitted" THEN "mentor_review" ELSE status

\* saveMentor.  Only what is given is held against the scale, so a score agreed
\* on another scale may stay; markAgreed needs a score for every dimension.
Review(f, r, given, mark) ==
  LET a == assessment[r]
      agreed == Overlay(a.agreed, given)
  IN  /\ Reviewable(f, r)
      /\ DOMAIN given \subseteq a.scored
      /\ InRange(given, cohort[CohortOf[r[2]]].scale)
      /\ mark => DOMAIN agreed = a.scored
      /\ Becomes(r, [a EXCEPT !.agreed = agreed, !.status = ReviewStatus(a.status, mark)])

\* previousAgreedScores: the completed assessment before, in any cohort.
Previous(r) ==
  LET earlier == {q \in Completed : q[1] = r[1] /\ StartOf[q[2]] < StartOf[r[2]]}
  IN  {q \in earlier : \A e \in earlier : StartOf[e[2]] <= StartOf[q[2]]}

Recommended(r) ==
  LET a == assessment[r]
      scaleMax == cohort[CohortOf[r[2]]].scale
  IN  {d \in DOMAIN a.agreed :
         \/ 5 * a.agreed[d] <= 2 * scaleMax
         \/ \E q \in Previous(r) : /\ d \in DOMAIN assessment[q].agreed
                                   /\ a.agreed[d] <= assessment[q].agreed[d]}

\* submitMentor.
Complete(f, r) ==
  /\ IsAssigned(f, r[1])
  /\ assessment[r].status = "agreed"
  /\ Becomes(r, [assessment[r] EXCEPT !.status = "completed",
                                      !.flagged = Recommended(r)])

-----------------------------------------------------------------------------

Init ==
  \E setup \in Setups :
    /\ member = [s \in Students |-> IF s \in setup.students THEN NoCohort ELSE NoAccount]
    /\ \E edit \in [Cohorts -> CohortEdits] :
       /\ \A c \in Cohorts : edit[c][1] = c /\ edit[c][3] = "active"
       /\ cohort = [c \in Cohorts |-> [scale |-> edit[c][2], status |-> edit[c][3]]]
    /\ active = setup.dimensions
    /\ period = [p \in Periods |-> IF p \in setup.periods THEN "upcoming" ELSE "none"]
    /\ roster = {}
    /\ assessment = <<>>

ReviewNext ==
  \E r \in Rows :
    \/ SubmitSelf(r)
    \/ \E f \in Facilitators :
         \/ \E given \in Payloads, mark \in BOOLEAN : Review(f, r, given, mark)
         \/ Complete(f, r)

Next ==
  \/ ReviewNext
  \/ \E e \in Enrolments : Enrol(e[1], e[2])
  \/ \E s \in Students : RemoveUser(s)
  \/ \E e \in CohortEdits : UpdateCohort(e[1], e[2], e[3])
  \/ \E d \in Retirable, b \in BOOLEAN : SetDimension(d, b)
  \/ \E a \in Assignable : Assign(a[1], a[2], a[3])
  \/ \E row \in roster : Unassign(row)
  \/ \E p \in Creatable, st \in PeriodStatus \ {"none"} : CreatePeriod(p, st)
  \/ \E p \in Periods, st \in PeriodStatus \ {"none"} : SetPeriod(p, st)
  \/ \E p \in Periods : RemovePeriod(p)

Spec == Init /\ [][Next]_vars
=============================================================================
