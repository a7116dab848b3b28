---------------------------- MODULE ProgrammeProofs ----------------------------
(***************************************************************************)
(* What holds of the programme and of what its analytics answer, for every *)
(* number of users, cohorts, dimensions and periods and for all inputs.    *)
(*                                                                         *)
(* The inductive invariant ProgrammeInv adds to the types of the tables    *)
(* that an assessment has score rows for dimensions of its own cohort      *)
(* alone, and that a graded one has some and an agreed score for each.     *)
(* Both are established far from where they are used: at the opening of a  *)
(* period and at the agreement.                                            *)
(*                                                                         *)
(* The sections after it prove, from ProgrammeInv, what the answers have   *)
(* to do with each other: risk, workload, overview, the two pages, and     *)
(* last the pure functions.                                                *)
(***************************************************************************)
EXTENDS ProgrammeAnalytics, SumTheorems

IsRecord(a) ==
  a = [status |-> a.status, scored |-> a.scored, agreed |-> a.agreed, flagged |-> a.flagged]

IsGraded(a) == a.status \in {"agreed", "completed"}

RowOK(r, a) ==
  /\ IsRecord(a)
  /\ IsAssessment(a)
  /\ a.scored \subseteq DimensionsForCohort(CohortOf[r[2]])
  /\ IsGraded(a) => a.scored # {} /\ DOMAIN a.agreed = a.scored

AllRowsOK ==
  /\ assessment = [r \in Rows |-> assessment[r]]
  /\ \A r \in Rows : RowOK(r, assessment[r])

ProgrammeInv == TypeOK /\ AllRowsOK

-----------------------------------------------------------------------------
(* The records. *)

LEMMA StatusEdited ==
  ASSUME NEW a, IsRecord(a), NEW status, NEW b, b = [a EXCEPT !.status = status]
  PROVE  /\ IsRecord(b)
         /\ b.status = status /\ b.scored = a.scored
         /\ b.agreed = a.agreed /\ b.flagged = a.flagged
<1>1. b = [status |-> status, scored |-> a.scored, agreed |-> a.agreed, flagged |-> a.flagged]
  BY SMT DEF IsRecord
<1> QED BY <1>1 DEF IsRecord

LEMMA AgreedEdited ==
  ASSUME NEW a, IsRecord(a), NEW agreed, NEW b, b = [a EXCEPT !.agreed = agreed]
  PROVE  /\ IsRecord(b)
         /\ b.status = a.status /\ b.scored = a.scored
         /\ b.agreed = agreed /\ b.flagged = a.flagged
<1>1. b = [status |-> a.status, scored |-> a.scored, agreed |-> agreed, flagged |-> a.flagged]
  BY SMT DEF IsRecord
<1> QED BY <1>1 DEF IsRecord

LEMMA FlagsEdited ==
  ASSUME NEW a, IsRecord(a), NEW flagged, NEW b, b = [a EXCEPT !.flagged = flagged]
  PROVE  /\ IsRecord(b)
         /\ b.status = a.status /\ b.scored = a.scored
         /\ b.agreed = a.agreed /\ b.flagged = flagged
<1>1. b = [status |-> a.status, scored |-> a.scored, agreed |-> a.agreed, flagged |-> flagged]
  BY SMT DEF IsRecord
<1> QED BY <1>1 DEF IsRecord

\* A row is a student's, who has an account, and a period's, which exists.
LEMMA RowIsPair ==
  ASSUME TypeOK, NEW r \in Rows
  PROVE  /\ r[1] \in Students /\ member[r[1]] # NoAccount
         /\ r[2] \in Periods /\ period[r[2]] # "none"
         /\ r = <<r[1], r[2]>>
BY DEF TypeOK, Accounts

-----------------------------------------------------------------------------
(* The steps of a review change one row, which stays a lawful one. *)

LEMMA RowBecomes ==
  ASSUME ProgrammeInv, NEW r \in Rows, NEW a, RowOK(r, a), Becomes(r, a)
  PROVE  ProgrammeInv'
<1>1. /\ Rows' = Rows
      /\ assessment' = [q \in Rows |-> IF q = r THEN a ELSE assessment[q]]
      /\ UNCHANGED <<member, cohort, active, period, roster>>
  BY DEF ProgrammeInv, AllRowsOK, Becomes, Rows
<1>2. \A q \in Rows : RowOK(q, assessment'[q])
  BY <1>1 DEF ProgrammeInv, AllRowsOK
<1>3. AllRowsOK'
  <2>1. assessment' = [q \in Rows' |-> assessment'[q]]
    BY <1>1
  <2> QED BY <1>1, <1>2, <2>1, Zenon DEF AllRowsOK
<1>4. TypeOK'
  <2>1. \A q \in Rows : IsAssessment(assessment'[q])
    BY <1>2 DEF RowOK
  <2> QED BY <1>1, <2>1 DEF ProgrammeInv, TypeOK, Accounts, IsAssessment
<1> QED BY <1>3, <1>4 DEF ProgrammeInv

-----------------------------------------------------------------------------
(* The actions. *)

LEMMA InitHolds ==
  ASSUME ProgrammeAssumption, Init
  PROVE  ProgrammeInv
<1>1. PICK setup \in Setups :
        /\ member = [s \in Students |-> IF s \in setup.students THEN NoCohort ELSE NoAccount]
        /\ \E edit \in [Cohorts -> CohortEdits] :
             /\ \A c \in Cohorts : edit[c][1] = c /\ edit[c][3] = "active"
             /\ cohort = [c \in Cohorts |-> [scale |-> edit[c][2], status |-> edit[c][3]]]
        /\ active = setup.dimensions
        /\ period = [p \in Periods |-> IF p \in setup.periods THEN "upcoming" ELSE "none"]
        /\ roster = {}
        /\ assessment = <<>>
  BY DEF Init
<1>2. setup.dimensions \subseteq Dimensions
  BY DEF ProgrammeAssumption
<1>3. cohort \in [Cohorts -> [scale: Nat \ {0}, status: {"active", "completed", "archived"}]]
  <2>1. PICK edit \in [Cohorts -> CohortEdits] :
          /\ \A c \in Cohorts : edit[c][1] = c /\ edit[c][3] = "active"
          /\ cohort = [c \in Cohorts |-> [scale |-> edit[c][2], status |-> edit[c][3]]]
    BY <1>1
  <2>2. \A c \in Cohorts : edit[c][2] \in Nat \ {0}
    BY DEF ProgrammeAssumption
  <2> QED BY <2>1, <2>2
<1>4. Rows = {} /\ assessment = [r \in {} |-> assessment[r]]
  BY <1>1 DEF Rows
<1>5. TypeOK
  BY <1>1, <1>2, <1>3, <1>4 DEF TypeOK, PeriodStatus
<1> QED BY <1>4, <1>5 DEF ProgrammeInv, AllRowsOK

\* The steps that leave the assessments and whatever they refer to.
LEMMA EnrolKeeps ==
  ASSUME ProgrammeAssumption, ProgrammeInv, NEW e \in Enrolments, Enrol(e[1], e[2])
  PROVE  ProgrammeInv'
<1>1. e[1] \in Students /\ e[2] \in Cohorts /\ e[2] # NoAccount
  BY DEF ProgrammeAssumption
<1>2. /\ member' \in [Students -> Cohorts \cup {NoCohort, NoAccount}]
      /\ Accounts' = Accounts
  BY <1>1 DEF ProgrammeInv, TypeOK, Enrol, Accounts
<1>3. TypeOK'
  BY <1>2 DEF ProgrammeInv, TypeOK, Enrol, Rows
<1>4. AllRowsOK'
  BY DEF ProgrammeInv, AllRowsOK, Enrol, Rows
<1> QED BY <1>3, <1>4 DEF ProgrammeInv

LEMMA UpdateCohortKeeps ==
  ASSUME ProgrammeAssumption, ProgrammeInv, NEW e \in CohortEdits,
         UpdateCohort(e[1], e[2], e[3])
  PROVE  ProgrammeInv'
<1>1. e[1] \in Cohorts /\ e[2] \in Nat \ {0} /\ e[3] \in {"active", "completed", "archived"}
  BY DEF ProgrammeAssumption
<1>2. cohort' \in [Cohorts -> [scale: Nat \ {0}, status: {"active", "completed", "archived"}]]
  BY <1>1 DEF ProgrammeInv, TypeOK, UpdateCohort
<1>3. TypeOK'
  BY <1>2 DEF ProgrammeInv, TypeOK, UpdateCohort, Rows, Accounts
<1>4. AllRowsOK'
  BY DEF ProgrammeInv, AllRowsOK, UpdateCohort, Rows
<1> QED BY <1>3, <1>4 DEF ProgrammeInv

LEMMA SetDimensionKeeps ==
  ASSUME ProgrammeAssumption, ProgrammeInv, NEW d \in Retirable, NEW b \in BOOLEAN,
         SetDimension(d, b)
  PROVE  ProgrammeInv'
<1>1. active' \subseteq Dimensions
  BY DEF ProgrammeAssumption, ProgrammeInv, TypeOK, SetDimension
<1>2. TypeOK'
  BY <1>1 DEF ProgrammeInv, TypeOK, SetDimension, Rows, Accounts
<1>3. AllRowsOK'
  BY DEF ProgrammeInv, AllRowsOK, SetDimension, Rows
<1> QED BY <1>2, <1>3 DEF ProgrammeInv

LEMMA AssignKeeps ==
  ASSUME ProgrammeAssumption, ProgrammeInv, NEW a \in Assignable, Assign(a[1], a[2], a[3])
  PROVE  ProgrammeInv'
<1>1. a[1] \in Facilitators /\ a[2] \in Accounts /\ a[3] \in Cohorts
  BY DEF ProgrammeAssumption, Assign
<1>2. roster' \subseteq Facilitators \X Accounts \X Cohorts
  <2>1. Retire(a[1], a[2]) \subseteq roster
    BY DEF Retire
  <2>2. roster' = Retire(a[1], a[2]) \cup {<<a[1], a[2], a[3]>>}
    BY DEF Assign
  <2>3. roster \subseteq Facilitators \X Accounts \X Cohorts
    BY DEF ProgrammeInv, TypeOK
  <2> QED BY <1>1, <2>1, <2>2, <2>3
<1>3. UNCHANGED <<member, cohort, active, period, assessment>>
  BY DEF Assign
<1>4. TypeOK'
  BY <1>2, <1>3 DEF ProgrammeInv, TypeOK, Rows, Accounts
<1>5. AllRowsOK'
  BY <1>3 DEF ProgrammeInv, AllRowsOK, Rows
<1> QED BY <1>4, <1>5 DEF ProgrammeInv

LEMMA UnassignKeeps ==
  ASSUME ProgrammeInv, NEW row \in roster, Unassign(row)
  PROVE  ProgrammeInv'
<1>1. roster' \subseteq roster /\ UNCHANGED <<member, cohort, active, period, assessment>>
  BY DEF Unassign
<1>2. TypeOK'
  BY <1>1 DEF ProgrammeInv, TypeOK, Rows, Accounts
<1>3. AllRowsOK'
  BY <1>1 DEF ProgrammeInv, AllRowsOK, Rows
<1> QED BY <1>2, <1>3 DEF ProgrammeInv

\* Rows that are deleted leave the others as they were.
LEMMA WithoutKeeps ==
  ASSUME ProgrammeInv, NEW gone, assessment' = Without(gone)
  PROVE  /\ Rows' = Rows \ gone
         /\ \A r \in Rows' : assessment'[r] = assessment[r]
         /\ AllRowsOK'
<1>1. Rows' = Rows \ gone /\ \A r \in Rows' : assessment'[r] = assessment[r]
  BY DEF Without, Rows
<1>2. assessment' = [r \in Rows' |-> assessment'[r]]
  BY <1>1 DEF Without
<1>3. \A r \in Rows' : RowOK(r, assessment'[r])
  BY <1>1 DEF ProgrammeInv, AllRowsOK
<1>4. AllRowsOK'
  BY <1>2, <1>3, Zenon DEF AllRowsOK
<1> QED BY <1>1, <1>4

LEMMA RemoveUserKeeps ==
  ASSUME ProgrammeAssumption, ProgrammeInv, NEW s \in Students, RemoveUser(s)
  PROVE  ProgrammeInv'
<1> DEFINE gone == {r \in Rows : r[1] = s}
<1>1. /\ member' = [member EXCEPT ![s] = NoAccount]
      /\ roster' = {r \in roster : r[2] # s}
      /\ assessment' = Without(gone)
      /\ UNCHANGED <<cohort, active, period>>
  BY DEF RemoveUser
<1>2. /\ Rows' = Rows \ gone
      /\ \A r \in Rows' : assessment'[r] = assessment[r]
      /\ AllRowsOK'
  BY <1>1, WithoutKeeps
<1>3. /\ member' \in [Students -> Cohorts \cup {NoCohort, NoAccount}]
      /\ Accounts' = Accounts \ {s}
  BY <1>1 DEF ProgrammeInv, TypeOK, Accounts
<1>4. roster' \subseteq Facilitators \X Accounts' \X Cohorts
  BY <1>1, <1>3 DEF ProgrammeInv, TypeOK
<1>5. Rows' \subseteq Accounts' \X {p \in Periods : period'[p] # "none"}
  BY <1>1, <1>2, <1>3 DEF ProgrammeInv, TypeOK
<1>6. \A r \in Rows' : IsAssessment(assessment'[r])
  BY <1>2 DEF ProgrammeInv, TypeOK
<1>7. TypeOK'
  BY <1>1, <1>3, <1>4, <1>5, <1>6 DEF ProgrammeInv, TypeOK
<1> QED BY <1>2, <1>7 DEF ProgrammeInv

LEMMA RemovePeriodKeeps ==
  ASSUME ProgrammeInv, NEW p \in Periods, RemovePeriod(p)
  PROVE  ProgrammeInv'
<1> DEFINE gone == {r \in Rows : r[2] = p}
<1>1. /\ period' = [period EXCEPT ![p] = "none"]
      /\ assessment' = Without(gone)
      /\ UNCHANGED <<member, cohort, active, roster>>
  BY DEF RemovePeriod
<1>2. /\ Rows' = Rows \ gone
      /\ \A r \in Rows' : assessment'[r] = assessment[r]
      /\ AllRowsOK'
  BY <1>1, WithoutKeeps
<1>3. period' \in [Periods -> PeriodStatus] /\ Accounts' = Accounts
  BY <1>1 DEF ProgrammeInv, TypeOK, PeriodStatus, Accounts
<1>4. Rows' \subseteq Accounts' \X {q \in Periods : period'[q] # "none"}
  BY <1>1, <1>2, <1>3 DEF ProgrammeInv, TypeOK
<1>5. \A r \in Rows' : IsAssessment(assessment'[r])
  BY <1>2 DEF ProgrammeInv, TypeOK
<1>6. TypeOK'
  BY <1>1, <1>3, <1>4, <1>5 DEF ProgrammeInv, TypeOK
<1> QED BY <1>2, <1>6 DEF ProgrammeInv

\* What the opening of a period adds is a draft with the dimensions of the
\* period's cohort.
LEMMA DraftedKeeps ==
  ASSUME ProgrammeAssumption, ProgrammeInv, NEW p \in Periods, NEW idle,
         assessment' = Drafted(p, idle)
  PROVE  /\ Rows' \subseteq Rows \cup {<<s, p>> : s \in Enrolled(CohortOf[p])}
         /\ \A r \in Rows : r \in Rows' /\ assessment'[r] = assessment[r]
         /\ AllRowsOK'
<1> DEFINE new == {<<s, p>> : s \in Enrolled(CohortOf[p]) \ idle} \ Rows
           seeded == {d \in active : CohortOf[d] = CohortOf[p]}
           draft == [status |-> "draft", scored |-> seeded, agreed |-> <<>>, flagged |-> {}]
<1>1. assessment' = [r \in Rows \cup new |-> IF r \in Rows THEN assessment[r] ELSE draft]
  BY Zenon DEF Drafted
<1>2. seeded \subseteq DimensionsForCohort(CohortOf[p])
  BY DEF ProgrammeInv, TypeOK, DimensionsForCohort
<1>3. \A r \in new : RowOK(r, draft)
  <2>1. \A r \in new : r[2] = p
    OBVIOUS
  <2>2. IsRecord(draft)
    BY DEF IsRecord
  <2>3. IsAssessment(draft)
    <3>1. DOMAIN draft.agreed = {}
      OBVIOUS
    <3>2. draft.status \in Statuses /\ draft.scored \subseteq Dimensions
      BY <1>2 DEF Statuses, DimensionsForCohort
    <3>3. draft.flagged = {}
      OBVIOUS
    <3> QED BY <3>1, <3>2, <3>3 DEF IsAssessment
  <2>4. draft.scored = seeded /\ ~ IsGraded(draft)
    BY DEF IsGraded
  <2> HIDE DEF draft, new, seeded
  <2> QED BY <1>2, <2>1, <2>2, <2>3, <2>4 DEF RowOK
<1>4. Rows' = Rows \cup new
  BY <1>1 DEF Rows
<1> HIDE DEF new, draft
<1>5. \A r \in Rows : assessment'[r] = assessment[r]
  BY <1>1
<1>6. \A r \in new : r \notin Rows
  BY DEF new
<1>7. \A r \in Rows' : RowOK(r, assessment'[r])
  BY <1>1, <1>3, <1>4 DEF ProgrammeInv, AllRowsOK
<1>8. assessment' = [r \in Rows' |-> assessment'[r]]
  BY <1>1, <1>4
<1>9. AllRowsOK'
  BY <1>7, <1>8, Zenon DEF AllRowsOK
<1> QED BY <1>4, <1>5, <1>9 DEF new

LEMMA PutPeriodKeeps ==
  ASSUME ProgrammeAssumption, ProgrammeInv, NEW p \in Periods,
         NEW st \in PeriodStatus \ {"none"}, PutPeriod(p, st)
  PROVE  ProgrammeInv' /\ \A r \in Rows : r \in Rows' /\ assessment'[r] = assessment[r]
<1>1. /\ period' = [period EXCEPT ![p] = st]
      /\ \/ st = "active" /\ \E idle \in SUBSET Deactivatable : assessment' = Drafted(p, idle)
         \/ st # "active" /\ assessment' = assessment
      /\ UNCHANGED <<member, cohort, active, roster>>
  BY DEF PutPeriod
<1>2. /\ Rows' \subseteq Rows \cup {<<s, p>> : s \in Enrolled(CohortOf[p])}
      /\ \A r \in Rows : r \in Rows' /\ assessment'[r] = assessment[r]
      /\ AllRowsOK'
  <2>1. CASE st = "active"
    <3>1. PICK idle \in SUBSET Deactivatable : assessment' = Drafted(p, idle)
      BY <1>1, <2>1
    <3>2. QED
      BY <3>1, DraftedKeeps
  <2>2. CASE st # "active"
    BY <1>1, <2>2 DEF ProgrammeInv, AllRowsOK, Rows
  <2> QED BY <2>1, <2>2
<1>3. /\ period' \in [Periods -> PeriodStatus] /\ Accounts' = Accounts
      /\ \A q \in Periods : period[q] # "none" => period'[q] # "none"
      /\ period'[p] # "none"
  BY <1>1 DEF ProgrammeInv, TypeOK, PeriodStatus, Accounts
<1>4. Rows' \subseteq Accounts' \X {q \in Periods : period'[q] # "none"}
  BY <1>2, <1>3 DEF ProgrammeInv, TypeOK, Enrolled
<1>5. \A r \in Rows' : IsAssessment(assessment'[r])
  BY <1>2 DEF AllRowsOK, RowOK
<1>6. TypeOK'
  BY <1>1, <1>3, <1>4, <1>5 DEF ProgrammeInv, TypeOK
<1> QED BY <1>2, <1>6 DEF ProgrammeInv

\* Every step of a review has this shape, and spares completed rows.
ReviewStep ==
  \E r \in Rows : /\ assessment[r].status # "completed"
                  /\ \E a : RowOK(r, a) /\ Becomes(r, a)

LEMMA SubmitSelfIsReview ==
  ASSUME ProgrammeInv, NEW r \in Rows, SubmitSelf(r)
  PROVE  ReviewStep
<1> DEFINE a == assessment[r]
           b == [a EXCEPT !.status = "self_submitted"]
<1>1. RowOK(r, a)
  BY DEF ProgrammeInv, AllRowsOK
<1>2. a.status = "draft" /\ Becomes(r, b)
  BY DEF SubmitSelf
<1>3. /\ IsRecord(b)
      /\ b.status = "self_submitted" /\ b.scored = a.scored
      /\ b.agreed = a.agreed /\ b.flagged = a.flagged
  <2>1. IsRecord(a)
    BY <1>1 DEF RowOK
  <2> HIDE DEF a
  <2> QED BY <2>1, StatusEdited
<1> HIDE DEF a, b
<1>4. RowOK(r, b)
  BY <1>1, <1>3 DEF RowOK, IsAssessment, IsGraded, Statuses
<1>5. assessment[r].status # "completed"
  BY <1>2 DEF a
<1> QED BY <1>2, <1>4, <1>5 DEF ReviewStep

LEMMA ReviewIsReview ==
  ASSUME ProgrammeAssumption, ProgrammeInv, NEW r \in Rows, NEW f \in Facilitators,
         NEW given \in Payloads, NEW mark \in BOOLEAN, Review(f, r, given, mark)
  PROVE  ReviewStep
<1> DEFINE a == assessment[r]
           agreed == Overlay(a.agreed, given)
           status == ReviewStatus(a.status, mark)
           b == [a EXCEPT !.agreed = agreed, !.status = status]
<1>1. RowOK(r, a)
  BY DEF ProgrammeInv, AllRowsOK
<1>2. /\ a.status \in Pending \cup {"agreed"} /\ a.scored # {}
      /\ DOMAIN given \subseteq a.scored
      /\ mark => DOMAIN agreed = a.scored
      /\ Becomes(r, b)
  BY DEF Review, Reviewable
<1>3. /\ IsRecord(b)
      /\ b.status = status /\ b.scored = a.scored
      /\ b.agreed = agreed /\ b.flagged = a.flagged
  <2>1. IsRecord(a)
    BY <1>1 DEF RowOK
  <2> DEFINE c == [a EXCEPT !.agreed = agreed]
  <2>2. c = [a EXCEPT !.agreed = agreed] /\ b = [c EXCEPT !.status = status]
    OBVIOUS
  <2> HIDE DEF a, b, c, agreed, status
  <2>3. /\ IsRecord(c)
        /\ c.status = a.status /\ c.scored = a.scored
        /\ c.agreed = agreed /\ c.flagged = a.flagged
    BY <2>1, <2>2, AgreedEdited
  <2>4. IsRecord(c) /\ b = [c EXCEPT !.status = status]
    BY <2>2, <2>3
  <2>5. /\ IsRecord(b)
        /\ b.status = status /\ b.scored = c.scored
        /\ b.agreed = c.agreed /\ b.flagged = c.flagged
    BY ONLY <2>4, StatusEdited
  <2> QED BY <2>3, <2>5, Zenon
<1>4. /\ DOMAIN agreed = DOMAIN a.agreed \cup DOMAIN given
      /\ DOMAIN agreed \subseteq a.scored
      /\ \A d \in DOMAIN agreed : agreed[d] \in Nat \ {0}
  <2>1. /\ DOMAIN agreed = DOMAIN a.agreed \cup DOMAIN given
        /\ \A d \in DOMAIN agreed :
             agreed[d] = IF d \in DOMAIN given THEN given[d] ELSE a.agreed[d]
    BY DEF Overlay
  <2>2. \A d \in DOMAIN given : given[d] \in Nat \ {0}
    BY DEF ProgrammeAssumption
  <2> HIDE DEF a, agreed
  <2> QED BY <1>1, <1>2, <2>1, <2>2 DEF RowOK, IsAssessment
<1>5. /\ status \in Statuses
      /\ status \in {"agreed", "completed"} => mark \/ a.status = "agreed"
  BY <1>2 DEF ReviewStatus, Statuses, Pending
<1> HIDE DEF a, b, agreed, status
<1>6. RowOK(r, b)
  <2>1. IsAssessment(b)
    BY <1>1, <1>3, <1>4, <1>5 DEF RowOK, IsAssessment
  <2>2. IsGraded(b) => b.scored # {} /\ DOMAIN b.agreed = b.scored
    <3>1. CASE mark
      BY <1>2, <1>3, <3>1
    <3>2. CASE a.status = "agreed"
      <4>1. DOMAIN a.agreed = a.scored
        BY <1>1, <3>2 DEF RowOK, IsGraded
      <4> QED BY <1>2, <1>3, <1>4, <4>1
    <3> QED BY <1>3, <1>5, <3>1, <3>2 DEF IsGraded
  <2> QED BY <1>1, <1>3, <2>1, <2>2 DEF RowOK
<1>7. assessment[r].status # "completed"
  BY <1>2 DEF a, Pending
<1> QED BY <1>2, <1>6, <1>7 DEF ReviewStep

LEMMA CompleteIsReview ==
  ASSUME ProgrammeInv, NEW r \in Rows, NEW f \in Facilitators, Complete(f, r)
  PROVE  ReviewStep
<1> DEFINE a == assessment[r]
           b == [a EXCEPT !.status = "completed", !.flagged = Recommended(r)]
<1>1. RowOK(r, a)
  BY DEF ProgrammeInv, AllRowsOK
<1>2. a.status = "agreed" /\ Becomes(r, b)
  BY DEF Complete
<1>3. /\ IsRecord(b)
      /\ b.status = "completed" /\ b.scored = a.scored
      /\ b.agreed = a.agreed /\ b.flagged = Recommended(r)
  <2>1. IsRecord(a)
    BY <1>1 DEF RowOK
  <2> DEFINE c == [a EXCEPT !.status = "completed"]
  <2>2. c = [a EXCEPT !.status = "completed"] /\ b = [c EXCEPT !.flagged = Recommended(r)]
    OBVIOUS
  <2> HIDE DEF a, b, c
  <2>3. /\ IsRecord(c)
        /\ c.status = "completed" /\ c.scored = a.scored
        /\ c.agreed = a.agreed /\ c.flagged = a.flagged
    BY <2>1, <2>2, StatusEdited
  <2>4. IsRecord(c) /\ b = [c EXCEPT !.flagged = Recommended(r)]
    BY <2>2, <2>3
  <2>5. /\ IsRecord(b)
        /\ b.status = c.status /\ b.scored = c.scored
        /\ b.agreed = c.agreed /\ b.flagged = Recommended(r)
    BY ONLY <2>4, FlagsEdited
  <2> QED BY <2>3, <2>5, Zenon
<1>4. Recommended(r) \subseteq DOMAIN a.agreed
  BY DEF Recommended
<1> HIDE DEF a, b
<1>5. RowOK(r, b)
  BY <1>1, <1>2, <1>3, <1>4 DEF RowOK, IsAssessment, IsGraded, Statuses
<1>6. assessment[r].status # "completed"
  BY <1>2 DEF a
<1> QED BY <1>2, <1>5, <1>6 DEF ReviewStep

LEMMA ReviewNextIsReview ==
  ASSUME ProgrammeAssumption, ProgrammeInv, ReviewNext
  PROVE  ReviewStep
<1>1. PICK r \in Rows :
        \/ SubmitSelf(r)
        \/ \E f \in Facilitators :
             \/ \E given \in Payloads, mark \in BOOLEAN : Review(f, r, given, mark)
             \/ Complete(f, r)
  BY Zenon DEF ReviewNext
<1>2. CASE SubmitSelf(r)
  BY <1>2, SubmitSelfIsReview
<1>4. ASSUME NEW f \in Facilitators, Complete(f, r)
      PROVE  ReviewStep
  BY <1>4, CompleteIsReview
<1>5. ASSUME NEW f \in Facilitators, NEW given \in Payloads, NEW mark \in BOOLEAN,
             Review(f, r, given, mark)
      PROVE  ReviewStep
  BY <1>5, ReviewIsReview
<1> QED BY <1>1, <1>2, <1>4, <1>5, Zenon

LEMMA ReviewStepKeeps ==
  ASSUME ProgrammeInv, ReviewStep
  PROVE  ProgrammeInv'
<1>1. PICK r \in Rows : \E a : RowOK(r, a) /\ Becomes(r, a)
  BY DEF ReviewStep
<1>2. PICK a : RowOK(r, a) /\ Becomes(r, a)
  BY <1>1
<1> QED BY <1>2, RowBecomes

LEMMA StepKeeps ==
  ASSUME ProgrammeAssumption, ProgrammeInv, [Next]_vars
  PROVE  ProgrammeInv'
<1>1. CASE ReviewNext
  BY <1>1, ReviewNextIsReview, ReviewStepKeeps
<1>2. CASE \E e \in Enrolments : Enrol(e[1], e[2])
  BY <1>2, EnrolKeeps
<1>3. CASE \E s \in Students : RemoveUser(s)
  BY <1>3, RemoveUserKeeps
<1>4. CASE \E e \in CohortEdits : UpdateCohort(e[1], e[2], e[3])
  BY <1>4, UpdateCohortKeeps
<1>5. CASE \E d \in Retirable, b \in BOOLEAN : SetDimension(d, b)
  BY <1>5, SetDimensionKeeps
<1>6. CASE \E a \in Assignable : Assign(a[1], a[2], a[3])
  BY <1>6, AssignKeeps
<1>7. CASE \E row \in roster : Unassign(row)
  BY <1>7, UnassignKeeps
<1>8. CASE \E p \in Periods, st \in PeriodStatus \ {"none"} : SetPeriod(p, st)
  BY <1>8, PutPeriodKeeps DEF SetPeriod
<1>9. CASE \E p \in Periods : RemovePeriod(p)
  BY <1>9, RemovePeriodKeeps
<1>10. CASE UNCHANGED vars
  BY <1>10 DEF vars, ProgrammeInv, TypeOK, AllRowsOK, Rows, Accounts
<1>11. CASE \E p \in Creatable, st \in PeriodStatus \ {"none"} : CreatePeriod(p, st)
  <2>1. PICK p \in Periods, st \in PeriodStatus \ {"none"} : PutPeriod(p, st)
    BY <1>11 DEF ProgrammeAssumption, CreatePeriod
  <2> QED BY <2>1, PutPeriodKeeps
<1> QED BY <1>1, <1>2, <1>3, <1>4, <1>5, <1>6, <1>7, <1>8, <1>9, <1>10, <1>11, Zenon DEF Next

LEMMA ProgrammeInvHolds == Spec => []ProgrammeInv
<1>1. Init => ProgrammeInv
  BY InitHolds, ProgrammeAssumption
<1>2. ProgrammeInv /\ [Next]_vars => ProgrammeInv'
  BY StepKeeps, ProgrammeAssumption
<1> QED BY <1>1, <1>2, PTL DEF Spec

\* The tables of the programme refer to what exists, whatever is removed, moved
\* or closed: the foreign keys and their cascades (schema.prisma).
THEOREM TablesAlwaysRefer == Spec => []TypeOK
<1>1. ProgrammeInv => TypeOK
  BY DEF ProgrammeInv
<1> QED BY <1>1, ProgrammeInvHolds, PTL

-----------------------------------------------------------------------------
(* What a step may do to a completed row. *)

Kept(r) ==
  \/ r \in DOMAIN assessment' /\ assessment'[r] = assessment[r]
  \/ member'[r[1]] = NoAccount
  \/ period'[r[2]] = "none"

LEMMA CompletedIsKept ==
  ASSUME ProgrammeAssumption, ProgrammeInv, [Next]_vars, NEW r \in Completed
  PROVE  Kept(r)
<1>0. r \in Rows /\ assessment[r].status = "completed"
  BY DEF Completed
<1>1. /\ r[1] \in Students /\ r[2] \in Periods
      /\ DOMAIN member = Students /\ DOMAIN period = Periods
  BY <1>0, RowIsPair DEF ProgrammeInv, TypeOK
<1>2. CASE ReviewNext
  <2>1. PICK q \in Rows : /\ assessment[q].status # "completed"
                          /\ \E a : RowOK(q, a) /\ Becomes(q, a)
    BY <1>2, ReviewNextIsReview DEF ReviewStep
  <2>2. PICK a : Becomes(q, a)
    BY <2>1
  <2>3. q # r /\ assessment' = [assessment EXCEPT ![q] = a]
    BY <1>0, <2>1, <2>2 DEF Becomes
  <2> QED BY <1>0, <2>3 DEF Kept, Rows
<1>3. CASE \E s \in Students : RemoveUser(s)
  <2>1. PICK s \in Students : RemoveUser(s)
    BY <1>3
  <2>2. CASE r[1] = s
    BY <1>1, <2>1, <2>2 DEF RemoveUser, Kept
  <2>3. CASE r[1] # s
    BY <1>0, <2>1, <2>3 DEF RemoveUser, Without, Kept
  <2> QED BY <2>2, <2>3
<1>4. CASE \E p \in Periods, st \in PeriodStatus \ {"none"} : PutPeriod(p, st)
  BY <1>0, <1>4, PutPeriodKeeps DEF Kept, Rows
<1>5. CASE \E p \in Periods : RemovePeriod(p)
  <2>1. PICK p \in Periods : RemovePeriod(p)
    BY <1>5
  <2>2. CASE r[2] = p
    BY <1>1, <2>1, <2>2 DEF RemovePeriod, Kept
  <2>3. CASE r[2] # p
    BY <1>0, <2>1, <2>3 DEF RemovePeriod, Without, Kept
  <2> QED BY <2>2, <2>3
<1>6. CASE assessment' = assessment
  BY <1>0, <1>6 DEF Kept, Rows
<1>7. \/ ReviewNext
      \/ \E s \in Students : RemoveUser(s)
      \/ \E p \in Periods, st \in PeriodStatus \ {"none"} : PutPeriod(p, st)
      \/ \E p \in Periods : RemovePeriod(p)
      \/ assessment' = assessment
  BY ProgrammeAssumption
     DEF ProgrammeAssumption, Next, vars, Enrol, UpdateCohort, SetDimension, Assign, Unassign,
         CreatePeriod, SetPeriod
<1> QED BY <1>2, <1>3, <1>4, <1>5, <1>6, <1>7

\* Graded work is kept: of all steps only the removal of the user or of the
\* period touches a completed row (schema.prisma:299, dimensions.service.ts:58).
THEOREM GradedAlwaysKept == Spec => GradedIsKept
<1>1. ProgrammeInv /\ [Next]_vars => [\A r \in Completed :
         \/ r \in DOMAIN assessment' /\ assessment'[r] = assessment[r]
         \/ member'[r[1]] = NoAccount
         \/ period'[r[2]] = "none"]_vars
  BY CompletedIsKept, ProgrammeAssumption DEF Kept
<1> QED BY <1>1, ProgrammeInvHolds, PTL DEF Spec, GradedIsKept

-----------------------------------------------------------------------------
(* What the analytics answer of one cohort. *)

LEMMA GradedHaveScores ==
  ASSUME ProgrammeInv, NEW c \in Cohorts, NEW r \in CompletedForCohort(c)
  PROVE  /\ r \in Rows /\ r \in Completed /\ CohortOf[r[2]] = c
         /\ DOMAIN assessment[r].agreed # {}
         /\ DOMAIN assessment[r].agreed \subseteq DimensionsForCohort(c)
         /\ \A d \in DOMAIN assessment[r].agreed : assessment[r].agreed[d] \in Nat \ {0}
<1>1. r \in Rows /\ r \in Completed /\ CohortOf[r[2]] = c /\ assessment[r].status = "completed"
  BY DEF CompletedForCohort, Completed, InCohort
<1>2. RowOK(r, assessment[r])
  BY <1>1 DEF ProgrammeInv, AllRowsOK
<1> QED BY <1>1, <1>2 DEF RowOK, IsAssessment, IsGraded

\* The entry of the heatmap that shows row r.
Entry(c, r, trend) ==
  [student |-> r[1], trend |-> trend,
   average |-> AverageOrNull(AgreedValues(r)),
   scores |-> [d \in DimensionsForCohort(c) \cap DOMAIN assessment[r].agreed |->
                 AgreedValues(r)[d]]]

LEMMA LatestAreShown ==
  ASSUME NEW c, NEW r \in Latest(CompletedForCohort(c))
  PROVE  \E trend : Entry(c, r, trend) \in Heatmap(c)
<1> DEFINE done == CompletedForCohort(c)
           History(s) == LET rows == Chronological({q \in done : q[1] = s})
                         IN  [i \in DOMAIN rows |-> AverageOrNull(AgreedValues(rows[i]))]
<1>1. Entry(c, r, ClassifyTrend(History(r[1]))) \in Heatmap(c)
  BY Zenon DEF Heatmap, Entry
<1> QED BY <1>1, Zenon

LEMMA AtRiskAreGraded == ProgrammeInv => AtRiskIsGraded
<1> SUFFICES ASSUME ProgrammeInv, NEW c \in Cohorts, NEW e \in AtRiskStudents(c)
             PROVE  \E h \in Heatmap(c) : h.student = e.student /\ h.average = e.latestAverage
  BY Zenon DEF AtRiskIsGraded
<1>1. PICK r \in Latest(CompletedForCohort(c)) :
        e = [student |-> r[1], latestAverage |-> Average(AgreedValues(r)),
             coachingFlags |-> CoachingFlags(r)]
  BY DEF AtRiskStudents
<1>2. e.student = r[1] /\ e.latestAverage = Average(AgreedValues(r))
  BY <1>1
<1>3. r \in CompletedForCohort(c)
  BY DEF Latest
<1>4. AverageOrNull(AgreedValues(r)) = Average(AgreedValues(r))
  <2>1. DOMAIN AgreedValues(r) = DOMAIN assessment[r].agreed
    BY DEF AgreedValues
  <2>2. DOMAIN assessment[r].agreed # {}
    BY <1>3, GradedHaveScores
  <2> QED BY <2>1, <2>2 DEF AverageOrNull
<1>5. PICK trend : Entry(c, r, trend) \in Heatmap(c)
  BY LatestAreShown
<1>6. /\ Entry(c, r, trend).student = r[1]
      /\ Entry(c, r, trend).average = AverageOrNull(AgreedValues(r))
  BY DEF Entry
<1>7. /\ Entry(c, r, trend).student = e.student
      /\ Entry(c, r, trend).average = e.latestAverage
  BY <1>2, <1>4, <1>6, Zenon
<1> QED BY <1>5, <1>7, Zenon

\* An average of scores that are there is a number.
LEMMA AverageIsNumber ==
  ASSUME NoScoreAssumption, NEW f, IsFiniteSet(DOMAIN f), DOMAIN f # {},
         \A x \in DOMAIN f : f[x] \in Int
  PROVE  AverageOrNull(f) \in Int /\ AverageOrNull(f) # NoScore
<1>1. SumFunction(f) \in Int
  BY SumIsInteger, SumIsOnDomain
<1>2. Cardinality(DOMAIN f) \in Nat /\ Cardinality(DOMAIN f) # 0
  BY FS_CardinalityType, FS_EmptySet
<1>3. Rounded(SumFunction(f), Cardinality(DOMAIN f)) \in Int
  BY <1>1, <1>2 DEF Rounded
<1>4. AverageOrNull(f) = Rounded(SumFunction(f), Cardinality(DOMAIN f))
  BY Zenon DEF AverageOrNull, Average
<1> QED BY <1>3, <1>4 DEF NoScoreAssumption

\* The tables are finite.
LEMMA RowsAreFinite ==
  ASSUME ProgrammeAssumption, TypeOK
  PROVE  IsFiniteSet(Rows)
<1>1. IsFiniteSet(Students) /\ IsFiniteSet(Periods)
  BY DEF ProgrammeAssumption
<1>2. IsFiniteSet(Students \X Periods)
  BY <1>1, FS_Product
<1>3. Rows \in SUBSET (Students \X Periods)
  BY DEF TypeOK, Accounts
<1> QED BY <1>2, <1>3, FS_Subset

LEMMA HistoryIsVisible ==
  ASSUME ProgrammeAssumption, NoScoreAssumption
  PROVE  ProgrammeInv => HistoryStaysVisible
<1> SUFFICES ASSUME ProgrammeInv, NEW c \in Cohorts, NEW r \in Latest(CompletedForCohort(c))
             PROVE  /\ \E h \in Heatmap(c) : h.student = r[1] /\ h.scores = AgreedValues(r)
                    /\ \A d \in DOMAIN assessment[r].agreed :
                         DimensionAverages(c)[d] # NoScore
  BY Zenon DEF HistoryStaysVisible
<1>1. r \in CompletedForCohort(c)
  BY DEF Latest
<1>2. \E h \in Heatmap(c) : h.student = r[1] /\ h.scores = AgreedValues(r)
  <2>1. PICK trend : Entry(c, r, trend) \in Heatmap(c)
    BY LatestAreShown
  <2>2. Entry(c, r, trend).scores = AgreedValues(r)
    <3>1. DimensionsForCohort(c) \cap DOMAIN assessment[r].agreed
            = DOMAIN assessment[r].agreed
      BY <1>1, GradedHaveScores
    <3>2. AgreedValues(r) = [d \in DOMAIN assessment[r].agreed |-> AgreedValues(r)[d]]
      BY DEF AgreedValues
    <3>3. Entry(c, r, trend).scores
            = [d \in DimensionsForCohort(c) \cap DOMAIN assessment[r].agreed |->
                 AgreedValues(r)[d]]
      BY DEF Entry
    <3> QED BY <3>1, <3>2, <3>3, Zenon
  <2>3. Entry(c, r, trend).student = r[1]
    BY DEF Entry
  <2> QED BY <2>1, <2>2, <2>3, Zenon
<1>3. ASSUME NEW d \in DOMAIN assessment[r].agreed
      PROVE  DimensionAverages(c)[d] # NoScore
  <2> DEFINE having == {q \in CompletedForCohort(c) : d \in DOMAIN assessment[q].agreed}
             f == [q \in having |-> AgreedValues(q)[d]]
  <2>1. d \in DimensionsForCohort(c)
    BY <1>1, GradedHaveScores
  <2>2. DimensionAverages(c)[d] = AverageOrNull(f)
    BY <2>1, Zenon DEF DimensionAverages
  <2>3. DOMAIN f = having /\ r \in having
    BY <1>1
  <2>4. IsFiniteSet(having)
    <3>1. having \in SUBSET Rows
      BY DEF CompletedForCohort, Completed
    <3> HIDE DEF having
    <3> QED BY <3>1, RowsAreFinite, FS_Subset DEF ProgrammeInv
  <2>5. \A q \in having : f[q] \in Int
    <3> SUFFICES ASSUME NEW q \in having
                 PROVE  AgreedValues(q)[d] \in Int
      OBVIOUS
    <3>1. assessment[q].agreed[d] \in Nat
      BY GradedHaveScores
    <3> QED BY <3>1 DEF AgreedValues
  <2> HIDE DEF f
  <2>6. AverageOrNull(f) # NoScore
    BY <2>3, <2>4, <2>5, AverageIsNumber
  <2> QED BY <2>2, <2>6
<1> QED BY <1>2, <1>3

\* Whoever is listed as at risk has been graded (analytics-logic.ts:24, :29): a
\* cycle is completed only after an agreement, which scores every dimension of
\* an assessment that has at least one.
THEOREM AtRiskAlwaysGraded == Spec => []AtRiskIsGraded
BY AtRiskAreGraded, ProgrammeInvHolds, PTL

\* No agreed score of a shown cycle drops out because its dimension was retired
\* (analytics.service.ts:380, :750).
THEOREM HistoryAlwaysVisible == Spec => []HistoryStaysVisible
<1>1. ProgrammeInv => HistoryStaysVisible
  BY HistoryIsVisible, ProgrammeAssumption, NoScoreAssumption
<1> QED BY <1>1, ProgrammeInvHolds, PTL

-----------------------------------------------------------------------------
(* Who is at risk. *)

RiskEntry(r) ==
  [student |-> r[1], latestAverage |-> Average(AgreedValues(r)),
   coachingFlags |-> CoachingFlags(r)]

AtRiskRows(c) == {r \in Latest(CompletedForCohort(c)) : RiskOf(r, cohort[c].scale)}

LEMMA AtRiskStudentsAre ==
  ASSUME NEW c
  PROVE  AtRiskStudents(c) = {RiskEntry(r) : r \in AtRiskRows(c)}
BY Zenon DEF AtRiskStudents, RiskEntry, AtRiskRows

\* A completed row that is still one has not changed.
LEMMA CompletedStays ==
  ASSUME ProgrammeAssumption, ProgrammeInv, [Next]_vars, NEW r \in Completed, r \in Completed'
  PROVE  assessment'[r] = assessment[r]
<1>1. Kept(r)
  BY CompletedIsKept
<1>2. TypeOK'
  BY StepKeeps DEF ProgrammeInv
<1>3. r \in Rows'
  BY DEF Completed
<1>4. member'[r[1]] # NoAccount /\ period'[r[2]] # "none"
  BY <1>2, <1>3 DEF TypeOK, Accounts
<1> QED BY <1>1, <1>4 DEF Kept

LEMMA RiskStepIsStable ==
  ASSUME ProgrammeAssumption, ProgrammeInv, [Next]_vars, NEW c \in Cohorts,
         AtRiskStudents(c)' # AtRiskStudents(c)
  PROVE  Completed' # Completed \/ cohort'[c].scale # cohort[c].scale
<1> SUFFICES ASSUME Completed' = Completed, cohort'[c].scale = cohort[c].scale
             PROVE  AtRiskStudents(c)' = AtRiskStudents(c)
  OBVIOUS
<1>1. \A r \in Completed : assessment'[r] = assessment[r]
  BY CompletedStays
<1>2. CompletedForCohort(c)' = CompletedForCohort(c)
  BY DEF CompletedForCohort, InCohort
<1>3. Latest(CompletedForCohort(c))' = Latest(CompletedForCohort(c))
  BY <1>2, Zenon DEF Latest
<1>4. ASSUME NEW r \in Latest(CompletedForCohort(c))
      PROVE  /\ RiskEntry(r)' = RiskEntry(r)
             /\ RiskOf(r, cohort[c].scale)' <=> RiskOf(r, cohort[c].scale)
  <2>1. assessment'[r] = assessment[r]
    BY <1>1 DEF Latest, CompletedForCohort
  <2>2. AgreedValues(r)' = AgreedValues(r) /\ CoachingFlags(r)' = CoachingFlags(r)
    BY <2>1, Zenon DEF AgreedValues, CoachingFlags
  <2> QED BY <2>2, Zenon DEF RiskEntry, RiskOf
<1>5. AtRiskRows(c)' = AtRiskRows(c)
  BY <1>3, <1>4, Zenon DEF AtRiskRows
<1>6. \A r \in AtRiskRows(c) : RiskEntry(r)' = RiskEntry(r)
  BY <1>4 DEF AtRiskRows
<1>7. AtRiskStudents(c)' = {RiskEntry(r)' : r \in AtRiskRows(c)'}
  BY Zenon DEF AtRiskStudents, RiskEntry, AtRiskRows
<1> QED BY <1>5, <1>6, <1>7, AtRiskStudentsAre, Zenon

\* A student's standing moves only when an assessment completes or is deleted or
\* the cohort changes its scale (analytics.service.ts:765).
THEOREM RiskAlwaysStable == Spec => RiskIsStable
<1>1. ProgrammeInv /\ [Next]_vars => [\A c \in Cohorts :
        (AtRiskStudents(c)' # AtRiskStudents(c)) =>
           Completed' # Completed \/ cohort'[c].scale # cohort[c].scale]_vars
  BY RiskStepIsStable, ProgrammeAssumption
<1> QED BY <1>1, ProgrammeInvHolds, PTL DEF Spec, RiskIsStable

\* A one-to-one image has as many elements.
LEMMA SameSize ==
  ASSUME NEW A, IsFiniteSet(A), NEW B, NEW f \in [A -> B],
         \A x, y \in A : f[x] = f[y] => x = y,
         \A b \in B : \E x \in A : f[x] = b
  PROVE  Cardinality(A) = Cardinality(B)
<1>1. f \in Bijection(A, B)
  BY DEF Bijection, Injection, Surjection, IsInjective
<1>2. ExistsBijection(A, B)
  BY <1>1 DEF ExistsBijection
<1> QED BY <1>2, FS_Bijection

LEMMA RiskCountIsRight ==
  ASSUME ProgrammeAssumption, ProgrammeInv
  PROVE  RiskCountMatches
<1> SUFFICES ASSUME \A s \in Accounts : \E c \in Cohorts : Settled(s, c)
             PROVE  AtRiskCountAcrossCohorts = Cardinality(AtRiskAnywhere)
  BY DEF RiskCountMatches
<1> DEFINE A == {r \in Latest(Completed) : RiskOf(r, ScaleOf(r))}
           f == [r \in A |-> r[1]]
<1>0. TypeOK
  BY DEF ProgrammeInv
<1>1. \A r \in A : /\ r \in Completed /\ r \in Rows /\ r = <<r[1], r[2]>>
                   /\ r[1] \in Accounts /\ r[2] \in Periods
  BY <1>0 DEF Latest, Completed, TypeOK
<1>2. \A c : \A s : s \in {e.student : e \in AtRiskStudents(c)} <=>
                       \E r \in AtRiskRows(c) : s = r[1]
  <2>1. \A r : RiskEntry(r).student = r[1]
    BY DEF RiskEntry
  <2> QED BY <2>1, AtRiskStudentsAre, Zenon
<1>3. \A s : s \in AtRiskAnywhere <=> \E c \in Cohorts : \E r \in AtRiskRows(c) : s = r[1]
  <2> DEFINE Named(c) == {e.student : e \in AtRiskStudents(c)}
  <2>1. AtRiskAnywhere = UNION {Named(c) : c \in Cohorts}
    BY DEF AtRiskAnywhere
  <2>2. \A c : \A s : s \in Named(c) <=> \E r \in AtRiskRows(c) : s = r[1]
    BY <1>2
  <2> HIDE DEF Named
  <2> QED BY <2>1, <2>2
<1>4. ASSUME NEW r \in A
      PROVE  r[1] \in AtRiskAnywhere
  <2> DEFINE c == CohortOf[r[2]]
  <2>1. c \in Cohorts
    BY <1>1 DEF ProgrammeAssumption
  <2>2. r \in Latest(CompletedForCohort(c))
    BY DEF Latest, CompletedForCohort, InCohort
  <2>3. r \in AtRiskRows(c)
    BY <2>2 DEF AtRiskRows, ScaleOf
  <2> QED BY <1>3, <2>1, <2>3
<1>5. ASSUME NEW s \in AtRiskAnywhere
      PROVE  \E r \in A : r[1] = s
  <2>0. PICK c \in Cohorts : \E r \in AtRiskRows(c) : s = r[1]
    BY <1>3
  <2>1. PICK r \in AtRiskRows(c) : s = r[1]
    BY <2>0
  <2>2. /\ r \in CompletedForCohort(c) /\ r \in Completed /\ CohortOf[r[2]] = c
        /\ RiskOf(r, cohort[c].scale)
        /\ \A q \in CompletedForCohort(c) : q[1] = r[1] => StartOf[q[2]] <= StartOf[r[2]]
    BY DEF AtRiskRows, Latest, CompletedForCohort, InCohort
  <2>3. s \in Accounts
    BY <1>0, <2>1, <2>2 DEF TypeOK, Completed
  <2>4. \A q \in Completed : q[1] = s => q \in CompletedForCohort(c)
    BY <2>1, <2>2, <2>3 DEF Settled, CompletedForCohort, InCohort
  <2>5. r \in Latest(Completed)
    BY <2>1, <2>2, <2>4 DEF Latest
  <2>6. r \in A
    BY <2>2, <2>5 DEF ScaleOf
  <2> QED BY <2>1, <2>6
<1>6. ASSUME NEW r \in A, NEW q \in A, r[1] = q[1]
      PROVE  r = q
  <2>1. StartOf[r[2]] <= StartOf[q[2]] /\ StartOf[q[2]] <= StartOf[r[2]]
    BY <1>1, <1>6 DEF Latest
  <2>2. StartOf[r[2]] \in Nat /\ StartOf[q[2]] \in Nat
    BY <1>1 DEF ProgrammeAssumption
  <2>3. r[2] = q[2]
    BY <1>1, <2>1, <2>2 DEF ProgrammeAssumption
  <2> QED BY <1>1, <1>6, <2>3
<1>7. IsFiniteSet(A)
  <2>1. A \in SUBSET Rows
    BY <1>1
  <2> QED BY <1>0, <2>1, RowsAreFinite, FS_Subset
<1>8. AtRiskCountAcrossCohorts = Cardinality(A)
  BY DEF AtRiskCountAcrossCohorts
<1> HIDE DEF A
<1>9. f \in [A -> AtRiskAnywhere] /\ \A r \in A : f[r] = r[1]
  BY <1>4
<1> HIDE DEF f
<1>10. Cardinality(A) = Cardinality(AtRiskAnywhere)
  BY <1>5, <1>6, <1>7, <1>9, SameSize
<1> QED BY <1>8, <1>10

\* The overview counts the students its cohorts list as at risk
\* (analytics.service.ts:846), as long as nobody completed cycles in two cohorts.
THEOREM RiskCountAlwaysMatches == Spec => []RiskCountMatches
<1>1. ProgrammeInv => RiskCountMatches
  BY RiskCountIsRight, ProgrammeAssumption
<1> QED BY <1>1, ProgrammeInvHolds, PTL

-----------------------------------------------------------------------------
(* What a facilitator may see, and how much of it there is. *)

LEMMA RosterIsFinite ==
  ASSUME ProgrammeAssumption, TypeOK
  PROVE  IsFiniteSet(roster)
<1> DEFINE T == (Facilitators \X Students) \X Cohorts
           f == [row \in roster |-> <<<<row[1], row[2]>>, row[3]>>]
<1>1. IsFiniteSet(T)
  <2>1. IsFiniteSet(Facilitators) /\ IsFiniteSet(Students) /\ IsFiniteSet(Cohorts)
    BY DEF ProgrammeAssumption
  <2>2. IsFiniteSet(Facilitators \X Students)
    BY <2>1, FS_Product
  <2> QED BY <2>1, <2>2, FS_Product
<1>2. \A row \in roster : /\ row[1] \in Facilitators /\ row[2] \in Students /\ row[3] \in Cohorts
                          /\ row = <<row[1], row[2], row[3]>>
  BY DEF TypeOK, Accounts
<1>3. f \in [roster -> T]
  BY <1>2
<1>4. \A x, y \in roster : f[x] = f[y] => x = y
  BY <1>2
<1> HIDE DEF f, T
<1>5. f \in Injection(roster, T)
  BY <1>3, <1>4 DEF Injection, IsInjective
<1> QED BY <1>1, <1>5, FS_Injection

\* The assessments of a student in one of these states.
ReviewsOf(s, statuses) == {r \in Rows : r[1] = s /\ assessment[r].status \in statuses}

ReviewCount(f, statuses) ==
  SumFunction([row \in {x \in roster : x[1] = f} |->
                 Cardinality(ReviewsOf(row[2], statuses))])

LEMMA WorkloadIs ==
  ASSUME NEW f
  PROVE  /\ MentorWorkload(f).completedReviews = ReviewCount(f, {"completed"})
         /\ MentorWorkload(f).pendingReviews = ReviewCount(f, Pending)
<1>1. MentorWorkload(f)
        = [assignedStudents |-> Cardinality({row \in roster : row[1] = f}),
           completedReviews |-> ReviewCount(f, {"completed"}),
           pendingReviews |-> ReviewCount(f, Pending)]
  BY Zenon DEF MentorWorkload, ReviewCount, ReviewsOf
<1> QED BY <1>1

\* Without filters the list is what the facilitator may open.
LEMMA ListIsReadable ==
  ASSUME ProgrammeAssumption, TypeOK, NEW f \in Facilitators
  PROVE  Listed(f, Students, Cohorts, Facilitators) = {r \in Rows : CanRead(f, r)}
<1>1. \A r \in Rows : r[1] \in Students /\ CohortOf[r[2]] \in Cohorts
  BY RowIsPair DEF ProgrammeAssumption
<1> QED BY <1>1 DEF Listed, ScopedStudents, StudentIdsForFacilitator, CanRead

\* A sum over assignments counts each assessment once, if nobody is assigned to
\* the facilitator twice: the assessments are sorted by assignment.
LEMMA ReviewsAreCounted ==
  ASSUME ProgrammeAssumption, TypeOK, NEW f \in Facilitators, NEW statuses,
         \A x, y \in roster : (x[1] = f /\ y[1] = f /\ x[2] = y[2]) => x = y
  PROVE  ReviewCount(f, statuses)
           = Cardinality({r \in Listed(f, Students, Cohorts, Facilitators) :
                            assessment[r].status \in statuses})
<1> DEFINE rows == {x \in roster : x[1] = f}
           R == {r \in Rows : CanRead(f, r) /\ assessment[r].status \in statuses}
           Row(s) == CHOOSE x \in rows : x[2] = s
           key == [r \in R |-> Row(r[1])]
           g == [row \in rows |-> Cardinality(ReviewsOf(row[2], statuses))]
<1>1. R = {r \in Listed(f, Students, Cohorts, Facilitators) :
             assessment[r].status \in statuses}
  BY ListIsReadable
<1>2. IsFiniteSet(R)
  <2>1. R \in SUBSET Rows
    OBVIOUS
  <2> QED BY <2>1, RowsAreFinite, FS_Subset
<1>3. IsFiniteSet(rows)
  <2>1. rows \in SUBSET roster
    OBVIOUS
  <2> QED BY <2>1, RosterIsFinite, FS_Subset
<1>4. \A s : (\E c \in Cohorts : <<f, s, c>> \in roster) => Row(s) \in rows /\ Row(s)[2] = s
  <2> SUFFICES ASSUME NEW s, NEW c \in Cohorts, <<f, s, c>> \in roster
               PROVE  Row(s) \in rows /\ Row(s)[2] = s
    OBVIOUS
  <2>1. <<f, s, c>> \in rows /\ <<f, s, c>>[2] = s
    OBVIOUS
  <2>2. \E x \in rows : x[2] = s
    BY <2>1, Zenon
  <2> HIDE DEF rows
  <2> QED BY <2>2, Zenon
<1>5. \A r \in R : Row(r[1]) \in rows /\ Row(r[1])[2] = r[1]
  <2>1. \A r \in R : \E c \in Cohorts : <<f, r[1], c>> \in roster
    BY DEF CanRead, IsAssigned
  <2> HIDE DEF R, Row
  <2> QED BY <1>4, <2>1
<1>6. ASSUME NEW p \in rows
      PROVE  ReviewsOf(p[2], statuses) = {r \in R : key[r] = p}
  <2>1. IsAssigned(f, p[2])
    <3>1. p = <<f, p[2], p[3]>> /\ p[3] \in Cohorts
      BY DEF TypeOK
    <3> QED BY <3>1 DEF IsAssigned
  <2>2. \A r \in R : r[1] = p[2] <=> Row(r[1]) = p
    <3> HIDE DEF Row
    <3> QED BY <1>5
  <2>3. ReviewsOf(p[2], statuses) = {r \in R : r[1] = p[2]}
    BY <2>1 DEF ReviewsOf, CanRead
  <2>4. \A r \in R : key[r] = Row(r[1])
    OBVIOUS
  <2> HIDE DEF R, Row, key
  <2> QED BY <2>2, <2>3, <2>4
<1>7. key \in [R -> rows]
  <2> HIDE DEF R, Row, rows
  <2> QED BY <1>5
<1>8. DOMAIN g = rows /\ \A p \in rows : g[p] = Cardinality(ReviewsOf(p[2], statuses))
  OBVIOUS
<1>9. ReviewCount(f, statuses) = SumFunctionOnSet(g, rows)
  <2>1. ReviewCount(f, statuses) = SumFunction(g)
    BY Zenon DEF ReviewCount
  <2> HIDE DEF g, rows
  <2> QED BY <2>1, <1>8, SumIsOnDomain, Zenon
<1> HIDE DEF R, rows, key, g, Row
<1>10. \A p \in rows : g[p] = Cardinality({r \in R : key[r] = p})
  BY <1>6, <1>8, Zenon
<1>11. SumFunctionOnSet(g, rows) = Cardinality(R)
  BY <1>2, <1>3, <1>7, <1>10, SumCountsClasses
<1> QED BY <1>1, <1>9, <1>11, Zenon

LEMMA WorkloadIsRight ==
  ASSUME ProgrammeAssumption, ProgrammeInv
  PROVE  WorkloadMatchesList
<1>0. TypeOK
  BY DEF ProgrammeInv
<1>1. ASSUME NEW f \in Facilitators
      PROVE  LET readable == {r \in Rows : CanRead(f, r)}
             IN  /\ Listed(f, Students, Cohorts, Facilitators) = readable
                 /\ \A s \in Students, c \in Cohorts, g \in Facilitators :
                      Listed(f, {s}, {c}, {g}) \subseteq readable
  <2>1. \A s \in Students, c \in Cohorts, g \in Facilitators :
          Listed(f, {s}, {c}, {g}) \subseteq {r \in Rows : CanRead(f, r)}
    BY DEF Listed, ScopedStudents, StudentIdsForFacilitator, CanRead
  <2> QED BY <1>0, <2>1, ListIsReadable
<1>2. ASSUME NEW f \in Facilitators,
             \A x, y \in roster : (x[1] = f /\ y[1] = f /\ x[2] = y[2]) => x = y
      PROVE  LET mine == Listed(f, Students, Cohorts, Facilitators)
                 Of(statuses) == {r \in mine : assessment[r].status \in statuses}
             IN  /\ MentorWorkload(f).pendingReviews = Cardinality(Of(Pending))
                 /\ MentorWorkload(f).completedReviews = Cardinality(Of({"completed"}))
  <2> DEFINE mine == Listed(f, Students, Cohorts, Facilitators)
  <2>1. ReviewCount(f, Pending)
          = Cardinality({r \in mine : assessment[r].status \in Pending})
    BY <1>0, <1>2, ReviewsAreCounted
  <2>2. ReviewCount(f, {"completed"})
          = Cardinality({r \in mine : assessment[r].status \in {"completed"}})
    BY <1>0, <1>2, ReviewsAreCounted
  <2>3. /\ MentorWorkload(f).completedReviews = ReviewCount(f, {"completed"})
        /\ MentorWorkload(f).pendingReviews = ReviewCount(f, Pending)
    BY WorkloadIs
  <2> QED BY <2>1, <2>2, <2>3, Zenon
<1> QED BY <1>1, <1>2, Zenon DEF WorkloadMatchesList

\* A list shows a facilitator exactly what he may open, and his workload is what
\* he finds there, unless one of his students is assigned to him in two cohorts
\* (assessments.service.ts:376, :414, analytics.service.ts:796).
THEOREM WorkloadAlwaysMatches == Spec => []WorkloadMatchesList
<1>1. ProgrammeInv => WorkloadMatchesList
  BY WorkloadIsRight, ProgrammeAssumption
<1> QED BY <1>1, ProgrammeInvHolds, PTL

-----------------------------------------------------------------------------
(* The overview. *)

\* The rows of some periods, counted period by period.
LEMMA PeriodsAddUp ==
  ASSUME ProgrammeAssumption, TypeOK, NEW P \in SUBSET Periods, NEW Q \in SUBSET Rows,
         NEW f, DOMAIN f = P, \A p \in P : f[p] = Cardinality({r \in Q : r[2] = p})
  PROVE  SumFunction(f) = Cardinality({r \in Q : r[2] \in P})
<1> DEFINE R == {r \in Q : r[2] \in P}
           key == [r \in R |-> r[2]]
<1>1. IsFiniteSet(R)
  <2>1. R \in SUBSET Rows
    OBVIOUS
  <2> HIDE DEF R
  <2> QED BY <2>1, RowsAreFinite, FS_Subset
<1>2. IsFiniteSet(P)
  BY FS_Subset DEF ProgrammeAssumption
<1>3. key \in [R -> P]
  OBVIOUS
<1>4. \A p \in P : {r \in Q : r[2] = p} = {r \in R : key[r] = p}
  OBVIOUS
<1>5. \A p \in P : f[p] = Cardinality({r \in R : key[r] = p})
  BY <1>4, Zenon
<1> HIDE DEF R, key
<1>6. SumFunctionOnSet(f, P) = Cardinality(R)
  BY <1>1, <1>2, <1>3, <1>5, SumCountsClasses
<1> QED BY <1>6, SumIsOnDomain, Zenon DEF R

LEMMA TallyIs ==
  ASSUME ProgrammeAssumption, TypeOK, NEW p
  PROVE  /\ Tally(p).total = Cardinality({r \in Rows : r[2] = p})
         /\ Tally(p).completed = Cardinality({r \in Completed : r[2] = p})
         /\ Tally(p).total \in Nat /\ Tally(p).completed \in Nat /\ Tally(p).started \in Nat
         /\ Tally(p).completed <= Tally(p).started
<1> DEFINE rows == {r \in Rows : r[2] = p}
           done == rows \cap Completed
           started == {r \in rows : assessment[r].status # "draft"}
<1>1. Tally(p) = [total |-> Cardinality(rows), completed |-> Cardinality(done),
                  started |-> Cardinality(started)]
  BY Zenon DEF Tally
<1>2. done = {r \in Completed : r[2] = p} /\ done \in SUBSET started
  BY DEF Completed
<1>3. rows \in SUBSET Rows /\ started \in SUBSET rows
  OBVIOUS
<1>4. IsFiniteSet(rows)
  <2> HIDE DEF rows
  <2> QED BY <1>3, RowsAreFinite, FS_Subset
<1> HIDE DEF rows, done, started
<1>5. IsFiniteSet(started)
  BY <1>3, <1>4, FS_Subset
<1>6. IsFiniteSet(done) /\ Cardinality(done) <= Cardinality(started)
  BY <1>2, <1>5, FS_Subset
<1>7. /\ Cardinality(rows) \in Nat /\ Cardinality(done) \in Nat
      /\ Cardinality(started) \in Nat
  BY <1>4, <1>5, <1>6, FS_CardinalityType
<1>8. /\ Tally(p).total = Cardinality(rows) /\ Tally(p).completed = Cardinality(done)
      /\ Tally(p).started = Cardinality(started)
  BY <1>1
<1> QED BY <1>2, <1>6, <1>7, <1>8, Zenon DEF rows

LEMMA RoundedIsMonotone ==
  ASSUME NEW a \in Nat, NEW b \in Nat, a <= b, NEW n \in Nat \ {0}
  PROVE  Rounded(a, n) <= Rounded(b, n)
<1>1. \A x, y \in Nat, k \in Nat \ {0} : x <= y => x \div k <= y \div k
  OBVIOUS
<1>2. 2 * a + n \in Nat /\ 2 * b + n \in Nat /\ 2 * n \in Nat \ {0} /\ 2 * a + n <= 2 * b + n
  OBVIOUS
<1> QED BY <1>1, <1>2 DEF Rounded

\* What a cohort completed of its only open cycle, next to its participation.
LEMMA RateIsBounded ==
  ASSUME ProgrammeAssumption, TypeOK, NEW p \in OpenPeriods,
         \A q \in OpenPeriods : CohortOf[q] = CohortOf[p] => q = p
  PROVE  (IF Tally(p).total = 0 THEN 0 ELSE Rounded(100 * Tally(p).completed, Tally(p).total))
           <= ParticipationRate(CohortOf[p])
<1> DEFINE open == {q \in OpenPeriods : CohortOf[q] = CohortOf[p]}
           started == [q \in open |-> Tally(q).started]
           total == [q \in open |-> Tally(q).total]
<1>1. open = {p}
  OBVIOUS
<1>2. ParticipationRate(CohortOf[p]) = Percentage(SumFunction(started), SumFunction(total))
  BY Zenon DEF ParticipationRate
<1>3. /\ Tally(p).total \in Nat /\ Tally(p).completed \in Nat /\ Tally(p).started \in Nat
      /\ Tally(p).completed <= Tally(p).started
  BY TallyIs
<1>4. /\ DOMAIN started = {p} /\ started[p] = Tally(p).started
      /\ DOMAIN total = {p} /\ total[p] = Tally(p).total
  <2> HIDE DEF open
  <2> QED BY <1>1
<1> HIDE DEF started, total, open
<1>5. SumFunction(started) = Tally(p).started /\ SumFunction(total) = Tally(p).total
  <2>1. started[p] \in Int /\ total[p] \in Int
    BY <1>3, <1>4
  <2>2. SumFunctionOnSet(started, {p}) = started[p] /\ SumFunctionOnSet(total, {p}) = total[p]
    BY <2>1, SumOfOne
  <2> QED BY <2>2, <1>4, SumIsOnDomain, Zenon
<1>6. ParticipationRate(CohortOf[p]) = Percentage(Tally(p).started, Tally(p).total)
  BY <1>2, <1>5, Zenon
<1>7. CASE Tally(p).total = 0
  BY <1>6, <1>7 DEF Percentage
<1>8. CASE Tally(p).total # 0
  <2>1. Rounded(100 * Tally(p).completed, Tally(p).total)
          <= Rounded(100 * Tally(p).started, Tally(p).total)
    <3>1. /\ 100 * Tally(p).completed \in Nat /\ 100 * Tally(p).started \in Nat
          /\ 100 * Tally(p).completed <= 100 * Tally(p).started
          /\ Tally(p).total \in Nat \ {0}
      BY <1>3, <1>8
    <3> QED BY <3>1, RoundedIsMonotone
  <2> QED BY <1>3, <1>6, <1>8, <2>1 DEF Percentage
<1> QED BY <1>7, <1>8

\* The cohort that is current lies within the range of scales.
LEMMA CurrentScaleIsQuoted ==
  ASSUME ProgrammeAssumption, TypeOK, NEW c \in CurrentCohorts
  PROVE  cohort[c].scale \in PublicSummary.scaleMin .. PublicSummary.scaleMax
<1>1. c \in ActiveCohorts /\ cohort[c].scale \in ActiveScales
  BY DEF CurrentCohorts, ActiveScales
<1>2. ActiveScales \subseteq Nat
  BY DEF ActiveScales, ActiveCohorts, TypeOK
<1>3. IsFiniteSet(ActiveScales)
  <2> DEFINE f == [e \in ActiveCohorts |-> cohort[e].scale]
  <2>1. f \in Surjection(ActiveCohorts, ActiveScales)
    BY DEF Surjection, ActiveScales
  <2>2. IsFiniteSet(ActiveCohorts)
    <3>1. ActiveCohorts \in SUBSET Cohorts /\ IsFiniteSet(Cohorts)
      BY DEF ActiveCohorts, ProgrammeAssumption
    <3> QED BY <3>1, FS_Subset
  <2> QED BY <2>1, <2>2, FS_Surjection
<1> DEFINE low == CHOOSE n \in ActiveScales : \A k \in ActiveScales : n <= k
           high == CHOOSE n \in ActiveScales : \A k \in ActiveScales : n >= k
<1>4. low \in ActiveScales /\ low <= cohort[c].scale
  <2>1. \E n \in ActiveScales : \A k \in ActiveScales : n <= k
    BY <1>1, <1>2, LeastNatural
  <2> QED BY <1>1, <2>1, Zenon
<1>5. high \in ActiveScales /\ high >= cohort[c].scale
  <2>1. \E n \in ActiveScales : \A k \in ActiveScales : k <= n
    BY <1>1, <1>2, <1>3, GreatestNatural
  <2>2. \E n \in ActiveScales : \A k \in ActiveScales : n >= k
    BY <1>2, <2>1
  <2> QED BY <1>1, <2>2, Zenon
<1>6. PublicSummary.scaleMin = low /\ PublicSummary.scaleMax = high
  BY <1>1 DEF PublicSummary
<1> HIDE DEF low, high
<1> DEFINE n == cohort[c].scale
<1>7. n \in Nat /\ low \in Nat /\ high \in Nat /\ low <= n /\ n <= high
  BY <1>1, <1>2, <1>4, <1>5
<1> HIDE DEF n
<1>8. n \in low .. high
  BY <1>7
<1> QED BY <1>6, <1>8, Zenon DEF n

LEMMA OverviewIsRight ==
  ASSUME ProgrammeAssumption, ProgrammeInv
  PROVE  OverviewAddsUp
<1> DEFINE existing == {q \in Periods : period[q] # "none"}
           rates == [p \in existing |-> CompletionRates(CohortOf[p])[p]]
           done == [p \in existing |-> rates[p].completed]
           openDone == [p \in OpenPeriods |-> rates[p].completed]
           openTotal == [p \in OpenPeriods |-> rates[p].total]
<1>0. TypeOK
  BY DEF ProgrammeInv
<1>1. OpenPeriods \subseteq existing /\ existing \subseteq Periods /\ DOMAIN rates = existing
  BY DEF OpenPeriods
<1>2. ASSUME NEW p \in existing
      PROVE  /\ rates[p].total = Tally(p).total
             /\ rates[p].completed = Tally(p).completed
             /\ rates[p].rate = IF Tally(p).total = 0 THEN 0
                                ELSE Rounded(100 * Tally(p).completed, Tally(p).total)
  <2>1. p \in ExistingPeriods(CohortOf[p])
    BY DEF ExistingPeriods
  <2>2. rates[p] = [total |-> Tally(p).total, completed |-> Tally(p).completed,
                    rate |-> IF Tally(p).total = 0 THEN 0
                             ELSE Rounded(100 * Tally(p).completed, Tally(p).total)]
    BY <2>1, Zenon DEF CompletionRates
  <2> HIDE DEF rates
  <2> QED BY <2>2
<1> HIDE DEF rates
<1>3. SumFunction(done) = Cardinality(Completed)
  <2>1. DOMAIN done = existing
    OBVIOUS
  <2>2. \A p \in existing : done[p] = Cardinality({r \in Completed : r[2] = p})
    BY <1>0, <1>2, TallyIs
  <2>3. Completed \in SUBSET Rows /\ existing \in SUBSET Periods
    BY DEF Completed
  <2>4. {r \in Completed : r[2] \in existing} = Completed
    BY <1>0 DEF TypeOK, Completed
  <2> HIDE DEF done, existing
  <2>5. SumFunction(done) = Cardinality({r \in Completed : r[2] \in existing})
    BY <1>0, <2>1, <2>2, <2>3, PeriodsAddUp
  <2> QED BY <2>4, <2>5, Zenon
<1>4. /\ SumFunction(openDone) = Cardinality({r \in Completed : r[2] \in OpenPeriods})
      /\ SumFunction(openTotal) = Cardinality({r \in Rows : r[2] \in OpenPeriods})
  <2>1. DOMAIN openDone = OpenPeriods /\ DOMAIN openTotal = OpenPeriods
    OBVIOUS
  <2>2. \A p \in OpenPeriods :
          /\ openDone[p] = Cardinality({r \in Completed : r[2] = p})
          /\ openTotal[p] = Cardinality({r \in Rows : r[2] = p})
    BY <1>0, <1>1, <1>2, TallyIs
  <2>3. Completed \in SUBSET Rows /\ Rows \in SUBSET Rows /\ OpenPeriods \in SUBSET Periods
    BY DEF Completed, OpenPeriods
  <2> HIDE DEF openDone, openTotal
  <2>4. SumFunction(openDone) = Cardinality({r \in Completed : r[2] \in OpenPeriods})
    BY <1>0, <2>1, <2>2, <2>3, PeriodsAddUp
  <2>5. SumFunction(openTotal) = Cardinality({r \in Rows : r[2] \in OpenPeriods})
    BY <1>0, <2>1, <2>2, <2>3, PeriodsAddUp
  <2> QED BY <2>4, <2>5
<1>5. CompletionRate = Percentage(SumFunction(openDone), SumFunction(openTotal))
  <2>1. {r \in Completed : r[2] \in OpenPeriods}
          = {r \in Rows : r[2] \in OpenPeriods} \cap Completed
    BY DEF Completed
  <2> HIDE DEF openDone, openTotal
  <2> QED BY <1>4, <2>1, Zenon DEF CompletionRate
<1>6. \A p \in OpenPeriods :
        (\A q \in OpenPeriods : CohortOf[q] = CohortOf[p] => q = p) =>
          rates[p].rate <= ParticipationRate(CohortOf[p])
  <2> SUFFICES ASSUME NEW p \in OpenPeriods,
                      \A q \in OpenPeriods : CohortOf[q] = CohortOf[p] => q = p
               PROVE  rates[p].rate <= ParticipationRate(CohortOf[p])
    OBVIOUS
  <2>1. (IF Tally(p).total = 0 THEN 0 ELSE Rounded(100 * Tally(p).completed, Tally(p).total))
          <= ParticipationRate(CohortOf[p])
    BY <1>0, RateIsBounded
  <2>2. p \in existing
    BY <1>1
  <2> HIDE DEF existing
  <2> QED BY <1>2, <2>1, <2>2, Zenon
<1>7. \A c \in CurrentCohorts :
        cohort[c].scale \in PublicSummary.scaleMin .. PublicSummary.scaleMax
  BY <1>0, CurrentScaleIsQuoted
<1>8. done = [p \in DOMAIN rates |-> rates[p].completed]
  BY <1>1, Zenon
<1> QED BY <1>3, <1>5, <1>6, <1>7, <1>8, Zenon DEF OverviewAddsUp, rates

\* The overview adds up: what is completed per period, over all cohorts, is the
\* total, the open periods give its completion rate, and no cohort completes more
\* of its open cycle than takes part (analytics.service.ts:435, :438).
THEOREM OverviewAlwaysAddsUp == Spec => []OverviewAddsUp
<1>1. ProgrammeInv => OverviewAddsUp
  BY OverviewIsRight, ProgrammeAssumption
<1> QED BY <1>1, ProgrammeInvHolds, PTL

-----------------------------------------------------------------------------
(* The two pages. *)

\* A list in the order of start dates has each row in one place, and places
\* compare as the dates do.
Places(rows, start, list, place) ==
  /\ list \in [1 .. Cardinality(rows) -> rows]
  /\ place \in [rows -> DOMAIN list]
  /\ \A r \in rows : list[place[r]] = r
  /\ \A k \in DOMAIN list : place[list[k]] = k
  /\ \A q, r \in rows : place[q] < place[r] <=> start[q] < start[r]

\* The place of a row is the number of rows up to it: rows of different dates
\* have different places, so every place is taken.
LEMMA OrderedHasPlaces ==
  ASSUME NEW rows, IsFiniteSet(rows), NEW start,
         \A r \in rows : start[r] \in Nat,
         \A q, r \in rows : start[q] = start[r] => q = r
  PROVE  \E place : Places(rows, start, Ordered(rows, start), place)
<1> DEFINE UpTo(r) == {q \in rows : start[q] <= start[r]}
           n == Cardinality(rows)
           place == [r \in rows |-> Cardinality(UpTo(r))]
           list == Ordered(rows, start)
<1>0. n \in Nat
  BY FS_CardinalityType
<1>1. ASSUME NEW r \in rows
      PROVE  IsFiniteSet(UpTo(r)) /\ Cardinality(UpTo(r)) \in 1 .. n
  <2>1. UpTo(r) \in SUBSET rows /\ r \in UpTo(r)
    OBVIOUS
  <2> HIDE DEF UpTo
  <2>2. IsFiniteSet(UpTo(r)) /\ Cardinality(UpTo(r)) <= n
    BY <2>1, FS_Subset
  <2>3. Cardinality(UpTo(r)) \in Nat /\ Cardinality(UpTo(r)) # 0
    BY <2>1, <2>2, FS_CardinalityType, FS_EmptySet
  <2> QED BY <1>0, <2>2, <2>3
<1>2. ASSUME NEW q \in rows, NEW r \in rows, start[q] < start[r]
      PROVE  Cardinality(UpTo(q)) < Cardinality(UpTo(r))
  <2>1. UpTo(q) \in SUBSET UpTo(r)
    BY <1>2
  <2>2. r \in UpTo(r) /\ r \notin UpTo(q)
    BY <1>2
  <2> HIDE DEF UpTo
  <2>3. /\ Cardinality(UpTo(q)) <= Cardinality(UpTo(r))
        /\ Cardinality(UpTo(r)) # Cardinality(UpTo(q))
    BY <1>1, <2>1, <2>2, FS_Subset
  <2>4. Cardinality(UpTo(q)) \in Nat /\ Cardinality(UpTo(r)) \in Nat
    BY <1>1, FS_CardinalityType
  <2> QED BY <2>3, <2>4
<1> HIDE DEF UpTo
<1>3. place \in [rows -> 1 .. n] /\ \A r \in rows : place[r] = Cardinality(UpTo(r))
  BY <1>1
<1> HIDE DEF place
<1>4. \A q, r \in rows : place[q] < place[r] <=> start[q] < start[r]
  <2>1. ASSUME NEW q \in rows, NEW r \in rows
        PROVE  place[q] < place[r] <=> start[q] < start[r]
    <3>1. place[q] \in Nat /\ place[r] \in Nat /\ start[q] \in Nat /\ start[r] \in Nat
      BY <1>0, <1>3
    <3>2. start[q] < start[r] => place[q] < place[r]
      BY <1>2, <1>3
    <3>3. start[r] < start[q] => place[r] < place[q]
      BY <1>2, <1>3
    <3>4. start[q] = start[r] => place[q] = place[r]
      OBVIOUS
    <3> QED BY <3>1, <3>2, <3>3, <3>4
  <2> QED BY <2>1
<1>5. \A q, r \in rows : place[q] = place[r] => q = r
  <2>1. \A r \in rows : place[r] \in Nat
    BY <1>0, <1>3
  <2> QED BY <1>4, <2>1
<1>6. \A k \in 1 .. n : \E r \in rows : place[r] = k
  <2>1. place \in Injection(rows, 1 .. n)
    BY <1>3, <1>5 DEF Injection, IsInjective
  <2>2. IsFiniteSet(1 .. n) /\ Cardinality(1 .. n) = n
    BY <1>0, FS_Interval
  <2>3. place \in Surjection(rows, 1 .. n)
    BY <2>1, <2>2, FS_Injection
  <2> QED BY <2>3 DEF Surjection
<1>7. list = [k \in 1 .. n |-> CHOOSE r \in rows : Cardinality(UpTo(r)) = k]
  BY Zenon DEF Ordered, UpTo
<1> HIDE DEF list
<1>8. DOMAIN list = 1 .. n /\ \A k \in 1 .. n : list[k] \in rows /\ place[list[k]] = k
  <2>1. ASSUME NEW k \in 1 .. n
        PROVE  list[k] \in rows /\ Cardinality(UpTo(list[k])) = k
    <3>1. \E r \in rows : Cardinality(UpTo(r)) = k
      BY <1>3, <1>6
    <3>2. list[k] = CHOOSE r \in rows : Cardinality(UpTo(r)) = k
      BY <1>7
    <3> QED BY <3>1, <3>2, Zenon
  <2> QED BY <1>3, <1>7, <2>1
<1>9. \A r \in rows : list[place[r]] = r
  BY <1>3, <1>5, <1>8
<1>10. list \in [1 .. n -> rows]
  BY <1>7, <1>8
<1>11. Places(rows, start, list, place)
  BY <1>3, <1>4, <1>8, <1>9, <1>10 DEF Places
<1> QED BY <1>11 DEF list

\* The direction of the last two of dated values.
LastTwo(rows, start, q, r) ==
  start[q] < start[r] /\ \A k \in rows : start[k] <= start[q] \/ k = r

TrendOf(rows, start, value) ==
  CASE \E q, r \in rows : LastTwo(rows, start, q, r) /\ value[r] > value[q] -> "improving"
    [] \E q, r \in rows : LastTwo(rows, start, q, r) /\ value[r] < value[q] -> "regressing"
    [] OTHER -> "stagnant"

\* A list may have gaps: its trend is that of the values in it, wherever the
\* values stand in it, as long as they stand in the order of their dates.
LEMMA TrendIgnoresGaps ==
  ASSUME NEW rows, NEW start, \A r \in rows : start[r] \in Nat,
         NEW averages, DOMAIN averages \subseteq Nat,
         NEW place \in [rows -> DOMAIN averages],
         \A q, r \in rows : place[q] < place[r] <=> start[q] < start[r],
         \A q, r \in rows : place[q] = place[r] => q = r,
         NEW value, \A r \in rows : averages[place[r]] = value[r] /\ value[r] # NoScore,
         \A i \in DOMAIN averages : averages[i] # NoScore => \E r \in rows : place[r] = i
  PROVE  ClassifyTrend(averages) = TrendOf(rows, start, value)
<1> DEFINE graded == {i \in DOMAIN averages : averages[i] # NoScore}
           last == {p \in graded \X graded :
                      p[1] < p[2] /\ \A i \in graded : i <= p[1] \/ i = p[2]}
           Of(q, r) == LastTwo(rows, start, q, r)
<1>1. \A r \in rows : place[r] \in graded /\ place[r] \in Nat
  OBVIOUS
<1>2. \A i \in graded : \E r \in rows : place[r] = i
  OBVIOUS
<1>3. \A q, r \in rows : place[q] <= place[r] <=> start[q] <= start[r]
  BY <1>1
<1> HIDE DEF graded
<1>4. \A q, r \in rows : Of(q, r) <=> <<place[q], place[r]>> \in last
  <2>1. ASSUME NEW q \in rows, NEW r \in rows
        PROVE  Of(q, r) <=> <<place[q], place[r]>> \in last
    <3>1. (\A k \in rows : start[k] <= start[q] \/ k = r)
            <=> (\A i \in graded : i <= place[q] \/ i = place[r])
      BY <1>1, <1>2, <1>3
    <3>2. <<place[q], place[r]>> \in last <=>
            place[q] < place[r] /\ \A i \in graded : i <= place[q] \/ i = place[r]
      BY <1>1
    <3> QED BY <3>1, <3>2 DEF LastTwo
  <2> QED BY <2>1
<1>5. \A p \in last : \E q, r \in rows : p = <<place[q], place[r]>>
  BY <1>2
<1> HIDE DEF last, Of
<1>6. (\E p \in last : averages[p[2]] > averages[p[1]])
        <=> (\E q, r \in rows : Of(q, r) /\ value[r] > value[q])
  <2>1. ASSUME NEW p \in last, averages[p[2]] > averages[p[1]]
        PROVE  \E q, r \in rows : Of(q, r) /\ value[r] > value[q]
    BY <1>4, <1>5, <2>1
  <2>2. ASSUME NEW q \in rows, NEW r \in rows, Of(q, r), value[r] > value[q]
        PROVE  \E p \in last : averages[p[2]] > averages[p[1]]
    <3>1. <<place[q], place[r]>> \in last
      BY <1>4, <2>2
    <3>2. averages[<<place[q], place[r]>>[2]] > averages[<<place[q], place[r]>>[1]]
      BY <2>2
    <3> QED BY <3>1, <3>2
  <2> QED BY <2>1, <2>2
<1>7. (\E p \in last : averages[p[2]] < averages[p[1]])
        <=> (\E q, r \in rows : Of(q, r) /\ value[r] < value[q])
  <2>1. ASSUME NEW p \in last, averages[p[2]] < averages[p[1]]
        PROVE  \E q, r \in rows : Of(q, r) /\ value[r] < value[q]
    BY <1>4, <1>5, <2>1
  <2>2. ASSUME NEW q \in rows, NEW r \in rows, Of(q, r), value[r] < value[q]
        PROVE  \E p \in last : averages[p[2]] < averages[p[1]]
    <3>1. <<place[q], place[r]>> \in last
      BY <1>4, <2>2
    <3>2. averages[<<place[q], place[r]>>[2]] < averages[<<place[q], place[r]>>[1]]
      BY <2>2
    <3> QED BY <3>1, <3>2
  <2> QED BY <2>1, <2>2
<1>8. ClassifyTrend(averages) =
        CASE \E p \in last : averages[p[2]] > averages[p[1]] -> "improving"
          [] \E p \in last : averages[p[2]] < averages[p[1]] -> "regressing"
          [] OTHER -> "stagnant"
  BY Zenon DEF ClassifyTrend, last, graded
<1>9. TrendOf(rows, start, value) =
        CASE \E q, r \in rows : Of(q, r) /\ value[r] > value[q] -> "improving"
          [] \E q, r \in rows : Of(q, r) /\ value[r] < value[q] -> "regressing"
          [] OTHER -> "stagnant"
  BY Zenon DEF TrendOf, Of
<1> QED BY <1>6, <1>7, <1>8, <1>9

Done(s) == {r \in Completed : r[1] = s}

Dates(rows) == [r \in rows |-> StartOf[r[2]]]

Grades(rows) == [r \in rows |-> AverageOrNull(AgreedValues(r))]

\* What a settled student completed are graded cycles of his cohort, and no two
\* of them start on one date.
LEMMA DoneAre ==
  ASSUME ProgrammeAssumption, NoScoreAssumption, ProgrammeInv,
         NEW s \in Accounts, NEW c \in Cohorts, Settled(s, c)
  PROVE  /\ IsFiniteSet(Done(s))
         /\ Done(s) = {r \in CompletedForCohort(c) : r[1] = s}
         /\ \A r \in Done(s) : /\ r \in Completed /\ r = <<s, r[2]>>
                               /\ r[2] \in ExistingPeriods(c)
                               /\ Dates(Done(s))[r] = StartOf[r[2]]
                               /\ Dates(Done(s))[r] \in Nat
                               /\ Grades(Done(s))[r] = AverageOrNull(AgreedValues(r))
                               /\ Grades(Done(s))[r] # NoScore
                               /\ AverageOrNull(AgreedValues(r)) = Average(AgreedValues(r))
         /\ \A q, r \in Done(s) : Dates(Done(s))[q] = Dates(Done(s))[r] => q = r
<1> DEFINE R == Done(s)
<1>0. TypeOK
  BY DEF ProgrammeInv
<1>1. IsFiniteSet(R)
  <2>1. R \in SUBSET Rows
    BY DEF Done, Completed
  <2> QED BY <1>0, <2>1, RowsAreFinite, FS_Subset
<1>2. R = {r \in CompletedForCohort(c) : r[1] = s}
  BY DEF Done, Settled, CompletedForCohort
<1>3. ASSUME NEW r \in R
      PROVE  /\ r \in Completed /\ r = <<s, r[2]>> /\ r[2] \in ExistingPeriods(c)
             /\ r[2] \in Periods /\ r \in CompletedForCohort(c)
  <2>1. r \in Completed /\ r[1] = s /\ r \in CompletedForCohort(c)
    BY <1>2 DEF Done
  <2>2. r \in Rows /\ CohortOf[r[2]] = c
    BY <2>1 DEF Completed, CompletedForCohort, InCohort
  <2> QED BY <1>0, <2>1, <2>2, RowIsPair DEF ExistingPeriods
<1>4. ASSUME NEW r \in R
      PROVE  /\ AverageOrNull(AgreedValues(r)) # NoScore
             /\ AverageOrNull(AgreedValues(r)) = Average(AgreedValues(r))
  <2>1. /\ DOMAIN assessment[r].agreed # {}
        /\ DOMAIN assessment[r].agreed \subseteq Dimensions
        /\ \A d \in DOMAIN assessment[r].agreed : assessment[r].agreed[d] \in Nat
    BY <1>3, GradedHaveScores DEF DimensionsForCohort
  <2>2. /\ DOMAIN AgreedValues(r) = DOMAIN assessment[r].agreed
        /\ \A d \in DOMAIN AgreedValues(r) : AgreedValues(r)[d] = 100 * assessment[r].agreed[d]
    BY DEF AgreedValues
  <2>3. \A d \in DOMAIN AgreedValues(r) : AgreedValues(r)[d] \in Int
    BY <2>1, <2>2
  <2>4. IsFiniteSet(DOMAIN AgreedValues(r))
    <3>1. IsFiniteSet(Dimensions)
      BY DEF ProgrammeAssumption
    <3>2. DOMAIN AgreedValues(r) \in SUBSET Dimensions
      BY <2>1, <2>2
    <3> QED BY <3>1, <3>2, FS_Subset
  <2>5. DOMAIN AgreedValues(r) # {}
    BY <2>1, <2>2
  <2>6. AverageOrNull(AgreedValues(r)) # NoScore
    BY <2>3, <2>4, <2>5, AverageIsNumber
  <2> QED BY <2>5, <2>6 DEF AverageOrNull
<1>5. \A r \in R : /\ Dates(R)[r] = StartOf[r[2]]
                   /\ Grades(R)[r] = AverageOrNull(AgreedValues(r))
  BY DEF Dates, Grades
<1>6. \A r \in R : StartOf[r[2]] \in Nat
  BY <1>3 DEF ProgrammeAssumption
<1>7. ASSUME NEW q \in R, NEW r \in R, Dates(R)[q] = Dates(R)[r]
      PROVE  q = r
  <2>1. q[2] = r[2]
    BY <1>3, <1>5, <1>7 DEF ProgrammeAssumption
  <2> QED BY <1>3, <2>1
<1> QED BY <1>1, <1>2, <1>3, <1>4, <1>5, <1>6, <1>7

\* The student page goes through the periods of the cohort, those he did not
\* complete left open.
LEMMA StudentTrendIs ==
  ASSUME ProgrammeAssumption, NoScoreAssumption, ProgrammeInv,
         NEW s \in Accounts, NEW c \in Cohorts, Settled(s, c),
         NEW periods, periods = PeriodsForCohort(c),
         NEW averages, averages = [i \in DOMAIN periods |-> PeriodAverage(s, periods[i])]
  PROVE  ClassifyTrend(averages) = TrendOf(Done(s), Dates(Done(s)), Grades(Done(s)))
<1> DEFINE R == Done(s)
           P == ExistingPeriods(c)
<1>1. PICK at : Places(P, StartOf, periods, at)
  <2>1. P \in SUBSET Periods
    BY DEF ExistingPeriods
  <2>2. IsFiniteSet(P)
    <3>1. IsFiniteSet(Periods)
      BY DEF ProgrammeAssumption
    <3> HIDE DEF P
    <3> QED BY <2>1, <3>1, FS_Subset
  <2>3. /\ \A p \in P : StartOf[p] \in Nat
        /\ \A p, q \in P : StartOf[p] = StartOf[q] => p = q
    BY <2>1 DEF ProgrammeAssumption
  <2> HIDE DEF P
  <2>4. \E at : Places(P, StartOf, Ordered(P, StartOf), at)
    BY <2>2, <2>3, OrderedHasPlaces
  <2> QED BY <2>4 DEF PeriodsForCohort, P
<1>2. /\ at \in [P -> DOMAIN periods] /\ DOMAIN periods \subseteq Nat
      /\ \A p \in P : periods[at[p]] = p
      /\ \A k \in DOMAIN periods : periods[k] \in P /\ at[periods[k]] = k
      /\ \A p, q \in P : at[p] < at[q] <=> StartOf[p] < StartOf[q]
  BY <1>1 DEF Places
<1>3. \A r \in R : /\ r \in Completed /\ r = <<s, r[2]>> /\ r[2] \in P
                   /\ Dates(R)[r] = StartOf[r[2]] /\ Dates(R)[r] \in Nat
                   /\ Grades(R)[r] = AverageOrNull(AgreedValues(r))
                   /\ Grades(R)[r] # NoScore
  BY DoneAre
<1> DEFINE place == [r \in R |-> at[r[2]]]
<1> HIDE DEF P
<1>4. place \in [R -> DOMAIN periods] /\ \A r \in R : place[r] = at[r[2]]
  BY <1>2, <1>3
<1> HIDE DEF place
<1>5. \A q, r \in R : place[q] < place[r] <=> Dates(R)[q] < Dates(R)[r]
  BY <1>2, <1>3, <1>4
<1>6. \A q, r \in R : place[q] = place[r] => q = r
  <2>1. ASSUME NEW q \in R, NEW r \in R, place[q] = place[r]
        PROVE  q = r
    <3>1. q[2] = r[2]
      BY <1>2, <1>3, <1>4, <2>1
    <3> QED BY <1>3, <3>1
  <2> QED BY <2>1
<1>7. /\ DOMAIN averages = DOMAIN periods
      /\ \A i \in DOMAIN periods :
           averages[i] = IF <<s, periods[i]>> \in Completed
                         THEN AverageOrNull(AgreedValues(<<s, periods[i]>>)) ELSE NoScore
  BY DEF PeriodAverage
<1>8. \A r \in R : averages[place[r]] = Grades(R)[r]
  <2>1. ASSUME NEW r \in R
        PROVE  averages[place[r]] = Grades(R)[r]
    <3>1. place[r] \in DOMAIN periods /\ periods[place[r]] = r[2]
      BY <1>2, <1>3, <1>4
    <3>2. <<s, periods[place[r]]>> = r /\ r \in Completed
      BY <1>3, <3>1
    <3>3. averages[place[r]] = AverageOrNull(AgreedValues(r))
      BY <1>7, <3>1, <3>2
    <3> QED BY <1>3, <3>3
  <2> QED BY <2>1
<1>9. \A i \in DOMAIN averages : averages[i] # NoScore => \E r \in R : place[r] = i
  <2>1. ASSUME NEW i \in DOMAIN periods, averages[i] # NoScore
        PROVE  \E r \in R : place[r] = i
    <3>1. <<s, periods[i]>> \in Completed
      BY <1>7, <2>1
    <3>2. <<s, periods[i]>> \in R
      BY <3>1 DEF Done
    <3>3. place[<<s, periods[i]>>] = i
      BY <1>2, <1>4, <3>2
    <3> QED BY <3>2, <3>3
  <2> QED BY <1>7, <2>1
<1>10. /\ \A r \in R : Dates(R)[r] \in Nat
       /\ \A r \in R : averages[place[r]] = Grades(R)[r] /\ Grades(R)[r] # NoScore
       /\ place \in [R -> DOMAIN averages] /\ DOMAIN averages \subseteq Nat
  BY <1>2, <1>3, <1>4, <1>7, <1>8
<1> HIDE DEF R
<1>11. ClassifyTrend(averages) = TrendOf(R, Dates(R), Grades(R))
  BY ONLY <1>5, <1>6, <1>9, <1>10, TrendIgnoresGaps
<1> QED BY <1>11 DEF R

\* The cohort page goes through his assessments, all of them graded.
LEMMA HeatmapTrendIs ==
  ASSUME ProgrammeAssumption, NoScoreAssumption, ProgrammeInv,
         NEW s \in Accounts, NEW c \in Cohorts, Settled(s, c),
         NEW rows, rows = Chronological(Done(s)),
         NEW history, history = [i \in DOMAIN rows |-> AverageOrNull(AgreedValues(rows[i]))]
  PROVE  ClassifyTrend(history) = TrendOf(Done(s), Dates(Done(s)), Grades(Done(s)))
<1> DEFINE R == Done(s)
<1>1. /\ IsFiniteSet(R)
      /\ \A r \in R : /\ Dates(R)[r] \in Nat
                      /\ Grades(R)[r] = AverageOrNull(AgreedValues(r))
                      /\ Grades(R)[r] # NoScore
      /\ \A q, r \in R : Dates(R)[q] = Dates(R)[r] => q = r
  BY DoneAre
<1>2. rows = Ordered(R, Dates(R))
  BY DEF Chronological, Dates
<1> HIDE DEF R
<1>3. PICK place : Places(R, Dates(R), rows, place)
  <2>1. \E place : Places(R, Dates(R), Ordered(R, Dates(R)), place)
    BY ONLY <1>1, OrderedHasPlaces
  <2> QED BY <1>2, <2>1
<1>4. /\ place \in [R -> DOMAIN rows] /\ DOMAIN rows \subseteq Nat
      /\ \A r \in R : rows[place[r]] = r
      /\ \A k \in DOMAIN rows : rows[k] \in R /\ place[rows[k]] = k
      /\ \A q, r \in R : place[q] < place[r] <=> Dates(R)[q] < Dates(R)[r]
  BY <1>3 DEF Places
<1>5. /\ place \in [R -> DOMAIN history] /\ DOMAIN history \subseteq Nat
      /\ \A r \in R : history[place[r]] = Grades(R)[r] /\ Grades(R)[r] # NoScore
      /\ \A i \in DOMAIN history : history[i] # NoScore => \E r \in R : place[r] = i
      /\ \A q, r \in R : place[q] = place[r] => q = r
      /\ \A r \in R : Dates(R)[r] \in Nat
      /\ \A q, r \in R : place[q] < place[r] <=> Dates(R)[q] < Dates(R)[r]
  BY <1>1, <1>4
<1>6. ClassifyTrend(history) = TrendOf(R, Dates(R), Grades(R))
  BY ONLY <1>5, TrendIgnoresGaps
<1> QED BY <1>6 DEF R

\* The last in the list is the one the cohort page calls the latest; there is
\* one as soon as anything was completed.
LEMMA LastIsLatest ==
  ASSUME ProgrammeAssumption, NoScoreAssumption, ProgrammeInv,
         NEW s \in Accounts, NEW c \in Cohorts, Settled(s, c)
  PROVE  /\ (CompletedForStudent(s) = <<>>) <=> (Done(s) = {})
         /\ Done(s) # {} =>
              /\ Last(CompletedForStudent(s)) \in Latest(CompletedForCohort(c))
              /\ Last(CompletedForStudent(s))[1] = s
         /\ \A r \in Latest(CompletedForCohort(c)) :
              r[1] = s => r \in Done(s) /\ r = Last(CompletedForStudent(s))
<1> DEFINE R == Done(s)
           rows == CompletedForStudent(s)
           n == Cardinality(R)
<1>1. /\ IsFiniteSet(R)
      /\ R = {r \in CompletedForCohort(c) : r[1] = s}
      /\ \A r \in R : /\ r = <<s, r[2]>>
                      /\ Dates(R)[r] \in Nat /\ Dates(R)[r] = StartOf[r[2]]
      /\ \A q, r \in R : Dates(R)[q] = Dates(R)[r] => q = r
  BY DoneAre
<1>2. rows = Ordered(R, Dates(R))
  BY DEF CompletedForStudent, Chronological, Dates, Done
<1> HIDE DEF R, rows
<1>3. PICK place : Places(R, Dates(R), rows, place)
  <2>1. \E place : Places(R, Dates(R), Ordered(R, Dates(R)), place)
    BY ONLY <1>1, OrderedHasPlaces
  <2> QED BY <1>2, <2>1
<1>4. n \in Nat /\ (n = 0 <=> R = {})
  BY <1>1, FS_CardinalityType, FS_EmptySet
<1>5. /\ place \in [R -> 1 .. n] /\ DOMAIN rows = 1 .. n
      /\ \A r \in R : rows[place[r]] = r
      /\ \A k \in 1 .. n : rows[k] \in R /\ place[rows[k]] = k
      /\ \A q, r \in R : place[q] < place[r] <=> Dates(R)[q] < Dates(R)[r]
  BY <1>3 DEF Places
<1>6. rows \in [1 .. n -> R]
  BY <1>3 DEF Places
<1> HIDE DEF n
<1>7. rows \in Seq(R) /\ Len(rows) = n
  BY <1>4, <1>6
<1>8. (rows = <<>>) <=> (R = {})
  BY <1>4, <1>7
<1>9. ASSUME R # {}
      PROVE  Last(rows) \in R /\ \A q \in R : StartOf[q[2]] <= StartOf[Last(rows)[2]]
  <2>1. n \in 1 .. n /\ Last(rows) = rows[n]
    BY <1>4, <1>7, <1>9 DEF Last
  <2>2. rows[n] \in R /\ place[rows[n]] = n
    BY <1>5, <2>1
  <2>3. ASSUME NEW q \in R
        PROVE  StartOf[q[2]] <= StartOf[rows[n][2]]
    <3>1. ~ (place[rows[n]] < place[q])
      BY <1>4, <1>5, <2>2
    <3>2. ~ (Dates(R)[rows[n]] < Dates(R)[q])
      BY <1>5, <2>2, <3>1
    <3> QED BY <1>1, <2>2, <3>2
  <2> QED BY <2>1, <2>2, <2>3
<1>10. \A r \in Latest(CompletedForCohort(c)) :
         r[1] = s => r \in R /\ \A q \in R : StartOf[q[2]] <= StartOf[r[2]]
  BY <1>1 DEF Latest
<1>11. ASSUME NEW r \in Latest(CompletedForCohort(c)), r[1] = s
       PROVE  r \in R /\ r = Last(rows)
  <2>1. r \in R /\ Last(rows) \in R
    BY <1>9, <1>10, <1>11
  <2>2. /\ StartOf[Last(rows)[2]] <= StartOf[r[2]]
        /\ StartOf[r[2]] <= StartOf[Last(rows)[2]]
    BY <1>9, <1>10, <1>11, <2>1
  <2>3. Dates(R)[r] = Dates(R)[Last(rows)]
    BY <1>1, <2>1, <2>2
  <2> QED BY <1>1, <2>1, <2>3
<1>12. R # {} => Last(rows) \in Latest(CompletedForCohort(c)) /\ Last(rows)[1] = s
  BY <1>1, <1>9 DEF Latest
<1> QED BY <1>8, <1>11, <1>12 DEF R, rows

LEMMA PagesAreAgreed ==
  ASSUME ProgrammeAssumption, NoScoreAssumption, ProgrammeInv
  PROVE  PagesAgree
<1> DEFINE View(s) == StudentView(s)
           Shown(s) == {h \in Heatmap(member[s]) : h.student = s}
<1> SUFFICES ASSUME NEW s \in Accounts, member[s] # NoCohort, Settled(s, member[s])
             PROVE  /\ (View(s).latest = <<>>) = (Shown(s) = {})
                    /\ \A h \in Shown(s) :
                         /\ h.trend = View(s).trend
                         /\ h.average = View(s).latest[1].overallAverage
                         /\ DOMAIN h.scores = DOMAIN View(s).latest[1].zones
  BY Zenon DEF PagesAgree
<1> DEFINE view == View(s)
           shown == Shown(s)
           c == member[s]
           last == Last(CompletedForStudent(s))
           scaleMax == cohort[c].scale
           trend == TrendOf(Done(s), Dates(Done(s)), Grades(Done(s)))
           done == CompletedForCohort(c)
           History(t) == LET rows == Chronological({q \in done : q[1] = t})
                         IN  [i \in DOMAIN rows |-> AverageOrNull(AgreedValues(rows[i]))]
           periods == PeriodsForCohort(c)
           averages == [i \in DOMAIN periods |-> PeriodAverage(s, periods[i])]
<1>1. c \in Cohorts
  BY DEF ProgrammeInv, TypeOK, Accounts
<1>2. ClassifyTrend(averages) = trend
  BY <1>1, StudentTrendIs
<1>3. ClassifyTrend(History(s)) = trend
  <2>1. {q \in done : q[1] = s} = Done(s)
    BY <1>1, DoneAre
  <2>2. History(s) = [i \in DOMAIN Chronological(Done(s)) |->
                        AverageOrNull(AgreedValues(Chronological(Done(s))[i]))]
    BY <2>1
  <2> HIDE DEF History, trend
  <2> QED BY <1>1, <2>2, HeatmapTrendIs DEF trend
<1>4. view = [scaleMax |-> scaleMax, trend |-> ClassifyTrend(averages),
              periods |-> averages, trends |-> BuildTrends(CompletedForStudent(s)),
              latest |-> IF CompletedForStudent(s) = <<>> THEN <<>>
                         ELSE <<BuildLatest(last, scaleMax)>>]
  BY Zenon DEF StudentView
<1> HIDE DEF trend, averages, view
<1>5. /\ view.trend = trend
      /\ view.latest = IF Done(s) = {} THEN <<>> ELSE <<BuildLatest(last, scaleMax)>>
  BY <1>1, <1>2, <1>4, LastIsLatest
<1>6. \A h : h \in Heatmap(c) <=>
               \E r \in Latest(done) : h = Entry(c, r, ClassifyTrend(History(r[1])))
  BY Zenon DEF Heatmap, Entry
<1> HIDE DEF History
<1>7. \A r, t : /\ Entry(c, r, t).student = r[1] /\ Entry(c, r, t).trend = t
                /\ Entry(c, r, t).average = AverageOrNull(AgreedValues(r))
                /\ DOMAIN Entry(c, r, t).scores =
                     DimensionsForCohort(c) \cap DOMAIN assessment[r].agreed
  BY DEF Entry
<1>8. \A h \in shown : Done(s) # {} /\ h = Entry(c, last, trend)
  <2>1. ASSUME NEW h \in shown
        PROVE  Done(s) # {} /\ h = Entry(c, last, trend)
    <3>1. PICK r \in Latest(done) : h = Entry(c, r, ClassifyTrend(History(r[1])))
      BY <1>6
    <3>2. r[1] = s
      BY <1>7, <3>1
    <3>3. r \in Done(s) /\ r = last
      BY <1>1, <3>2, LastIsLatest
    <3> QED BY <1>3, <3>1, <3>2, <3>3
  <2> QED BY <2>1
<1>9. Done(s) # {} => Entry(c, last, trend) \in shown
  <2>1. ASSUME Done(s) # {}
        PROVE  Entry(c, last, trend) \in shown
    <3>1. last \in Latest(done) /\ last[1] = s
      BY <1>1, <2>1, LastIsLatest
    <3>2. Entry(c, last, trend) \in Heatmap(c)
      BY <1>3, <1>6, <3>1
    <3> QED BY <1>7, <3>1, <3>2
  <2> QED BY <2>1
<1>10. (view.latest = <<>>) <=> (shown = {})
  <2>1. Done(s) # {} => view.latest # <<>>
    BY <1>5
  <2> QED BY <1>5, <1>8, <1>9, <2>1
<1>11. ASSUME NEW h \in shown
       PROVE  /\ h.trend = view.trend
              /\ h.average = view.latest[1].overallAverage
              /\ DOMAIN h.scores = DOMAIN view.latest[1].zones
  <2>1. Done(s) # {} /\ h = Entry(c, last, trend)
    BY <1>8
  <2>2. view.latest[1] = BuildLatest(last, scaleMax)
    BY <1>5, <2>1
  <2>3. /\ BuildLatest(last, scaleMax).overallAverage = Average(AgreedValues(last))
        /\ DOMAIN BuildLatest(last, scaleMax).zones = DOMAIN assessment[last].agreed
    BY DEF BuildLatest
  <2>4. last \in Done(s) /\ last \in CompletedForCohort(c)
    BY <1>1, <2>1, LastIsLatest DEF Latest
  <2>5. AverageOrNull(AgreedValues(last)) = Average(AgreedValues(last))
    BY <1>1, <2>4, DoneAre
  <2>6. DOMAIN assessment[last].agreed \subseteq DimensionsForCohort(c)
    BY <1>1, <2>4, GradedHaveScores
  <2>7. /\ h.trend = trend
        /\ h.average = AverageOrNull(AgreedValues(last))
        /\ DOMAIN h.scores = DimensionsForCohort(c) \cap DOMAIN assessment[last].agreed
    BY <1>7, <2>1
  <2>8. DOMAIN h.scores = DOMAIN assessment[last].agreed
    BY <2>6, <2>7
  <2> QED BY <1>5, <2>2, <2>3, <2>5, <2>7, <2>8
<1> QED BY <1>10, <1>11, Zenon DEF view

\* The student page and the cohort page show one direction of travel and one
\* latest average (analytics.service.ts:353, :748), as long as all that a
\* student completed belongs to the cohort he is in: the gaps that the one has
\* where a period is not completed do not count.
THEOREM PagesAlwaysAgree == Spec => []PagesAgree
<1>1. ProgrammeInv => PagesAgree
  BY PagesAreAgreed, ProgrammeAssumption, NoScoreAssumption
<1> QED BY <1>1, ProgrammeInvHolds, PTL

-----------------------------------------------------------------------------
(* The pure functions. *)

LEMMA NewestCounts ==
  ASSUME NEW rows, IsFiniteSet(rows), NEW at, NEW n \in Nat, NEW x \in rows,
         NEW S \in SUBSET rows, \A y \in S : at[y] > at[x], x \in Newest(rows, at, n)
  PROVE  Cardinality(S) < n
<1> DEFINE newer == {y \in rows : at[y] > at[x]}
<1>1. newer \in SUBSET rows /\ S \in SUBSET newer
  OBVIOUS
<1>2. Cardinality(newer) < n
  BY DEF Newest
<1> HIDE DEF newer
<1>3. IsFiniteSet(newer) /\ Cardinality(S) <= Cardinality(newer) /\ IsFiniteSet(S)
  BY <1>1, FS_Subset
<1>4. Cardinality(newer) \in Nat /\ Cardinality(S) \in Nat
  BY <1>3, FS_CardinalityType
<1> QED BY <1>2, <1>3, <1>4

\* The feed takes the newest few of each table and the newest of those: that
\* loses nothing, they are the newest of all rows (analytics.service.ts:869),
\* however many tables there are and also if times coincide.
THEOREM FeedIsComplete ==
  ASSUME NEW tables, IsFiniteSet(UNION tables), NEW n \in Nat,
         NEW at, \A x \in UNION tables : at[x] \in Nat
  PROVE  ActivityFeed(tables, at, n) = Newest(UNION tables, at, n)
<1> DEFINE all == UNION tables
           merged == UNION {Newest(rows, at, n) : rows \in tables}
           Newer(x, S) == {y \in S : at[y] > at[x]}
<1>1. merged \subseteq all
  BY DEF Newest
<1>2. \A rows \in tables : rows \in SUBSET all /\ IsFiniteSet(rows)
  <2>1. \A rows \in tables : rows \in SUBSET all
    OBVIOUS
  <2> QED BY <2>1, FS_Subset
<1>3. ActivityFeed(tables, at, n) = {x \in merged : Cardinality(Newer(x, merged)) < n}
  BY Zenon DEF ActivityFeed, Newest
<1>4. Newest(all, at, n) = {x \in all : Cardinality(Newer(x, all)) < n}
  BY Zenon DEF Newest
<1>5. \A S \in SUBSET all : IsFiniteSet(S) /\ Cardinality(S) \in Nat
  BY FS_Subset, FS_CardinalityType
<1>6. ASSUME NEW x \in Newest(all, at, n)
      PROVE  x \in ActivityFeed(tables, at, n)
  <2>1. x \in all
    BY <1>4
  <2>2. PICK rows \in tables : x \in rows
    BY <2>1
  <2>3. x \in Newest(rows, at, n)
    <3>1. Newer(x, rows) \in SUBSET all /\ \A y \in Newer(x, rows) : at[y] > at[x]
      BY <1>2
    <3> HIDE DEF all, Newer
    <3>2. Cardinality(Newer(x, rows)) < n
      BY <1>6, <2>1, <3>1, NewestCounts DEF all
    <3> QED BY <2>2, <3>2 DEF Newest, Newer
  <2>4. x \in merged
    BY <2>3
  <2>5. Cardinality(Newer(x, merged)) < n
    <3>1. Newer(x, merged) \in SUBSET all /\ \A y \in Newer(x, merged) : at[y] > at[x]
      BY <1>1
    <3> HIDE DEF all, Newer, merged
    <3> QED BY <1>6, <2>1, <3>1, NewestCounts DEF all
  <2> QED BY <1>3, <2>4, <2>5
<1>7. ASSUME NEW x \in ActivityFeed(tables, at, n), x \notin Newest(all, at, n)
      PROVE  FALSE
  <2>1. x \in merged /\ x \in all /\ Cardinality(Newer(x, merged)) < n
    BY <1>1, <1>3
  <2> DEFINE missing == Newer(x, all) \ merged
             times == {at[y] : y \in missing}
  <2>2. missing # {}
    <3>1. SUFFICES ASSUME missing = {} PROVE FALSE
      OBVIOUS
    <3>2. Newer(x, all) = Newer(x, merged)
      BY <1>1, <3>1
    <3> QED BY <1>4, <1>7, <2>1, <3>2
  <2>3. PICK y \in missing : \A z \in missing : at[z] <= at[y]
    <3>1. IsFiniteSet(missing)
      <4>1. missing \in SUBSET all
        OBVIOUS
      <4> HIDE DEF missing
      <4> QED BY <1>5, <4>1
    <3>2. IsFiniteSet(times)
      <4> HIDE DEF missing
      <4> DEFINE f == [z \in missing |-> at[z]]
      <4>1. f \in Surjection(missing, times)
        BY DEF Surjection
      <4> HIDE DEF times
      <4> QED BY <3>1, <4>1, FS_Surjection
    <3>3. times \subseteq Nat /\ times # {}
      BY <2>2
    <3> HIDE DEF times
    <3>4. \E m \in times : \A k \in times : k <= m
      BY <3>2, <3>3, GreatestNatural
    <3> QED BY <3>4 DEF times
  <2>4. y \in all /\ at[y] > at[x] /\ y \notin merged
    OBVIOUS
  <2>5. PICK rows \in tables : y \in rows
    BY <2>4
  <2>6. ~ (Cardinality(Newer(y, rows)) < n)
    <3>1. y \notin Newest(rows, at, n)
      BY <2>4, <2>5
    <3> QED BY <2>5, <3>1 DEF Newest
  <2>7. Newer(y, rows) \in SUBSET Newer(x, merged)
    <3>1. ASSUME NEW z \in Newer(y, rows)
          PROVE  z \in Newer(x, merged)
      <4>1. z \in all /\ at[z] > at[y] /\ at[z] \in Nat /\ at[y] \in Nat /\ at[x] \in Nat
        BY <1>2, <2>1, <2>4
      <4>2. at[z] > at[x] /\ ~ (at[z] <= at[y])
        BY <2>4, <4>1
      <4>3. z \in merged
        BY <2>3, <4>1, <4>2
      <4> QED BY <4>2, <4>3
    <3> QED BY <3>1
  <2>8. /\ Newer(x, merged) \in SUBSET all /\ Newer(y, rows) \in SUBSET all
    BY <1>1, <1>2
  <2> HIDE DEF Newer, merged, all
  <2>9. Cardinality(Newer(y, rows)) <= Cardinality(Newer(x, merged))
    BY <1>5, <2>7, <2>8, FS_Subset
  <2>10. Cardinality(Newer(y, rows)) \in Nat /\ Cardinality(Newer(x, merged)) \in Nat
    BY <1>5, <2>8
  <2> QED BY <2>1, <2>6, <2>9, <2>10
<1>8. ActivityFeed(tables, at, n) \subseteq Newest(all, at, n)
  BY <1>7
<1> QED BY <1>6, <1>8

\* A time before now lies in one week, counted back from now.
LEMMA WeekIsUnique ==
  ASSUME NEW u \in Nat, NEW week \in Nat \ {0}, NEW k \in Int
  PROVE  u \div week = k <=> k * week <= u /\ u < (k + 1) * week
<1> DEFINE q == u \div week
<1>1. /\ q \in Int /\ q * week <= u /\ u < q * week + week
  <2>1. u \div week \in Int /\ u % week \in 0 .. week - 1 /\ u = week * (u \div week) + (u % week)
    OBVIOUS
  <2> QED BY <2>1
<1> HIDE DEF q
<1>2. \A a \in Int : a >= 1 => a * week >= week
  OBVIOUS
<1>3. (k + 1) * week = k * week + week /\ k * week \in Int /\ q * week \in Int
  BY <1>1
<1>4. CASE k > q
  <2>1. (k - q) * week >= week /\ (k - q) * week = k * week - q * week
    BY <1>1, <1>2, <1>4
  <2> QED BY <1>1, <1>3, <1>4, <2>1 DEF q
<1>5. CASE k < q
  <2>1. (q - k) * week >= week /\ (q - k) * week = q * week - k * week
    BY <1>1, <1>2, <1>5
  <2> QED BY <1>1, <1>3, <1>5, <2>1 DEF q
<1>6. CASE k = q
  BY <1>1, <1>3, <1>6 DEF q
<1> QED BY <1>1, <1>4, <1>5, <1>6

\* The weekly series tells the truth: every submission that is fetched for it
\* and lies before now is counted, in one week only (analytics-logic.ts:72,
\* analytics.service.ts:477), whatever the length of a week.
THEOREM WeeksAddUp ==
  ASSUME NEW at, IsFiniteSet(DOMAIN at), \A x \in DOMAIN at : at[x] \in Int,
         NEW now \in Int, NEW weeks \in Nat, NEW week \in Nat \ {0}
  PROVE  SumFunction(WeeklyCounts(at, now, weeks, week))
           = Cardinality({x \in SinceWindow(at, now, weeks, week) : at[x] < now})
<1> DEFINE R == {x \in SinceWindow(at, now, weeks, week) : at[x] < now}
           P == 1 .. weeks
           counts == WeeklyCounts(at, now, weeks, week)
           key == [x \in R |-> weeks - ((now - at[x] - 1) \div week)]
<1>1. R \in SUBSET DOMAIN at /\ \A x \in R : at[x] \in Int /\ at[x] < now
  BY DEF SinceWindow
<1>2. IsFiniteSet(R)
  <2> HIDE DEF R
  <2> QED BY <1>1, FS_Subset
<1>3. ASSUME NEW x \in DOMAIN at, at[x] < now, NEW i \in Int
      PROVE  InWindow(at[x], i, now, weeks, week)
               <=> i = weeks - ((now - at[x] - 1) \div week)
  <2> DEFINE u == now - at[x] - 1
             k == weeks - i
  <2>0. at[x] \in Int /\ u \in Nat /\ k \in Int
    BY <1>3
  <2>1. u \div week = k <=> k * week <= u /\ u < (k + 1) * week
    BY <2>0, WeekIsUnique
  <2>2. k * week \in Int /\ (k + 1) * week = k * week + week /\ u \div week \in Int
    BY <2>0
  <2> DEFINE m == k * week
  <2>3. InWindow(at[x], i, now, weeks, week) <=> at[x] >= now - m - week /\ at[x] < now - m
    BY DEF InWindow, WindowEnd
  <2> HIDE DEF m
  <2>4. InWindow(at[x], i, now, weeks, week) <=> m <= u /\ u < m + week
    BY <2>0, <2>2, <2>3 DEF m
  <2>5. InWindow(at[x], i, now, weeks, week) <=> u \div week = k
    BY <2>1, <2>2, <2>4 DEF m
  <2> DEFINE q == u \div week
  <2>6. q \in Int
    BY <2>2
  <2> HIDE DEF q
  <2>7. q = k <=> i = weeks - q
    BY <2>6
  <2> QED BY <2>5, <2>7 DEF q
<1>4. \A x \in DOMAIN at : at[x] < now =>
        (x \in R <=> weeks - ((now - at[x] - 1) \div week) \in P)
  <2> SUFFICES ASSUME NEW x \in DOMAIN at, at[x] < now
               PROVE  x \in R <=> weeks - ((now - at[x] - 1) \div week) \in P
    OBVIOUS
  <2> DEFINE u == now - at[x] - 1
             q == u \div week
  <2>0. at[x] \in Int /\ u \in Nat /\ q \in Int
    OBVIOUS
  <2>1. q * week <= u /\ u < (q + 1) * week
    BY <2>0, WeekIsUnique
  <2>2. x \in R <=> u < weeks * week
    BY <2>0 DEF SinceWindow
  <2>3. u < weeks * week <=> q < weeks
    <3>1. \A a \in Nat : a * week >= 0
      OBVIOUS
    <3>2. q < weeks => (q + 1) * week <= weeks * week
      <4>1. SUFFICES ASSUME q < weeks PROVE (q + 1) * week <= weeks * week
        OBVIOUS
      <4>2. (weeks - (q + 1)) * week >= 0
        BY <2>0, <3>1, <4>1
      <4>3. (weeks - (q + 1)) * week = weeks * week - (q + 1) * week
        BY <2>0
      <4> QED BY <2>0, <4>2, <4>3
    <3>3. q >= weeks => q * week >= weeks * week
      <4>1. SUFFICES ASSUME q >= weeks PROVE q * week >= weeks * week
        OBVIOUS
      <4>2. (q - weeks) * week >= 0
        BY <2>0, <3>1, <4>1
      <4>3. (q - weeks) * week = q * week - weeks * week
        BY <2>0
      <4> QED BY <2>0, <4>2, <4>3
    <3>4. q * week \in Int /\ (q + 1) * week \in Int /\ weeks * week \in Int
      BY <2>0
    <3> HIDE DEF q
    <3> QED BY <2>0, <2>1, <3>2, <3>3, <3>4
  <2>4. q >= 0
    <3>1. SUFFICES ASSUME q < 0 PROVE FALSE
      BY <2>0
    <3>2. (q + 1) * week <= 0
      <4>1. \A a \in Nat : (0 - a) * week <= 0
        OBVIOUS
      <4>2. q + 1 = 0 - (0 - (q + 1)) /\ 0 - (q + 1) \in Nat
        BY <2>0, <3>1
      <4> HIDE DEF q
      <4> QED BY <4>1, <4>2
    <3> QED BY <2>0, <2>1, <3>2
  <2> HIDE DEF q
  <2> QED BY <2>0, <2>2, <2>3, <2>4 DEF q
<1>5. key \in [R -> P] /\ \A x \in R : key[x] = weeks - ((now - at[x] - 1) \div week)
  <2>1. \A x \in R : weeks - ((now - at[x] - 1) \div week) \in P
    BY <1>1, <1>4
  <2> HIDE DEF R, P
  <2> QED BY <2>1
<1>6. \A i \in P : counts[i] = Cardinality({x \in R : key[x] = i})
  <2>1. ASSUME NEW i \in P
        PROVE  {x \in DOMAIN at : InWindow(at[x], i, now, weeks, week)} = {x \in R : key[x] = i}
    <3>1. ASSUME NEW x \in DOMAIN at, InWindow(at[x], i, now, weeks, week)
          PROVE  at[x] < now
      <4>1. (weeks - i) * week >= 0
        <5>1. \A a \in Nat : a * week >= 0
          OBVIOUS
        <5> QED BY <5>1
      <4> QED BY <3>1, <4>1 DEF InWindow, WindowEnd
    <3>2. ASSUME NEW x \in DOMAIN at, InWindow(at[x], i, now, weeks, week)
          PROVE  x \in R /\ key[x] = i
      BY <1>3, <1>4, <1>5, <3>1, <3>2
    <3>3. ASSUME NEW x \in R, key[x] = i
          PROVE  x \in DOMAIN at /\ InWindow(at[x], i, now, weeks, week)
      BY <1>1, <1>3, <1>5, <3>3
    <3> HIDE DEF R, key
    <3> QED BY <3>2, <3>3
  <2>2. \A i \in P : counts[i] = Cardinality({x \in DOMAIN at : InWindow(at[x], i, now, weeks, week)})
    BY Zenon DEF WeeklyCounts
  <2> HIDE DEF R, P, counts, key
  <2> QED BY <2>1, <2>2, Zenon
<1>7. DOMAIN counts = P
  BY DEF WeeklyCounts
<1>8. IsFiniteSet(P)
  BY FS_Interval
<1> HIDE DEF R, P, counts, key
<1>9. SumFunctionOnSet(counts, P) = Cardinality(R)
  BY ONLY <1>2, <1>5, <1>6, <1>8, SumCountsClasses
<1>10. SumFunction(counts) = SumFunctionOnSet(counts, P)
  BY <1>7, SumIsOnDomain
<1> QED BY <1>9, <1>10 DEF R, counts

\* Rounding leaves an average between the bounds of what it averages.
LEMMA RoundedIsBetween ==
  ASSUME NEW a \in Nat, NEW n \in Nat \ {0}, NEW lo \in Nat, NEW hi \in Nat,
         lo * n <= a, a <= hi * n
  PROVE  lo <= Rounded(a, n) /\ Rounded(a, n) <= hi
<1> DEFINE u == 2 * a + n
           w == 2 * n
           q == u \div w
<1>1. /\ u \in Nat /\ w \in Nat \ {0} /\ q \in Int
      /\ lo * n \in Nat /\ hi * n \in Nat
      /\ lo * w = 2 * (lo * n) /\ (hi + 1) * w = 2 * (hi * n) + 2 * n
  OBVIOUS
<1>2. lo * w <= u /\ u < (hi + 1) * w
  BY <1>1
<1>3. q * w <= u /\ u < (q + 1) * w
  <2> HIDE DEF u, w
  <2> QED BY <1>1, WeekIsUnique
<1>4. Rounded(a, n) = q
  BY DEF Rounded
<1> HIDE DEF u, w, q
<1>5. \A x, y \in Int : x <= y => x * w <= y * w
  <2> SUFFICES ASSUME NEW x \in Int, NEW y \in Int, x <= y
               PROVE  x * w <= y * w
    OBVIOUS
  <2>1. \A k \in Nat : k * w >= 0
    BY <1>1
  <2>2. (y - x) * w >= 0 /\ (y - x) * w = y * w - x * w
    BY <1>1, <2>1
  <2> QED BY <1>1, <2>2
<1>6. lo <= q
  <2>1. SUFFICES ASSUME q + 1 <= lo PROVE FALSE
    BY <1>1
  <2>2. (q + 1) * w <= lo * w
    BY <1>1, <1>5, <2>1
  <2>3. (q + 1) * w \in Int /\ lo * w \in Int
    BY <1>1
  <2> QED BY <1>1, <1>2, <1>3, <2>2, <2>3
<1>7. q <= hi
  <2>1. SUFFICES ASSUME hi + 1 <= q PROVE FALSE
    BY <1>1
  <2>2. (hi + 1) * w <= q * w
    BY <1>1, <1>5, <2>1
  <2>3. (hi + 1) * w \in Int /\ q * w \in Int
    BY <1>1
  <2> QED BY <1>1, <1>2, <1>3, <2>2, <2>3
<1> QED BY <1>4, <1>6, <1>7

\* Two thresholds written in two places meet: whoever sees nothing but "needs
\* support" on his page is listed as at risk, and whoever sees none of it is so
\* listed for his coaching flags alone.
ZonesMeetRisk ==
  \A c \in Cohorts : \A r \in CompletedForCohort(c) :
    LET scaleMax == cohort[c].scale
        zones == BuildLatest(r, scaleMax).zones
    IN  /\ (\A d \in DOMAIN zones : zones[d] = "needs_support") => RiskOf(r, scaleMax)
        /\ (\A d \in DOMAIN zones : zones[d] # "needs_support") /\ RiskOf(r, scaleMax)
             => CoachingFlags(r) >= 2

LEMMA ZonesAreMet ==
  ASSUME ProgrammeAssumption, ProgrammeInv
  PROVE  ZonesMeetRisk
<1> DEFINE Meet(c, r, scaleMax, zones) ==
             /\ (\A d \in DOMAIN zones : zones[d] = "needs_support") => RiskOf(r, scaleMax)
             /\ (\A d \in DOMAIN zones : zones[d] # "needs_support") /\ RiskOf(r, scaleMax)
                  => CoachingFlags(r) >= 2
<1> SUFFICES ASSUME NEW c \in Cohorts, NEW r \in CompletedForCohort(c)
             PROVE  Meet(c, r, cohort[c].scale, BuildLatest(r, cohort[c].scale).zones)
  BY Zenon DEF ZonesMeetRisk
<1> DEFINE scaleMax == cohort[c].scale
           zones == BuildLatest(r, scaleMax).zones
           v == AgreedValues(r)
           D == DOMAIN v
           n == Cardinality(D)
           sum == SumFunction(v)
<1>1. scaleMax \in Nat \ {0}
  BY DEF ProgrammeInv, TypeOK
<1>2. /\ D = DOMAIN assessment[r].agreed /\ D # {} /\ D \in SUBSET Dimensions
      /\ \A d \in D : v[d] \in Nat
  <2>1. /\ DOMAIN assessment[r].agreed # {}
        /\ DOMAIN assessment[r].agreed \subseteq Dimensions
        /\ \A d \in DOMAIN assessment[r].agreed : assessment[r].agreed[d] \in Nat
    BY GradedHaveScores DEF DimensionsForCohort
  <2>2. /\ D = DOMAIN assessment[r].agreed
        /\ \A d \in D : v[d] = 100 * assessment[r].agreed[d]
    BY DEF AgreedValues
  <2> QED BY <2>1, <2>2
<1>3. /\ DOMAIN zones = D
      /\ \A d \in D : zones[d] = ClassifyZone(v[d], scaleMax)
  <2>1. zones = [d \in DOMAIN assessment[r].agreed |-> ClassifyZone(v[d], scaleMax)]
    BY DEF BuildLatest
  <2> HIDE DEF v
  <2> QED BY <1>2, <2>1
<1> HIDE DEF v
<1>4. \A d \in D : zones[d] = "needs_support" <=> v[d] <= 40 * scaleMax
  BY <1>1, <1>2, <1>3 DEF ClassifyZone
<1>5. IsFiniteSet(D) /\ n \in Nat \ {0}
  <2>1. IsFiniteSet(Dimensions)
    BY DEF ProgrammeAssumption
  <2> HIDE DEF D
  <2>2. IsFiniteSet(D)
    BY <1>2, <2>1, FS_Subset
  <2> QED BY <1>2, <2>2, FS_CardinalityType, FS_EmptySet
<1>6. Average(v) = Rounded(sum, n)
  BY <1>2, Zenon DEF Average
<1>7. sum = SumFunctionOnSet(v, D)
  BY SumIsOnDomain
<1>8. RiskOf(r, scaleMax) <=> Average(v) <= 40 * scaleMax \/ CoachingFlags(r) >= 2
  BY <1>1 DEF RiskOf, IsAtRisk, v
<1> HIDE DEF D, n, sum, zones
<1>9. sum \in Int
  BY <1>2, <1>5, <1>7, SumIsInteger
<1>10. \A lo, hi \in Nat : (\A d \in D : lo <= v[d] /\ v[d] <= hi) =>
         lo <= Average(v) /\ Average(v) <= hi
  <2> SUFFICES ASSUME NEW lo \in Nat, NEW hi \in Nat, \A d \in D : lo <= v[d] /\ v[d] <= hi
               PROVE  lo <= Average(v) /\ Average(v) <= hi
    OBVIOUS
  <2>1. lo * n <= sum /\ sum <= hi * n
    BY <1>2, <1>5, <1>7, SumIsBetween DEF n
  <2>2. lo * n >= 0 /\ lo * n \in Int
    BY <1>5
  <2>3. sum \in Nat
    BY <1>9, <2>1, <2>2
  <2> QED BY <1>5, <1>6, <2>1, <2>3, RoundedIsBetween
<1>11. ASSUME \A d \in DOMAIN zones : zones[d] = "needs_support"
       PROVE  RiskOf(r, scaleMax)
  <2>1. \A d \in D : 0 <= v[d] /\ v[d] <= 40 * scaleMax
    BY <1>2, <1>3, <1>4, <1>11
  <2>2. 40 * scaleMax \in Nat /\ 0 \in Nat
    BY <1>1
  <2>3. Average(v) <= 40 * scaleMax
    BY <1>10, <2>1, <2>2
  <2> QED BY <1>8, <2>3
<1>12. ASSUME \A d \in DOMAIN zones : zones[d] # "needs_support", RiskOf(r, scaleMax)
       PROVE  CoachingFlags(r) >= 2
  <2> DEFINE lo == 40 * scaleMax + 1
             top == {v[d] : d \in D}
  <2>1. \A d \in D : lo <= v[d]
    BY <1>1, <1>2, <1>3, <1>4, <1>12
  <2>2. PICK hi \in top : \A k \in top : k <= hi
    <3>1. IsFiniteSet(top)
      <4> DEFINE f == [d \in D |-> v[d]]
      <4>1. f \in Surjection(D, top)
        BY DEF Surjection
      <4> HIDE DEF top
      <4> QED BY <1>5, <4>1, FS_Surjection
    <3>2. top \subseteq Nat /\ top # {}
      BY <1>2
    <3> HIDE DEF top
    <3> QED BY <3>1, <3>2, GreatestNatural
  <2>3. hi \in Nat /\ \A d \in D : v[d] <= hi
    BY <1>2, <2>2
  <2>4. lo \in Nat /\ ~ (lo <= 40 * scaleMax)
    BY <1>1
  <2>5. lo <= Average(v) /\ Average(v) <= hi
    BY <1>10, <2>1, <2>3, <2>4
  <2>6. Average(v) \in Int
    <3>1. 2 * sum + n \in Int /\ 2 * n \in Nat \ {0}
      BY <1>5, <1>9
    <3> QED BY <1>6, <3>1 DEF Rounded
  <2>7. ~ (Average(v) <= 40 * scaleMax)
    BY <1>1, <2>4, <2>5, <2>6
  <2> QED BY <1>8, <1>12, <2>7
<1> QED BY <1>11, <1>12, Zenon DEF zones

\* What the student reads on his page and what the coordinator reads on the
\* list follow from one boundary: classifyZone and isAtRisk cut at the same 40%
\* of the scale and rounding an average never crosses it (analytics-logic.ts:14,
\* :111).
THEOREM ZonesAlwaysMeetRisk == Spec => []ZonesMeetRisk
<1>1. ProgrammeInv => ZonesMeetRisk
  BY ZonesAreMet, ProgrammeAssumption
<1> QED BY <1>1, ProgrammeInvHolds, PTL
=============================================================================
