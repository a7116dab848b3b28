------------------------- MODULE PeriodOpeningProofs -------------------------
(***************************************************************************)
(* Proofs about PeriodOpening for every set of periods and students and    *)
(* any number of racing requests.                                          *)
(***************************************************************************)
EXTENDS PeriodOpening, TLAPS

LEMMA RequestShape ==
  ASSUME NEW r \in Request
  PROVE  /\ r.stage = "update" => /\ r.p \in Periods /\ r.to \in PeriodStatus
                                  /\ r.seen \in PeriodStatus
         /\ r.stage = "delete" => r.p \in Periods
         /\ r.stage \in GenerationStages => r.p \in Periods /\ r.ids \in SUBSET Students
BY DEF Request, Idle, GenerationStages

LEMMA GeneratingType ==
  ASSUME NEW stage \in GenerationStages, NEW p \in Periods, NEW ids \in SUBSET Students
  PROVE  Generating(stage, p, ids) \in Request
BY DEF Generating, Request

LEMMA IdleType == Idle \in Request
BY DEF Request

LEMMA BecomesType ==
  ASSUME TypeOK, NEW w \in Workers, NEW r \in Request, Becomes(w, r)
  PROVE  /\ req' \in [Workers -> Request]
         /\ req'[w] = r
         /\ \A v \in Workers : v # w => req'[v] = req[v]
BY DEF TypeOK, Becomes

-----------------------------------------------------------------------------
(* Type correctness. *)

LEMMA TypeInit == Init => TypeOK
BY IdleType DEF Init, TypeOK

LEMMA CallType ==
  ASSUME TypeOK, NEW w \in Workers, Call(w)
  PROVE  TypeOK'
<1>0. PICK p \in Periods :
        \/ \E to \in PeriodStatus : Create(w, p, to) \/ Update(w, p, to)
        \/ Remove(w, p)
  BY DEF Call
<1>1. ASSUME NEW to \in PeriodStatus, Create(w, p, to) PROVE TypeOK'
  <2>1. Generating("students", p, {}) \in Request
    BY GeneratingType DEF GenerationStages
  <2>2. req' \in [Workers -> Request]
    BY <1>1, <2>1, IdleType, BecomesType DEF Create
  <2>3. QED
    BY <1>1, <2>2 DEF Create, TypeOK
<1>2. ASSUME NEW to \in PeriodStatus, Update(w, p, to) PROVE TypeOK'
  <2>1. Updating(p, to) \in Request
    BY <1>2 DEF Update, Updating, Exists, Request
  <2>2. req' \in [Workers -> Request]
    BY <1>2, <2>1, BecomesType DEF Update
  <2>3. QED
    BY <1>2, <2>2 DEF Update, OnlyReq, TypeOK
<1>3. CASE Remove(w, p)
  <2>1. [stage |-> "delete", p |-> p] \in Request
    BY DEF Request
  <2>2. req' \in [Workers -> Request]
    BY <1>3, <2>1, BecomesType DEF Remove
  <2>3. QED
    BY <1>3, <2>2 DEF Remove, OnlyReq, TypeOK
<1>4. QED
  BY <1>0, <1>1, <1>2, <1>3

LEMMA ProceedType ==
  ASSUME TypeOK, NEW w \in Workers, Proceed(w)
  PROVE  TypeOK'
<1> DEFINE r == req[w]
<1>0. r \in Request
  BY DEF TypeOK
<1>1. CASE WriteStatus(w)
  <2>1. r.p \in Periods /\ r.to \in PeriodStatus
    BY <1>0, <1>1, RequestShape DEF WriteStatus
  <2>2. Generating("students", r.p, {}) \in Request
    BY <2>1, GeneratingType DEF GenerationStages
  <2>3. req' \in [Workers -> Request]
    BY <1>1, <2>2, IdleType, BecomesType DEF WriteStatus
  <2>4. QED
    BY <1>1, <2>1, <2>3 DEF WriteStatus, TypeOK
<1>2. CASE Delete(w)
  <2>1. r.p \in Periods
    BY <1>0, <1>2, RequestShape DEF Delete
  <2>2. req' \in [Workers -> Request]
    BY <1>2, IdleType, BecomesType DEF Delete
  <2>3. QED
    BY <1>2, <2>1, <2>2 DEF Delete, TypeOK
<1>3. CASE ReadStudents(w)
  <2>1. r.p \in Periods
    BY <1>0, <1>3, RequestShape DEF ReadStudents, GenerationStages
  <2>2. Generating("existing", r.p, enrolled) \in Request
    BY <2>1, GeneratingType DEF GenerationStages, TypeOK
  <2>3. req' \in [Workers -> Request]
    BY <1>3, <2>2, IdleType, BecomesType DEF ReadStudents, GoOn
  <2>4. QED
    BY <1>3, <2>3 DEF ReadStudents, OnlyReq, TypeOK
<1>4. CASE ReadExisting(w)
  <2>1. r.p \in Periods /\ NewStudents(r) \in SUBSET Students
    BY <1>0, <1>4, RequestShape DEF ReadExisting, GenerationStages, NewStudents
  <2>2. Generating("drafts", r.p, NewStudents(r)) \in Request
    BY <2>1, GeneratingType DEF GenerationStages
  <2>3. req' \in [Workers -> Request]
    BY <1>4, <2>2, IdleType, BecomesType DEF ReadExisting, GoOn
  <2>4. QED
    BY <1>4, <2>3 DEF ReadExisting, OnlyReq, TypeOK
<1>5. CASE CreateDrafts(w)
  <2>1. r.p \in Periods /\ r.ids \in SUBSET Students
    BY <1>0, <1>5, RequestShape DEF CreateDrafts, GenerationStages
  <2>2. Generating("remind", r.p, r.ids) \in Request
    BY <2>1, GeneratingType DEF GenerationStages
  <2>3. req' \in [Workers -> Request]
    BY <1>5, <2>2, IdleType, BecomesType DEF CreateDrafts, AfterRefusal
  <2>4. drafts' \subseteq Periods \X Students
    BY <1>5, <2>1 DEF CreateDrafts, TypeOK
  <2>5. QED
    BY <1>5, <2>3, <2>4 DEF CreateDrafts, TypeOK
<1>6. CASE RemindStudents(w)
  <2>1. r.p \in Periods /\ r.ids \in SUBSET Students
    BY <1>0, <1>6, RequestShape DEF RemindStudents, GenerationStages
  <2>2. Generating("mentors", r.p, r.ids) \in Request
    BY <2>1, GeneratingType DEF GenerationStages
  <2>3. req' \in [Workers -> Request]
    BY <1>6, <2>2, BecomesType DEF RemindStudents, AfterRemind
  <2>4. reminders' \in [Periods -> [Students -> Nat]]
    BY <1>6, <2>1 DEF RemindStudents, TypeOK
  <2>5. QED
    BY <1>6, <2>3, <2>4 DEF RemindStudents, TypeOK
<1>7. CASE NotifyMentors(w)
  <2>1. r.p \in Periods /\ r.ids \in SUBSET Students
    BY <1>0, <1>7, RequestShape DEF NotifyMentors, GenerationStages
  <2>2. MentorsOf(r.ids) \subseteq Facilitators
    BY <2>1, OpeningAssumption DEF MentorsOf
  <2>3. req' \in [Workers -> Request]
    BY <1>7, IdleType, BecomesType DEF NotifyMentors
  <2>4. QED
    BY <1>7, <2>1, <2>2, <2>3 DEF NotifyMentors, TypeOK
<1>8. QED
  BY <1>1, <1>2, <1>3, <1>4, <1>5, <1>6, <1>7 DEF Proceed

LEMMA TypeStep == TypeOK /\ [Next]_vars => TypeOK'
<1> SUFFICES ASSUME TypeOK, [Next]_vars PROVE TypeOK'
  OBVIOUS
<1>1. ASSUME NEW w \in Workers, Stop(w) PROVE TypeOK'
  BY <1>1, IdleType, BecomesType DEF Stop, OnlyReq, TypeOK
<1>2. ASSUME NEW s \in Students, MoveStudent(s) PROVE TypeOK'
  BY <1>2 DEF MoveStudent, TypeOK
<1>3. CASE UNCHANGED vars
  BY <1>3 DEF vars, TypeOK
<1>4. QED
  BY <1>1, <1>2, <1>3, CallType, ProceedType DEF Next, Requests, Failures

\* Whatever races or fails, periods, assessments, notifications and requests in
\* flight stay within their types; no mentor of nobody is notified.
THEOREM TypeCorrect == Spec => []TypeOK
BY TypeInit, TypeStep, PTL DEF Spec

-----------------------------------------------------------------------------
(* One reminder per student.                                               *)
(*                                                                         *)
(* A count of at most one is not inductive: two requests could be about to *)
(* announce the same student.  BatchesAreDisjoint excludes that, because   *)
(* whoever announces a student has just created the assessment, which the  *)
(* unique index lets happen once; and an assessment disappears only with   *)
(* its period, which never comes back.                                     *)

IInv ==
  /\ TypeOK
  /\ OneReminderPerStudent
  /\ NoticesFollowDrafts
  /\ BatchesAreDisjoint

\* The student has an assessment of the period, or the period is gone.
Settled(p, s) == <<p, s>> \in drafts \/ status[p] = "deleted"

\* Every step keeps what is settled settled.
LEMMA SettledStays ==
  ASSUME TypeOK, [Next]_vars, NEW p \in Periods, NEW s \in Students, Settled(p, s)
  PROVE  Settled(p, s)'
<1>1. ASSUME NEW w \in Workers, Call(w) PROVE Settled(p, s)'
  BY <1>1 DEF Call, Create, Update, Remove, OnlyReq, Settled, TypeOK
<1>2. ASSUME NEW w \in Workers, Proceed(w) PROVE Settled(p, s)'
  <2>1. CASE WriteStatus(w)
    BY <2>1 DEF WriteStatus, Exists, PeriodStatus, Settled, TypeOK
  <2>2. CASE Delete(w)
    BY <2>2 DEF Delete, Settled, TypeOK
  <2>3. CASE CreateDrafts(w)
    BY <2>3 DEF CreateDrafts, Settled
  <2>4. CASE ReadStudents(w) \/ ReadExisting(w) \/ RemindStudents(w) \/ NotifyMentors(w)
    BY <2>4 DEF ReadStudents, ReadExisting, RemindStudents, NotifyMentors, OnlyReq, Settled
  <2>5. QED
    BY <1>2, <2>1, <2>2, <2>3, <2>4 DEF Proceed
<1>3. CASE Failures \/ (\E x \in Students : MoveStudent(x)) \/ UNCHANGED vars
  BY <1>3 DEF Failures, Stop, OnlyReq, MoveStudent, vars, Settled
<1>4. QED
  BY <1>1, <1>2, <1>3 DEF Next, Requests

\* Steps that neither announce anything nor entitle a request to.
Quiet(w) ==
  /\ UNCHANGED <<reminders, mentorReminders>>
  /\ req'[w].stage \notin {"remind", "mentors"}
  /\ \A v \in Workers : v # w => req'[v] = req[v]

LEMMA QuietKeeps ==
  ASSUME IInv, [Next]_vars, NEW w \in Workers, Quiet(w)
  PROVE  OneReminderPerStudent' /\ NoticesFollowDrafts' /\ BatchesAreDisjoint'
<1>1. \A p \in Periods, s \in Students : Settled(p, s) => Settled(p, s)'
  BY SettledStays DEF IInv
<1>2. \A v \in Workers, p \in Periods, s \in Students :
        Announces(v, p, s)' => Announces(v, p, s)
  BY DEF Quiet, Announces
<1>3. \A v \in Workers : req'[v].stage = "mentors" => req'[v] = req[v]
  BY DEF Quiet
<1>4. OneReminderPerStudent'
  BY DEF IInv, Quiet, OneReminderPerStudent
<1>5. NoticesFollowDrafts'
  BY <1>1 DEF IInv, Quiet, NoticesFollowDrafts, Settled
<1>6. \A v \in Workers, p \in Periods, s \in Students :
        Announces(v, p, s)' => reminders'[p][s] = 0 /\ Settled(p, s)'
  BY <1>1, <1>2 DEF IInv, Quiet, BatchesAreDisjoint, Settled
<1>7. \A u, v \in Workers, p \in Periods, s \in Students :
        Announces(u, p, s)' /\ Announces(v, p, s)' => u = v
  BY <1>2 DEF IInv, BatchesAreDisjoint
<1>8. \A v \in Workers : req'[v].stage = "mentors" =>
        \A s \in req'[v].ids : reminders'[req'[v].p][s] > 0
  BY <1>3 DEF IInv, Quiet, BatchesAreDisjoint
<1>9. BatchesAreDisjoint'
  BY <1>6, <1>7, <1>8 DEF BatchesAreDisjoint, Settled, Announces
<1>10. QED
  BY <1>4, <1>5, <1>9

\* All requests but the three below are quiet.
LEMMA QuietSteps ==
  ASSUME TypeOK, NEW w \in Workers,
         \/ Call(w) \/ WriteStatus(w) \/ Delete(w) \/ ReadStudents(w)
         \/ ReadExisting(w) \/ Stop(w)
  PROVE  Quiet(w)
<1>1. CASE Call(w)
  BY <1>1 DEF Call, Create, Update, Remove, Becomes, OnlyReq, Generating, Updating,
              Idle, Quiet, TypeOK
<1>2. CASE WriteStatus(w)
  BY <1>2 DEF WriteStatus, Becomes, Generating, Idle, Quiet, TypeOK
<1>3. CASE Delete(w)
  BY <1>3 DEF Delete, Becomes, Idle, Quiet, TypeOK
<1>4. CASE ReadStudents(w)
  BY <1>4 DEF ReadStudents, GoOn, Becomes, OnlyReq, Generating, Idle, Quiet, TypeOK
<1>5. CASE ReadExisting(w)
  BY <1>5 DEF ReadExisting, GoOn, Becomes, OnlyReq, Generating, Idle, Quiet, TypeOK
<1>6. CASE Stop(w)
  BY <1>6 DEF Stop, Becomes, OnlyReq, Idle, Quiet, TypeOK
<1>7. QED
  BY <1>1, <1>2, <1>3, <1>4, <1>5, <1>6

\* The transaction entitles its request to announce the batch: none of the
\* students can have been reminded, and nobody else is about to.
LEMMA CreateDraftsKeeps ==
  ASSUME IInv, [Next]_vars, NEW w \in Workers, CreateDrafts(w)
  PROVE  OneReminderPerStudent' /\ NoticesFollowDrafts' /\ BatchesAreDisjoint'
<1> DEFINE r == req[w]
<1>0. /\ TypeOK /\ r.stage = "drafts" /\ r.p \in Periods /\ r.ids \in SUBSET Students
      /\ UNCHANGED <<status, reminders, mentorReminders>>
      /\ \A v \in Workers : v # w => req'[v] = req[v]
  BY RequestShape DEF IInv, TypeOK, CreateDrafts, GenerationStages, Becomes
<1>1. CASE ~ CanInsert(r.p, r.ids)
  <2>1. Quiet(w)
    BY <1>0, <1>1 DEF CreateDrafts, AfterRefusal, Idle, Becomes, Quiet, TypeOK
  <2>2. QED
    BY <2>1, QuietKeeps
<1>2. CASE CanInsert(r.p, r.ids)
  <2>1. /\ req'[w] = Generating("remind", r.p, r.ids)
        /\ drafts' = drafts \cup ({r.p} \X r.ids)
    BY <1>0, <1>2 DEF CreateDrafts, Becomes, TypeOK
  <2>2. \A s \in r.ids : <<r.p, s>> \notin drafts /\ status[r.p] # "deleted"
    BY <1>0, <1>2 DEF CanInsert, Of, Exists, PeriodStatus
  <2>3. \A s \in r.ids : reminders[r.p][s] = 0
    <3>1. \A s \in r.ids : s \in Students /\ reminders[r.p][s] \in Nat
      BY <1>0 DEF TypeOK
    <3>2. \A s \in r.ids : ~ (reminders[r.p][s] > 0)
      BY <1>0, <2>2, <3>1 DEF IInv, NoticesFollowDrafts
    <3>3. QED
      BY <3>1, <3>2
  <2>4. \A v \in Workers, s \in r.ids : ~ Announces(v, r.p, s)
    BY <1>0, <2>2 DEF IInv, BatchesAreDisjoint
  <2>5. \A v \in Workers, p \in Periods, s \in Students :
          Announces(v, p, s)' <=> \/ v # w /\ Announces(v, p, s)
                                  \/ v = w /\ p = r.p /\ s \in r.ids
    BY <1>0, <2>1 DEF Announces, Generating
  <2>6. OneReminderPerStudent'
    BY <1>0 DEF IInv, OneReminderPerStudent
  <2>7. NoticesFollowDrafts'
    BY <1>0, <2>1 DEF IInv, NoticesFollowDrafts
  <2>8. \A v \in Workers, p \in Periods, s \in Students :
          Announces(v, p, s)' => /\ reminders'[p][s] = 0
                                 /\ <<p, s>> \in drafts' \/ status'[p] = "deleted"
    BY <1>0, <2>1, <2>3, <2>5 DEF IInv, BatchesAreDisjoint
  <2>9. \A u, v \in Workers, p \in Periods, s \in Students :
          Announces(u, p, s)' /\ Announces(v, p, s)' => u = v
    BY <2>4, <2>5 DEF IInv, BatchesAreDisjoint
  <2>10. \A v \in Workers : req'[v].stage = "mentors" =>
           \A s \in req'[v].ids : reminders'[req'[v].p][s] > 0
    BY <1>0, <2>1 DEF IInv, BatchesAreDisjoint, Generating
  <2>11. BatchesAreDisjoint'
    BY <2>8, <2>9, <2>10 DEF BatchesAreDisjoint, Announces
  <2>12. QED
    BY <2>6, <2>7, <2>11
<1>3. QED
  BY <1>1, <1>2

LEMMA RemindStudentsKeeps ==
  ASSUME IInv, NEW w \in Workers, RemindStudents(w)
  PROVE  OneReminderPerStudent' /\ NoticesFollowDrafts' /\ BatchesAreDisjoint'
<1> DEFINE r == req[w]
<1>0. /\ TypeOK /\ r.stage = "remind" /\ r.p \in Periods /\ r.ids \in SUBSET Students
      /\ UNCHANGED <<status, drafts, mentorReminders>>
      /\ req'[w] = Generating("mentors", r.p, r.ids)
      /\ \A v \in Workers : v # w => req'[v] = req[v]
  BY RequestShape DEF IInv, TypeOK, RemindStudents, AfterRemind, GenerationStages, Becomes
<1>1. \A p \in Periods, s \in Students :
        reminders'[p][s] = IF p = r.p /\ s \in r.ids THEN reminders[p][s] + 1
                                                     ELSE reminders[p][s]
  BY <1>0 DEF RemindStudents, TypeOK
<1>2. \A s \in r.ids : /\ Announces(w, r.p, s)
                       /\ reminders[r.p][s] = 0
                       /\ Settled(r.p, s)
  BY <1>0 DEF Announces, IInv, BatchesAreDisjoint, Settled
<1>3. \A p \in Periods, s \in Students : reminders[p][s] \in Nat
  BY <1>0 DEF TypeOK
<1>4. \A v \in Workers, p \in Periods, s \in Students :
        Announces(v, p, s)' => v # w /\ Announces(v, p, s) /\ ~ (p = r.p /\ s \in r.ids)
  BY <1>0, <1>2 DEF Announces, Generating, IInv, BatchesAreDisjoint
<1>5. OneReminderPerStudent'
  BY <1>1, <1>2 DEF IInv, OneReminderPerStudent
<1>6. NoticesFollowDrafts'
  BY <1>0, <1>1, <1>2, <1>3 DEF IInv, NoticesFollowDrafts, Settled
<1>7. \A v \in Workers, p \in Periods, s \in Students :
        Announces(v, p, s)' => /\ reminders'[p][s] = 0
                               /\ <<p, s>> \in drafts' \/ status'[p] = "deleted"
  BY <1>0, <1>1, <1>4 DEF IInv, BatchesAreDisjoint
<1>8. \A u, v \in Workers, p \in Periods, s \in Students :
        Announces(u, p, s)' /\ Announces(v, p, s)' => u = v
  BY <1>4 DEF IInv, BatchesAreDisjoint
<1>9. ASSUME NEW v \in Workers, req'[v].stage = "mentors"
      PROVE  \A s \in req'[v].ids : reminders'[req'[v].p][s] > 0
  <2>1. CASE v = w
    BY <1>0, <1>1, <1>2, <2>1 DEF Generating
  <2>2. CASE v # w
    <3>1. req[v] \in Request /\ req'[v] = req[v]
      BY <1>0, <2>2 DEF TypeOK
    <3>2. req[v].p \in Periods /\ req[v].ids \in SUBSET Students
      BY <1>9, <3>1, RequestShape DEF GenerationStages
    <3>3. \A s \in req[v].ids : reminders[req[v].p][s] > 0
      BY <1>9, <3>1 DEF IInv, BatchesAreDisjoint
    <3>4. QED
      BY <1>1, <1>3, <3>1, <3>2, <3>3
  <2>3. QED
    BY <2>1, <2>2
<1>10. BatchesAreDisjoint'
  BY <1>7, <1>8, <1>9 DEF BatchesAreDisjoint, Announces
<1>11. QED
  BY <1>5, <1>6, <1>10

LEMMA NotifyMentorsKeeps ==
  ASSUME IInv, NEW w \in Workers, NotifyMentors(w)
  PROVE  OneReminderPerStudent' /\ NoticesFollowDrafts' /\ BatchesAreDisjoint'
<1> DEFINE r == req[w]
<1>0. /\ TypeOK /\ r.stage = "mentors" /\ r.p \in Periods /\ r.ids \in SUBSET Students
      /\ UNCHANGED <<status, drafts, reminders>>
      /\ mentorReminders' = mentorReminders \cup ({r.p} \X MentorsOf(r.ids))
      /\ req'[w] = Idle
      /\ \A v \in Workers : v # w => req'[v] = req[v]
  BY RequestShape DEF IInv, TypeOK, NotifyMentors, GenerationStages, Becomes
<1>1. OneReminderPerStudent'
  BY <1>0 DEF IInv, OneReminderPerStudent
<1>2. \A s \in r.ids : reminders[r.p][s] > 0
  BY <1>0 DEF IInv, BatchesAreDisjoint
<1>3. ASSUME NEW p \in Periods, NEW f \in Facilitators, <<p, f>> \in mentorReminders'
      PROVE  \E s \in Students : MentorOf[s] = f /\ reminders[p][s] > 0
  <2>1. CASE <<p, f>> \in mentorReminders
    BY <2>1 DEF IInv, NoticesFollowDrafts
  <2>2. CASE p = r.p /\ f \in MentorsOf(r.ids)
    BY <1>0, <1>2, <2>2 DEF MentorsOf
  <2>3. QED
    BY <1>0, <1>3, <2>1, <2>2
<1>4. NoticesFollowDrafts'
  BY <1>0, <1>3 DEF IInv, NoticesFollowDrafts
<1>5. \A v \in Workers, p \in Periods, s \in Students :
        Announces(v, p, s)' => Announces(v, p, s)
  BY <1>0 DEF Announces, Idle
<1>6. \A v \in Workers : req'[v].stage = "mentors" => req'[v] = req[v]
  BY <1>0 DEF Idle
<1>7. BatchesAreDisjoint'
  <2>1. \A v \in Workers, p \in Periods, s \in Students :
          Announces(v, p, s)' => /\ reminders'[p][s] = 0
                                 /\ <<p, s>> \in drafts' \/ status'[p] = "deleted"
    BY <1>0, <1>5 DEF IInv, BatchesAreDisjoint
  <2>2. \A u, v \in Workers, p \in Periods, s \in Students :
          Announces(u, p, s)' /\ Announces(v, p, s)' => u = v
    BY <1>5 DEF IInv, BatchesAreDisjoint
  <2>3. \A v \in Workers : req'[v].stage = "mentors" =>
          \A s \in req'[v].ids : reminders'[req'[v].p][s] > 0
    BY <1>0, <1>6 DEF IInv, BatchesAreDisjoint
  <2>4. QED
    BY <2>1, <2>2, <2>3 DEF BatchesAreDisjoint, Announces
<1>8. QED
  BY <1>1, <1>4, <1>7

LEMMA IInvInit == Init => IInv
<1>1. Init => OneReminderPerStudent /\ NoticesFollowDrafts
  BY DEF Init, OneReminderPerStudent, NoticesFollowDrafts
<1>2. Init => BatchesAreDisjoint
  BY DEF Init, Idle, BatchesAreDisjoint, Announces
<1>3. QED
  BY <1>1, <1>2, TypeInit DEF IInv

LEMMA IInvStep == IInv /\ [Next]_vars => IInv'
<1> SUFFICES ASSUME IInv, [Next]_vars PROVE IInv'
  OBVIOUS
<1>0. TypeOK /\ TypeOK'
  BY TypeStep DEF IInv
<1>1. ASSUME NEW w \in Workers, Call(w) \/ Stop(w) PROVE IInv'
  BY <1>0, <1>1, QuietSteps, QuietKeeps DEF IInv
<1>2. ASSUME NEW w \in Workers, Proceed(w) PROVE IInv'
  <2>1. CASE WriteStatus(w) \/ Delete(w) \/ ReadStudents(w) \/ ReadExisting(w)
    BY <1>0, <2>1, QuietSteps, QuietKeeps DEF IInv
  <2>2. CASE CreateDrafts(w)
    BY <1>0, <2>2, CreateDraftsKeeps DEF IInv
  <2>3. CASE RemindStudents(w)
    BY <1>0, <2>3, RemindStudentsKeeps DEF IInv
  <2>4. CASE NotifyMentors(w)
    BY <1>0, <2>4, NotifyMentorsKeeps DEF IInv
  <2>5. QED
    BY <1>2, <2>1, <2>2, <2>3, <2>4 DEF Proceed
<1>3. CASE (\E s \in Students : MoveStudent(s)) \/ UNCHANGED vars
  <2>1. UNCHANGED <<status, drafts, req, reminders, mentorReminders>>
    BY <1>3 DEF MoveStudent, vars
  <2>2. QED
    BY <1>0, <2>1 DEF IInv, OneReminderPerStudent, NoticesFollowDrafts,
                      BatchesAreDisjoint, Announces
<1>4. QED
  BY <1>1, <1>2, <1>3 DEF Next, Requests, Failures

LEMMA Invariance == Spec => []IInv
BY IInvInit, IInvStep, PTL DEF Spec

\* However often and by however many requests at once a period is opened, each
\* student is reminded of it at most once.
THEOREM RemindedAtMostOnce == Spec => []OneReminderPerStudent
<1>1. IInv => OneReminderPerStudent
  BY DEF IInv
<1>2. QED
  BY <1>1, Invariance, PTL

\* A reminder always points at an assessment that exists, unless its period was
\* removed, and a mentor's at one of their own students.
THEOREM NoticesAlwaysFollowDrafts == Spec => []NoticesFollowDrafts
<1>1. IInv => NoticesFollowDrafts
  BY DEF IInv
<1>2. QED
  BY <1>1, Invariance, PTL

-----------------------------------------------------------------------------
(* History is kept.  Two things together would lose it: a period that goes   *)
(* back to upcoming, and a removal that judged a status which is no longer   *)
(* the one.  Without either, a removed period never had an assessment.       *)

\* No two requests about one period are in flight.
OneRequestPerPeriod ==
  \A v, w \in Workers :
    req[v] # Idle /\ req[w] # Idle /\ req[v].p = req[w].p => v = w

\* The request acts on the status as it is, and towards a later one.
Steers(r) ==
  /\ status[r.p] # "none"
  /\ r.stage = "update" => r.seen = status[r.p] /\ Rank[r.to] >= Rank[r.seen]
  /\ r.stage = "delete" => status[r.p] = "upcoming"
  /\ r.stage \in GenerationStages => status[r.p] # "upcoming"

ForwardInv ==
  /\ \A w \in Workers : req[w] # Idle => Steers(req[w])
  /\ \A p \in Periods : status[p] \in {"none", "upcoming"} => Of(p) = {}

\* A step of one request that changes no status another request acts on.
LEMMA SteersStays ==
  ASSUME ForwardInv, NEW w \in Workers,
         \A v \in Workers : v # w => req'[v] = req[v],
         \A v \in Workers : v # w /\ req[v] # Idle => status'[req[v].p] = status[req[v].p],
         req'[w] # Idle => Steers(req[w])'
  PROVE  \A v \in Workers : req'[v] # Idle => Steers(req[v])'
<1>1. ASSUME NEW v \in Workers, v # w, req'[v] # Idle
      PROVE  Steers(req[v])'
  BY <1>1 DEF ForwardInv, Steers
<1>2. QED
  BY <1>1

LEMMA CallForward ==
  ASSUME TypeOK, ForwardInv, ~ Backward, NEW w \in Workers, Call(w)
  PROVE  ForwardInv' /\ drafts' = drafts
<1>0. PICK p \in Periods :
        \/ \E to \in PeriodStatus : Create(w, p, to) \/ Update(w, p, to)
        \/ Remove(w, p)
  BY DEF Call
<1>1. ASSUME NEW to \in PeriodStatus, Create(w, p, to) PROVE ForwardInv'
  <2>1. /\ status[p] = "none" /\ status' = [status EXCEPT ![p] = to]
        /\ drafts' = drafts
        /\ req'[w] \in {Idle, Generating("students", p, {})}
        /\ req'[w] = Generating("students", p, {}) => to = "active"
        /\ \A v \in Workers : v # w => req'[v] = req[v]
    BY <1>1 DEF Create, Becomes, Generating, Idle, TypeOK
  <2>2. \A v \in Workers : req[v] # Idle => status'[req[v].p] = status[req[v].p]
    BY <2>1 DEF ForwardInv, Steers, TypeOK
  <2>3. status'[p] = to /\ \A q \in Periods : q # p => status'[q] = status[q]
    BY <2>1 DEF TypeOK
  <2>4. req'[w] # Idle => Steers(req[w])'
    BY <2>1, <2>3 DEF Generating, Steers, GenerationStages, PeriodStatus
  <2>5. \A v \in Workers : req'[v] # Idle => Steers(req[v])'
    BY <2>1, <2>2, <2>4, SteersStays
  <2>6. \A q \in Periods : status'[q] \in {"none", "upcoming"} => Of(q)' = {}
    BY <2>1, <2>3 DEF ForwardInv, Of
  <2>7. QED
    BY <2>5, <2>6 DEF ForwardInv, Idle
<1>2. ASSUME NEW to \in PeriodStatus, Update(w, p, to) PROVE ForwardInv'
  <2>1. /\ req'[w] = Updating(p, to)
        /\ status[p] \in PeriodStatus /\ Rank[to] >= Rank[status[p]]
        /\ UNCHANGED <<status, drafts>>
        /\ \A v \in Workers : v # w => req'[v] = req[v]
    BY <1>2 DEF Update, Exists, Becomes, OnlyReq, TypeOK
  <2>2. Steers(req[w])'
    BY <2>1 DEF Updating, Steers, GenerationStages, PeriodStatus
  <2>3. \A v \in Workers : req'[v] # Idle => Steers(req[v])'
    BY <2>1, <2>2, SteersStays
  <2>4. QED
    BY <2>1, <2>3 DEF ForwardInv, Of, Idle
<1>3. ASSUME Remove(w, p) PROVE ForwardInv'
  <2>1. /\ req'[w] = [stage |-> "delete", p |-> p] /\ status[p] = "upcoming"
        /\ UNCHANGED <<status, drafts>>
        /\ \A v \in Workers : v # w => req'[v] = req[v]
    BY <1>3 DEF Remove, Removable, Becomes, OnlyReq, TypeOK
  <2>2. Steers(req[w])'
    BY <2>1 DEF Steers, GenerationStages
  <2>3. \A v \in Workers : req'[v] # Idle => Steers(req[v])'
    BY <2>1, <2>2, SteersStays
  <2>4. QED
    BY <2>1, <2>3 DEF ForwardInv, Of, Idle
<1>4. drafts' = drafts
  BY <1>0 DEF Create, Update, Remove, OnlyReq
<1>5. QED
  BY <1>0, <1>1, <1>2, <1>3, <1>4

\* The only statement that deletes finds nothing to delete.
LEMMA ProceedForward ==
  ASSUME TypeOK, ForwardInv, OneRequestPerPeriod, NEW w \in Workers, Proceed(w)
  PROVE  ForwardInv' /\ drafts \subseteq drafts'
<1> DEFINE r == req[w]
<1>0. /\ r # Idle /\ r \in Request /\ r.p \in Periods /\ Steers(r)
      /\ \A v \in Workers : v # w => req'[v] = req[v]
      /\ \A v \in Workers : v # w /\ req[v] # Idle => req[v].p # r.p
  <2>1. r # Idle /\ \A v \in Workers : v # w => req'[v] = req[v]
    BY DEF Proceed, WriteStatus, Delete, ReadStudents, ReadExisting, CreateDrafts,
           RemindStudents, NotifyMentors, Becomes, GoOn, Idle, TypeOK
  <2>2. r \in Request /\ r.p \in Periods
    BY <2>1 DEF TypeOK, Request
  <2>3. QED
    BY <2>1, <2>2 DEF ForwardInv, OneRequestPerPeriod
<1>1. ASSUME r.stage \in GenerationStages, status' = status,
             req'[w] # Idle => req'[w].p = r.p /\ req'[w].stage \in GenerationStages,
             \A q \in Periods : q # r.p => Of(q)' = Of(q)
      PROVE  ForwardInv'
  <2>1. status[r.p] \notin {"none", "upcoming"}
    BY <1>0, <1>1 DEF Steers
  <2>2. req'[w] # Idle => Steers(req[w])'
    BY <1>1, <2>1 DEF Steers, GenerationStages
  <2>3. \A v \in Workers : req'[v] # Idle => Steers(req[v])'
    BY <1>0, <1>1, <2>2, SteersStays
  <2>4. \A q \in Periods : status'[q] \in {"none", "upcoming"} => Of(q)' = {}
    BY <1>1, <2>1 DEF ForwardInv
  <2>5. QED
    BY <2>3, <2>4 DEF ForwardInv, Idle
<1>2. CASE WriteStatus(w)
  <2>1. /\ r.stage = "update" /\ r.to \in PeriodStatus /\ r.seen \in PeriodStatus
        /\ r.seen = status[r.p] /\ Rank[r.to] >= Rank[r.seen]
    BY <1>0, <1>2, RequestShape DEF WriteStatus, Steers
  <2>2. /\ status' = [status EXCEPT ![r.p] = r.to] /\ drafts' = drafts
        /\ req'[w] \in {Idle, Generating("students", r.p, {})}
        /\ req'[w] = Generating("students", r.p, {}) => r.to = "active"
    BY <1>2, <2>1 DEF WriteStatus, Exists, IsOpening, Becomes, Generating, Idle, TypeOK
  <2>3. /\ status'[r.p] = r.to
        /\ \A q \in Periods : q # r.p => status'[q] = status[q]
    BY <1>0, <2>2 DEF TypeOK
  <2>4. req'[w] # Idle => Steers(req[w])'
    BY <2>1, <2>2, <2>3 DEF Generating, Steers, GenerationStages, PeriodStatus
  <2>5. \A v \in Workers : v # w /\ req[v] # Idle => status'[req[v].p] = status[req[v].p]
    BY <1>0, <2>2 DEF TypeOK
  <2>6. \A v \in Workers : req'[v] # Idle => Steers(req[v])'
    BY <1>0, <2>4, <2>5, SteersStays
  <2>7. \A q \in Periods : status'[q] \in {"none", "upcoming"} => Of(q)' = {}
    <3>1. r.to = "upcoming" => status[r.p] = "upcoming"
      BY <2>1 DEF PeriodStatus, Rank
    <3>2. r.to # "none"
      BY <2>1 DEF PeriodStatus
    <3>3. QED
      BY <2>2, <2>3, <3>1, <3>2 DEF ForwardInv, Of
  <2>8. QED
    BY <2>2, <2>6, <2>7 DEF ForwardInv, Idle
<1>3. CASE Delete(w)
  <2>1. r.stage = "delete" /\ status[r.p] = "upcoming" /\ Of(r.p) = {}
    BY <1>0, <1>3 DEF Delete, Steers, ForwardInv
  <2>2. \A x \in drafts : x \in drafts'
    <3> SUFFICES ASSUME NEW x \in drafts PROVE x \in drafts'
      OBVIOUS
    <3>1. PICK p \in Periods, s \in Students : x = <<p, s>>
      BY DEF TypeOK
    <3>2. p # r.p
      BY <2>1, <3>1 DEF Of
    <3>3. QED
      BY <1>3, <3>1, <3>2 DEF Delete
  <2>3. drafts' = drafts
    BY <1>3, <2>2 DEF Delete
  <2>4. /\ status' = [status EXCEPT ![r.p] = "deleted"] /\ req'[w] = Idle
    BY <1>3 DEF Delete, Becomes, TypeOK
  <2>5. \A v \in Workers : v # w /\ req[v] # Idle => status'[req[v].p] = status[req[v].p]
    BY <1>0, <2>4 DEF TypeOK
  <2>6. \A v \in Workers : req'[v] # Idle => Steers(req[v])'
    BY <1>0, <2>4, <2>5, SteersStays
  <2>7. \A q \in Periods : status'[q] \in {"none", "upcoming"} => Of(q)' = {}
    BY <1>0, <2>3, <2>4 DEF ForwardInv, Of, TypeOK
  <2>8. QED
    BY <2>3, <2>6, <2>7 DEF ForwardInv, Idle
<1>4. CASE ReadStudents(w) \/ ReadExisting(w) \/ RemindStudents(w) \/ NotifyMentors(w)
  <2>1. /\ r.stage \in GenerationStages /\ status' = status /\ drafts' = drafts
        /\ req'[w] # Idle => req'[w].p = r.p /\ req'[w].stage \in GenerationStages
    BY <1>4 DEF ReadStudents, ReadExisting, RemindStudents, NotifyMentors, GoOn, OnlyReq,
                AfterRemind, Becomes, Generating, GenerationStages, TypeOK
  <2>2. QED
    BY <1>1, <2>1 DEF Of
<1>5. CASE CreateDrafts(w)
  <2>1. /\ r.stage \in GenerationStages /\ status' = status
        /\ drafts' \in {drafts, drafts \cup ({r.p} \X r.ids)}
        /\ req'[w] # Idle => req'[w].p = r.p /\ req'[w].stage \in GenerationStages
    BY <1>5 DEF CreateDrafts, AfterRefusal, Becomes, Generating, GenerationStages, TypeOK
  <2>2. \A q \in Periods : q # r.p => Of(q)' = Of(q)
    BY <2>1 DEF Of
  <2>3. QED
    BY <1>1, <2>1, <2>2
<1>6. QED
  BY <1>2, <1>3, <1>4, <1>5 DEF Proceed, ReadStudents, ReadExisting, RemindStudents,
                                 NotifyMentors, CreateDrafts, WriteStatus, OnlyReq

LEMMA ForwardStep ==
  ASSUME TypeOK, ForwardInv, OneRequestPerPeriod, ~ Backward, [Next]_vars
  PROVE  ForwardInv' /\ drafts \subseteq drafts'
<1>1. ASSUME NEW w \in Workers, Stop(w)
      PROVE  ForwardInv' /\ drafts' = drafts
  <2>1. /\ req'[w] = Idle /\ UNCHANGED <<status, drafts>>
        /\ \A v \in Workers : v # w => req'[v] = req[v]
    BY <1>1 DEF Stop, Becomes, OnlyReq, TypeOK
  <2>2. \A v \in Workers : req'[v] # Idle => Steers(req[v])'
    BY <2>1, SteersStays
  <2>3. QED
    BY <2>1, <2>2 DEF ForwardInv, Of, Idle
<1>2. CASE (\E s \in Students : MoveStudent(s)) \/ UNCHANGED vars
  <2>1. UNCHANGED <<status, drafts, req>>
    BY <1>2 DEF MoveStudent, vars
  <2>2. QED
    BY <2>1 DEF ForwardInv, Steers, Of
<1>3. QED
  BY <1>1, <1>2, CallForward, ProceedForward DEF Next, Requests, Failures

\* "Generated assessments and scores must be preserved": while periods only move
\* forward and the requests about one period do not overlap, no assessment is
\* ever deleted, for any number of periods, students and racing requests about
\* different periods, stopped half-way or not (periods.service.ts:90).
THEOREM HistoryAlwaysKept ==
  ASSUME ~ Backward
  PROVE  Spec /\ []OneRequestPerPeriod => HistoryKept
<1>1. Init => ForwardInv
  BY DEF Init, ForwardInv, Of
<1>2. TypeOK /\ ForwardInv /\ OneRequestPerPeriod /\ [Next]_vars => ForwardInv'
  BY ForwardStep
<1>3. TypeOK /\ ForwardInv /\ OneRequestPerPeriod /\ [Next]_vars =>
        [drafts \subseteq drafts']_vars
  BY ForwardStep
<1>4. QED
  BY TypeCorrect, <1>1, <1>2, <1>3, PTL DEF Spec, HistoryKept

-----------------------------------------------------------------------------
(* The handlers implement the steps of Programme.  A request in flight holds  *)
(* on to what it read as long as nobody else works on its period and nobody   *)
(* joins or leaves while it drafts.                                           *)

\* Nobody joins or leaves while a period is being opened, and no opening stops
\* before it has drafted.
OpensUndisturbed ==
  \A w \in Workers : Opens(req[w]) =>
    /\ enrolled' = enrolled
    /\ req'[w] = Idle => enrolled \subseteq Of(req[w].p)

\* Requests about a period come one after the other; all else interleaves.
Orderly == Next /\ OneRequestPerPeriod' /\ OpensUndisturbed

OrderlySpec == Init /\ [][Orderly]_vars

\* What the request has read is still so.
Ordered(r) ==
  /\ status[r.p] # "none"
  /\ r.stage = "update" => Exists(r.p) /\ r.seen = status[r.p]
  /\ r.stage = "delete" => status[r.p] = "upcoming"
  /\ Opens(r) => Exists(r.p)
  /\ r.stage = "existing" => r.ids = enrolled
  /\ r.stage = "drafts" => r.ids = enrolled \ Of(r.p)

OrderInv ==
  /\ OneRequestPerPeriod
  /\ \A w \in Workers : req[w] # Idle => Ordered(req[w])

\* The requests a step is not of keep their order.
LEMMA OthersOrdered ==
  ASSUME OrderInv, NEW w \in Workers, NEW p,
         \A v \in Workers : v # w => req'[v] = req[v],
         \A v \in Workers : v # w /\ req[v] # Idle => req[v].p # p,
         \A q : q # p => status'[q] = status[q] /\ Of(q)' = Of(q),
         \A v \in Workers : Opens(req[v]) => enrolled' = enrolled,
         req'[w] # Idle => Ordered(req[w])',
         OneRequestPerPeriod'
  PROVE  OrderInv'
<1>1. ASSUME NEW v \in Workers, v # w, req'[v] # Idle
      PROVE  Ordered(req[v])'
  BY <1>1 DEF OrderInv, Ordered, Exists, Opens
<1>2. QED
  BY <1>1 DEF OrderInv

\* Nobody but w works on a period that w works on.
LEMMA Alone ==
  ASSUME OneRequestPerPeriod, NEW w \in Workers, req[w] # Idle
  PROVE  \A v \in Workers : v # w /\ req[v] # Idle => req[v].p # req[w].p
BY DEF OneRequestPerPeriod

LEMMA CallOrdered ==
  ASSUME TypeOK, OrderInv, NEW w \in Workers, Call(w), OneRequestPerPeriod', OpensUndisturbed
  PROVE  OrderInv'
<1>1. PICK p \in Periods :
        \/ \E to \in PeriodStatus : Create(w, p, to) \/ Update(w, p, to)
        \/ Remove(w, p)
  BY DEF Call
<1>2. ASSUME NEW to \in PeriodStatus, Create(w, p, to) PROVE OrderInv'
  <2>1. /\ status[p] = "none" /\ status' = [status EXCEPT ![p] = to]
        /\ enrolled' = enrolled /\ drafts' = drafts
        /\ Becomes(w, IF to = "active" THEN Generating("students", p, {}) ELSE Idle)
    BY <1>2 DEF Create
  <2>2. /\ \A v \in Workers : v # w => req'[v] = req[v]
        /\ req'[w] = IF to = "active" THEN Generating("students", p, {}) ELSE Idle
    BY <2>1 DEF Becomes, TypeOK
  <2>3. \A v \in Workers : v # w /\ req[v] # Idle => req[v].p # p
    BY <2>1 DEF OrderInv, Ordered
  <2>4. \A q : q # p => status'[q] = status[q] /\ Of(q)' = Of(q)
    BY <2>1 DEF Of, TypeOK
  <2>5. status'[p] = to
    BY <2>1 DEF TypeOK
  <2>6. req'[w] # Idle => Ordered(req[w])'
    BY <2>2, <2>5 DEF Generating, Ordered, Exists, Opens, PeriodStatus
  <2>7. QED
    BY <2>1, <2>2, <2>3, <2>4, <2>6, OthersOrdered
<1>3. ASSUME NEW to \in PeriodStatus, Update(w, p, to) PROVE OrderInv'
  <2>1. /\ Exists(p) /\ Becomes(w, Updating(p, to)) /\ OnlyReq
    BY <1>3 DEF Update
  <2>2. /\ \A v \in Workers : v # w => req'[v] = req[v]
        /\ req'[w] = Updating(p, to)
    BY <2>1 DEF Becomes, TypeOK
  <2>3. req'[w] # Idle /\ req'[w].p = p
    BY <2>2 DEF Updating, Idle
  <2>4. \A v \in Workers : v # w /\ req[v] # Idle => req[v].p # p
    BY <2>2, <2>3 DEF OneRequestPerPeriod
  <2>5. Ordered(req[w])'
    BY <2>1, <2>2 DEF Updating, Ordered, Exists, Opens, PeriodStatus, OnlyReq
  <2>6. QED
    BY <2>1, <2>2, <2>4, <2>5, OthersOrdered DEF OnlyReq, Of
<1>4. ASSUME Remove(w, p) PROVE OrderInv'
  <2>1. /\ status[p] = "upcoming" /\ Becomes(w, [stage |-> "delete", p |-> p]) /\ OnlyReq
    BY <1>4 DEF Remove, Removable
  <2>2. /\ \A v \in Workers : v # w => req'[v] = req[v]
        /\ req'[w] = [stage |-> "delete", p |-> p]
    BY <2>1 DEF Becomes, TypeOK
  <2>3. req'[w] # Idle /\ req'[w].p = p
    BY <2>2 DEF Idle
  <2>4. \A v \in Workers : v # w /\ req[v] # Idle => req[v].p # p
    BY <2>2, <2>3 DEF OneRequestPerPeriod
  <2>5. Ordered(req[w])'
    BY <2>1, <2>2 DEF Ordered, Exists, Opens, PeriodStatus, OnlyReq
  <2>6. QED
    BY <2>1, <2>2, <2>4, <2>5, OthersOrdered DEF OnlyReq, Of
<1>5. QED
  BY <1>1, <1>2, <1>3, <1>4

LEMMA ProceedOrdered ==
  ASSUME TypeOK, OrderInv, NEW w \in Workers, Proceed(w), OneRequestPerPeriod', OpensUndisturbed
  PROVE  OrderInv'
<1> DEFINE r == req[w]
           p == req[w].p
<1>1. r \in Request /\ r # Idle
  BY DEF TypeOK, Proceed, WriteStatus, Delete, ReadStudents, ReadExisting, CreateDrafts,
         RemindStudents, NotifyMentors, Idle
<1>2. Ordered(r) /\ \A v \in Workers : v # w /\ req[v] # Idle => req[v].p # p
  BY <1>1, Alone DEF OrderInv
<1>3. CASE WriteStatus(w)
  <2>1. r.stage = "update" /\ p \in Periods /\ r.to \in PeriodStatus /\ Exists(p)
    BY <1>1, <1>2, <1>3, RequestShape DEF WriteStatus, Ordered
  <2>2. /\ status' = [status EXCEPT ![p] = r.to] /\ enrolled' = enrolled /\ drafts' = drafts
        /\ Becomes(w, IF IsOpening(r) THEN Generating("students", p, {}) ELSE Idle)
    BY <1>3, <2>1 DEF WriteStatus
  <2>3. /\ \A v \in Workers : v # w => req'[v] = req[v]
        /\ req'[w] = IF IsOpening(r) THEN Generating("students", p, {}) ELSE Idle
    BY <2>2 DEF Becomes, TypeOK
  <2>4. /\ \A q : q # p => status'[q] = status[q] /\ Of(q)' = Of(q)
        /\ status'[p] = r.to
    BY <2>1, <2>2 DEF Of, TypeOK
  <2>5. req'[w] # Idle => Ordered(req[w])'
    BY <2>1, <2>3, <2>4 DEF Generating, Ordered, Exists, Opens, PeriodStatus
  <2>6. QED
    BY <1>2, <2>2, <2>3, <2>4, <2>5, OthersOrdered
<1>4. CASE Delete(w)
  <2>1. /\ status' = [status EXCEPT ![p] = "deleted"] /\ enrolled' = enrolled
        /\ drafts' = {x \in drafts : x[1] # p} /\ Becomes(w, Idle)
    BY <1>4 DEF Delete
  <2>2. /\ \A v \in Workers : v # w => req'[v] = req[v]
        /\ req'[w] = Idle
    BY <2>1 DEF Becomes, TypeOK
  <2>3. \A q : q # p => status'[q] = status[q] /\ Of(q)' = Of(q)
    BY <2>1 DEF Of, TypeOK
  <2>4. QED
    BY <1>2, <2>1, <2>2, <2>3, OthersOrdered
<1>5. CASE ReadStudents(w) \/ ReadExisting(w)
  <2>1. OnlyReq /\ Opens(r)
    BY <1>5 DEF ReadStudents, ReadExisting, Opens
  <2>2. PICK next \in {Idle, Generating("existing", p, enrolled),
                       Generating("drafts", p, NewStudents(r))} :
          /\ Becomes(w, next)
          /\ next = Generating("drafts", p, NewStudents(r)) => r.stage = "existing"
    BY <1>5 DEF ReadStudents, ReadExisting, GoOn, Generating, Idle
  <2>3. /\ \A v \in Workers : v # w => req'[v] = req[v]
        /\ req'[w] = next
    BY <2>2 DEF Becomes, TypeOK
  <2>4. Exists(p) /\ (r.stage = "existing" => r.ids = enrolled)
    BY <1>2, <2>1 DEF Ordered
  <2>5. req'[w] # Idle => Ordered(req[w])'
    BY <2>1, <2>2, <2>3, <2>4
       DEF Generating, Ordered, Exists, Opens, PeriodStatus, OnlyReq, NewStudents, Of
  <2>6. /\ enrolled' = enrolled
        /\ \A q : status'[q] = status[q] /\ Of(q)' = Of(q)
    BY <2>1 DEF OnlyReq, Of
  <2>7. /\ \A v \in Workers : v # w => req'[v] = req[v]
        /\ \A v \in Workers : v # w /\ req[v] # Idle => req[v].p # p
        /\ \A q : q # p => status'[q] = status[q] /\ Of(q)' = Of(q)
        /\ \A v \in Workers : Opens(req[v]) => enrolled' = enrolled
    BY <1>2, <2>3, <2>6
  <2>8. QED
    BY <2>5, <2>7, OthersOrdered
<1>6. CASE CreateDrafts(w)
  <2>1. /\ r.stage = "drafts" /\ p \in Periods
        /\ UNCHANGED <<status, enrolled>>
        /\ drafts' = drafts \/ drafts' = drafts \cup ({p} \X r.ids)
        /\ \E next \in {Idle, Generating("remind", p, r.ids)} : Becomes(w, next)
    BY <1>1, <1>6, RequestShape DEF CreateDrafts, AfterRefusal, GenerationStages
  <2>2. PICK next \in {Idle, Generating("remind", p, r.ids)} :
          /\ \A v \in Workers : v # w => req'[v] = req[v]
          /\ req'[w] = next
    BY <2>1 DEF Becomes, TypeOK
  <2>3. \A q : q # p => status'[q] = status[q] /\ Of(q)' = Of(q)
    BY <2>1 DEF Of
  <2>4. req'[w] # Idle => Ordered(req[w])'
    BY <1>2, <2>1, <2>2 DEF Generating, Ordered, Opens
  <2>5. QED
    BY <1>2, <2>1, <2>2, <2>3, <2>4, OthersOrdered
<1>7. CASE RemindStudents(w) \/ NotifyMentors(w)
  <2>1. /\ UNCHANGED <<status, enrolled, drafts>>
        /\ \E next \in {Idle, Generating("mentors", p, r.ids)} : Becomes(w, next)
    BY <1>7 DEF RemindStudents, NotifyMentors, AfterRemind
  <2>2. PICK next \in {Idle, Generating("mentors", p, r.ids)} :
          /\ \A v \in Workers : v # w => req'[v] = req[v]
          /\ req'[w] = next
    BY <2>1 DEF Becomes, TypeOK
  <2>3. req'[w] # Idle => Ordered(req[w])'
    BY <1>2, <2>1, <2>2 DEF Generating, Ordered, Opens
  <2>4. QED
    BY <1>2, <2>1, <2>2, <2>3, OthersOrdered DEF Of
<1>8. QED
  BY <1>3, <1>4, <1>5, <1>6, <1>7 DEF Proceed

LEMMA OrderStep ==
  ASSUME TypeOK, OrderInv, [Orderly]_vars
  PROVE  OrderInv'
<1>1. CASE UNCHANGED vars
  BY <1>1 DEF vars, OrderInv, OneRequestPerPeriod, Ordered, Exists, Of, Opens
<1>2. ASSUME NEW w \in Workers, Orderly, Call(w) PROVE OrderInv'
  BY <1>2, CallOrdered DEF Orderly
<1>3. ASSUME NEW w \in Workers, Orderly, Proceed(w) PROVE OrderInv'
  BY <1>3, ProceedOrdered DEF Orderly
<1>4. ASSUME NEW w \in Workers, Orderly, Stop(w) PROVE OrderInv'
  <2>1. OnlyReq /\ req[w] # Idle /\ Becomes(w, Idle)
    BY <1>4 DEF Stop
  <2>2. /\ \A v \in Workers : v # w => req'[v] = req[v]
        /\ req'[w] = Idle
    BY <2>1 DEF Becomes, TypeOK
  <2>3. \A v \in Workers : v # w /\ req[v] # Idle => req[v].p # req[w].p
    BY <2>1, Alone DEF OrderInv
  <2>4. QED
    BY <1>4, <2>1, <2>2, <2>3, OthersOrdered DEF OnlyReq, Of, Orderly
<1>5. ASSUME NEW s \in Students, Orderly, MoveStudent(s) PROVE OrderInv'
  <2>1. UNCHANGED <<status, drafts, req>>
    BY <1>5 DEF MoveStudent
  <2>2. \A v \in Workers : Opens(req[v]) => enrolled' = enrolled
    BY <1>5 DEF Orderly, OpensUndisturbed
  <2>3. \A v \in Workers : req'[v] # Idle => Ordered(req[v])'
    BY <2>1, <2>2 DEF OrderInv, Ordered, Exists, Opens, Of
  <2>4. QED
    BY <1>5, <2>3 DEF OrderInv, Orderly
<1>6. QED
  BY <1>1, <1>2, <1>3, <1>4, <1>5 DEF Orderly, Next, Requests, Failures

-----------------------------------------------------------------------------
(* The steps of Programme that the view takes.                               *)

\* Everybody who has an assessment of the period, or is about to.
View(p) == Of(p) \cup Owed(p)

Serving(p) == \E w \in Workers : Opens(req[w]) /\ req[w].p = p

LEMMA OwedIs ==
  ASSUME NEW p
  PROVE  /\ Owed(p) = IF Exists(p) /\ Serving(p) THEN enrolled ELSE {}
         /\ Owed(p)' = IF Exists(p)' /\ Serving(p)' THEN enrolled' ELSE {}
<1>1. /\ Owed(p) = {s \in enrolled : Exists(p) /\ Serving(p)}
      /\ Owed(p)' = {s \in enrolled' : Exists(p)' /\ Serving(p)'}
  BY Zenon DEF Owed, Serving
<1>2. QED
  BY <1>1

LEMMA ViewUnchanged ==
  ASSUME enrolled' = enrolled,
         \A p \in Periods : PeriodView[p]' = PeriodView[p] /\ View(p)' = View(p)
  PROVE  UNCHANGED Composed!vars
<1>1. MemberView' = MemberView
  BY DEF MemberView
<1>2. PeriodView' = PeriodView
  <2>1. PeriodView = [p \in Periods |-> PeriodView[p]]
    BY DEF PeriodView
  <2>2. PeriodView' = [p \in Periods |-> PeriodView[p]']
    BY DEF PeriodView
  <2>3. QED
    BY <2>1, <2>2
<1>3. AssessmentView' = AssessmentView
  <2>1. {x \in Students \X Periods : x[1] \in View(x[2])'}
          = {x \in Students \X Periods : x[1] \in View(x[2])}
    OBVIOUS
  <2>2. QED
    BY <2>1, Zenon DEF AssessmentView, View
<1>4. QED
  BY <1>1, <1>2, <1>3 DEF Composed!vars

\* A step of w on p concerns no other period.
LEMMA OthersSame ==
  ASSUME NEW w \in Workers, NEW p,
         \A v \in Workers : v # w => req'[v] = req[v],
         req[w] # Idle => req[w].p = p,
         req'[w] # Idle => req'[w].p = p,
         enrolled' = enrolled,
         \A q : q # p => status'[q] = status[q] /\ Of(q)' = Of(q)
  PROVE  \A q : q # p => View(q)' = View(q)
<1>1. ASSUME NEW q, q # p PROVE Serving(q)' <=> Serving(q)
  BY <1>1 DEF Serving, Opens, Idle
<1>2. ASSUME NEW q, q # p PROVE View(q)' = View(q)
  <2>1. Exists(q)' <=> Exists(q)
    BY <1>2 DEF Exists, PeriodStatus
  <2>2. Owed(q)' = Owed(q)
    BY <1>1, <1>2, <2>1, OwedIs
  <2>3. QED
    BY <1>2, <2>2 DEF View
<1>3. QED
  BY <1>2

\* What is owed for a period that at most w works on.
LEMMA ViewOfOne ==
  ASSUME NEW w \in Workers, NEW p \in Periods, req[w] # Idle => req[w].p = p,
         \A v \in Workers : v # w /\ req[v] # Idle => req[v].p # p
  PROVE  /\ Exists(p) /\ Opens(req[w]) => View(p) = Of(p) \cup enrolled
         /\ ~ (Exists(p) /\ Opens(req[w])) => View(p) = Of(p)
<1>1. Serving(p) <=> Opens(req[w])
  BY DEF Serving, Opens, Idle
<1>2. QED
  BY <1>1, OwedIs DEF View

LEMMA ViewOfOneNext ==
  ASSUME NEW w \in Workers, NEW p \in Periods, req'[w] # Idle => req'[w].p = p,
         \A v \in Workers : v # w => req'[v] = req[v],
         \A v \in Workers : v # w /\ req[v] # Idle => req[v].p # p
  PROVE  /\ Exists(p)' /\ Opens(req'[w]) => View(p)' = Of(p)' \cup enrolled'
         /\ ~ (Exists(p)' /\ Opens(req'[w])) => View(p)' = Of(p)'
<1>1. Serving(p)' <=> Opens(req'[w])
  BY DEF Serving, Opens, Idle
<1>2. QED
  BY <1>1, OwedIs DEF View

\* A step of w on p: the status stays, and so does who has an assessment.
LEMMA SameStep ==
  ASSUME NEW w \in Workers, NEW p \in Periods,
         \A v \in Workers : v # w => req'[v] = req[v],
         req[w] # Idle => req[w].p = p,
         req'[w] # Idle => req'[w].p = p,
         enrolled' = enrolled, status' = status,
         \A q : q # p => Of(q)' = Of(q),
         View(p)' = View(p)
  PROVE  UNCHANGED Composed!vars
<1>1. \A q : View(q)' = View(q)
  BY OthersSame
<1>2. \A q \in Periods : PeriodView[q]' = PeriodView[q]
  BY DEF PeriodView, Exists
<1>3. QED
  BY <1>1, <1>2, ViewUnchanged

ViewRows == {x \in Students \X Periods : x[1] \in View(x[2])}

EmptyDraft == [status |-> "draft", scored |-> {}, agreed |-> <<>>, flagged |-> {}]

LEMMA AssessmentsAre ==
  /\ AssessmentView = [r \in ViewRows |-> EmptyDraft]
  /\ AssessmentView' = [r \in ViewRows' |-> EmptyDraft]
BY Zenon DEF AssessmentView, ViewRows, View, EmptyDraft

LEMMA EnrolledIs ==
  ASSUME TypeOK
  PROVE  /\ Composed!Accounts = Students
         /\ Composed!Enrolled("cohort") = enrolled
BY DEF TypeOK, Composed!Accounts, Composed!Enrolled, MemberView

LEMMA PeriodViewPut ==
  ASSUME TypeOK, NEW p \in Periods, NEW to,
         status' = [status EXCEPT ![p] = to]
  PROVE  PeriodView' = [PeriodView EXCEPT ![p] = IF to \in PeriodStatus THEN to ELSE "none"]
BY DEF TypeOK, PeriodView, Exists

\* A status is written, and the cohort is owed its drafts if that opens the period.
LEMMA PutStep ==
  ASSUME TypeOK, NEW p \in Periods, NEW to \in PeriodStatus,
         status' = [status EXCEPT ![p] = to], enrolled' = enrolled,
         \A q : q # p => View(q)' = View(q),
         View(p)' = IF to = "active" THEN View(p) \cup enrolled ELSE View(p)
  PROVE  Composed!PutPeriod(p, to)
<1>1. PeriodView' = [PeriodView EXCEPT ![p] = to]
  BY PeriodViewPut
<1>2. MemberView' = MemberView
  BY DEF MemberView
<1>3. ASSUME to = "active" PROVE AssessmentView' = Composed!Drafted(p, {})
  <2>1. Composed!Rows = ViewRows
    BY AssessmentsAre DEF Composed!Rows
  <2>2. ViewRows' = ViewRows \cup ({<<s, p>> : s \in enrolled} \ ViewRows)
    <3>1. \A x \in Students \X Periods :
            x[1] \in View(x[2])' <=> x[1] \in View(x[2]) \/ (x[2] = p /\ x[1] \in enrolled)
      BY <1>3
    <3>2. \A x \in Students \X Periods :
            x \in ViewRows' <=> x \in ViewRows \/ (x[2] = p /\ x[1] \in enrolled)
      BY <3>1 DEF ViewRows
    <3>3. \A x \in Students \X Periods :
            x \in {<<s, p>> : s \in enrolled} <=> x[2] = p /\ x[1] \in enrolled
      OBVIOUS
    <3>4. /\ ViewRows \subseteq Students \X Periods /\ ViewRows' \subseteq Students \X Periods
          /\ {<<s, p>> : s \in enrolled} \subseteq Students \X Periods
      BY DEF ViewRows, TypeOK
    <3>5. QED
      BY <3>2, <3>3, <3>4
  <2>3. Composed!Drafted(p, {}) = [r \in ViewRows' |-> EmptyDraft]
    <3> DEFINE new == {<<s, p>> : s \in enrolled} \ ViewRows
    <3>1. \A r \in ViewRows : AssessmentView[r] = EmptyDraft
      BY AssessmentsAre
    <3>2. {d \in {} : [q \in Periods |-> "cohort"][d] = [q \in Periods |-> "cohort"][p]} = {}
      OBVIOUS
    <3>3. [q \in Periods |-> "cohort"][p] = "cohort"
      OBVIOUS
    <3>4. Composed!Drafted(p, {})
            = [r \in ViewRows \cup new |->
                 IF r \in ViewRows THEN AssessmentView[r] ELSE EmptyDraft]
      <4>1. {<<s, p>> : s \in enrolled \ {}} = {<<s, p>> : s \in enrolled}
        OBVIOUS
      <4>2. QED
        BY <2>1, <3>2, <3>3, <4>1, EnrolledIs, Zenon DEF Composed!Drafted, EmptyDraft
    <3> HIDE DEF new
    <3>5. [r \in ViewRows \cup new |->
             IF r \in ViewRows THEN AssessmentView[r] ELSE EmptyDraft]
            = [r \in ViewRows \cup new |-> EmptyDraft]
      BY <3>1
    <3>6. QED
      BY <2>2, <3>4, <3>5 DEF new
  <2>4. AssessmentView' = [r \in ViewRows' |-> EmptyDraft]
    BY AssessmentsAre
  <2>5. QED
    BY <2>3, <2>4
<1>4. ASSUME to # "active" PROVE AssessmentView' = AssessmentView
  <2>1. ViewRows' = ViewRows
    BY <1>4 DEF ViewRows
  <2>2. AssessmentView' = [r \in ViewRows' |-> EmptyDraft]
    BY AssessmentsAre
  <2>3. QED
    BY <2>1, <2>2, AssessmentsAre
<1>5. \/ to = "active" /\ \E idle \in SUBSET {} : AssessmentView' = Composed!Drafted(p, idle)
      \/ to # "active" /\ AssessmentView' = AssessmentView
  <2>1. {} \in SUBSET {}
    OBVIOUS
  <2>2. QED
    BY <1>3, <1>4, <2>1, Zenon
<1>6. QED
  BY <1>1, <1>2, <1>5, Zenon DEF Composed!PutPeriod

\* An upcoming period goes, with whatever was drafted for it.
LEMMA RemoveStep ==
  ASSUME TypeOK, NEW p \in Periods, status[p] = "upcoming",
         status' = [status EXCEPT ![p] = "deleted"], enrolled' = enrolled,
         \A q : q # p => View(q)' = View(q),
         View(p)' = {}
  PROVE  Composed!RemovePeriod(p)
<1>1. PeriodView' = [PeriodView EXCEPT ![p] = "none"] /\ PeriodView[p] = "upcoming"
  <2>1. PeriodView[p] = "upcoming"
    BY DEF PeriodView, Exists, PeriodStatus
  <2>2. QED
    BY <2>1, PeriodViewPut DEF PeriodStatus
<1>2. AssessmentView' = Composed!Without({x \in Composed!Rows : x[2] = p})
  <2>1. Composed!Rows = ViewRows
    BY AssessmentsAre DEF Composed!Rows
  <2>2. ViewRows' = ViewRows \ {x \in ViewRows : x[2] = p}
    <3>1. \A x \in Students \X Periods :
            x[1] \in View(x[2])' <=> x[1] \in View(x[2]) /\ x[2] # p
      OBVIOUS
    <3>2. \A x \in Students \X Periods : x \in ViewRows' <=> x \in ViewRows /\ x[2] # p
      BY <3>1 DEF ViewRows
    <3>3. ViewRows \subseteq Students \X Periods /\ ViewRows' \subseteq Students \X Periods
      BY DEF ViewRows
    <3>4. QED
      BY <3>2, <3>3
  <2>3. Composed!Without({x \in ViewRows : x[2] = p})
          = [x \in ViewRows' |-> AssessmentView[x]]
    BY <2>1, <2>2, Zenon DEF Composed!Without
  <2>4. \A x \in ViewRows' : AssessmentView[x] = EmptyDraft
    BY <2>2, AssessmentsAre
  <2>5. QED
    BY <2>1, <2>3, <2>4, AssessmentsAre
<1>3. MemberView' = MemberView
  BY DEF MemberView
<1>4. QED
  BY <1>1, <1>2, <1>3, Zenon DEF Composed!RemovePeriod

-----------------------------------------------------------------------------
(* Every step is one of Programme or shows nothing. *)

LEMMA CallImplements ==
  ASSUME TypeOK, OrderInv, OrderInv', NEW w \in Workers, Call(w)
  PROVE  [Composed!Next]_(Composed!vars)
<1>1. PICK p \in Periods :
        \/ \E to \in PeriodStatus : Create(w, p, to) \/ Update(w, p, to)
        \/ Remove(w, p)
  BY DEF Call
<1>2. ASSUME NEW to \in PeriodStatus, Create(w, p, to) PROVE Composed!Next
  <2> DEFINE next == IF to = "active" THEN Generating("students", p, {}) ELSE Idle
  <2>1. /\ req[w] = Idle /\ status[p] = "none" /\ status' = [status EXCEPT ![p] = to]
        /\ enrolled' = enrolled /\ drafts' = drafts /\ Becomes(w, next)
    BY <1>2 DEF Create
  <2>2. (\A v \in Workers : v # w => req'[v] = req[v]) /\ req'[w] = next
    BY <2>1 DEF Becomes, TypeOK
  <2>3. /\ status'[p] = to
        /\ \A q : q # p => status'[q] = status[q]
        /\ \A q : Of(q)' = Of(q)
    BY <2>1 DEF Of, TypeOK
  <2>4. \A v \in Workers : v # w /\ req[v] # Idle => req[v].p # p
    BY <2>1 DEF OrderInv, Ordered
  <2>5. /\ req'[w] # Idle => req'[w].p = p
        /\ Opens(req'[w]) <=> to = "active"
    BY <2>2 DEF Generating, Idle, Opens
  <2>6. View(p) = Of(p)
    <3>1. ~ Opens(req[w])
      BY <2>1 DEF Opens, Idle
    <3>2. QED
      BY <2>1, <2>4, <3>1, ViewOfOne
  <2>7. View(p)' = IF to = "active" THEN View(p) \cup enrolled ELSE View(p)
    <3>1. Exists(p)'
      BY <2>3 DEF Exists, PeriodStatus
    <3>2. QED
      BY <2>1, <2>2, <2>3, <2>4, <2>5, <2>6, <3>1, ViewOfOneNext
  <2>8. \A q : q # p => View(q)' = View(q)
    BY <2>1, <2>2, <2>3, <2>5, OthersSame
  <2>9. Composed!PutPeriod(p, to)
    BY <2>1, <2>7, <2>8, PutStep
  <2>10. PeriodView[p] = "none"
    BY <2>1 DEF PeriodView, Exists, PeriodStatus
  <2>11. to \in Composed!PeriodStatus \ {"none"}
    BY DEF PeriodStatus, Composed!PeriodStatus
  <2>12. QED
    BY <2>9, <2>10, <2>11, Zenon DEF Composed!CreatePeriod, Composed!Next
<1>3. ASSUME NEW next \in Request, req[w] = Idle, ~ Opens(next), next.p = p,
             next # Idle, Becomes(w, next), OnlyReq
      PROVE  UNCHANGED Composed!vars
  <2>1. (\A v \in Workers : v # w => req'[v] = req[v]) /\ req'[w] = next
    BY <1>3 DEF Becomes, TypeOK
  <2>2. \A v \in Workers : v # w /\ req[v] # Idle => req[v].p # p
    BY <1>3, <2>1 DEF OrderInv, OneRequestPerPeriod
  <2>3. status' = status /\ enrolled' = enrolled /\ \A q : Of(q)' = Of(q)
    BY <1>3 DEF OnlyReq, Of
  <2>4. View(p) = Of(p)
    BY <1>3, <2>2, ViewOfOne DEF Opens, Idle
  <2>5. View(p)' = Of(p)'
    BY <1>3, <2>1, <2>2, ViewOfOneNext
  <2>6. QED
    BY <1>3, <2>1, <2>3, <2>4, <2>5, SameStep
<1>4. ASSUME NEW to \in PeriodStatus, Update(w, p, to) PROVE UNCHANGED Composed!vars
  BY <1>3, <1>4 DEF Update, Updating, Opens, Idle, Request, Exists
<1>5. ASSUME Remove(w, p) PROVE UNCHANGED Composed!vars
  BY <1>3, <1>5 DEF Remove, Opens, Idle, Request
<1>6. QED
  BY <1>1, <1>2, <1>4, <1>5

LEMMA WriteImplements ==
  ASSUME TypeOK, OrderInv, NEW w \in Workers, WriteStatus(w)
  PROVE  [Composed!Next]_(Composed!vars)
<1> DEFINE r == req[w]
<1>0. r \in Request /\ r.stage = "update" /\ r # Idle
  BY DEF TypeOK, WriteStatus, Idle
<1>1. PICK p \in Periods, to \in PeriodStatus :
        /\ r.p = p /\ r.to = to
        /\ r.stage = "update" /\ r # Idle /\ Exists(p) /\ r.seen = status[p]
  BY <1>0, RequestShape DEF OrderInv, Ordered
<1> DEFINE next == IF IsOpening(r) THEN Generating("students", p, {}) ELSE Idle
<1>2. /\ status' = [status EXCEPT ![p] = to] /\ enrolled' = enrolled /\ drafts' = drafts
      /\ Becomes(w, next)
  BY <1>1 DEF WriteStatus
<1>3. (\A v \in Workers : v # w => req'[v] = req[v]) /\ req'[w] = next
  BY <1>2 DEF Becomes, TypeOK
<1>4. /\ status'[p] = to
      /\ \A q : q # p => status'[q] = status[q]
      /\ \A q : Of(q)' = Of(q)
  BY <1>1, <1>2 DEF Of, TypeOK
<1>5. \A v \in Workers : v # w /\ req[v] # Idle => req[v].p # p
  BY <1>1, Alone DEF OrderInv
<1>6. /\ req'[w] # Idle => req'[w].p = p
      /\ Opens(req'[w]) <=> to = "active" /\ status[p] # "active"
  BY <1>1, <1>3 DEF Generating, Idle, Opens, IsOpening
<1>7. View(p) = Of(p)
  <2>1. ~ Opens(req[w])
    BY <1>1 DEF Opens
  <2>2. QED
    BY <1>1, <1>5, <2>1, ViewOfOne
<1>8. View(p)' = Of(p) \cup (IF to = "active" /\ status[p] # "active" THEN enrolled ELSE {})
  <2>1. Exists(p)'
    BY <1>4 DEF Exists
  <2>2. QED
    BY <1>2, <1>3, <1>4, <1>5, <1>6, <2>1, ViewOfOneNext
<1>9. \A q : q # p => View(q)' = View(q)
  BY <1>1, <1>2, <1>3, <1>4, <1>6, OthersSame
<1>10. CASE to = status[p]
  <2>1. status' = status
    BY <1>1, <1>2, <1>10 DEF TypeOK
  <2>2. View(p)' = View(p)
    BY <1>7, <1>8, <1>10
  <2>3. QED
    BY <1>1, <1>2, <1>3, <1>4, <1>6, <2>1, <2>2, SameStep
<1>11. CASE to # status[p]
  <2>1. View(p)' = IF to = "active" THEN View(p) \cup enrolled ELSE View(p)
    BY <1>7, <1>8, <1>11
  <2>2. Composed!PutPeriod(p, to)
    BY <1>1, <1>2, <1>9, <2>1, PutStep
  <2>3. PeriodView[p] = status[p] /\ status[p] # "none"
    BY <1>1 DEF PeriodView, Exists, PeriodStatus
  <2>4. to \in Composed!PeriodStatus \ {"none"}
    BY <1>1 DEF PeriodStatus, Composed!PeriodStatus
  <2>5. Composed!SetPeriod(p, to)
    BY <1>11, <2>2, <2>3, Zenon DEF Composed!SetPeriod
  <2>6. QED
    BY <1>1, <2>4, <2>5, Zenon DEF Composed!Next
<1>12. QED
  BY <1>10, <1>11

LEMMA DeleteImplements ==
  ASSUME TypeOK, OrderInv, NEW w \in Workers, Delete(w)
  PROVE  Composed!Next
<1>1. PICK p \in Periods :
        /\ req[w].p = p /\ req[w].stage = "delete" /\ req[w] # Idle
        /\ status[p] = "upcoming"
  <2>1. req[w] \in Request /\ req[w].stage = "delete" /\ req[w] # Idle
    BY DEF TypeOK, Delete, Idle
  <2>2. QED
    BY <2>1, RequestShape DEF OrderInv, Ordered
<1>2. /\ status' = [status EXCEPT ![p] = "deleted"] /\ enrolled' = enrolled
      /\ drafts' = {x \in drafts : x[1] # p} /\ Becomes(w, Idle)
  BY <1>1 DEF Delete
<1>3. (\A v \in Workers : v # w => req'[v] = req[v]) /\ req'[w] = Idle
  BY <1>2 DEF Becomes, TypeOK
<1>4. \A q : q # p => status'[q] = status[q] /\ Of(q)' = Of(q)
  BY <1>2 DEF Of, TypeOK
<1>5. \A q : q # p => View(q)' = View(q)
  BY <1>1, <1>2, <1>3, <1>4, OthersSame
<1>6. \A v \in Workers : v # w /\ req[v] # Idle => req[v].p # p
  BY <1>1, Alone DEF OrderInv
<1>7. View(p)' = {}
  <2>1. Of(p)' = {}
    BY <1>2 DEF Of
  <2>2. QED
    <3>1. ~ Opens(req'[w])
      BY <1>3 DEF Opens, Idle
    <3>2. QED
      BY <1>3, <1>6, <2>1, <3>1, ViewOfOneNext
<1>8. Composed!RemovePeriod(p)
  BY <1>1, <1>2, <1>5, <1>7, RemoveStep
<1>9. QED
  BY <1>8, Zenon DEF Composed!Next

\* The steps of generateForPeriod, and a request that stops: what they do to
\* the drafts makes no difference to who has one or is owed one.
LEMMA QuietStep ==
  ASSUME TypeOK, OrderInv, NEW w \in Workers, NEW p \in Periods,
         req[w] # Idle, req[w].p = p,
         \A v \in Workers : v # w => req'[v] = req[v],
         req'[w] # Idle => req'[w].p = p,
         status' = status, enrolled' = enrolled,
         \A q : q # p => Of(q)' = Of(q),
         Opens(req'[w]) => Opens(req[w]),
         Opens(req[w]) /\ ~ Opens(req'[w]) => Of(p)' = Of(p) \cup enrolled,
         ~ (Opens(req[w]) /\ ~ Opens(req'[w])) => Of(p)' = Of(p)
  PROVE  UNCHANGED Composed!vars
<1>1. \A v \in Workers : v # w /\ req[v] # Idle => req[v].p # p
  BY Alone DEF OrderInv
<1>2. Opens(req[w]) => Exists(p) /\ Exists(p)'
  BY DEF OrderInv, Ordered, Exists
<1>3. View(p)' = View(p)
  <2>1. CASE ~ Opens(req[w])
    <3>1. View(p) = Of(p)
      BY <1>1, <2>1, ViewOfOne
    <3>2. View(p)' = Of(p)'
      BY <1>1, <2>1, ViewOfOneNext
    <3>3. QED
      BY <2>1, <3>1, <3>2
  <2>2. CASE Opens(req[w])
    <3>1. View(p) = Of(p) \cup enrolled
      BY <1>1, <1>2, <2>2, ViewOfOne
    <3>2. Opens(req'[w]) => View(p)' = Of(p)' \cup enrolled
      BY <1>1, <1>2, <2>2, ViewOfOneNext
    <3>3. ~ Opens(req'[w]) => View(p)' = Of(p)'
      BY <1>1, ViewOfOneNext
    <3>4. QED
      BY <2>2, <3>1, <3>2, <3>3
  <2>3. QED
    BY <2>1, <2>2
<1>4. QED
  BY <1>3, SameStep

LEMMA GenerateImplements ==
  ASSUME TypeOK, OrderInv, NEW w \in Workers,
         \/ ReadStudents(w) \/ ReadExisting(w) \/ CreateDrafts(w)
         \/ RemindStudents(w) \/ NotifyMentors(w)
  PROVE  UNCHANGED Composed!vars
<1> DEFINE r == req[w]
<1>1. PICK p \in Periods, ids \in SUBSET Students :
        r.p = p /\ r.ids = ids /\ r # Idle /\ Ordered(r)
  <2>1. r \in Request /\ r.stage \in GenerationStages /\ r # Idle
    BY DEF TypeOK, ReadStudents, ReadExisting, CreateDrafts, RemindStudents, NotifyMentors,
           GenerationStages, Idle
  <2>2. QED
    BY <2>1, RequestShape DEF OrderInv
<1>2. ASSUME NEW next, Becomes(w, next)
      PROVE  (\A v \in Workers : v # w => req'[v] = req[v]) /\ req'[w] = next
  BY <1>2 DEF Becomes, TypeOK
<1>3. ASSUME ReadStudents(w) PROVE UNCHANGED Composed!vars
  <2> DEFINE next == IF enrolled = {} THEN Idle ELSE Generating("existing", p, enrolled)
  <2>1. Becomes(w, next) /\ OnlyReq /\ Opens(r)
    BY <1>1, <1>3 DEF ReadStudents, GoOn, Opens
  <2>2. /\ next # Idle => next.p = p
        /\ Opens(next) <=> enrolled # {}
    BY DEF Generating, Idle, Opens
  <2>3. \A q : Of(q)' = Of(q)
    BY <2>1 DEF OnlyReq, Of
  <2>4. (\A v \in Workers : v # w => req'[v] = req[v]) /\ req'[w] = next
    BY <1>2, <2>1
  <2> HIDE DEF next
  <2>5. ~ Opens(req'[w]) => Of(p)' = Of(p) \cup enrolled
    BY <2>2, <2>3, <2>4
  <2>6. QED
    BY <1>1, <2>1, <2>2, <2>3, <2>4, <2>5, QuietStep DEF OnlyReq
<1>4. ASSUME ReadExisting(w) PROVE UNCHANGED Composed!vars
  <2> DEFINE new == ids \ Of(p)
             next == IF new = {} THEN Idle ELSE Generating("drafts", p, new)
  <2>1. Becomes(w, next) /\ OnlyReq /\ Opens(r) /\ ids = enrolled
    BY <1>1, <1>4 DEF ReadExisting, GoOn, Opens, NewStudents, Ordered
  <2>2. /\ next # Idle => next.p = p
        /\ Opens(next) <=> new # {}
    BY DEF Generating, Idle, Opens
  <2>3. \A q : Of(q)' = Of(q)
    BY <2>1 DEF OnlyReq, Of
  <2>4. (\A v \in Workers : v # w => req'[v] = req[v]) /\ req'[w] = next
    BY <1>2, <2>1
  <2> HIDE DEF next
  <2>5. ~ Opens(req'[w]) => Of(p)' = Of(p) \cup enrolled
    BY <2>1, <2>2, <2>3, <2>4
  <2>6. QED
    BY <1>1, <2>1, <2>2, <2>3, <2>4, <2>5, QuietStep DEF OnlyReq
<1>5. ASSUME CreateDrafts(w) PROVE UNCHANGED Composed!vars
  <2> DEFINE next == Generating("remind", p, ids)
  <2>1. Exists(p) /\ ids = enrolled \ Of(p) /\ Opens(r)
    BY <1>1, <1>5 DEF CreateDrafts, Ordered, Opens
  <2>2. /\ Becomes(w, next) /\ UNCHANGED <<status, enrolled>>
        /\ drafts' = drafts \cup ({p} \X ids)
    BY <1>1, <1>5, <2>1 DEF CreateDrafts, CanInsert
  <2>3. next.p = p /\ ~ Opens(next)
    BY DEF Generating, Opens
  <2>4. \A q : q # p => Of(q)' = Of(q)
    BY <2>2 DEF Of
  <2>5. Of(p)' = Of(p) \cup enrolled
    BY <2>1, <2>2 DEF Of, TypeOK
  <2>6. (\A v \in Workers : v # w => req'[v] = req[v]) /\ req'[w] = next
    BY <1>2, <2>2
  <2> HIDE DEF next
  <2>7. QED
    BY <1>1, <2>1, <2>2, <2>3, <2>4, <2>5, <2>6, QuietStep
<1>6. ASSUME RemindStudents(w) \/ NotifyMentors(w) PROVE UNCHANGED Composed!vars
  <2>1. PICK next \in {Idle, Generating("mentors", p, ids)} :
          Becomes(w, next) /\ UNCHANGED <<status, enrolled, drafts>> /\ ~ Opens(r)
    BY <1>1, <1>6 DEF RemindStudents, NotifyMentors, AfterRemind, Opens
  <2>2. (next # Idle => next.p = p) /\ ~ Opens(next)
    BY <2>1 DEF Generating, Idle, Opens
  <2>3. \A q : Of(q)' = Of(q)
    BY <2>1 DEF Of
  <2>4. (\A v \in Workers : v # w => req'[v] = req[v]) /\ req'[w] = next
    BY <1>2, <2>1
  <2>5. QED
    BY <1>1, <2>1, <2>2, <2>3, <2>4, QuietStep
<1>7. QED
  BY <1>3, <1>4, <1>5, <1>6

LEMMA StopImplements ==
  ASSUME TypeOK, OrderInv, OpensUndisturbed, NEW w \in Workers, Stop(w)
  PROVE  UNCHANGED Composed!vars
<1>1. /\ req[w] # Idle /\ OnlyReq /\ req'[w] = Idle
      /\ \A v \in Workers : v # w => req'[v] = req[v]
  BY DEF Stop, Becomes, TypeOK
<1>2. PICK p \in Periods : req[w].p = p
  BY <1>1 DEF TypeOK, Request
<1>3. \A q : Of(q)' = Of(q)
  BY <1>1 DEF OnlyReq, Of
<1>4. ~ Opens(req'[w])
  BY <1>1 DEF Opens, Idle
<1>5. Opens(req[w]) => Of(p)' = Of(p) \cup enrolled
  <2>1. Opens(req[w]) => enrolled \subseteq Of(p)
    BY <1>1, <1>2 DEF OpensUndisturbed
  <2>2. QED
    BY <1>3, <2>1
<1>6. QED
  BY <1>1, <1>2, <1>3, <1>4, <1>5, QuietStep DEF OnlyReq

\* A student who joins is only drafted at the next opening.
LEMMA MoveImplements ==
  ASSUME TypeOK, OpensUndisturbed, NEW s \in Students, MoveStudent(s)
  PROVE  Composed!Next
<1> DEFINE to == IF s \in enrolled THEN "elsewhere" ELSE "cohort"
<1>1. UNCHANGED <<status, drafts, req>>
  BY DEF MoveStudent
<1>2. \A w \in Workers : ~ Opens(req[w])
  BY DEF OpensUndisturbed, MoveStudent
<1>3. \A p : View(p)' = View(p)
  <2>1. \A p : Owed(p) = {} /\ Owed(p)' = {}
    BY <1>1, <1>2 DEF Owed, Opens
  <2>2. QED
    BY <1>1, <2>1 DEF View, Of
<1>4. AssessmentView' = AssessmentView
  <2>1. ViewRows' = ViewRows
    BY <1>3 DEF ViewRows
  <2>2. QED
    BY <2>1, AssessmentsAre
<1>5. PeriodView' = PeriodView
  BY <1>1 DEF PeriodView, Exists
<1>6. MemberView' = [MemberView EXCEPT ![s] = to]
  BY DEF MemberView, MoveStudent
<1>7. MemberView[s] # to /\ s \in Composed!Accounts
  BY EnrolledIs DEF MemberView
<1>8. <<s, to>> \in Students \X {"cohort", "elsewhere"}
  OBVIOUS
<1> HIDE DEF to
<1>9. Composed!Enrol(s, to)
  BY <1>4, <1>5, <1>6, <1>7, Zenon DEF Composed!Enrol
<1>10. \E e \in Students \X {"cohort", "elsewhere"} : Composed!Enrol(e[1], e[2])
  BY <1>8, <1>9
<1>11. QED
  BY <1>10, Zenon DEF Composed!Next

\* The statements that create, update and remove are made of amount to the one
\* step each is in Programme, as long as requests about a period come one after
\* the other and nobody joins while it is being opened.
THEOREM ImplementsComposed == OrderlySpec => ImplementsProgramme
<1>1. Init => TypeOK /\ OrderInv
  BY TypeInit DEF Init, OrderInv, OneRequestPerPeriod
<1>2. TypeOK /\ OrderInv /\ [Orderly]_vars => TypeOK' /\ OrderInv'
  <2>1. [Orderly]_vars => [Next]_vars
    BY DEF Orderly
  <2>2. QED
    BY <2>1, TypeStep, OrderStep
<1>3. TypeOK /\ OrderInv /\ OrderInv' /\ [Orderly]_vars => [Composed!Next]_(Composed!vars)
  <2> SUFFICES ASSUME TypeOK, OrderInv, OrderInv', [Orderly]_vars
               PROVE  [Composed!Next]_(Composed!vars)
    OBVIOUS
  <2>1. CASE UNCHANGED vars
    <3>1. UNCHANGED <<MemberView, PeriodView, AssessmentView>>
      BY <2>1, Zenon DEF vars, MemberView, PeriodView, AssessmentView, Of, Owed, Exists, Opens
    <3>2. QED
      BY <3>1, Zenon DEF Composed!vars
  <2>2. ASSUME NEW w \in Workers, Call(w) PROVE [Composed!Next]_(Composed!vars)
    BY <2>2, CallImplements
  <2>3. ASSUME NEW w \in Workers, Proceed(w) PROVE [Composed!Next]_(Composed!vars)
    BY <2>3, WriteImplements, DeleteImplements, GenerateImplements DEF Proceed
  <2>4. ASSUME NEW w \in Workers, OpensUndisturbed, Stop(w)
        PROVE  [Composed!Next]_(Composed!vars)
    BY <2>4, StopImplements
  <2>5. ASSUME NEW s \in Students, OpensUndisturbed, MoveStudent(s)
        PROVE  [Composed!Next]_(Composed!vars)
    BY <2>5, MoveImplements
  <2>6. QED
    BY <2>1, <2>2, <2>3, <2>4, <2>5, Zenon DEF Orderly, Next, Requests, Failures
<1>4. QED
  <2>1. [Composed!Next]_(Composed!vars) => [Composed!Next \/ LateRemoval]_(Composed!vars)
    OBVIOUS
  <2>2. QED
    BY <1>1, <1>2, <1>3, <2>1, PTL DEF OrderlySpec, Orderly, ImplementsProgramme

-----------------------------------------------------------------------------
(* The same for racing requests, if nothing fails and the roster stands still. *)

\* Whoever is in the cohort has an assessment of the period or is owed one.
Done(p) == Of(p) = enrolled \/ Serving(p)

\* A request that takes the period for open is right that it was opened.
Informed(r) ==
  /\ status[r.p] # "none"
  /\ r.stage = "update" /\ Exists(r.p) /\ r.seen = "active" => Done(r.p)
  /\ r.stage \in {"existing", "drafts"} => r.ids = enrolled

\* A period has all of its drafts or none.
AllOrNone(p) == Of(p) = {} \/ (Of(p) = enrolled /\ Exists(p))

SteadyInv ==
  /\ \A p \in Periods : AllOrNone(p) /\ (status[p] = "active" => Done(p))
  /\ \A w \in Workers : req[w] # Idle => Informed(req[w])

\* What is shown of a period: the whole cohort or nobody.
LEMMA SteadyView ==
  ASSUME SteadyInv, NEW p \in Periods
  PROVE  /\ Exists(p) /\ Done(p) => View(p) = enrolled
         /\ ~ (Exists(p) /\ Done(p)) => View(p) = {}
<1>1. AllOrNone(p)
  BY DEF SteadyInv
<1>2. Owed(p) = IF Exists(p) /\ Serving(p) THEN enrolled ELSE {}
  BY OwedIs
<1>3. CASE Exists(p) /\ Done(p)
  <2>1. Of(p) = enrolled \/ Owed(p) = enrolled
    BY <1>2, <1>3 DEF Done
  <2>2. Of(p) \subseteq enrolled /\ Owed(p) \subseteq enrolled
    BY <1>1, <1>2 DEF AllOrNone
  <2>3. QED
    BY <1>3, <2>1, <2>2 DEF View
<1>4. CASE ~ (Exists(p) /\ Done(p))
  <2>1. Of(p) = {} /\ Owed(p) = {}
    BY <1>1, <1>2, <1>4 DEF AllOrNone, Done
  <2>2. QED
    BY <1>4, <2>1 DEF View
<1>5. QED
  BY <1>3, <1>4

LEMMA SteadyViewNext ==
  ASSUME SteadyInv', NEW p \in Periods
  PROVE  /\ Exists(p)' /\ Done(p)' => View(p)' = enrolled'
         /\ ~ (Exists(p)' /\ Done(p)') => View(p)' = {}
<1>1. AllOrNone(p)'
  BY DEF SteadyInv
<1>2. Owed(p)' = IF Exists(p)' /\ Serving(p)' THEN enrolled' ELSE {}
  BY OwedIs
<1>3. CASE Exists(p)' /\ Done(p)'
  <2>1. Of(p)' = enrolled' \/ Owed(p)' = enrolled'
    BY <1>2, <1>3 DEF Done
  <2>2. Of(p)' \subseteq enrolled' /\ Owed(p)' \subseteq enrolled'
    BY <1>1, <1>2 DEF AllOrNone
  <2>3. QED
    BY <1>3, <2>1, <2>2 DEF View
<1>4. CASE ~ (Exists(p)' /\ Done(p)')
  <2>1. Of(p)' = {} /\ Owed(p)' = {}
    BY <1>1, <1>2, <1>4 DEF AllOrNone, Done
  <2>2. QED
    BY <1>4, <2>1 DEF View
<1>5. QED
  BY <1>3, <1>4

LEMMA OthersDone ==
  ASSUME NEW w \in Workers, NEW p,
         \A v \in Workers : v # w => req'[v] = req[v],
         req[w] # Idle => req[w].p = p,
         req'[w] # Idle => req'[w].p = p,
         enrolled' = enrolled,
         \A q : q # p => status'[q] = status[q] /\ Of(q)' = Of(q)
  PROVE  \A q : q # p => (Done(q)' <=> Done(q))
<1>1. ASSUME NEW q, q # p PROVE Serving(q)' <=> Serving(q)
  BY <1>1 DEF Serving, Opens, Idle
<1>2. QED
  BY <1>1 DEF Done

\* A step of w on p keeps the invariant if it does so for p and for w.
LEMMA SteadyKeeps ==
  ASSUME SteadyInv, NEW w \in Workers, NEW p \in Periods,
         \A v \in Workers : v # w => req'[v] = req[v],
         req[w] # Idle => req[w].p = p,
         req'[w] # Idle => req'[w].p = p /\ Informed(req[w])',
         enrolled' = enrolled,
         \A q : q # p => status'[q] = status[q] /\ Of(q)' = Of(q),
         AllOrNone(p)', status'[p] # "none",
         Exists(p)' => status[p] = "none" \/ (Exists(p) /\ (Done(p) => Done(p)')),
         status'[p] = "active" => Done(p)'
  PROVE  SteadyInv'
<1>1. \A q : q # p => (Done(q)' <=> Done(q))
  BY OthersDone
<1>2. ASSUME NEW q \in Periods
      PROVE  AllOrNone(q)' /\ (status'[q] = "active" => Done(q)')
  <2>1. CASE q = p
    BY <2>1
  <2>2. CASE q # p
    <3>1. AllOrNone(q)'
      BY <2>2 DEF SteadyInv, AllOrNone, Exists
    <3>2. QED
      BY <1>1, <2>2, <3>1 DEF SteadyInv
  <2>3. QED
    BY <2>1, <2>2
<1>3. ASSUME NEW v \in Workers, v # w, req'[v] # Idle PROVE Informed(req[v])'
  <2>1. req'[v] = req[v] /\ req[v] # Idle /\ Informed(req[v])
    BY <1>3 DEF SteadyInv
  <2>2. CASE req[v].p = p
    BY <2>1, <2>2 DEF Informed
  <2>3. CASE req[v].p # p
    <3>1. PICK q : q = req[v].p
      OBVIOUS
    <3>2. (Exists(q)' <=> Exists(q)) /\ (Done(q)' <=> Done(q)) /\ status'[q] = status[q]
      BY <1>1, <2>3, <3>1 DEF Exists
    <3>3. QED
      BY <2>1, <3>1, <3>2 DEF Informed
  <2>4. QED
    BY <2>2, <2>3
<1>4. \A v \in Workers : req'[v] # Idle => Informed(req[v])'
  BY <1>3
<1>5. QED
  BY <1>2, <1>4 DEF SteadyInv

\* Who has or is owed an assessment stays, and so does what is shown.
LEMMA SteadySame ==
  ASSUME SteadyInv, SteadyInv', NEW w \in Workers, NEW p \in Periods,
         \A v \in Workers : v # w => req'[v] = req[v],
         req[w] # Idle => req[w].p = p,
         req'[w] # Idle => req'[w].p = p,
         enrolled' = enrolled, status' = status,
         \A q : q # p => Of(q)' = Of(q),
         Exists(p) => (Done(p)' <=> Done(p))
  PROVE  UNCHANGED Composed!vars
<1>1. Exists(p)' <=> Exists(p)
  BY DEF Exists
<1>2. View(p)' = View(p)
  <2>1. CASE Exists(p) /\ Done(p)
    BY <1>1, <2>1, SteadyView, SteadyViewNext
  <2>2. CASE ~ (Exists(p) /\ Done(p))
    BY <1>1, <2>2, SteadyView, SteadyViewNext
  <2>3. QED
    BY <2>1, <2>2
<1>3. QED
  BY <1>2, SameStep

LEMMA CreateSteady ==
  ASSUME TypeOK, SteadyInv, NEW w \in Workers, NEW p \in Periods, NEW to \in PeriodStatus,
         Create(w, p, to)
  PROVE  SteadyInv' /\ Composed!Next
<1> DEFINE next == IF to = "active" THEN Generating("students", p, {}) ELSE Idle
<1>1. /\ req[w] = Idle /\ status[p] = "none" /\ status' = [status EXCEPT ![p] = to]
      /\ enrolled' = enrolled /\ drafts' = drafts /\ Becomes(w, next)
  BY DEF Create
<1>2. (\A v \in Workers : v # w => req'[v] = req[v]) /\ req'[w] = next
  BY <1>1 DEF Becomes, TypeOK
<1>3. /\ status'[p] = to /\ Exists(p)' /\ ~ Exists(p) /\ to # "none"
      /\ \A q : q # p => status'[q] = status[q]
      /\ \A q : Of(q)' = Of(q)
  BY <1>1 DEF Of, TypeOK, Exists, PeriodStatus
<1>4. /\ req'[w] # Idle => req'[w].p = p /\ to = "active" /\ req'[w].stage = "students"
      /\ to = "active" => Opens(req'[w]) /\ req'[w].p = p
  BY <1>2 DEF Generating, Idle, Opens
<1>5. Of(p) = {}
  BY <1>3 DEF SteadyInv, AllOrNone
<1>6. to = "active" => Done(p)'
  BY <1>4 DEF Done, Serving
<1>7. SteadyInv'
  <2>1. req'[w] # Idle => Informed(req[w])'
    BY <1>3, <1>4 DEF Informed
  <2>2. AllOrNone(p)'
    BY <1>3, <1>5 DEF AllOrNone
  <2>3. QED
    BY <1>1, <1>2, <1>3, <1>4, <1>6, <2>1, <2>2, SteadyKeeps
<1>8. View(p) = {}
  BY <1>3, SteadyView
<1>9. View(p)' = IF to = "active" THEN View(p) \cup enrolled ELSE View(p)
  <2>1. CASE to = "active"
    BY <1>1, <1>3, <1>6, <1>7, <1>8, <2>1, SteadyViewNext
  <2>2. CASE to # "active"
    <3>1. \A v \in Workers : req'[v] # Idle => req'[v].p # p
      BY <1>1, <1>2, <1>4, <2>2 DEF SteadyInv, Informed
    <3>2. ~ Serving(p)'
      BY <3>1 DEF Serving, Opens, Idle
    <3>3. View(p)' = {}
      BY <1>1, <1>3, <1>5, <1>7, <3>2, SteadyViewNext DEF Done
    <3>4. QED
      BY <1>8, <2>2, <3>3
  <2>3. QED
    BY <2>1, <2>2
<1>10. \A q : q # p => View(q)' = View(q)
  BY <1>1, <1>2, <1>3, <1>4, OthersSame
<1>11. Composed!PutPeriod(p, to)
  BY <1>1, <1>9, <1>10, PutStep
<1>12. PeriodView[p] = "none"
  BY <1>3 DEF PeriodView
<1>13. to \in Composed!PeriodStatus \ {"none"}
  BY DEF PeriodStatus, Composed!PeriodStatus
<1>14. QED
  BY <1>7, <1>11, <1>12, <1>13, Zenon DEF Composed!CreatePeriod, Composed!Next

\* A request about p that has only begun.
LEMMA BegunSteady ==
  ASSUME TypeOK, SteadyInv, NEW w \in Workers, NEW p \in Periods, NEW next \in Request,
         req[w] = Idle, next.p = p, next.stage \in {"update", "delete"},
         next.stage = "update" => next.seen = status[p],
         status[p] # "none", Becomes(w, next), OnlyReq
  PROVE  SteadyInv' /\ UNCHANGED Composed!vars
<1>1. (\A v \in Workers : v # w => req'[v] = req[v]) /\ req'[w] = next
  BY DEF Becomes, TypeOK
<1>2. status' = status /\ enrolled' = enrolled /\ (\A q : Of(q)' = Of(q))
  BY DEF OnlyReq, Of
<1>3. ~ Opens(req[w]) /\ ~ Opens(req'[w])
  BY <1>1 DEF Opens, Idle
<1>4. (Serving(p)' <=> Serving(p)) /\ (Done(p)' <=> Done(p))
  <2>1. Serving(p)' <=> Serving(p)
    BY <1>1, <1>3 DEF Serving
  <2>2. QED
    BY <1>2, <2>1 DEF Done
<1>5. Informed(req[w])'
  BY <1>1, <1>2, <1>4 DEF Informed, SteadyInv
<1>6. AllOrNone(p)' /\ (status[p] = "active" => Done(p)')
  BY <1>2, <1>4 DEF SteadyInv, AllOrNone, Exists
<1>7. Exists(p)' <=> Exists(p)
  BY <1>2 DEF Exists
<1>8. SteadyInv'
  BY <1>1, <1>2, <1>4, <1>5, <1>6, <1>7, SteadyKeeps
<1>9. QED
  BY <1>1, <1>2, <1>4, <1>8, SteadySame

LEMMA CallSteady ==
  ASSUME TypeOK, SteadyInv, NEW w \in Workers, Call(w)
  PROVE  SteadyInv' /\ [Composed!Next]_(Composed!vars)
<1>1. PICK p \in Periods :
        \/ \E to \in PeriodStatus : Create(w, p, to) \/ Update(w, p, to)
        \/ Remove(w, p)
  BY DEF Call
<1>2. ASSUME NEW to \in PeriodStatus, Create(w, p, to) PROVE SteadyInv' /\ Composed!Next
  BY <1>2, CreateSteady
<1>3. ASSUME NEW to \in PeriodStatus, Update(w, p, to)
      PROVE  SteadyInv' /\ UNCHANGED Composed!vars
  <2>1. Updating(p, to) \in Request /\ status[p] # "none"
    BY <1>3 DEF Update, Updating, Exists, Request, PeriodStatus
  <2>2. QED
    BY <1>3, <2>1, BegunSteady DEF Update, Updating
<1>4. ASSUME Remove(w, p) PROVE SteadyInv' /\ UNCHANGED Composed!vars
  <2>1. [stage |-> "delete", p |-> p] \in Request /\ status[p] # "none"
    BY <1>4 DEF Remove, Removable, Request
  <2>2. QED
    BY <1>4, <2>1, BegunSteady DEF Remove
<1>5. QED
  BY <1>1, <1>2, <1>3, <1>4

LEMMA WriteSteady ==
  ASSUME TypeOK, SteadyInv, NEW w \in Workers, WriteStatus(w)
  PROVE  SteadyInv' /\ [Composed!Next]_(Composed!vars)
<1> DEFINE r == req[w]
<1>0. r \in Request /\ r.stage = "update" /\ r # Idle
  BY DEF TypeOK, WriteStatus, Idle
<1>1. PICK p \in Periods, to \in PeriodStatus :
        /\ r.p = p /\ r.to = to /\ r.stage = "update" /\ r # Idle
        /\ Informed(r) /\ status[p] # "none" /\ to # "none"
  BY <1>0, RequestShape DEF SteadyInv, Informed, PeriodStatus
<1> DEFINE next == IF Exists(p) /\ IsOpening(r) THEN Generating("students", p, {}) ELSE Idle
<1>2. /\ status' = IF Exists(p) THEN [status EXCEPT ![p] = to] ELSE status
      /\ enrolled' = enrolled /\ drafts' = drafts /\ Becomes(w, next)
  BY <1>1 DEF WriteStatus
<1>3. (\A v \in Workers : v # w => req'[v] = req[v]) /\ req'[w] = next
  BY <1>2 DEF Becomes, TypeOK
<1>4. /\ status'[p] = IF Exists(p) THEN to ELSE status[p]
      /\ \A q : q # p => status'[q] = status[q]
      /\ \A q : Of(q)' = Of(q)
  BY <1>2 DEF Of, TypeOK
<1>5. Exists(p)' <=> Exists(p)
  BY <1>4 DEF Exists
<1>6. /\ req'[w] # Idle => req'[w].p = p /\ req'[w].stage = "students"
      /\ Opens(req'[w]) <=> Exists(p) /\ to = "active" /\ r.seen # "active"
      /\ ~ Opens(req[w])
  BY <1>1, <1>3 DEF Generating, Idle, Opens, IsOpening
<1>7. Serving(p)' <=> Serving(p) \/ Opens(req'[w])
  <2>1. Opens(req'[w]) => req'[w].p = p
    BY <1>6 DEF Opens, Idle
  <2>2. QED
    BY <1>3, <1>6, <2>1 DEF Serving
<1>8. Done(p)' <=> Done(p) \/ Opens(req'[w])
  BY <1>2, <1>4, <1>7 DEF Done
<1>9. Exists(p) /\ to = "active" => Done(p)'
  BY <1>1, <1>6, <1>8 DEF Informed
<1>10. SteadyInv'
  <2>1. status'[p] # "none" /\ (status'[p] = "active" => Done(p)')
    BY <1>1, <1>4, <1>9 DEF Exists, PeriodStatus
  <2>2. req'[w] # Idle => Informed(req[w])'
    BY <1>6, <2>1 DEF Informed
  <2>3. AllOrNone(p)'
    BY <1>2, <1>4, <1>5 DEF SteadyInv, AllOrNone
  <2>4. QED
    BY <1>1, <1>2, <1>3, <1>4, <1>5, <1>6, <1>8, <2>1, <2>2, <2>3, SteadyKeeps
<1>11. CASE status' = status
  <2>1. Exists(p) => (Done(p)' <=> Done(p))
    <3>1. Exists(p) /\ Opens(req'[w]) => status[p] = "active"
      BY <1>4, <1>6, <1>11
    <3>2. QED
      BY <1>8, <3>1 DEF SteadyInv
  <2>2. QED
    BY <1>1, <1>2, <1>3, <1>4, <1>6, <1>10, <1>11, <2>1, SteadySame
<1>12. CASE status' # status
  <2>1. Exists(p) /\ status' = [status EXCEPT ![p] = to] /\ to # status[p]
    BY <1>2, <1>12 DEF TypeOK
  <2>2. View(p)' = IF to = "active" THEN View(p) \cup enrolled ELSE View(p)
    <3>1. CASE to = "active"
      <4>1. View(p)' = enrolled
        BY <1>2, <1>5, <1>9, <1>10, <2>1, <3>1, SteadyViewNext
      <4>2. View(p) \subseteq enrolled
        BY SteadyView
      <4>3. QED
        BY <3>1, <4>1, <4>2
    <3>2. CASE to # "active"
      <4>1. Done(p)' <=> Done(p)
        BY <1>6, <1>8, <3>2
      <4>2. CASE Done(p)
        BY <1>2, <1>5, <1>10, <2>1, <3>2, <4>1, <4>2, SteadyView, SteadyViewNext
      <4>3. CASE ~ Done(p)
        BY <1>5, <1>10, <2>1, <3>2, <4>1, <4>3, SteadyView, SteadyViewNext
      <4>4. QED
        BY <4>2, <4>3
    <3>3. QED
      BY <3>1, <3>2
  <2>3. \A q : q # p => View(q)' = View(q)
    BY <1>1, <1>2, <1>3, <1>4, <1>6, OthersSame
  <2>4. Composed!PutPeriod(p, to)
    BY <1>2, <2>1, <2>2, <2>3, PutStep
  <2>5. PeriodView[p] = status[p]
    BY <2>1 DEF PeriodView
  <2>6. Composed!SetPeriod(p, to)
    BY <1>1, <2>1, <2>4, <2>5, Zenon DEF Composed!SetPeriod
  <2>7. to \in Composed!PeriodStatus \ {"none"}
    BY DEF PeriodStatus, Composed!PeriodStatus
  <2>8. QED
    BY <1>10, <2>6, <2>7, Zenon DEF Composed!Next
<1>13. QED
  BY <1>11, <1>12

LEMMA DeleteSteady ==
  ASSUME TypeOK, SteadyInv, NEW w \in Workers, Delete(w)
  PROVE  SteadyInv' /\ (Composed!Next \/ LateRemoval)
<1>1. PICK p \in Periods : req[w].p = p /\ req[w].stage = "delete" /\ req[w] # Idle
  <2>1. req[w] \in Request /\ req[w].stage = "delete" /\ req[w] # Idle
    BY DEF TypeOK, Delete, Idle
  <2>2. QED
    BY <2>1, RequestShape
<1>2. /\ status' = [status EXCEPT ![p] = "deleted"] /\ enrolled' = enrolled
      /\ drafts' = {x \in drafts : x[1] # p} /\ Becomes(w, Idle)
  BY <1>1 DEF Delete
<1>3. (\A v \in Workers : v # w => req'[v] = req[v]) /\ req'[w] = Idle
  BY <1>2 DEF Becomes, TypeOK
<1>4. /\ \A q : q # p => status'[q] = status[q] /\ Of(q)' = Of(q)
      /\ Of(p)' = {} /\ status'[p] = "deleted" /\ ~ Exists(p)'
  BY <1>2 DEF Of, TypeOK, Exists, PeriodStatus
<1>5. SteadyInv'
  BY <1>1, <1>2, <1>3, <1>4, SteadyKeeps DEF AllOrNone
<1>6. \A q : q # p => View(q)' = View(q)
  <2>1. /\ req[w] # Idle => req[w].p = p
        /\ req'[w] # Idle => req'[w].p = p
        /\ enrolled' = enrolled
    BY <1>1, <1>2, <1>3
  <2>2. \A q : q # p => status'[q] = status[q] /\ Of(q)' = Of(q)
    BY <1>4
  <2>3. QED
    BY <1>3, <2>1, <2>2, OthersSame
<1>7. View(p)' = {}
  BY <1>4, <1>5, SteadyViewNext
<1>8. CASE status[p] = "upcoming"
  <2>1. Composed!RemovePeriod(p)
    BY <1>2, <1>6, <1>7, <1>8, RemoveStep
  <2>2. QED
    BY <1>5, <2>1, Zenon DEF Composed!Next
<1>9. CASE status[p] # "upcoming"
  BY <1>1, <1>5, <1>9 DEF LateRemoval
<1>10. QED
  BY <1>8, <1>9

\* A step of w's opening of p leaves whoever is done done.
LEMMA QuietSteady ==
  ASSUME TypeOK, SteadyInv, NEW w \in Workers, NEW p \in Periods,
         req[w] # Idle, req[w].p = p,
         \A v \in Workers : v # w => req'[v] = req[v],
         req'[w] # Idle => req'[w].p = p /\ req'[w].stage # "update",
         req'[w].stage \in {"existing", "drafts"} => req'[w].ids = enrolled,
         status' = status, enrolled' = enrolled,
         \A q : q # p => Of(q)' = Of(q),
         AllOrNone(p)',
         Opens(req'[w]) => Opens(req[w]),
         Of(p) = enrolled => Of(p)' = enrolled,
         Of(p)' # Of(p) => Opens(req[w]),
         Opens(req[w]) /\ ~ Opens(req'[w]) /\ Exists(p) => Of(p)' = enrolled
  PROVE  SteadyInv' /\ UNCHANGED Composed!vars
<1>1. Exists(p)' <=> Exists(p)
  BY DEF Exists
<1>2. Opens(req'[w]) => req'[w].p = p
  BY DEF Opens, Idle
<1>3. Serving(p) /\ ~ Serving(p)' => Opens(req[w]) /\ ~ Opens(req'[w])
  BY <1>2 DEF Serving
<1>4. Serving(p)' => Serving(p)
  BY DEF Serving
<1>5. Exists(p) => (Done(p)' <=> Done(p))
  <2>1. Opens(req[w]) => Done(p)
    BY DEF Done, Serving
  <2>2. Exists(p) /\ Done(p) => Done(p)'
    BY <1>3 DEF Done
  <2>3. Done(p)' => Done(p)
    BY <1>4, <2>1 DEF Done
  <2>4. QED
    BY <2>2, <2>3
<1>6. status[p] # "none"
  BY DEF SteadyInv, Informed
<1>7. req'[w] # Idle => Informed(req[w])'
  BY <1>6 DEF Informed
<1>8. status[p] = "active" => Done(p)'
  BY <1>5 DEF SteadyInv, Exists, PeriodStatus
<1>9. SteadyInv'
  BY <1>1, <1>5, <1>6, <1>7, <1>8, SteadyKeeps
<1>10. QED
  BY <1>5, <1>9, SteadySame

LEMMA GenerateSteady ==
  ASSUME TypeOK, SteadyInv, NEW w \in Workers,
         \/ ReadStudents(w) \/ ReadExisting(w) \/ CreateDrafts(w)
         \/ RemindStudents(w) \/ NotifyMentors(w)
  PROVE  SteadyInv' /\ UNCHANGED Composed!vars
<1> DEFINE r == req[w]
<1>1. PICK p \in Periods, ids \in SUBSET Students :
        r.p = p /\ r.ids = ids /\ r # Idle /\ Informed(r) /\ AllOrNone(p)
  <2>1. r \in Request /\ r.stage \in GenerationStages /\ r # Idle
    BY DEF TypeOK, ReadStudents, ReadExisting, CreateDrafts, RemindStudents, NotifyMentors,
           GenerationStages, Idle
  <2>2. QED
    BY <2>1, RequestShape DEF SteadyInv
<1>2. ASSUME NEW next, Becomes(w, next)
      PROVE  (\A v \in Workers : v # w => req'[v] = req[v]) /\ req'[w] = next
  BY <1>2 DEF Becomes, TypeOK
<1>3. ASSUME ReadStudents(w) PROVE SteadyInv' /\ UNCHANGED Composed!vars
  <2> DEFINE next == IF enrolled = {} THEN Idle ELSE Generating("existing", p, enrolled)
  <2>1. Becomes(w, next) /\ OnlyReq /\ Opens(r)
    BY <1>1, <1>3 DEF ReadStudents, GoOn, Opens
  <2>2. /\ next # Idle => next.p = p /\ next.stage # "update"
        /\ next.stage \in {"existing", "drafts"} => next.ids = enrolled
        /\ Opens(next) <=> enrolled # {}
    BY DEF Generating, Idle, Opens
  <2>3. (\A q : Of(q)' = Of(q)) /\ AllOrNone(p)'
    BY <1>1, <2>1 DEF OnlyReq, Of, AllOrNone, Exists
  <2>4. (\A v \in Workers : v # w => req'[v] = req[v]) /\ req'[w] = next
    BY <1>2, <2>1
  <2> HIDE DEF next
  <2>5. ~ Opens(req'[w]) => Of(p)' = enrolled
    BY <1>1, <2>2, <2>3, <2>4 DEF AllOrNone
  <2>6. QED
    BY <1>1, <2>1, <2>2, <2>3, <2>4, <2>5, QuietSteady DEF OnlyReq
<1>4. ASSUME ReadExisting(w) PROVE SteadyInv' /\ UNCHANGED Composed!vars
  <2> DEFINE new == ids \ Of(p)
             next == IF new = {} THEN Idle ELSE Generating("drafts", p, new)
  <2>1. Becomes(w, next) /\ OnlyReq /\ Opens(r) /\ ids = enrolled
    BY <1>1, <1>4 DEF ReadExisting, GoOn, Opens, NewStudents, Informed
  <2>2. new = {} \/ new = enrolled
    BY <1>1, <2>1 DEF AllOrNone
  <2>3. /\ next # Idle => next.p = p /\ next.stage # "update"
        /\ next.stage \in {"existing", "drafts"} => next.ids = enrolled
        /\ Opens(next) <=> new # {}
    BY <2>2 DEF Generating, Idle, Opens
  <2>4. (\A q : Of(q)' = Of(q)) /\ AllOrNone(p)'
    BY <1>1, <2>1 DEF OnlyReq, Of, AllOrNone, Exists
  <2>5. (\A v \in Workers : v # w => req'[v] = req[v]) /\ req'[w] = next
    BY <1>2, <2>1
  <2> HIDE DEF next
  <2>6. ~ Opens(req'[w]) => Of(p)' = enrolled
    BY <1>1, <2>1, <2>3, <2>4, <2>5 DEF AllOrNone
  <2>7. QED
    BY <1>1, <2>1, <2>3, <2>4, <2>5, <2>6, QuietSteady DEF OnlyReq
<1>5. ASSUME CreateDrafts(w) PROVE SteadyInv' /\ UNCHANGED Composed!vars
  <2>1. ids = enrolled /\ Opens(r)
    BY <1>1, <1>5 DEF CreateDrafts, Informed, Opens
  <2>2. /\ \/ /\ CanInsert(p, ids) /\ drafts' = drafts \cup ({p} \X ids)
              /\ Becomes(w, Generating("remind", p, ids))
           \/ /\ ~ CanInsert(p, ids) /\ drafts' = drafts
              /\ Becomes(w, Idle)
        /\ UNCHANGED <<status, enrolled>>
    BY <1>1, <1>5 DEF CreateDrafts, AfterRefusal
  <2>3. /\ \A v \in Workers : v # w => req'[v] = req[v]
        /\ req'[w] = Idle \/ req'[w] = Generating("remind", p, ids)
    BY <1>2, <2>2
  <2>4. /\ req'[w] # Idle => req'[w].p = p /\ req'[w].stage # "update"
        /\ req'[w].stage \notin {"existing", "drafts"} /\ ~ Opens(req'[w])
    BY <2>3 DEF Generating, Idle, Opens
  <2>5. \A q : q # p => Of(q)' = Of(q)
    BY <2>2 DEF Of
  <2>6. CASE CanInsert(p, ids)
    <3>1. Of(p)' = enrolled /\ Exists(p)
      BY <1>1, <2>1, <2>2, <2>6 DEF CanInsert, Of, AllOrNone, TypeOK
    <3>2. AllOrNone(p)'
      BY <2>2, <3>1 DEF AllOrNone, Exists
    <3>3. QED
      BY <1>1, <2>1, <2>2, <2>3, <2>4, <2>5, <3>1, <3>2, QuietSteady
  <2>7. CASE ~ CanInsert(p, ids)
    <3>1. Of(p)' = Of(p) /\ (Exists(p) => Of(p) = enrolled)
      BY <1>1, <2>1, <2>2, <2>7 DEF CanInsert, Of, AllOrNone
    <3>2. AllOrNone(p)'
      BY <1>1, <2>2, <3>1 DEF AllOrNone, Exists
    <3>3. QED
      BY <1>1, <2>1, <2>2, <2>3, <2>4, <2>5, <3>1, <3>2, QuietSteady
  <2>8. QED
    BY <2>6, <2>7
<1>6. ASSUME RemindStudents(w) \/ NotifyMentors(w) PROVE SteadyInv' /\ UNCHANGED Composed!vars
  <2>1. PICK next \in {Idle, Generating("mentors", p, ids)} :
          Becomes(w, next) /\ UNCHANGED <<status, enrolled, drafts>> /\ ~ Opens(r)
    BY <1>1, <1>6 DEF RemindStudents, NotifyMentors, AfterRemind, Opens
  <2>2. /\ next # Idle => next.p = p /\ next.stage # "update"
        /\ next.stage \notin {"existing", "drafts"} /\ ~ Opens(next)
    BY <2>1 DEF Generating, Idle, Opens
  <2>3. (\A q : Of(q)' = Of(q)) /\ AllOrNone(p)'
    BY <1>1, <2>1 DEF Of, AllOrNone, Exists
  <2>4. (\A v \in Workers : v # w => req'[v] = req[v]) /\ req'[w] = next
    BY <1>2, <2>1
  <2>5. QED
    BY <1>1, <2>1, <2>2, <2>3, <2>4, QuietSteady
<1>7. QED
  BY <1>3, <1>4, <1>5, <1>6

\* Requests about one period may race as well, if none fails and nobody joins or
\* leaves: a period is open, with an assessment for everybody, from the moment
\* the first of them writes its status.  What a late removal does to one that
\* another request has opened is the one step that Programme does not take.
THEOREM RacesImplementComposed == SteadySpec => ImplementsProgramme
<1>1. Init => TypeOK /\ SteadyInv
  BY TypeInit DEF Init, SteadyInv, AllOrNone, Of
<1>2. TypeOK /\ SteadyInv /\ [Requests]_vars =>
        TypeOK' /\ SteadyInv' /\ [Composed!Next \/ LateRemoval]_(Composed!vars)
  <2> SUFFICES ASSUME TypeOK, SteadyInv, [Requests]_vars
               PROVE  TypeOK' /\ SteadyInv' /\ [Composed!Next \/ LateRemoval]_(Composed!vars)
    OBVIOUS
  <2>1. TypeOK'
    BY TypeStep DEF Next
  <2>2. CASE UNCHANGED vars
    <3>1. SteadyInv'
      BY <2>2 DEF vars, SteadyInv, AllOrNone, Done, Serving, Informed, Of, Exists, Opens
    <3>2. UNCHANGED <<MemberView, PeriodView, AssessmentView>>
      BY <2>2, Zenon DEF vars, MemberView, PeriodView, AssessmentView, Of, Owed, Exists, Opens
    <3>3. QED
      BY <2>1, <3>1, <3>2, Zenon DEF Composed!vars
  <2>3. ASSUME NEW w \in Workers, Call(w)
        PROVE  SteadyInv' /\ [Composed!Next \/ LateRemoval]_(Composed!vars)
    BY <2>3, CallSteady
  <2>4. ASSUME NEW w \in Workers, Proceed(w)
        PROVE  SteadyInv' /\ [Composed!Next \/ LateRemoval]_(Composed!vars)
    BY <2>4, WriteSteady, DeleteSteady, GenerateSteady DEF Proceed
  <2>5. QED
    BY <2>1, <2>2, <2>3, <2>4 DEF Requests
<1>3. QED
  BY <1>1, <1>2, PTL DEF SteadySpec, ImplementsProgramme
=============================================================================
