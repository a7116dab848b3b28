---------------------------- MODULE PeriodOpening ----------------------------
(***************************************************************************)
(* Assessment periods of one cohort: PeriodsService.create, update and     *)
(* remove, and AssessmentsService.generateForPeriod, which opening a       *)
(* period runs after the status has been written and not in one            *)
(* transaction with it.                                                    *)
(*                                                                         *)
(*   update -> students -> existing -> drafts -> remind -> mentors         *)
(*                                                                         *)
(* A request in flight may stop before any of its statements.              *)
(*                                                                         *)
(* Abstractions.  A period is its status (names and dates change nothing   *)
(* here, so a PATCH without a status is left out) and is created once; an  *)
(* assessment is the pair of its period and student, with the score rows   *)
(* createDrafts nests in it; a student's facilitator is fixed, and so are  *)
(* the dimensions that generateForPeriod reads before it creates.          *)
(***************************************************************************)
EXTENDS Integers

CONSTANTS
  Periods,
  Students,
  Facilitators,
  MentorOf,      \* the active facilitator of a student, or NoOne
  NoOne,
  Workers,       \* slots for requests in flight
  Backward       \* do coordinators ever move a period to an earlier status?

ASSUME OpeningAssumption ==
  /\ MentorOf \in [Students -> Facilitators \cup {NoOne}]
  /\ NoOne \notin Facilitators
  /\ Backward \in BOOLEAN

VARIABLES
  status,          \* the periods table
  enrolled,        \* active self-assessors among the cohort's members
  drafts,          \* the assessments table: <<period, student>>
  req,             \* the request each worker is handling
  reminders,       \* "Assessment open" notifications sent, per student
  mentorReminders  \* <<period, facilitator>> told "Assessments open"

vars == <<status, enrolled, drafts, req, reminders, mentorReminders>>

-----------------------------------------------------------------------------
PeriodStatus == {"upcoming", "active", "completed"}

\* "none" before the period is created, "deleted" after it was removed.
Exists(p) == status[p] \in PeriodStatus

Rank == [upcoming |-> 0, active |-> 1, completed |-> 2]

Of(p) == {s \in Students : <<p, s>> \in drafts}

MentorsOf(ids) == {MentorOf[s] : s \in ids} \ {NoOne}

Idle == [stage |-> "idle"]

Updating(p, to) == [stage |-> "update", p |-> p, to |-> to, seen |-> status[p]]

\* A stage of generateForPeriod, with the students it is about so far.
Generating(stage, p, ids) == [stage |-> stage, p |-> p, ids |-> ids]

GenerationStages == {"students", "existing", "drafts", "remind", "mentors"}

Request ==
  {Idle}
  \cup [stage: {"update"}, p: Periods, to: PeriodStatus, seen: PeriodStatus]
  \cup [stage: {"delete"}, p: Periods]
  \cup [stage: GenerationStages, p: Periods, ids: SUBSET Students]

Becomes(w, r) == req' = [req EXCEPT ![w] = r]

\* The step reads, and only its request moves on.
OnlyReq == UNCHANGED <<status, enrolled, drafts, reminders, mentorReminders>>

TypeOK ==
  /\ status \in [Periods -> PeriodStatus \cup {"none", "deleted"}]
  /\ enrolled \subseteq Students
  /\ drafts \subseteq Periods \X Students
  /\ req \in [Workers -> Request]
  /\ reminders \in [Periods -> [Students -> Nat]]
  /\ mentorReminders \subseteq Periods \X Facilitators

-----------------------------------------------------------------------------
(* PeriodsService. *)

\* The cohort check and the INSERT; cohorts are never deleted.
Create(w, p, to) ==
  /\ req[w] = Idle
  /\ status[p] = "none"
  /\ status' = [status EXCEPT ![p] = to]
  /\ Becomes(w, IF to = "active" THEN Generating("students", p, {}) ELSE Idle)
  /\ UNCHANGED <<enrolled, drafts, reminders, mentorReminders>>

\* update reads the period it will judge `isOpening` by.
Update(w, p, to) ==
  /\ req[w] = Idle
  /\ Exists(p)
  /\ Backward \/ Rank[to] >= Rank[status[p]]
  /\ Becomes(w, Updating(p, to))
  /\ OnlyReq

\* Fault: only a period that was upcoming is taken to be opening.
IsOpeningFromUpcoming(r) == r.to = "active" /\ r.seen = "upcoming"

IsOpening(r) == r.to = "active" /\ r.seen # "active"

\* The UPDATE, which fails if the row was deleted meanwhile.
WriteStatus(w) ==
  LET r == req[w]
  IN  /\ r.stage = "update"
      /\ status' = IF Exists(r.p) THEN [status EXCEPT ![r.p] = r.to] ELSE status
      /\ Becomes(w, IF Exists(r.p) /\ IsOpening(r)
                      THEN Generating("students", r.p, {}) ELSE Idle)
      /\ UNCHANGED <<enrolled, drafts, reminders, mentorReminders>>

\* Fault: any period may be removed.
RemovableAlways(p) == Exists(p)

Removable(p) == status[p] = "upcoming"

Remove(w, p) ==
  /\ req[w] = Idle
  /\ Removable(p)
  /\ Becomes(w, [stage |-> "delete", p |-> p])
  /\ OnlyReq

\* The DELETE cascades to the period's assessments.
Delete(w) ==
  LET r == req[w]
  IN  /\ r.stage = "delete"
      /\ status' = [status EXCEPT ![r.p] = "deleted"]
      /\ drafts' = {x \in drafts : x[1] # r.p}
      /\ Becomes(w, Idle)
      /\ UNCHANGED <<enrolled, reminders, mentorReminders>>

-----------------------------------------------------------------------------
(* generateForPeriod. *)

\* What follows a read: go on with `ids`, or return early when there are none.
GoOn(w, stage, p, ids) ==
  Becomes(w, IF ids = {} THEN Idle ELSE Generating(stage, p, ids))

ReadStudents(w) ==
  /\ req[w].stage = "students"
  /\ GoOn(w, "existing", req[w].p, enrolled)
  /\ OnlyReq

NewStudents(r) == r.ids \ Of(r.p)

ReadExisting(w) ==
  /\ req[w].stage = "existing"
  /\ GoOn(w, "drafts", req[w].p, NewStudents(req[w]))
  /\ OnlyReq

\* Fault: no unique index on (studentId, periodId).
CanInsertAgain(p, ids) == Exists(p)

\* The foreign key and the unique index on (studentId, periodId).
CanInsert(p, ids) == Exists(p) /\ ids \cap Of(p) = {}

\* Fault: a refused batch is logged and the reminders go out all the same.
AfterRefusalRemind(r) == Generating("remind", r.p, r.ids)

AfterRefusal(r) == Idle

\* One transaction for the whole batch: all of its rows or none.
CreateDrafts(w) ==
  LET r == req[w]
  IN  /\ r.stage = "drafts"
      /\ \/ /\ CanInsert(r.p, r.ids)
            /\ drafts' = drafts \cup ({r.p} \X r.ids)
            /\ Becomes(w, Generating("remind", r.p, r.ids))
         \/ /\ ~ CanInsert(r.p, r.ids)
            /\ drafts' = drafts
            /\ Becomes(w, AfterRefusal(r))
      /\ UNCHANGED <<status, enrolled, reminders, mentorReminders>>

\* Fault: the mentors are forgotten.
AfterRemindNothing(r) == Idle

AfterRemind(r) == Generating("mentors", r.p, r.ids)

RemindStudents(w) ==
  LET r == req[w]
  IN  /\ r.stage = "remind"
      /\ reminders' = [reminders EXCEPT ![r.p] =
                         [s \in Students |-> IF s \in r.ids THEN @[s] + 1 ELSE @[s]]]
      /\ Becomes(w, AfterRemind(r))
      /\ UNCHANGED <<status, enrolled, drafts, mentorReminders>>

NotifyMentors(w) ==
  LET r == req[w]
  IN  /\ r.stage = "mentors"
      /\ mentorReminders' = mentorReminders \cup ({r.p} \X MentorsOf(r.ids))
      /\ Becomes(w, Idle)
      /\ UNCHANGED <<status, enrolled, drafts, reminders>>

-----------------------------------------------------------------------------
(* The environment. *)

\* The process dies or a statement throws.
Stop(w) ==
  /\ req[w] # Idle
  /\ Becomes(w, Idle)
  /\ OnlyReq

\* UsersService moves students in and out of the cohort, or (de)activates them.
MoveStudent(s) ==
  /\ enrolled' = IF s \in enrolled THEN enrolled \ {s} ELSE enrolled \cup {s}
  /\ UNCHANGED <<status, drafts, req, reminders, mentorReminders>>

-----------------------------------------------------------------------------
Init ==
  /\ status = [p \in Periods |-> "none"]
  /\ enrolled \in SUBSET Students
  /\ drafts = {}
  /\ req = [w \in Workers |-> Idle]
  /\ reminders = [p \in Periods |-> [s \in Students |-> 0]]
  /\ mentorReminders = {}

Call(w) ==
  \E p \in Periods :
    \/ \E to \in PeriodStatus : Create(w, p, to) \/ Update(w, p, to)
    \/ Remove(w, p)

Proceed(w) ==
  \/ WriteStatus(w) \/ Delete(w)
  \/ ReadStudents(w) \/ ReadExisting(w) \/ CreateDrafts(w)
  \/ RemindStudents(w) \/ NotifyMentors(w)

Requests == \E w \in Workers : Call(w) \/ Proceed(w)

Failures == \E w \in Workers : Stop(w)

Next == Requests \/ Failures \/ \E s \in Students : MoveStudent(s)

Spec == Init /\ [][Next]_vars

\* Requests in flight are carried on with; coordinators owe the system nothing.
Fairness == \A w \in Workers : WF_vars(Proceed(w))

\* The roster stands still and nothing fails.
SteadySpec == Init /\ [][Requests]_vars /\ Fairness

\* The roster stands still but requests may fail half-way.
FailingSpec == Init /\ [][Requests \/ Failures]_vars /\ Fairness

-----------------------------------------------------------------------------
(* Properties. *)

\* "Idempotent: students already having an assessment for the period are
\* skipped": however a period is opened, reopened or opened twice at once while
\* the roster changes, no student is reminded of it twice.
OneReminderPerStudent ==
  \A p \in Periods, s \in Students : reminders[p][s] <= 1

\* Nobody is pointed at an assessment that does not exist: a reminded student
\* has one (unless the period was removed), a reminded mentor has such a student.
NoticesFollowDrafts ==
  /\ \A p \in Periods, s \in Students :
       reminders[p][s] > 0 => <<p, s>> \in drafts \/ status[p] = "deleted"
  /\ \A p \in Periods, f \in Facilitators :
       <<p, f>> \in mentorReminders =>
         \E s \in Students : MentorOf[s] = f /\ reminders[p][s] > 0

\* Why they hold: the transaction that creates a batch of drafts gives its
\* request the sole right to announce them.
Announces(w, p, s) ==
  req[w].stage = "remind" /\ req[w].p = p /\ s \in req[w].ids

BatchesAreDisjoint ==
  /\ \A w \in Workers, p \in Periods, s \in Students :
       Announces(w, p, s) => /\ reminders[p][s] = 0
                             /\ <<p, s>> \in drafts \/ status[p] = "deleted"
  /\ \A v, w \in Workers, p \in Periods, s \in Students :
       Announces(v, p, s) /\ Announces(w, p, s) => v = w
  /\ \A w \in Workers : req[w].stage = "mentors" =>
       \A s \in req[w].ids : reminders[req[w].p][s] > 0

\* "Once a cycle is opened it has generated assessments and scores that must be
\* preserved": no request ever deletes an assessment.
HistoryKept == [][drafts \subseteq drafts']_vars

\* "Opening it generates the draft assessments for every active student in the
\* cohort", by whichever of the racing requests gets there first.
OpenedIsGenerated ==
  \A p \in Periods, s \in Students :
    (status[p] = "active" /\ s \in enrolled) ~>
      (<<p, s>> \in drafts \/ status[p] = "deleted")

\* "... and notifies them", and their mentors.
GeneratedIsAnnounced ==
  \A p \in Periods, s \in Students :
    (<<p, s>> \in drafts) ~>
      /\ reminders[p][s] = 1
      /\ MentorOf[s] # NoOne => <<p, MentorOf[s]>> \in mentorReminders

-----------------------------------------------------------------------------
(* Programme takes create, update and remove for one step each. *)

\* A request that has opened a period and not yet drafted its assessments.
Opens(r) == r.stage \in {"students", "existing", "drafts"}

\* Students who are owed a draft by a request in flight.
Owed(p) ==
  {s \in enrolled : Exists(p) /\ \E w \in Workers : Opens(req[w]) /\ req[w].p = p}

\* The tables as Programme keeps them: what is about to be drafted is there.
\* Somebody who is not an active member is elsewhere.
MemberView == [s \in Students |-> IF s \in enrolled THEN "cohort" ELSE "elsewhere"]

PeriodView == [p \in Periods |-> IF Exists(p) THEN status[p] ELSE "none"]

AssessmentView ==
  [r \in {x \in Students \X Periods : x[1] \in Of(x[2]) \cup Owed(x[2])} |->
     [status |-> "draft", scored |-> {}, agreed |-> <<>>, flagged |-> {}]]

\* Nothing is completed here, so no start date is ever compared.
Composed == INSTANCE Programme WITH
  Cohorts     <- {"cohort", "elsewhere"},
  Dimensions  <- {},
  CohortOf    <- [p \in Periods |-> "cohort"],
  StartOf     <- [p \in Periods |-> 0],
  NoCohort    <- "no cohort",
  NoAccount   <- "no account",
  Setups      <- {},
  Payloads    <- {},
  Enrolments  <- Students \X {"cohort", "elsewhere"},
  Assignable  <- {},
  CohortEdits <- {},
  Creatable   <- Periods,
  Retirable   <- {},
  Deactivatable <- {},
  member      <- MemberView,
  cohort      <- <<>>,
  active      <- {},
  period      <- PeriodView,
  roster      <- {},
  assessment  <- AssessmentView

\* A removal that was let in while the period was upcoming and deletes it after
\* another request has opened it.
LateRemoval == \E w \in Workers : Delete(w) /\ status[req[w].p] # "upcoming"

\* What the statements of create, update and remove amount to is the one step
\* they are in Programme: a period is open, and everybody in the cohort has an
\* assessment of it, from the statement that writes its status, whichever
\* requests race.  Only a late removal is nothing that a request by itself does.
ImplementsProgramme == [][Composed!Next \/ LateRemoval]_(Composed!vars)
=============================================================================
