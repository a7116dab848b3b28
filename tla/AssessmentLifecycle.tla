------------------------- MODULE AssessmentLifecycle -------------------------
(***************************************************************************)
(* The lifecycle of an assessment, draft -> self_submitted ->              *)
(* mentor_review -> agreed -> completed, as AssessmentsService drives it.  *)
(*                                                                         *)
(* Every handler is a chain of awaited database statements.  A statement   *)
(* (or $transaction) is atomic, the handler is not: what it read before an *)
(* await may be stale when it writes, and no write repeats the check that  *)
(* preceded it.  A slot of Workers holds one request in flight; its stage  *)
(* says which statement comes next:                                        *)
(*                                                                         *)
(*   idle -> loaded -> [scaled ->] ready -> [notify ->] idle               *)
(*                                                                         *)
(* A request that fails a check answers 4xx without having written: while  *)
(* loading that is no step at all, later it is a return to idle.           *)
(*                                                                         *)
(* Abstractions.  One cohort.  Reflections, notes, coaching tags and the   *)
(* mentor's own score are stored and never read back by these handlers, so *)
(* they are left out; a timestamp is present or absent; a payload maps     *)
(* every dimension to the score it carries, NoScore where it has none (an  *)
(* omitted field means "leave it alone").  The final read that shapes the  *)
(* response changes nothing.                                               *)
(***************************************************************************)
EXTENDS AssessmentLogic

CONSTANTS
  Assessments,   \* assessment rows; createDrafts made them, see PeriodOpening
  Dimensions,    \* dimensions each of them has a score row for
  Students,
  Facilitators,
  StudentOf,     \* the owner of an assessment
  StartOf,       \* the start date of its period
  Mentors,       \* the facilitators actively assigned to a student
  Scores,        \* the scores that payloads carry
  Scales,        \* values scoringScaleMax may take
  Workers,       \* slots for requests in flight
  Overlapping    \* may two requests work on one assessment at a time?

ASSUME LifecycleAssumption ==
  /\ StudentOf \in [Assessments -> Students]
  /\ StartOf \in [Assessments -> Int]
  /\ Mentors \in [Students -> SUBSET Facilitators]
  /\ Scores \subseteq Nat \ {0}      \* the DTOs' @Min(1)
  /\ Scales \subseteq Nat \ {0}
  /\ NoScore \notin Int
  /\ Overlapping \in BOOLEAN

VARIABLES
  row,               \* the assessments table joined with its score rows
  scale,             \* scoringScaleMax of the cohort
  req,               \* the request each worker is handling
  submissionNotices, \* "Self-assessment submitted" notifications sent
  coachingNotices    \* assessments a "Coaching recommended" was sent for

vars == <<row, scale, req, submissionNotices, coachingNotices>>

-----------------------------------------------------------------------------
(* Data. *)

Statuses == {"draft", "self_submitted", "mentor_review", "agreed", "completed"}

Stamps == {"submittedAt", "mentorSubmittedAt", "completedAt"}

\* The scores of one kind: one per dimension, or none.
ScoreMap == [Dimensions -> Scores \cup {NoScore}]

NoScores == [d \in Dimensions |-> NoScore]

Row == [status: Statuses, stamps: SUBSET Stamps,
        self: ScoreMap, agreed: ScoreMap, flagged: SUBSET Dimensions]

Draft == [status |-> "draft", stamps |-> {},
          self |-> NoScores, agreed |-> NoScores, flagged |-> {}]

Complete(scores) == \A d \in Dimensions : scores[d] # NoScore

\* Fault: an omitted field clears its column.
OverlayClearing(stored, given) == given

\* The stored scores once the fields that `given` carries are written.
Overlay(stored, given) ==
  [d \in Dimensions |-> IF given[d] = NoScore THEN stored[d] ELSE given[d]]

InRange(given, scaleMax) ==
  \A d \in Dimensions : given[d] # NoScore => given[d] <= scaleMax

Recommended(agreed, scaleMax, previous) ==
  {d \in Dimensions : IsCoachingRecommended(agreed[d], scaleMax, previous[d])}

\* The student's completed assessments of earlier periods, latest start first:
\* the rows findFirst may return (more than one only when starts are equal).
PreviousRows(a) ==
  LET earlier == {b \in Assessments : /\ StudentOf[b] = StudentOf[a]
                                      /\ row[b].status = "completed"
                                      /\ StartOf[b] < StartOf[a]}
  IN  {b \in earlier : \A c \in earlier : StartOf[c] <= StartOf[b]}

PreviousAgreedScores(a) ==
  IF PreviousRows(a) = {} THEN {NoScores}
                          ELSE {row[b].agreed : b \in PreviousRows(a)}

-----------------------------------------------------------------------------
(* Requests in flight. *)

Idle == [stage |-> "idle"]

\* The row has been read (and the checks on it passed).
Loaded(op, a, given, mark) ==
  [stage |-> "loaded", op |-> op, a |-> a,
   snap |-> row[a], given |-> given, mark |-> mark]

\* submitMentor has read the scale and is about to read the previous period.
Scaled(r) ==
  [stage |-> "scaled", op |-> r.op, a |-> r.a, snap |-> r.snap, scaleMax |-> scale]

\* Everything is checked; the next statement writes.
Ready(op, a, given, status, flagged) ==
  [stage |-> "ready", op |-> op, a |-> a,
   given |-> given, status |-> status, flagged |-> flagged]

Notify(op, a) == [stage |-> "notify", op |-> op, a |-> a]

Ops == {"saveSelf", "submitSelf", "saveMentor", "submitMentor"}

Keep == "keep"     \* the status column is not part of the write

Request ==
  {Idle}
  \cup [stage: {"loaded"}, op: Ops \ {"submitSelf"}, a: Assessments,
        snap: Row, given: ScoreMap, mark: BOOLEAN]
  \cup [stage: {"scaled"}, op: {"submitMentor"}, a: Assessments,
        snap: Row, scaleMax: Scales]
  \cup [stage: {"ready"}, op: Ops, a: Assessments, given: ScoreMap,
        status: Statuses \cup {Keep}, flagged: SUBSET Dimensions]
  \cup [stage: {"notify"}, op: {"submitSelf", "submitMentor"}, a: Assessments]

\* The request still has to read or write the assessment's row.
InFlight(r) == r.stage \in {"loaded", "scaled", "ready"}

Touches(r, a) == InFlight(r) /\ r.a = a

MayLoad(w, a) ==
  /\ req[w] = Idle
  /\ Overlapping \/ \A v \in Workers : ~ Touches(req[v], a)

Becomes(w, r) == req' = [req EXCEPT ![w] = r]

TypeOK ==
  /\ row \in [Assessments -> Row]
  /\ scale \in Scales
  /\ req \in [Workers -> Request]
  /\ submissionNotices \in [Assessments -> Nat]
  /\ coachingNotices \subseteq Assessments

-----------------------------------------------------------------------------
(* The row is read. *)

\* Faults: a status check is missing or too wide.
SelfEditableAlways(a) == TRUE
SubmittableAgain(a) == Complete(row[a].self)
SubmittableUnscored(a) == row[a].status = "draft"
ReviewableAlways(a) == row[a].status # "draft"
CompletableFromReview(a) ==
  row[a].status \in {"mentor_review", "agreed"} /\ Complete(row[a].agreed)

SelfEditable(a) == row[a].status = "draft"

Submittable(a) == row[a].status = "draft" /\ Complete(row[a].self)

\* An `agreed` row is still editable: agreeing is not closing.
Reviewable(a) == row[a].status \in {"self_submitted", "mentor_review", "agreed"}

Completable(a) == row[a].status = "agreed" /\ Complete(row[a].agreed)

\* Someone can pass assertMentorOf, and facilitatorIdForStudent finds someone.
IsMentored(a) == Mentors[StudentOf[a]] # {}

SaveSelf(w, a, given) ==
  /\ MayLoad(w, a)
  /\ Dimensions # {}               \* scores has @ArrayMinSize(1)
  /\ SelfEditable(a)
  /\ Becomes(w, Loaded("saveSelf", a, given, FALSE))
  /\ UNCHANGED <<row, scale, submissionNotices, coachingNotices>>

\* submitSelf needs nothing but the row: it writes next.
SubmitSelf(w, a) ==
  /\ MayLoad(w, a)
  /\ Submittable(a)
  /\ Becomes(w, Ready("submitSelf", a, NoScores, "self_submitted", {}))
  /\ UNCHANGED <<row, scale, submissionNotices, coachingNotices>>

SaveMentor(w, a, given, mark) ==
  /\ MayLoad(w, a)
  /\ IsMentored(a)
  /\ Dimensions # {}
  /\ Reviewable(a)
  /\ Becomes(w, Loaded("saveMentor", a, given, mark))
  /\ UNCHANGED <<row, scale, submissionNotices, coachingNotices>>

SubmitMentor(w, a) ==
  /\ MayLoad(w, a)
  /\ IsMentored(a)
  /\ Completable(a)
  /\ Becomes(w, Loaded("submitMentor", a, NoScores, FALSE))
  /\ UNCHANGED <<row, scale, submissionNotices, coachingNotices>>

-----------------------------------------------------------------------------
(* The cohort's scale is read, and the payload checked against it. *)

CheckSaveSelf(w) ==
  LET r == req[w]
  IN  /\ r.stage = "loaded" /\ r.op = "saveSelf"
      /\ Becomes(w, IF InRange(r.given, scale)
                      THEN Ready("saveSelf", r.a, r.given, Keep, {})
                      ELSE Idle)
      /\ UNCHANGED <<row, scale, submissionNotices, coachingNotices>>

\* Fault: every edit that does not agree moves the row into review.
ReviewStatusAlways(r) == IF r.mark THEN "agreed" ELSE "mentor_review"

\* The status a review request will write, judged from the row it read.
ReviewStatus(r) ==
  IF r.mark THEN "agreed"
  ELSE IF r.snap.status = "self_submitted" THEN "mentor_review" ELSE Keep

\* Faults: markAgreed looks at the payload's own items only; no range check.
AcceptsReviewPartial(r) == InRange(r.given, scale)
AcceptsReviewUnranged(r) == r.mark => Complete(Overlay(r.snap.agreed, r.given))

AcceptsReview(r) ==
  /\ InRange(r.given, scale)
  /\ r.mark => Complete(Overlay(r.snap.agreed, r.given))

CheckSaveMentor(w) ==
  LET r == req[w]
  IN  /\ r.stage = "loaded" /\ r.op = "saveMentor"
      /\ Becomes(w, IF AcceptsReview(r)
                      THEN Ready("saveMentor", r.a, r.given, ReviewStatus(r), {})
                      ELSE Idle)
      /\ UNCHANGED <<row, scale, submissionNotices, coachingNotices>>

ReadScale(w) ==
  /\ req[w].stage = "loaded" /\ req[w].op = "submitMentor"
  /\ Becomes(w, Scaled(req[w]))
  /\ UNCHANGED <<row, scale, submissionNotices, coachingNotices>>

\* Fault: the rule is applied without the previous period.
ReadPreviousNone(w) ==
  LET r == req[w]
  IN  /\ r.stage = "scaled"
      /\ Becomes(w, Ready("submitMentor", r.a, NoScores, "completed",
                          Recommended(r.snap.agreed, r.scaleMax, NoScores)))
      /\ UNCHANGED <<row, scale, submissionNotices, coachingNotices>>

ReadPrevious(w) ==
  LET r == req[w]
  IN  /\ r.stage = "scaled"
      /\ \E previous \in PreviousAgreedScores(r.a) :
           Becomes(w, Ready("submitMentor", r.a, NoScores, "completed",
                            Recommended(r.snap.agreed, r.scaleMax, previous)))
      /\ UNCHANGED <<row, scale, submissionNotices, coachingNotices>>

-----------------------------------------------------------------------------
(* The write: one UPDATE or one transaction, whatever the row says by now. *)

\* Faults: the handler returns right after its write.
AfterSubmitSilent(a) == Idle
AfterCompleteSilent(r) == Idle

AfterSubmit(a) == IF IsMentored(a) THEN Notify("submitSelf", a) ELSE Idle

AfterComplete(r) == IF r.flagged # {} THEN Notify("submitMentor", r.a) ELSE Idle

WriteSelf(w) ==
  LET r == req[w]
  IN  /\ r.stage = "ready" /\ r.op = "saveSelf"
      /\ row' = [row EXCEPT ![r.a].self = Overlay(@, r.given)]
      /\ Becomes(w, Idle)
      /\ UNCHANGED <<scale, submissionNotices, coachingNotices>>

WriteSubmitted(w) ==
  LET r == req[w]
  IN  /\ r.stage = "ready" /\ r.op = "submitSelf"
      /\ row' = [row EXCEPT ![r.a].status = "self_submitted",
                            ![r.a].stamps = @ \cup {"submittedAt"}]
      /\ Becomes(w, AfterSubmit(r.a))
      /\ UNCHANGED <<scale, submissionNotices, coachingNotices>>

WriteReview(w) ==
  LET r == req[w]
  IN  /\ r.stage = "ready" /\ r.op = "saveMentor"
      /\ row' = [row EXCEPT
           ![r.a].agreed = Overlay(@, r.given),
           ![r.a].status = IF r.status = Keep THEN @ ELSE r.status,
           ![r.a].stamps = IF r.status = "agreed"
                             THEN @ \cup {"mentorSubmittedAt"} ELSE @]
      /\ Becomes(w, Idle)
      /\ UNCHANGED <<scale, submissionNotices, coachingNotices>>

WriteCompleted(w) ==
  LET r == req[w]
  IN  /\ r.stage = "ready" /\ r.op = "submitMentor"
      /\ row' = [row EXCEPT ![r.a].flagged = r.flagged,
                            ![r.a].status = "completed",
                            ![r.a].stamps = @ \cup {"completedAt"}]
      /\ Becomes(w, AfterComplete(r))
      /\ UNCHANGED <<scale, submissionNotices, coachingNotices>>

-----------------------------------------------------------------------------
(* What follows the write. *)

NotifyMentor(w) ==
  LET r == req[w]
  IN  /\ r.stage = "notify" /\ r.op = "submitSelf"
      /\ submissionNotices' = [submissionNotices EXCEPT ![r.a] = @ + 1]
      /\ Becomes(w, Idle)
      /\ UNCHANGED <<row, scale, coachingNotices>>

NotifyCoaching(w) ==
  LET r == req[w]
  IN  /\ r.stage = "notify" /\ r.op = "submitMentor"
      /\ coachingNotices' = coachingNotices \cup {r.a}
      /\ Becomes(w, Idle)
      /\ UNCHANGED <<row, scale, submissionNotices>>

-----------------------------------------------------------------------------
(* The environment. *)

\* The process dies, or a statement throws: what was written stays written.
Stop(w) ==
  /\ req[w] # Idle
  /\ Becomes(w, Idle)
  /\ UNCHANGED <<row, scale, submissionNotices, coachingNotices>>

\* PATCH /cohorts/:id with another scoringScaleMax, scores or no scores.
Rescale(s) ==
  /\ s # scale
  /\ scale' = s
  /\ UNCHANGED <<row, req, submissionNotices, coachingNotices>>

-----------------------------------------------------------------------------
Init ==
  /\ row = [a \in Assessments |-> Draft]
  /\ scale \in Scales
  /\ req = [w \in Workers |-> Idle]
  /\ submissionNotices = [a \in Assessments |-> 0]
  /\ coachingNotices = {}

\* A user calls an endpoint.
Call(w) ==
  \E a \in Assessments :
    \/ \E given \in ScoreMap : SaveSelf(w, a, given)
    \/ SubmitSelf(w, a)
    \/ \E given \in ScoreMap, mark \in BOOLEAN : SaveMentor(w, a, given, mark)
    \/ SubmitMentor(w, a)

\* The handler's next statement.
Proceed(w) ==
  \/ CheckSaveSelf(w) \/ CheckSaveMentor(w) \/ ReadScale(w) \/ ReadPrevious(w)
  \/ WriteSelf(w) \/ WriteSubmitted(w) \/ WriteReview(w) \/ WriteCompleted(w)
  \/ NotifyMentor(w) \/ NotifyCoaching(w)

Steady ==
  \/ \E w \in Workers : Call(w) \/ Proceed(w)
  \/ \E s \in Scales : Rescale(s)

Next == Steady \/ \E w \in Workers : Stop(w)

Spec == Init /\ [][Next]_vars

\* No request fails half-way, and every request in flight is carried on with;
\* users owe the system nothing.
SteadySpec ==
  Init /\ [][Steady]_vars /\ \A w \in Workers : WF_vars(Proceed(w))

-----------------------------------------------------------------------------
(* Properties that hold however requests interleave. *)

\* "A completed cycle with a null agreed score would corrupt every downstream
\* average": no interleaving of saves, agreements and completions, some of them
\* stopped half-way, closes or agrees a cycle with a dimension left open.
AgreedIsComplete ==
  \A a \in Assessments :
    row[a].status \in {"agreed", "completed"} => Complete(row[a].agreed)

\* Whatever has left draft was scored by the student in every dimension, even
\* when saves and submissions of the same assessment race.
SubmittedIsScored ==
  \A a \in Assessments : row[a].status # "draft" => Complete(row[a].self)

\* The timestamps tell the cycle's story: none is set before the ones of the
\* steps before it, and a status is never ahead of its own timestamp.
StampsInOrder ==
  \A a \in Assessments :
    LET at == row[a].stamps
    IN  /\ "submittedAt" \in at <=> row[a].status # "draft"
        /\ row[a].status \in {"agreed", "completed"} => "mentorSubmittedAt" \in at
        /\ row[a].status = "completed" => "completedAt" \in at
        /\ "completedAt" \in at => "mentorSubmittedAt" \in at

\* submitSelf and submitMentor write first and tell afterwards; unless a request
\* fails in between, every submission is eventually announced to the mentor, and
\* every completion that flags a dimension ends in a coaching reminder
\* (assessments.service.ts:204, :354).
NoticesReachMentors ==
  \A a \in Assessments :
    /\ (row[a].status # "draft" /\ IsMentored(a)) ~> submissionNotices[a] > 0
    /\ (row[a].flagged # {}) ~> (a \in coachingNotices)

-----------------------------------------------------------------------------
(* Why they hold: scores and timestamps are never taken back, so what a check *)
(* found filled in is still filled in when its request writes, however stale  *)
(* the status it saw has become.                                              *)

\* What is scored in `old` is scored in `new`.
Within(old, new) == \A d \in Dimensions : new[d] = NoScore => old[d] = NoScore

\* A request in flight on a row that now is `now` can still rely on this.
Sound(r, now) ==
  /\ r.op # "saveSelf" => Complete(now.self)
  /\ r.op \in {"saveMentor", "submitMentor"} => "submittedAt" \in now.stamps
  /\ r.op = "submitMentor" => Complete(now.agreed) /\ "mentorSubmittedAt" \in now.stamps
  /\ r.op = "saveMentor" /\ r.stage = "loaded" => Within(r.snap.agreed, now.agreed)
  /\ r.op = "saveMentor" /\ r.stage = "ready" =>
       /\ r.status \in {"mentor_review", "agreed", Keep}
       /\ r.status = "agreed" => Complete(Overlay(now.agreed, r.given))

\* No request in flight has lost what its checks established: the rest of the
\* handler may write without checking again and still leave no score open.
RequestsAreSound ==
  \A w \in Workers : InFlight(req[w]) => Sound(req[w], row[req[w].a])

-----------------------------------------------------------------------------
(* Properties that need the requests on one assessment not to overlap. *)

\* "This cycle is complete and can no longer be edited".
CompletedIsFrozen ==
  [][\A a \in Assessments : row[a].status = "completed" => row'[a] = row[a]]_vars

\* "Self-assessment can only be edited while in draft".
SelfFrozenOnceSubmitted ==
  [][\A a \in Assessments :
       row[a].status # "draft" => row'[a].self = row[a].self]_vars

\* "Assessment has already been submitted": a second submission is refused, so
\* the mentor hears of an assessment once.
OneSubmissionNotice == \A a \in Assessments : submissionNotices[a] <= 1

\* Why they hold: a request in flight still sees the row it read, and a write
\* meets the status its handler checked.
Fresh(r, now) ==
  /\ r.stage \in {"loaded", "scaled"} => r.snap = now
  /\ r.op \in {"saveSelf", "submitSelf"} => now.status = "draft"
  /\ r.op = "submitMentor" => now.status = "agreed"
  /\ r.op = "saveMentor" =>
       now.status \in {"self_submitted", "mentor_review", "agreed"}
  /\ r.op = "saveMentor" /\ r.stage = "ready" =>
       /\ r.status = Keep => now.status # "self_submitted"
       /\ r.status = "mentor_review" => now.status = "self_submitted"
  /\ r.op = "submitMentor" /\ r.stage = "ready" =>
       \E s \in Scales : \A d \in Dimensions :
         5 * now.agreed[d] <= 2 * s => d \in r.flagged

\* With no two requests on one assessment at a time, none acts on a stale row.
RequestsAreFresh ==
  /\ \A w \in Workers : InFlight(req[w]) => Fresh(req[w], row[req[w].a])
  /\ \A v, w \in Workers : InFlight(req[v]) /\ Touches(req[w], req[v].a) => v = w

\* The endpoints behave like the atomic ones of ReviewCycle.
ReviewCycleView ==
  [a \in Assessments |-> [status |-> row[a].status, self |-> row[a].self,
                          agreed |-> row[a].agreed, flagged |-> row[a].flagged]]

Cycle == INSTANCE ReviewCycle WITH cycle <- ReviewCycleView

ImplementsReviewCycle == Cycle!Spec

-----------------------------------------------------------------------------
(* Properties of the coaching rule, which also reads other assessments. *)

\* coachingRecommended is what isCoachingRecommended says of the agreed scores,
\* the scale and the previous period as they are when the cycle completes.
FlagsAreCurrent ==
  [][\A a \in Assessments :
       row[a].status # "completed" /\ row'[a].status = "completed" =>
         \E previous \in PreviousAgreedScores(a) :
           row'[a].flagged = Recommended(row[a].agreed, scale, previous)]_vars

\* No stored score lies outside the cohort's scale.
ScoresWithinScale ==
  \A a \in Assessments, d \in Dimensions :
    {row[a].self[d], row[a].agreed[d]} \subseteq (1 .. scale) \cup {NoScore}

-----------------------------------------------------------------------------
(* Properties that relate the handlers to the programme as a whole. *)

\* The dimensions a payload or a row has a score for, with the scores.
Given(scores) == [d \in {e \in Dimensions : scores[e] # NoScore} |-> scores[d]]

\* A row as Programme keeps it: without self scores, and with what has been
\* agreed so far.
AssessmentView(x) ==
  [status |-> x.status, scored |-> Dimensions, agreed |-> Given(x.agreed),
   flagged |-> x.flagged]

\* There: by student and period, each assessment being of a period of its own.
Key(a) == <<StudentOf[a], a>>

ProgrammeView == [r \in {Key(a) : a \in Assessments} |-> AssessmentView(row[r[2]])]

\* The one cohort, which everybody is enrolled in.
CohortView == [c \in {"cohort"} |-> [scale |-> scale, status |-> "active"]]

RosterView == {t \in Facilitators \X Students \X {"cohort"} : t[1] \in Mentors[t[2]]}

Composed == INSTANCE Programme WITH
  Cohorts     <- {"cohort"},
  Periods     <- Assessments,
  CohortOf    <- [x \in Assessments \cup Dimensions |-> "cohort"],
  NoCohort    <- "no cohort",
  NoAccount   <- "no account",
  Setups      <- {},
  Payloads    <- UNION {[D -> Scores] : D \in SUBSET Dimensions},
  Enrolments  <- {},
  Assignable  <- {},
  CohortEdits <- {"cohort"} \X Scales \X {"active"},
  Creatable   <- {},
  Retirable   <- {},
  Deactivatable <- {},
  member      <- [s \in Students |-> "cohort"],
  cohort      <- CohortView,
  active      <- Dimensions,
  period      <- [a \in Assessments |-> "active"],
  roster      <- RosterView,
  assessment  <- ProgrammeView

\* Programme takes a handler for one step: what the statements of a request do
\* amounts to the one step there, taken when it writes, on the row, the scale and
\* the previous period as they are then, or to nothing if it is refused or stops.
ImplementsProgramme == [][Composed!Next]_(Composed!vars)
=============================================================================
