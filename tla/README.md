# Verification of the assessment backend

TLA+ models of the NestJS/Prisma backend under `src/`, the TLC runs that check
them on small instances, and TLAPS proofs of what matters most for every
instance. `PROJECT.json` lists components, runs, mutants, hazards, theorems and
which source lines each definition models.

## 1. The system

A coaching platform for one institution. *Coordinators* administer users,
cohorts and assessment periods; *self-assessors* (students) score themselves on
the dimensions of their cohort; *facilitators* (mentors) review those scores,
agree on final ones and coach. The process is a stateless HTTP server: all state
is in PostgreSQL, and every handler is a chain of awaited statements. One
statement, or one `$transaction`, is atomic; a handler is not. Checks are made
on rows read earlier and are not repeated by the write, there is no locking and
no version column. What protects the data against two requests at once is
therefore only the schema (unique indexes, foreign keys) and the *shape* of the
writes. That is where the interesting behaviour lies, and what the models keep.

### Inventory

| Component (`src/src/modules`) | State | Operations that change it | Talks to |
|---|---|---|---|
| assessments | `assessments`, `assessment_scores` | generateForPeriod, saveSelf, submitSelf, saveMentor, submitMentor | dimensions, cohorts (scale), assignments (mentor), notifications |
| periods | `assessment_periods` | create, update (opening), remove (cascades) | cohorts, assessments |
| assignments | `mentor_assignments` | create (retire, find, reactivate or insert), remove | users, cohorts |
| users | `users`, `cohort_members` | create, createMany, update, updateMe, setCohort, remove | cohorts, mail |
| coaching | sessions, participants, dimensions, action items | create, update (transaction), remove, action item CRUD | users, assignments, notifications |
| goals | `goals` | create, update, remove | assignments, notifications |
| notifications | `notifications` | notify, notifyMany, markRead, markAllRead | called by the above |
| notification-rules | rules | update | read by nobody when sending |
| auth | refresh tokens, one-time codes, password hash | login, logout, forgotPassword, resetPassword, changePassword (refresh rotates nothing) | users, mail |
| cohorts, dimensions | `cohorts`, `dimensions` | create, update, soft delete | – |
| audit | `audit_logs` | one row per coordinator mutation, fire-and-forget | every controller |
| analytics | none | – (reads and pure aggregation) | everything |
| seed (`prisma/seed.ts`) | all tables | reset, then the demo data row by row | started by `docker-entrypoint.sh` |
| common, mail, health, prisma | – | request plumbing, I/O | – |

What is hard in each, and what makes it correct:

* **assessments** – five statuses driven by two people whose requests may
  overlap, with up to four awaits between check and write. Correct when no
  agreed or completed row has an open dimension, the timestamps tell the story
  of the statuses, a completed cycle and a submitted self-assessment stay as
  they are, the coaching flags are the rule applied to what is stored, and every
  submission and flagged completion reaches the mentor.
* **periods** – opening writes the status, then generates drafts and two waves
  of reminders. Correct when nobody is reminded twice or of nothing, however
  often and by however many requests a period is opened, when opening does
  generate, and when generated history is never deleted.
* **assignments** – a reassignment retires the old row before the new one is in
  force. Correct when a student never has two mentors and never loses the last.
* **users** – create and update write the user, then the membership, and
  setCohort deletes before it creates. Correct when whoever asked to be enrolled
  ends up enrolled, in one cohort, and stays so.
* **auth** – single-use codes consumed by a read followed by a write. Correct
  when a code sets one password and a reset leaves no older session.
* **coaching** – participants and action items change together. Correct when
  whoever has an item to do participates in the session it belongs to, and a
  student can open it.
* **goals** – a status change is announced by comparing with the status read.
  Correct when an achievement is announced exactly once.
* **analytics** – some twenty aggregates computed from the same rows by different
  queries, over students who have moved, dimensions that were retired and cohorts
  that were rescaled. Correct when the screens agree with each other and with the
  rows, and a student's standing changes only when his grades do.
* **seed** – fills an empty database or refills a wiped one without a
  transaction, at every start of the container. Correct when no earlier run is in
  its way, and when what it writes past the service is what the service could
  have written.

## 2. Modules

| Module | Models |
|---|---|
| `ReviewCycle` | the abstract status machine: each endpoint atomic, on the current row |
| `AssessmentLogic` | isCoachingRecommended |
| `AssessmentLifecycle` | saveSelf, submitSelf, saveMentor, submitMentor, one action per statement |
| `AssessmentLifecycleProofs` | theorems about it: whatever overlaps; and for requests that do not overlap on one assessment, among them the refinement of `ReviewCycle` |
| `PeriodOpening`, `PeriodOpeningProofs` | PeriodsService and generateForPeriod, one action per statement; theorems |
| `MentorAssignments`, `MentorAssignmentsProofs` | AssignmentsService over mentor_assignments, one action per statement; theorems |
| `Programme` | all of the above composed with users, cohorts and dimensions, one action per handler |
| `AnalyticsLogic` | the arithmetic of analytics-logic.ts: averages, zones, trend, risk, weeks, feed |
| `ProgrammeAnalytics` | every analytics endpoint and scoped list as a function of the tables of `Programme` |
| `ProgrammeProofs` | theorems about both; `SumTheorems` holds what they need of sums over finite sets |
| `Accounts` | UsersService: users and their cohort, one action per statement |
| `Sessions` | AuthService on top of `Accounts`: sign-in, reset codes, passwords |
| `SessionsProofs` | theorems about the two |
| `People` | the users as coaching, goals and notifications see them |
| `Coaching`, `Goals`, `Notifications` | those services, one action per statement |
| `Engagement`, `EngagementProofs` | the three composed over the users they share; theorems |
| `SeedData` | what prisma/seed.ts decides: batches, archetypes, scores, statuses, mentors |
| `Seed`, `SeedProofs` | prisma/seed.ts as a process over all tables; theorems |
| `MC...` | instances for TLC; `Seed` is its own |

**Common conventions.** `Workers` is a set of slots for requests in flight and
`req[w]` the state of the request in slot `w`: its `stage` names the statement
that comes next, the other fields are the handler's local variables, in
particular what it *read* before an await (`snap`, `seen`, `ids`). The first
action of a handler is the read its checks are made on, guarded by those checks
(a request refused there changes nothing and is no step). A later refusal, a
4xx or a database error, is a return to `Idle`. `Stop(w)` ends a request before
any of its statements: a crash, a lost connection, a thrown error; what was
written stays written. Operators commented `Fault:` are not used by the
specifications. Each is an erroneous variant of the definition that follows it,
put in its place to confirm that a property notices.

**AssessmentLifecycle.** `row[a]` joins the assessment with its score rows:
status, the set of timestamps that are not null, self and agreed scores per
dimension, flags. `scale` is the cohort's `scoringScaleMax`, changed by
`Rescale` at any moment. Handlers:

    saveSelf     SaveSelf -> CheckSaveSelf (scale) -> WriteSelf
    submitSelf   SubmitSelf -> WriteSubmitted -> NotifyMentor
    saveMentor   SaveMentor -> CheckSaveMentor (scale) -> WriteReview
    submitMentor SubmitMentor -> ReadScale -> ReadPrevious -> WriteCompleted -> NotifyCoaching

Reflections, notes, tags and the mentor's own score are stored and never read
back by these handlers, so they are left out. `Overlapping` says whether the
environment ever has two requests on one assessment at a time.

**PeriodOpening.** `status[p]` is a period ("none" before it is created,
"deleted" after), `drafts` the set of (period, student) pairs with an
assessment, `reminders` and `mentorReminders` the notifications. The unique
index on (studentId, periodId) and the foreign key are the guard `CanInsert` of
the transaction `CreateDrafts`. `MoveStudent` is whatever the users module does
to the roster. `Backward` says whether coordinators ever set a period to an
earlier status, which the code allows. `Owed(p)` are the students to whom a
request in flight is about to give a draft; with them added, `drafts` is what
`Programme` keeps.

**MentorAssignments.** `row[<<f, s, c>>]` is "none", "active" or "retired". A
reactivation and a removal go by row id: when the row is deleted,
`Delete` also ends the requests that hold its id, because nothing they do can
have an effect any more (a new row of the same trio has another id).
`Overlapping` is per student; `Removals` says whether anybody unassigns. Roles are
not kept, although users.update may write one at any time: create looks at them
before it changes anything, so a request refused for a role is one that is not
made, and nothing looks at them afterwards.

**Programme and ProgrammeAnalytics.** `member`, `cohort`, `active`, `period`,
`roster` and `assessment` are the tables; a handler is one step, which is what it
amounts to when requests do not overlap (see below). That is the abstraction this
composition makes, so that reads can be judged over long histories: moves,
reassignments, retired dimensions, a cohort closed on another scale, periods
created open or reopened, users removed. `Review` keeps what saveMentor does with
a partial payload: what is given is held against the scale of today and written
over what there is, so an agreed score may be one of an older scale, and only
`markAgreed` asks for every dimension. Roles and active flags of accounts, which
users.update writes at any time, are not kept; instead every opening of a period
leaves out any of the students `Deactivatable`, who may just then be no active
students. An answer is an operator named after the method that computes it, scores in hundredths as round2 leaves them. Where two answers
coincide only under a condition, the property states it: the page of a student
and that of his cohort agree while all he completed belongs to that cohort
(`Settled`), and the programme-wide count of students at risk is that of the
cohorts while nobody completed cycles in two. Without that condition it is not:
atRiskCountAcrossCohorts judges a student by the last cycle he completed
anywhere, so one whom a cohort he has left still lists can be missing from the
count of those "flagged at risk in any cohort" (analytics.service.ts:256).

**Accounts and Sessions.** `account`, `member`, `session` and `otp` are the
tables. `env` is chosen once, by Init: whether requests overlap, whether they may
stop half-way, what they bring. One run so covers the cases that the properties
tell apart; each property says which it needs. `granted` (the cohort last
promised) and `otp[k].wrote` (the passwords set with a code) are history.

**People, Coaching, Goals, Notifications, Engagement.** The same `env`, with what
requests are about, so that the three do not multiply each other's states. The
participants and assignees of a session are users of any role, because the service
looks at none; a facilitator who takes part in somebody else's session does not see
it, as the reads go by role. A session for a whole cohort leaves out those whose
account is not active just then, any of them. An achieved goal that its student
marked takes two lookups, of his mentor and of himself, before the mentor is told.
`owed[g]` is history: achievements of a goal less the notices of them.

**Seed.** `db` is the set of rows, `run` the statement the process is at,
`outcome` how the last run ended. A statement inserts the rows of one Prisma
call; a row that is there already ends the run, as the unique indexes do. The
schema's cascades are left out, because the reset order is meant not to need
them, which `RowsHaveParents` shows. `SeedData` instantiates
`AssessmentLifecycle` on the rows of each seeded student and holds them against
its invariants.

### How the modules relate

Opening a period creates the `Draft` rows with which `AssessmentLifecycle`
starts; its `Mentors` and `PeriodOpening`'s `MentorOf` are what
`MentorAssignments` maintains, `enrolled` is what `Accounts` maintains.
`Programme` composes them, each handler in one step; what that loses, the
interleaving inside handlers, is what the other modules keep.

That it is the same system is shown, not assumed. `AssessmentLifecycle`,
`PeriodOpening` and `MentorAssignments` each end with the tables of `Programme` as
they stand for them (`ProgrammeView`, `AssessmentView`, `RosterView`) and with
`ImplementsProgramme`: every one of their steps is a step of `Programme` or
changes nothing there. The view is where the interleaving goes. A row that is
retired, or a period that is open and not generated yet, is in the view already
what the request in flight is about to make of it. The three state the steps only:
`Programme` begins with tables of its own choosing (`Setups`), and the modules in
the middle of them. What each needs:

| Module | Amounts to Programme's steps if | Because otherwise |
|---|---|---|
| AssessmentLifecycle | no two requests about one student overlap, the scale is changed between requests (`RescalesAlone`), and a student's periods start on different dates (`StartsDiffer`, which `Programme` assumes) | a write lands on a row, scale or previous cycle other than the one that was judged |
| MentorAssignments | no two requests assign one student at once; a create that stops half-way is the assignment and its deletion | two creates retire each other's predecessor only |
| PeriodOpening | requests about one period come one after the other, nobody joins or leaves while a period is being opened, and no opening stops before its drafts are in; *or* nothing fails and the roster stands still, and requests race, late removals (`LateRemoval`) apart | a student is left without a draft, or drafts are cascaded away |

The instances name one cohort, or a cohort and an elsewhere, and no dimensions or
dates where the module has none; no fact of `ProgrammeAssumption` is used by those
proofs. `AssessmentLifecycle` is also shown to implement `ReviewCycle` as long as
no two requests work on one assessment.

## 3. Runs

| Run | Instance | Shows |
|---|---|---|
| lifecycle_overlap | 1 assessment, 2 dimensions, 2 scales, 2 racing requests, no stops, fairness | AgreedIsComplete, SubmittedIsScored, StampsInOrder, NoticesReachMentors |
| lifecycle_serial | 2 successive assessments, 1 dimension, scores 2, 3, 4, 6 of 5, requests one at a time, stops | ImplementsReviewCycle, ImplementsProgramme, CompletedIsFrozen, OneSubmissionNotice, FlagsAreCurrent |
| opening_overlap | 1 period, 2 students (1 mentored), 2 requests, stops, roster moves | OneReminderPerStudent, NoticesFollowDrafts |
| opening_steady | 1 period, 2 students, 2 racing requests, no stops, roster at rest, fairness | OpenedIsGenerated, GeneratedIsAnnounced, ImplementsProgramme |
| assign_serial | 3 facilitators, 2 cohorts, 2 requests, removals, stops | AtMostOneMentor, ImplementsProgramme |
| assign_overlap | 2 facilitators, 3 racing requests, no stops, fairness | NeverOrphaned, AssignmentTakesEffect |
| programme_reads | 2 students, 2 facilitators, 2 cohorts, 2 cycles (one created by a request, with any status), 2 dimensions, reviews of both, of one or of none, scores on and about the 40% boundary | TypeOK, PagesAgree, AtRiskIsGraded, HistoryStaysVisible, OverviewAddsUp, RiskCountMatches, WorkloadMatchesList, RiskIsStable, GradedIsKept |
| accounts | 2 ids, 2 addresses, 1 student code, 2 cohorts, 2 racing requests; or 1 user who signs in and resets with 2 codes | TypeOK, EnrolmentEndures, EnrolmentTakesEffect, CodesAreSingleUse, ResetEndsSessions |
| engagement | 2 students and 1 facilitator, any of them a participant or assignee, 1 session, 1 item, 1 goal, 3 notices, 2 requests | TypeOK, PickedParticipate, ToldOnce, AchievementsAreTold |
| seed | all five batches in full, any number of starts, stops anywhere | RowsHaveParents, SeededIsWhole, SeededIsLawful, SeededTellsItsStory |
| lifecycle_race, opening_backward | one property each | a statement of the repository that the code does not keep, below |

**Bounds.** They are the constants of the cfg files. The state spaces are finite
by themselves except for three counters with a named bound: `MaxPassword` (how
often a user sets his password), `MaxNotices` and `MaxOwed`. Inputs are sets of
bodies chosen in the MC modules, each with a comment saying which case it brings.

Why they are enough. Every conflict in these handlers is between two requests on
one row (three for assignments, where a refused insert needs an inserter and a
retirer besides it). Two dimensions are needed for a partial save and a partial
agreement; the second cycle for the previous one of the coaching rule and for a
trend; scores 2, 3, 4 and 6 on a scale of 5 put a score exactly on the 40%
boundary, above it on either side of another, and out of range. Two students let
one opening find the other's batch half there, and let a roster, a cohort or a
list keep somebody when the other leaves. Two cohorts are needed for a move and
for two scales. A code must be requested twice for the first to be invalidated,
and a session outlive one reset to be ended by the next. The seed is checked at
full size. The theorems remove the bounds for what they cover.

Type correctness of the three modules that describe one service each is proved,
for every instance, and is therefore no property of a run; of the composed models,
where it says that no row refers to one that is gone, it is both.

Deadlock checking is off where the system rightly stops: in the runs of
`AssessmentLifecycle` once every assessment is completed, in opening_steady once
the period is removed, in accounts and engagement once the bounds on
passwords and notices are used up or everybody is removed.

**Fairness.** Weak fairness of the next statement of every request in flight
(`Proceed`, `AnswerGoal`, `Continue`): the Node.js event loop and the database's
answer, or error, provide it. Nothing is assumed of users: no call is ever owed.
The liveness properties are claimed where no request fails half-way, by the
specification (SteadySpec) or by `env.fails`.

**What holds only without overlap or failures.** Overlapping requests can edit a
completed cycle, leave a student with two mentors or in two cohorts, use a reset
code twice, keep a session past a reset, announce an achievement twice or not at
all; and a failure between two statements of one handler can leave an active
period without assessments, an account without a cohort, a student without a
mentor, a submission without a notice. The repository promises none of them in
those circumstances except where a finding says so, and each property states the
circumstances it is claimed for.

### Disagreements with the repository's own statements

Each `violation` run checks one property that a comment or message of the code
states and that the code does not keep; the findings in `PROJECT.json` quote the
lines.

* `lifecycle_race` – two overlapping requests on one assessment: a review that
  was let in before the cycle closed edits the completed row. The property holds
  in `lifecycle_serial`, which isolates overlap as the cause. `FlagsAreCurrent`
  also needs a scale that stands still and, stronger, one request per *student*:
  the completions of two successive cycles of one student may cross, so that the
  later one is judged by a previous cycle that is not the previous one any more.
* `opening_backward` – an opened period set back to upcoming can be removed with
  its assessments; no concurrency involved.

Seen while modelling, without a run of their own: the count of students at risk
described above; any user may be named as assignee of an added action item
(coaching.service.ts:123), though coaching.repository.ts:134 says that assignees
are participants; analytics.service.ts:866 says that no module writes the audit
log, which the audit interceptor does; no sender consults the notification
rules; a seeded student of the "steady" kind in Batch 2025 comes out at risk,
because the only change of his ramp lies in the cycle that is still open; a first
seed that was interrupted is skipped by every later start, users being present.

## 4. Proofs

All theorems are for every value of the constants that satisfies the named
assumptions and for any number of requests in flight. The assumptions say of what
type the constants are (`LifecycleAssumption`, `OpeningAssumption`,
`AssignmentsAssumption`, `AccountsAssumption`, `SessionsAssumption`,
`PeopleAssumption`, `CoachingAssumption`, `GoalsAssumption`,
`NoScoreAssumption`); `ProgrammeAssumption` adds that tables are finite and that
no two periods start on one date, `ScriptAssumption` is explained below. TLC
evaluates each on the instances it checks.

**AssessmentLifecycleProofs**, whatever overlaps: `TypeCorrect`,
`AgreedAlwaysComplete`, `SubmittedAlwaysScored`, `StampsAlwaysInOrder`. None of
the last three is inductive: a write relies on a check made on a row that may
have changed since. The strengthening is `RequestsAreSound`: scores and
timestamps are only ever added (`OverlayKeeps`), so what a check found filled in
still is filled in when the request writes, however stale the status it saw. Only
the status itself can go stale, which is why exactly the properties of
`lifecycle_serial` need requests not to overlap.

Those follow in the second part, with half-way stops and scale changes, for
requests of which no two work on one assessment at a time: `AlwaysFresh`,
`CompletedStaysFrozen`, `SubmittedSelfStaysFrozen`, `AnnouncedAtMostOnce`, and
`Implements`, that the handlers implement `ReviewCycle`. The inductive invariant
`Serial` adds `RequestsAreFresh`: the row a request is working on is the row it
read. A write therefore finds the status its check found (`WriteFinds`), so it is
one step of the abstract cycle (`CycleStep`) and every other step stutters.
`NoticeInv` ties the count of announcements to the one step out of draft.
Two of them hold under less, for any overlap: `CompletedAloneStaysFrozen` asks only
that no other request is in flight on a cycle at the moment it is completed, and
`SelfSubmittedAloneStaysFrozen` that nobody is saving self scores at the moment they
are submitted. Whoever comes later is refused by the check of his own request
(`InFlightBefore`), so the races of `lifecycle_race` are the only ones that edit what
is closed.

`FlagsAlwaysCurrent` assumes one request per student and a scale that stands
still; its invariant, `CompletionsAreCurrent`, says that a completion in flight
holds the previous cycle that still is the previous one. TLC finds the flags go
wrong when requests are only serial per assessment. `ImplementsComposed`, under
one more hypothesis each about scale and dates, is the refinement of `Programme`:
besides `Serial` and `CompletionsAreCurrent` it needs that what a review was let in
with is still let in when it writes (`ReviewsStayLet`).

**PeriodOpeningProofs**: `TypeCorrect`, `RemindedAtMostOnce`,
`NoticesAlwaysFollowDrafts`, with racing openers, failures and a changing roster.
The strengthening is `BatchesAreDisjoint`: the transaction that creates a batch
succeeds only if none of its students has an assessment, so it gives its request
the sole right to announce them. `HistoryAlwaysKept` shows what it takes for
generated history not to be deleted: periods that only move forward, *and* one
request per period at a time. The run opening_backward shows the first condition
to be needed; the second is there because a removal judges the status it read,
and an opening may come between.

`ImplementsComposed` and `RacesImplementComposed` are its refinement of
`Programme`, for orderly and for racing requests. What a view adds to the tables is
gone when the request has drafted, so each proof has to show that the drafts are
then complete. For orderly requests, `OrderInv`: what a request has read is still
so. For racing ones nothing that a request has read need be so, and the invariant
`SteadyInv` is about the tables instead: a period has all of its drafts or none
(`AllOrNone`), one that is active is generated or being generated (`Done`), and so
is one that a request takes for open. A batch that the unique index refuses
therefore lost to a complete one, and a request that finds a period already active
may leave it to the other.

**MentorAssignmentsProofs**: `TypeCorrect`; `SerialMentorship` (`AtMostOneMentor`
when no student is assigned by two requests at once), by the invariant that a
request past its retirement has no rival row left and no competitor to bring one
back; `ImplementsComposed`, its refinement of `Programme`, by the same invariant and
the fact that what find saw missing is still missing at the insert (`StillMissing`);
`MentorshipEndures` (`NeverOrphaned` without failures and removals, for *any*
overlap), by `SuccessorExists`: whoever retires a mentor is about to assign one, and
can be prevented only by another who just has.

**SessionsProofs**: `SessionsAlwaysTyped`, `EnrolmentAlwaysEndures`,
`CodesAlwaysSingleUse`, `ResetAlwaysEndsSessions`. `EnrolInv`: without overlap
one request is at work at a time (`Alone`), so between the two statements of
`setCohort` its user is in no cohort and nobody else enrols them (`JoinsNone`).
`AuthInv`: sessions and active codes belong to live users, and a visit that is
resetting a password holds a code of its own user. `CodesInv`: a code is used up
before it sets a password; and, where requests do not overlap, one visit is under
way, a code that is open or about to be used has set no password, a code sets one
password at most, and a user has one open code, because the codes of before are
invalid when a new one is written. `ResetInv`: without overlap and failures, no
code has set a password newer than the account's, than the one a request about to
open a session has checked, or than the one a session was opened with, unless that
user's sessions are just being revoked.

**EngagementProofs**: `RowsAlwaysReferToRows`, `PickedAlwaysParticipate`,
`AchievementsAlwaysToldOnce`. The participants and the items of a session are
written apart from the read that chose them, so the invariant follows the choice
through the handler (`PickedRequests`, `ReadsCurrent`); an achievement that has
been written and not told is owed by a request that is about to tell it
(`OwedWhileTelling`).

**ProgrammeProofs**: of the tables, `TablesAlwaysRefer` and `GradedAlwaysKept`;
of the answers, every property of `programme_reads`: `AtRiskAlwaysGraded`,
`HistoryAlwaysVisible`, `RiskAlwaysStable`, `RiskCountAlwaysMatches`,
`WorkloadAlwaysMatches`, `OverviewAlwaysAddsUp`, `PagesAlwaysAgree`. The
invariant `ProgrammeInv` says besides the types that an assessment has score rows
only for dimensions of its own cohort, and that a graded one has at least one and
an agreed score for each: the first keeps retired dimensions visible, the second
keeps the average of nothing, zero, off the list of students at risk. Both are
established far from where they are used, at the opening of a period and at the
agreement. The rest is about the reads:

* *Sums.* `SumFunction` folds over a set in an order nobody knows.
  `SumTheorems` proves of every finite domain that the order does not matter, that
  class sizes add up to the size of the whole, and bounds, each by taking a
  minimal subset on which it fails.
* *The two pages* list different rows: periods of the cohort, with gaps, and
  completed assessments. `OrderedHasPlaces` shows that an ordered list has each
  row in one place, `TrendIgnoresGaps` that the trend depends only on the values
  and their dates; both pages then show the trend of one set. The order of lists
  is defined by places for this reason: the prover knows no definition of the
  library's sorting.
* `ZonesAlwaysMeetRisk`, which no run checks: classifyZone and isAtRisk each have
  the boundary of 40%, and rounding an average never crosses it, so that whoever
  has nothing but weak zones is listed as at risk and whoever has none is not,
  unless for his flags.
* `WeeksAddUp` and `FeedIsComplete` are the named assumptions of `MCProgramme`,
  which TLC evaluates over bounded inputs, for all inputs.

**SeedProofs**: `ParentsAlwaysThere`, `SeededAlwaysWhole`, `SeededAlwaysLawful`,
`SeededAlwaysTellsItsStory`. The run `seed` covers
the script that is there today in full; the first two theorems cover any script of which
`ScriptAssumption` holds (users first, nothing before what it refers to, nothing
twice), with the wipe in the order the code has. TLC evaluates that assumption on
the real script. The invariant says how far a run has come: tables before the
current one are empty and users still there while wiping; exactly what was
written so far, while writing; and between runs, a database without users is
empty, which is why users have to go last.

The other two are about the data that `SeedData` computes for the five batches. TLC
evaluates all of it; the proof says why it comes out, and for the curves it does so
for every scale and number of cycles, not only the ones of today. `RampShape`: a
ramp goes from its first level to its last in steps of one, all of them in its last
cycles. `ShiftFits`: shifted by its offset and back into the scale, it is not
clipped. `SeriesShape` puts them together: every score is within a scale of at least
2, and on one of at least 5 the last two cycles rise for who improves and fall for
who regresses, so that it does not matter whether the open cycle is the most recent.
The flags then follow from the coaching rule, standing at risk from the average of
eight such scores (`AboveOnAverage`), and the demo roster from the way students are
dealt to the facilitators of their batch (`TeamsAre`).

`TypeCorrect`, `AlwaysFresh`, `SubmittedSelfStaysFrozen`,
`SelfSubmittedAloneStaysFrozen`, `HistoryAlwaysKept`,
`ZonesAlwaysMeetRisk` and the two theorems about pure functions state what no
passing run repeats.

**Only model-checked:** the liveness properties, because fairness and ENABLED are
out of the prover's reach: `NoticesReachMentors`, `OpenedIsGenerated`,
`GeneratedIsAnnounced`, `AssignmentTakesEffect`, `EnrolmentTakesEffect`,
`AchievementsAreTold`. Every other property of a passing run is a theorem.

## 5. Not modelled, and abstractions to know

* Audit, mail, health, guards, pagination, notification rules, configuration:
  I/O, stateless plumbing, or state that nothing else reads.
* The profile a user edits himself (name, tags, availability, avatar); dates,
  notes, target dimensions and status of coaching sessions; title, progress and
  milestones of goals: stored as given.
* Paging, sorting and text search of the lists.
* The queries of one analytics endpoint are taken at one moment, although they
  run side by side: between two of them a completion may be counted by one only.
* Deletion of users is part of `Programme`, `Accounts` and `Engagement`; the
  modules about one handler's interleavings keep their users. Roles are
  kept nowhere, the active flag only in `Accounts`, for the sign-in, and in the
  seed: what other handlers read of them is a choice (see `Programme` and
  `Coaching` above) or decides whether they get anywhere.
* The `order` column of dimensions: of two with one average either may be among the
  three weakest.
* Self and mentor scores of the seed are random; only whether they are present
  is kept. Its dates are left out, among them that a seeded agreement can lie
  before the submission early in a month.
* PostgreSQL's default isolation is assumed: single statements and transactions
  are atomic, nothing else is. Two seeds never run at once.

## 6. Plan

Built: everything above. Left:

1. Percentages within 0 and 100 for every endpoint that shows one.
2. `FlagsAreCurrent` from a hypothesis about the moment of the completion alone, as
   `CompletedIsFrozen` has one: which overlaps exactly leave the flags current.
3. The same refinement of `Programme` for `Accounts`, whose removal of a user
   cascades through the tables of all three modules that are shown to implement it.
