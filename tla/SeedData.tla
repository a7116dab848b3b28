------------------------------- MODULE SeedData -------------------------------
(***************************************************************************)
(* The assessments that prisma/seed.ts writes into an empty database: who  *)
(* is in which batch, who mentors whom, and the scores of every cycle.     *)
(* They bypass the service, so nothing but the seed's own arithmetic makes *)
(* them rows the service could have written.                               *)
(*                                                                         *)
(* Batches and cycles count from 1; students, dimensions and facilitators  *)
(* count from 0, as the seed's arithmetic on them does.  Self and mentor   *)
(* scores are random around the agreed one, so only whether they are there *)
(* is kept; names, texts and dates are left out.                           *)
(***************************************************************************)
EXTENDS AnalyticsLogic, FiniteSetsExt, TLC

Rule == INSTANCE AssessmentLogic

Cyclic(list, i) == list[(i % Len(list)) + 1]

-----------------------------------------------------------------------------
(* What is to be seeded. *)

\* COHORTS; `open` batches have one more cycle, in progress.
Batch(scale, closed, open, students) ==
  [scale |-> scale, closed |-> closed, open |-> open, students |-> students]

COHORTS == <<Batch(5, 8, FALSE, 12), Batch(10, 8, FALSE, 12), Batch(5, 8, FALSE, 12),
             Batch(5, 6, TRUE, 14), Batch(10, 2, TRUE, 14)>>

Dims == 0 .. 7

\* ARCHETYPES: start and end, in percent of the scale.
ARCHETYPES == [improving  |-> <<52, 98>>, steady     |-> <<62, 82>>,
               stagnant   |-> <<60, 60>>, regressing |-> <<86, 44>>]

ARCHETYPE_CYCLE == <<"improving", "steady", "improving", "stagnant",
                     "improving", "regressing", "steady", "improving">>

OFFSET_PATTERN == <<0, 1, 0, 1, -1, 0, 1, 0>>

DEMO_COHORT == 4

DEMO_ROSTER_STATUSES ==
  <<"draft", "self_submitted", "mentor_review", "agreed", "completed">>

OPEN_CYCLE_SPREAD ==
  <<"draft", "draft", "self_submitted", "self_submitted", "self_submitted",
    "mentor_review", "mentor_review", "agreed", "agreed", "completed", "completed",
    "draft", "self_submitted", "mentor_review">>

Archetype(s) == Cyclic(ARCHETYPE_CYCLE, s)

\* Students of the demo cohort whose open cycle is pinned.
Pinned(c, s) == c = DEMO_COHORT /\ s < Len(DEMO_ROSTER_STATUSES)

-----------------------------------------------------------------------------
(* Scores. *)

Towards(a, b) == IF a < b THEN 1 ELSE IF a > b THEN -1 ELSE 0

\* Fault: the changes are placed at the beginning.
RampEarly(start, end, cycles) ==
  LET changing == Min({Max({end - start, start - end}), cycles - 1})
  IN  [i \in 1 .. cycles |-> start + Towards(start, end) * Min({i - 1, changing})]

\* From `start` to `end` in steps of one, all of them at the end of the run; a
\* short run does not get there.
Ramp(start, end, cycles) ==
  LET changing == Min({Max({end - start, start - end}), cycles - 1})
      flat == cycles - 1 - changing
  IN  [i \in 1 .. cycles |-> start + Towards(start, end) * Max({0, i - 1 - flat})]

\* How far one of the two lies above or below the scale.
Overflow(first, last, scaleMax) == Max({0, first - scaleMax, last - scaleMax})
Underflow(first, last) == Max({0, 1 - first, 1 - last})

\* scoreSeries: both ends are shifted by as much, so that the span is kept.  The
\* clamp after that never has anything to do.
ScoreSeries(archetype, scaleMax, cycles, offset) ==
  LET End(i) == Rounded(ARCHETYPES[archetype][i] * scaleMax, 100) + offset
      over == Overflow(End(1), End(2), scaleMax)
      shift == Underflow(End(1) - over, End(2) - over) - over
  IN  Ramp(End(1) + shift, End(2) + shift, cycles)

-----------------------------------------------------------------------------
(* Rows. *)

Cycles(c) == 1 .. COHORTS[c].closed + (IF COHORTS[c].open THEN 1 ELSE 0)

Pupils(c) == 0 .. COHORTS[c].students - 1

StatusOf(c, s, p) ==
  CASE p <= COHORTS[c].closed -> "completed"
    [] p > COHORTS[c].closed /\ Pinned(c, s) -> DEMO_ROSTER_STATUSES[s + 1]
    [] OTHER -> Cyclic(OPEN_CYCLE_SPREAD, s + 3 * (c - 1))

Series(c, s, d) ==
  ScoreSeries(Archetype(s), COHORTS[c].scale, Cardinality(Cycles(c)),
              Cyclic(OFFSET_PATTERN, d + 3 * s))

\* Fault: the open cycle is flagged before it is completed.
FlaggedOpen(c, s, p, d) ==
  Rule!IsCoachingRecommended(Series(c, s, d)[p], COHORTS[c].scale,
                             IF p = 1 THEN NoScore ELSE Series(c, s, d)[p - 1])

Flagged(c, s, p, d) ==
  /\ StatusOf(c, s, p) = "completed"
  /\ Rule!IsCoachingRecommended(Series(c, s, d)[p], COHORTS[c].scale,
                                IF p = 1 THEN NoScore ELSE Series(c, s, d)[p - 1])

\* Any self score; random, see above.
SomeScore == 1

\* The row of student s and cycle p, in the shape of AssessmentLifecycle.
Seeded(c, s, p) ==
  LET status == StatusOf(c, s, p)
      hasSelf == status # "draft"
      hasAgreed == status \in {"agreed", "completed"}
  IN  [status |-> status,
       stamps |-> (IF hasSelf THEN {"submittedAt"} ELSE {})
                  \cup (IF hasAgreed THEN {"mentorSubmittedAt"} ELSE {})
                  \cup (IF status = "completed" THEN {"completedAt"} ELSE {}),
       self |-> [d \in Dims |-> IF hasSelf THEN SomeScore ELSE NoScore],
       agreed |-> [d \in Dims |-> IF hasAgreed THEN Series(c, s, d)[p] ELSE NoScore],
       flagged |-> {d \in Dims : Flagged(c, s, p, d)}]

SeededRows ==
  [c \in DOMAIN COHORTS |-> [s \in Pupils(c) |-> [p \in Cycles(c) |-> Seeded(c, s, p)]]]

-----------------------------------------------------------------------------
(* Mentors. *)

FACILITATOR_COUNT == 8

\* One facilitator has left the programme.
IsActive(f) == f # FACILITATOR_COUNT - 1

\* The filter, for one facilitator.
IfActive(f) == IF IsActive(f) THEN <<f>> ELSE <<>>

\* The facilitators of a batch, in order; the demo facilitator is the first of
\* the demo cohort's.
CohortFacilitators(c) ==
  LET b == c - 1
      first == IF c = DEMO_COHORT THEN 0 ELSE b % FACILITATOR_COUNT
  IN  IfActive(first) \o IfActive((b + 1) % FACILITATOR_COUNT)
      \o IfActive((b + 4) % FACILITATOR_COUNT)

FacilitatorOf(c, s) ==
  IF Pinned(c, s) THEN CohortFacilitators(c)[1] ELSE Cyclic(CohortFacilitators(c), s)

-----------------------------------------------------------------------------
(* Properties. *)

\* The lifecycle of the assessments of student s of batch c.
Lifecycle(c, s) ==
  INSTANCE AssessmentLifecycle WITH
    Assessments <- Cycles(c),
    Dimensions <- Dims,
    Students <- {s},
    Facilitators <- 0 .. FACILITATOR_COUNT - 1,
    StudentOf <- [p \in Cycles(c) |-> s],
    StartOf <- [p \in Cycles(c) |-> p],
    Mentors <- s :> {FacilitatorOf(c, s)},
    Scores <- 1 .. COHORTS[c].scale,
    Scales <- {COHORTS[c].scale},
    Workers <- {},
    Overlapping <- FALSE,
    row <- SeededRows[c][s],
    scale <- COHORTS[c].scale,
    req <- <<>>,
    submissionNotices <- [p \in Cycles(c) |-> 0],
    coachingNotices <- {}

\* The seed writes what the service could have written (seed.ts:796, :873): rows
\* within the scale, complete where they must be, with timestamps up to their
\* status, and flagged by the rule against the cycle before, never while open.
SeedIsLawful ==
  \A c \in DOMAIN COHORTS : \A s \in Pupils(c) :
    /\ Lifecycle(c, s)!TypeOK
    /\ Lifecycle(c, s)!AgreedIsComplete
    /\ Lifecycle(c, s)!SubmittedIsScored
    /\ Lifecycle(c, s)!StampsInOrder
    /\ \A p \in Cycles(c) :
         LET a == SeededRows[c][s][p]
         IN  IF a.status # "completed" THEN a.flagged = {}
             ELSE \E q \in Lifecycle(c, s)!PreviousAgreedScores(p) :
                    a.flagged = Lifecycle(c, s)!Recommended(a.agreed, COHORTS[c].scale, q)

LastCompleted(c, s) == Max({p \in Cycles(c) : StatusOf(c, s, p) = "completed"})

FlagsOf(c, s) == SeededRows[c][s][LastCompleted(c, s)].flagged

SeededAtRisk(c, s) ==
  LET agreed == SeededRows[c][s][LastCompleted(c, s)].agreed
  IN  IsAtRisk(Average([d \in Dims |-> 100 * agreed[d]]), COHORTS[c].scale,
               Cardinality(FlagsOf(c, s)))

\* "An improving student's most recent cycle always shows real movement, so they
\* are not flagged; a regressing one's always shows a drop, so they are"
\* (seed.ts:411), in every batch, dimension and scale, and whether or not the
\* open cycle is already their most recent; so the dashboard lists those who
\* stagnate or regress and none who improve.
ArchetypesShow ==
  \A c \in DOMAIN COHORTS : \A s \in Pupils(c) :
    /\ Archetype(s) = "improving" => FlagsOf(c, s) = {} /\ ~ SeededAtRisk(c, s)
    /\ Archetype(s) = "regressing" => FlagsOf(c, s) = Dims
    /\ Archetype(s) \in {"regressing", "stagnant"} => SeededAtRisk(c, s)

\* "Logging in as facilitator@pnc.edu always presents one of every reviewable
\* state on one roster" (seed.ts:227), and nobody is left to a facilitator who
\* has gone.
DemoRosterIsFull ==
  /\ {StatusOf(DEMO_COHORT, s, Max(Cycles(DEMO_COHORT))) :
        s \in {t \in Pupils(DEMO_COHORT) : FacilitatorOf(DEMO_COHORT, t) = 0}}
       = {"draft", "self_submitted", "mentor_review", "agreed", "completed"}
  /\ \A c \in DOMAIN COHORTS : \A s \in Pupils(c) : IsActive(FacilitatorOf(c, s))
=============================================================================
