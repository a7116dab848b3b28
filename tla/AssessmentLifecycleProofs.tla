---------------------- MODULE AssessmentLifecycleProofs ----------------------
(***************************************************************************)
(* Proofs about AssessmentLifecycle for every set of assessments,          *)
(* dimensions and scores and any number of requests in flight.             *)
(*                                                                         *)
(* The first part is about any overlap.  The second is about requests of   *)
(* which no two work on one assessment: nothing they have read is stale    *)
(* when they write, so the status checks mean what they say, and the       *)
(* handlers implement ReviewCycle.                                         *)
(***************************************************************************)
EXTENDS AssessmentLifecycle, TLAPS

\* Writing a payload over stored scores gives stored scores: applyScoreUpdates
\* never leaves a column in between.
LEMMA OverlayType ==
  ASSUME NEW stored \in ScoreMap, NEW given \in ScoreMap
  PROVE  Overlay(stored, given) \in ScoreMap
BY DEF ScoreMap, Overlay

\* A payload enters and corrects scores, it never removes one.
LEMMA OverlayKeeps ==
  ASSUME NEW stored, NEW given, NEW d \in Dimensions
  PROVE  Overlay(stored, given)[d] = NoScore <=> stored[d] = NoScore /\ given[d] = NoScore
BY DEF Overlay

LEMMA NoScoresType == NoScores \in ScoreMap
BY DEF NoScores, ScoreMap

LEMMA LoadedType ==
  ASSUME NEW op \in Ops \ {"submitSelf"}, NEW a \in Assessments, row[a] \in Row,
         NEW given \in ScoreMap, NEW mark \in BOOLEAN
  PROVE  Loaded(op, a, given, mark) \in Request
BY DEF Loaded, Request

LEMMA ReadyType ==
  ASSUME NEW op \in Ops, NEW a \in Assessments, NEW given \in ScoreMap,
         NEW status \in Statuses \cup {Keep}, NEW flagged \in SUBSET Dimensions
  PROVE  Ready(op, a, given, status, flagged) \in Request
BY DEF Ready, Request

LEMMA NotifyType ==
  ASSUME NEW op \in {"submitSelf", "submitMentor"}, NEW a \in Assessments
  PROVE  Notify(op, a) \in Request
BY DEF Notify, Request

LEMMA IdleType == Idle \in Request
BY DEF Request

\* What the stage of a request says of its other fields.
LEMMA RequestShape ==
  ASSUME NEW r \in Request
  PROVE  /\ r.stage = "loaded" => /\ r.op \in Ops \ {"submitSelf"} /\ r.a \in Assessments
                                  /\ r.snap \in Row /\ r.given \in ScoreMap
                                  /\ r.mark \in BOOLEAN
         /\ r.stage = "scaled" => /\ r.a \in Assessments /\ r.snap \in Row
                                  /\ r.scaleMax \in Scales
         /\ r.stage = "ready" => /\ r.op \in Ops /\ r.a \in Assessments
                                 /\ r.given \in ScoreMap
                                 /\ r.status \in Statuses \cup {Keep}
                                 /\ r.flagged \in SUBSET Dimensions
         /\ r.stage = "notify" => /\ r.op \in {"submitSelf", "submitMentor"}
                                  /\ r.a \in Assessments
BY DEF Request, Idle

-----------------------------------------------------------------------------
(* Type correctness. *)

LEMMA PreviousType ==
  ASSUME TypeOK, NEW a \in Assessments, NEW previous \in PreviousAgreedScores(a)
  PROVE  previous \in ScoreMap
BY NoScoresType DEF PreviousAgreedScores, PreviousRows, TypeOK, Row

LEMMA BecomesType ==
  ASSUME TypeOK, NEW w \in Workers, NEW r \in Request, Becomes(w, r)
  PROVE  req' \in [Workers -> Request]
BY DEF TypeOK, Becomes

LEMMA LoadType ==
  ASSUME TypeOK, NEW w \in Workers, NEW a \in Assessments
  PROVE  /\ \A given \in ScoreMap : SaveSelf(w, a, given) => TypeOK'
         /\ SubmitSelf(w, a) => TypeOK'
         /\ \A given \in ScoreMap, mark \in BOOLEAN :
              SaveMentor(w, a, given, mark) => TypeOK'
         /\ SubmitMentor(w, a) => TypeOK'
<1> USE NoScoresType
<1>0. row[a] \in Row
  BY DEF TypeOK
<1>1. ASSUME NEW given \in ScoreMap, SaveSelf(w, a, given) PROVE TypeOK'
  <2>1. Loaded("saveSelf", a, given, FALSE) \in Request
    BY <1>0, LoadedType DEF Ops
  <2>2. QED
    BY <1>1, <2>1, BecomesType DEF SaveSelf, TypeOK
<1>2. ASSUME SubmitSelf(w, a) PROVE TypeOK'
  <2>1. Ready("submitSelf", a, NoScores, "self_submitted", {}) \in Request
    BY ReadyType DEF Ops, Statuses
  <2>2. QED
    BY <1>2, <2>1, BecomesType DEF SubmitSelf, TypeOK
<1>3. ASSUME NEW given \in ScoreMap, NEW mark \in BOOLEAN, SaveMentor(w, a, given, mark)
      PROVE  TypeOK'
  <2>1. Loaded("saveMentor", a, given, mark) \in Request
    BY <1>0, LoadedType DEF Ops
  <2>2. QED
    BY <1>3, <2>1, BecomesType DEF SaveMentor, TypeOK
<1>4. ASSUME SubmitMentor(w, a) PROVE TypeOK'
  <2>1. Loaded("submitMentor", a, NoScores, FALSE) \in Request
    BY <1>0, LoadedType DEF Ops
  <2>2. QED
    BY <1>4, <2>1, BecomesType DEF SubmitMentor, TypeOK
<1>5. QED
  BY <1>1, <1>2, <1>3, <1>4

LEMMA CheckType ==
  ASSUME TypeOK, NEW w \in Workers,
         CheckSaveSelf(w) \/ CheckSaveMentor(w) \/ ReadScale(w) \/ ReadPrevious(w)
  PROVE  TypeOK'
<1> DEFINE r == req[w]
<1>0. r \in Request
  BY DEF TypeOK
<1>1. CASE CheckSaveSelf(w)
  <2>1. Ready("saveSelf", r.a, r.given, Keep, {}) \in Request
    BY <1>0, <1>1, RequestShape, ReadyType DEF CheckSaveSelf, Ops
  <2>2. QED
    BY <1>1, <2>1, IdleType, BecomesType DEF CheckSaveSelf, TypeOK
<1>2. CASE CheckSaveMentor(w)
  <2>1. ReviewStatus(r) \in Statuses \cup {Keep}
    BY DEF ReviewStatus, Statuses
  <2>2. Ready("saveMentor", r.a, r.given, ReviewStatus(r), {}) \in Request
    BY <1>0, <1>2, <2>1, RequestShape, ReadyType DEF CheckSaveMentor, Ops
  <2>3. QED
    BY <1>2, <2>2, IdleType, BecomesType DEF CheckSaveMentor, TypeOK
<1>3. CASE ReadScale(w)
  <2>1. Scaled(r) \in Request
    BY <1>0, <1>3, RequestShape DEF ReadScale, Scaled, Request, TypeOK
  <2>2. QED
    BY <1>3, <2>1, BecomesType DEF ReadScale, TypeOK
<1>4. CASE ReadPrevious(w)
  <2>1. PICK previous \in PreviousAgreedScores(r.a) :
          Becomes(w, Ready("submitMentor", r.a, NoScores, "completed",
                           Recommended(r.snap.agreed, r.scaleMax, previous)))
    BY <1>4 DEF ReadPrevious
  <2>2. Recommended(r.snap.agreed, r.scaleMax, previous) \in SUBSET Dimensions
    BY DEF Recommended
  <2>3. Ready("submitMentor", r.a, NoScores, "completed",
              Recommended(r.snap.agreed, r.scaleMax, previous)) \in Request
    BY <1>0, <1>4, <2>2, RequestShape, ReadyType, NoScoresType
       DEF ReadPrevious, Ops, Statuses
  <2>4. QED
    BY <1>4, <2>1, <2>3, BecomesType DEF ReadPrevious, TypeOK
<1>5. QED
  BY <1>1, <1>2, <1>3, <1>4

LEMMA WriteType ==
  ASSUME TypeOK, NEW w \in Workers,
         WriteSelf(w) \/ WriteSubmitted(w) \/ WriteReview(w) \/ WriteCompleted(w)
  PROVE  TypeOK'
<1> DEFINE r == req[w]
<1>0. /\ r \in Request
      /\ r.stage = "ready"
      /\ r.a \in Assessments /\ row[r.a] \in Row
      /\ r.given \in ScoreMap
      /\ r.status \in Statuses \cup {Keep}
      /\ r.flagged \in SUBSET Dimensions
  BY RequestShape
     DEF TypeOK, WriteSelf, WriteSubmitted, WriteReview, WriteCompleted
<1>1. CASE WriteSelf(w)
  <2>1. Overlay(row[r.a].self, r.given) \in ScoreMap
    BY <1>0, OverlayType DEF Row
  <2>2. row' \in [Assessments -> Row]
    BY <1>0, <1>1, <2>1 DEF WriteSelf, TypeOK, Row
  <2>3. QED
    BY <1>1, <2>2, IdleType, BecomesType DEF WriteSelf, TypeOK
<1>2. CASE WriteSubmitted(w)
  <2>1. row' \in [Assessments -> Row]
    BY <1>0, <1>2 DEF WriteSubmitted, TypeOK, Row, Statuses, Stamps
  <2>2. req' \in [Workers -> Request]
    BY <1>0, <1>2, IdleType, NotifyType, BecomesType DEF WriteSubmitted, AfterSubmit
  <2>3. QED
    BY <1>2, <2>1, <2>2 DEF WriteSubmitted, TypeOK
<1>3. CASE WriteReview(w)
  <2>1. Overlay(row[r.a].agreed, r.given) \in ScoreMap
    BY <1>0, OverlayType DEF Row
  <2>2. row' \in [Assessments -> Row]
    BY <1>0, <1>3, <2>1 DEF WriteReview, TypeOK, Row, Statuses, Stamps
  <2>3. QED
    BY <1>3, <2>2, IdleType, BecomesType DEF WriteReview, TypeOK
<1>4. CASE WriteCompleted(w)
  <2>1. row' \in [Assessments -> Row]
    BY <1>0, <1>4 DEF WriteCompleted, TypeOK, Row, Statuses, Stamps
  <2>2. req' \in [Workers -> Request]
    BY <1>0, <1>4, IdleType, NotifyType, BecomesType DEF WriteCompleted, AfterComplete
  <2>3. QED
    BY <1>4, <2>1, <2>2 DEF WriteCompleted, TypeOK
<1>5. QED
  BY <1>1, <1>2, <1>3, <1>4

LEMMA TypeInit == Init => TypeOK
<1>1. Draft \in Row
  BY NoScoresType DEF Draft, Row, Statuses
<1>2. QED
  BY <1>1, IdleType DEF Init, TypeOK

LEMMA TypeStep == TypeOK /\ [Next]_vars => TypeOK'
<1> SUFFICES ASSUME TypeOK, [Next]_vars PROVE TypeOK'
  OBVIOUS
<1>1. ASSUME NEW w \in Workers, Call(w) PROVE TypeOK'
  BY <1>1, LoadType DEF Call
<1>2. ASSUME NEW w \in Workers, Proceed(w) PROVE TypeOK'
  <2>1. CASE CheckSaveSelf(w) \/ CheckSaveMentor(w) \/ ReadScale(w) \/ ReadPrevious(w)
    BY <2>1, CheckType
  <2>2. CASE WriteSelf(w) \/ WriteSubmitted(w) \/ WriteReview(w) \/ WriteCompleted(w)
    BY <2>2, WriteType
  <2>3. CASE NotifyMentor(w)
    <3>1. req[w].a \in Assessments
      BY <2>3, RequestShape DEF NotifyMentor, TypeOK
    <3>2. QED
      BY <2>3, <3>1, IdleType, BecomesType DEF NotifyMentor, TypeOK
  <2>4. CASE NotifyCoaching(w)
    <3>1. req[w].a \in Assessments
      BY <2>4, RequestShape DEF NotifyCoaching, TypeOK
    <3>2. QED
      BY <2>4, <3>1, IdleType, BecomesType DEF NotifyCoaching, TypeOK
  <2>5. QED
    BY <1>2, <2>1, <2>2, <2>3, <2>4 DEF Proceed
<1>3. ASSUME NEW w \in Workers, Stop(w) PROVE TypeOK'
  BY <1>3, IdleType, BecomesType DEF Stop, TypeOK
<1>4. ASSUME NEW s \in Scales, Rescale(s) PROVE TypeOK'
  BY <1>4 DEF Rescale, TypeOK
<1>5. CASE UNCHANGED vars
  BY <1>5 DEF vars, TypeOK
<1>6. QED
  BY <1>1, <1>2, <1>3, <1>4, <1>5 DEF Next, Steady

\* Rows and requests in flight stay within their types: in particular no request
\* reaches its write without a target row, whatever it raced with.
THEOREM TypeCorrect == Spec => []TypeOK
BY TypeInit, TypeStep, PTL DEF Spec

-----------------------------------------------------------------------------
(* What races cannot break: scores and timestamps only ever accumulate.    *)

\* How one write may change a row, whoever makes it.
Grown(old, new) ==
  /\ Within(old.self, new.self)
  /\ Within(old.agreed, new.agreed)
  /\ old.stamps \subseteq new.stamps

LEMMA OverlayWithin ==
  ASSUME NEW stored, NEW given
  PROVE  Within(stored, Overlay(stored, given))
BY OverlayKeeps DEF Within

LEMMA WithinReflexive == ASSUME NEW s PROVE Within(s, s)
BY DEF Within

LEMMA CompleteGrows ==
  ASSUME NEW old, NEW new, Within(old, new), Complete(old)
  PROVE  Complete(new)
BY DEF Within, Complete

\* What one request's write does to the row it targets.
Written(w, new) ==
  LET r == req[w]
      now == row[r.a]
  IN  \/ /\ r.op = "saveSelf"
         /\ new.status = now.status /\ new.stamps = now.stamps
         /\ new.self = Overlay(now.self, r.given) /\ new.agreed = now.agreed
         /\ new.flagged = now.flagged
      \/ /\ r.op = "submitSelf"
         /\ new.status = "self_submitted" /\ new.stamps = now.stamps \cup {"submittedAt"}
         /\ new.self = now.self /\ new.agreed = now.agreed
         /\ new.flagged = now.flagged
      \/ /\ r.op = "saveMentor"
         /\ new.status = IF r.status = Keep THEN now.status ELSE r.status
         /\ new.stamps = IF r.status = "agreed"
                           THEN now.stamps \cup {"mentorSubmittedAt"} ELSE now.stamps
         /\ new.self = now.self /\ new.agreed = Overlay(now.agreed, r.given)
         /\ new.flagged = now.flagged
      \/ /\ r.op = "submitMentor"
         /\ new.status = "completed" /\ new.stamps = now.stamps \cup {"completedAt"}
         /\ new.self = now.self /\ new.agreed = now.agreed
         /\ new.flagged = r.flagged

Write(w) == WriteSelf(w) \/ WriteSubmitted(w) \/ WriteReview(w) \/ WriteCompleted(w)

\* A write changes one row, the request's, and its own request only.
LEMMA WriteEffect ==
  ASSUME TypeOK, NEW w \in Workers, Write(w)
  PROVE  /\ req[w].stage = "ready" /\ req[w].a \in Assessments
         /\ row[req[w].a] \in Row /\ row'[req[w].a] \in Row
         /\ Written(w, row'[req[w].a])
         /\ \A b \in Assessments : b # req[w].a => row'[b] = row[b]
         /\ \A v \in Workers : v # w => req'[v] = req[v]
         /\ ~ InFlight(req'[w])
         /\ scale' = scale
<1> DEFINE r == req[w]
<1>0. /\ r \in Request /\ r.stage = "ready" /\ r.a \in Assessments
      /\ row[r.a] \in Row
  BY RequestShape
     DEF TypeOK, Write, WriteSelf, WriteSubmitted, WriteReview, WriteCompleted
<1>1. row' \in [Assessments -> Row]
  BY WriteType DEF Write, TypeOK
<1>2. CASE WriteSelf(w)
  <2>1. Written(w, row'[r.a])
    BY <1>0, <1>2 DEF WriteSelf, Written, TypeOK, Row
  <2>2. QED
    BY <1>0, <1>1, <1>2, <2>1 DEF WriteSelf, TypeOK, Becomes, Idle, InFlight
<1>3. CASE WriteSubmitted(w)
  <2>1. Written(w, row'[r.a])
    BY <1>0, <1>3 DEF WriteSubmitted, Written, TypeOK, Row
  <2>2. QED
    BY <1>0, <1>1, <1>3, <2>1
       DEF WriteSubmitted, AfterSubmit, TypeOK, Becomes, Idle, Notify, InFlight
<1>4. CASE WriteReview(w)
  <2>1. Written(w, row'[r.a])
    BY <1>0, <1>4 DEF WriteReview, Written, TypeOK, Row
  <2>2. QED
    BY <1>0, <1>1, <1>4, <2>1 DEF WriteReview, TypeOK, Becomes, Idle, InFlight
<1>5. CASE WriteCompleted(w)
  <2>1. Written(w, row'[r.a])
    BY <1>0, <1>5 DEF WriteCompleted, Written, TypeOK, Row
  <2>2. QED
    BY <1>0, <1>1, <1>5, <2>1
       DEF WriteCompleted, AfterComplete, TypeOK, Becomes, Idle, Notify, InFlight
<1>6. QED
  BY <1>2, <1>3, <1>4, <1>5 DEF Write

LEMMA WriteGrows ==
  ASSUME TypeOK, NEW w \in Workers, Write(w), NEW a \in Assessments
  PROVE  Grown(row[a], row'[a])
<1>1. CASE a = req[w].a
  <2>1. /\ Within(row[a].self, row[a].self)
        /\ Within(row[a].self, Overlay(row[a].self, req[w].given))
        /\ Within(row[a].agreed, row[a].agreed)
        /\ Within(row[a].agreed, Overlay(row[a].agreed, req[w].given))
    BY OverlayWithin, WithinReflexive
  <2>2. Written(w, row'[a])
    BY <1>1, WriteEffect
  <2>3. QED
    BY <1>1, <2>1, <2>2 DEF Written, Grown
<1>2. CASE a # req[w].a
  BY <1>2, WriteEffect, WithinReflexive DEF Grown
<1>3. QED
  BY <1>1, <1>2

\* Steps that write no row and steps that do.
LEMMA StepKinds ==
  ASSUME [Next]_vars
  PROVE  \/ row' = row /\ UNCHANGED req
         \/ \E w \in Workers :
              row' = row /\ (Call(w) \/ CheckSaveSelf(w) \/ CheckSaveMentor(w)
                             \/ ReadScale(w) \/ ReadPrevious(w))
         \/ \E w \in Workers :
              row' = row /\ (NotifyMentor(w) \/ NotifyCoaching(w) \/ Stop(w))
         \/ \E w \in Workers : Write(w)
<1>1. ASSUME NEW w \in Workers, Call(w) PROVE row' = row
  BY <1>1 DEF Call, SaveSelf, SubmitSelf, SaveMentor, SubmitMentor
<1>2. ASSUME NEW w \in Workers, Proceed(w)
      PROVE  \/ row' = row /\ (CheckSaveSelf(w) \/ CheckSaveMentor(w)
                               \/ ReadScale(w) \/ ReadPrevious(w))
             \/ row' = row /\ (NotifyMentor(w) \/ NotifyCoaching(w))
             \/ Write(w)
  BY <1>2 DEF Proceed, Write, CheckSaveSelf, CheckSaveMentor, ReadScale, ReadPrevious,
              NotifyMentor, NotifyCoaching
<1>3. ASSUME NEW w \in Workers, Stop(w) PROVE row' = row
  BY <1>3 DEF Stop
<1>4. QED
  BY <1>1, <1>2, <1>3 DEF Next, Steady, Rescale, vars

\* Growth of the row never invalidates a request in flight.
LEMMA SoundGrows ==
  ASSUME NEW r, NEW old, NEW new, Grown(old, new), Sound(r, old)
  PROVE  Sound(r, new)
<1>1. Complete(old.self) => Complete(new.self)
  BY CompleteGrows DEF Grown
<1>2. Complete(old.agreed) => Complete(new.agreed)
  BY CompleteGrows DEF Grown
<1>3. Within(r.snap.agreed, old.agreed) => Within(r.snap.agreed, new.agreed)
  BY DEF Grown, Within
<1>4. Complete(Overlay(old.agreed, r.given)) => Complete(Overlay(new.agreed, r.given))
  BY OverlayKeeps DEF Grown, Within, Complete
<1>5. old.stamps \subseteq new.stamps
  BY DEF Grown
<1>6. QED
  BY <1>1, <1>2, <1>3, <1>4, <1>5 DEF Sound

\* The invariant: the three properties, and the soundness of pending requests
\* that makes them inductive.
IInv ==
  /\ TypeOK
  /\ RequestsAreSound
  /\ AgreedIsComplete
  /\ SubmittedIsScored
  /\ StampsInOrder

\* A request that was just loaded is sound.
LEMMA LoadSound ==
  ASSUME IInv, NEW w \in Workers, Call(w)
  PROVE  /\ \A v \in Workers : v # w => req'[v] = req[v]
         /\ req'[w].a \in Assessments
         /\ Sound(req'[w], row[req'[w].a])
<1> USE DEF IInv, Sound, AgreedIsComplete, SubmittedIsScored, StampsInOrder
<1>0. PICK a \in Assessments :
        \/ \E given \in ScoreMap : SaveSelf(w, a, given)
        \/ SubmitSelf(w, a)
        \/ \E given \in ScoreMap, mark \in BOOLEAN : SaveMentor(w, a, given, mark)
        \/ SubmitMentor(w, a)
  BY DEF Call
<1>1. CASE \E given \in ScoreMap : SaveSelf(w, a, given)
  BY <1>1 DEF SaveSelf, Becomes, Loaded, TypeOK
<1>2. CASE SubmitSelf(w, a)
  BY <1>2 DEF SubmitSelf, Submittable, Becomes, Ready, TypeOK
<1>3. ASSUME NEW given \in ScoreMap, NEW mark \in BOOLEAN, SaveMentor(w, a, given, mark)
      PROVE  /\ \A v \in Workers : v # w => req'[v] = req[v]
             /\ req'[w].a \in Assessments
             /\ Sound(req'[w], row[req'[w].a])
  <2>1. req'[w] = Loaded("saveMentor", a, given, mark)
    BY <1>3 DEF SaveMentor, Becomes, TypeOK
  <2>2. Complete(row[a].self) /\ "submittedAt" \in row[a].stamps
    BY <1>3 DEF SaveMentor, Reviewable
  <2>3. QED
    BY <1>3, <2>1, <2>2, WithinReflexive DEF SaveMentor, Becomes, Loaded, TypeOK
<1>4. CASE SubmitMentor(w, a)
  <2>1. req'[w] = Loaded("submitMentor", a, NoScores, FALSE)
    BY <1>4 DEF SubmitMentor, Becomes, TypeOK
  <2>2. /\ Complete(row[a].self) /\ Complete(row[a].agreed)
        /\ {"submittedAt", "mentorSubmittedAt"} \subseteq row[a].stamps
    BY <1>4 DEF SubmitMentor, Completable
  <2>3. QED
    BY <1>4, <2>1, <2>2 DEF SubmitMentor, Becomes, Loaded, TypeOK
<1>5. QED
  BY <1>0, <1>1, <1>2, <1>3, <1>4

\* A check turns a sound request into a sound one: this is where markAgreed's
\* test of the row it read, overlaid with the payload, carries over to the row
\* as it is by now.
LEMMA CheckSound ==
  ASSUME IInv, NEW w \in Workers,
         CheckSaveSelf(w) \/ CheckSaveMentor(w) \/ ReadScale(w) \/ ReadPrevious(w)
  PROVE  /\ \A v \in Workers : v # w => req'[v] = req[v]
         /\ InFlight(req'[w]) => /\ req'[w].a \in Assessments
                                 /\ Sound(req'[w], row[req'[w].a])
<1> DEFINE r == req[w]
<1>0. /\ r \in Request /\ InFlight(r) /\ r.a \in Assessments
      /\ Sound(r, row[r.a]) /\ req \in [Workers -> Request]
  BY RequestShape
     DEF IInv, TypeOK, RequestsAreSound, InFlight,
         CheckSaveSelf, CheckSaveMentor, ReadScale, ReadPrevious
<1>1. CASE CheckSaveSelf(w)
  BY <1>0, <1>1 DEF CheckSaveSelf, Becomes, Ready, Idle, InFlight, Sound
<1>2. CASE CheckSaveMentor(w)
  <2>1. CASE ~ AcceptsReview(r)
    BY <1>0, <1>2, <2>1 DEF CheckSaveMentor, Becomes, Idle, InFlight
  <2>2. CASE AcceptsReview(r)
    <3>1. /\ req'[w] = Ready("saveMentor", r.a, r.given, ReviewStatus(r), {})
          /\ \A v \in Workers : v # w => req'[v] = req[v]
          /\ r.stage = "loaded" /\ r.op = "saveMentor"
      BY <1>0, <1>2, <2>2 DEF CheckSaveMentor, Becomes
    <3>2. Within(r.snap.agreed, row[r.a].agreed)
      BY <1>0, <3>1 DEF Sound
    <3>3. ReviewStatus(r) = "agreed" => Complete(Overlay(r.snap.agreed, r.given))
      BY <2>2 DEF AcceptsReview, ReviewStatus, Keep
    <3>4. ReviewStatus(r) = "agreed" => Complete(Overlay(row[r.a].agreed, r.given))
      BY <3>2, <3>3, OverlayKeeps DEF Within, Complete
    <3>5. ReviewStatus(r) \in {"mentor_review", "agreed", Keep}
      BY DEF ReviewStatus
    <3>6. QED
      BY <1>0, <3>1, <3>4, <3>5 DEF Ready, Sound
  <2>3. QED
    BY <2>1, <2>2
<1>3. CASE ReadScale(w)
  BY <1>0, <1>3 DEF ReadScale, Scaled, Becomes, Sound
<1>4. CASE ReadPrevious(w)
  <2>1. r.stage = "scaled" /\ r.op = "submitMentor"
    BY <1>0, <1>4 DEF ReadPrevious, Request, Idle
  <2>2. PICK flagged : Becomes(w, Ready("submitMentor", r.a, NoScores, "completed", flagged))
    BY <1>4 DEF ReadPrevious
  <2>3. QED
    BY <1>0, <2>1, <2>2 DEF Ready, Becomes, Sound
<1>5. QED
  BY <1>1, <1>2, <1>3, <1>4

\* The row a write leaves behind satisfies the three properties.
LEMMA WriteKeepsRow ==
  ASSUME IInv, NEW w \in Workers, Write(w)
  PROVE  AgreedIsComplete' /\ SubmittedIsScored' /\ StampsInOrder'
<1> DEFINE r == req[w]
           now == row[r.a]
           new == row'[r.a]
<1>0. TypeOK
  BY DEF IInv
<1>1. /\ r.a \in Assessments /\ r.stage = "ready" /\ InFlight(r)
      /\ Written(w, new) /\ Grown(now, new)
  BY <1>0, WriteEffect, WriteGrows DEF InFlight
<1>2. Sound(r, now)
  BY <1>1 DEF IInv, RequestsAreSound
<1>3. /\ now.status \in {"agreed", "completed"} => Complete(now.agreed)
      /\ now.status # "draft" => Complete(now.self)
  BY <1>1 DEF IInv, AgreedIsComplete, SubmittedIsScored
<1>4. /\ "submittedAt" \in now.stamps <=> now.status # "draft"
      /\ now.status \in {"agreed", "completed"} => "mentorSubmittedAt" \in now.stamps
      /\ now.status = "completed" => "completedAt" \in now.stamps
      /\ "completedAt" \in now.stamps => "mentorSubmittedAt" \in now.stamps
  BY <1>1 DEF IInv, StampsInOrder
<1>5. /\ Complete(now.self) => Complete(new.self)
      /\ Complete(now.agreed) => Complete(new.agreed)
  BY <1>1, CompleteGrows DEF Grown
<1>6. /\ new.status \in {"agreed", "completed"} => Complete(new.agreed)
      /\ new.status # "draft" => Complete(new.self)
      /\ "submittedAt" \in new.stamps <=> new.status # "draft"
      /\ new.status \in {"agreed", "completed"} => "mentorSubmittedAt" \in new.stamps
      /\ new.status = "completed" => "completedAt" \in new.stamps
      /\ "completedAt" \in new.stamps => "mentorSubmittedAt" \in new.stamps
  <2>1. CASE r.op = "saveSelf"
    BY <1>1, <1>3, <1>4, <1>5, <2>1 DEF Written
  <2>2. CASE r.op = "submitSelf"
    BY <1>1, <1>2, <1>3, <1>4, <1>5, <2>2 DEF Written, Sound
  <2>3. CASE r.op = "saveMentor"
    <3>1. CASE r.status = "agreed"
      BY <1>1, <1>2, <1>3, <1>4, <1>5, <2>3, <3>1 DEF Written, Sound, Keep
    <3>2. CASE r.status = "mentor_review"
      BY <1>1, <1>2, <1>3, <1>4, <1>5, <2>3, <3>2 DEF Written, Sound, Keep
    <3>3. CASE r.status = Keep
      BY <1>1, <1>2, <1>3, <1>4, <1>5, <2>3, <3>3 DEF Written, Sound, Keep
    <3>4. QED
      BY <1>1, <1>2, <2>3, <3>1, <3>2, <3>3 DEF Sound
  <2>4. CASE r.op = "submitMentor"
    BY <1>1, <1>2, <1>3, <1>4, <1>5, <2>4 DEF Written, Sound
  <2>5. QED
    BY <1>1, <2>1, <2>2, <2>3, <2>4 DEF Written
<1>7. \A b \in Assessments : b # r.a => row'[b] = row[b]
  BY <1>0, WriteEffect
<1>8. AgreedIsComplete'
  BY <1>6, <1>7 DEF IInv, AgreedIsComplete
<1>9. SubmittedIsScored'
  BY <1>6, <1>7 DEF IInv, SubmittedIsScored
<1>10. StampsInOrder'
  BY <1>6, <1>7 DEF IInv, StampsInOrder
<1>11. QED
  BY <1>8, <1>9, <1>10

LEMMA WriteKeepsSound ==
  ASSUME IInv, NEW w \in Workers, Write(w)
  PROVE  RequestsAreSound'
<1>0. TypeOK /\ TypeOK'
  BY WriteType DEF IInv, Write
<1>1. ASSUME NEW v \in Workers, InFlight(req'[v])
      PROVE  Sound(req'[v], row'[req'[v].a])
  <2>1. req'[v] = req[v]
    BY <1>0, <1>1, WriteEffect
  <2>2. req[v].a \in Assessments
    BY <1>0, <1>1, <2>1, RequestShape DEF TypeOK, InFlight
  <2>3. Sound(req[v], row[req[v].a])
    BY <1>1, <2>1 DEF IInv, RequestsAreSound
  <2>4. QED
    BY <1>0, <2>1, <2>2, <2>3, WriteGrows, SoundGrows
<1>2. QED
  BY <1>1 DEF RequestsAreSound

LEMMA IInvInit == Init => IInv
<1> SUFFICES ASSUME Init PROVE IInv
  OBVIOUS
<1>1. TypeOK
  BY TypeInit
<1>2. RequestsAreSound
  BY DEF Init, Idle, InFlight, RequestsAreSound
<1>3. AgreedIsComplete /\ SubmittedIsScored /\ StampsInOrder
  BY DEF Init, Draft, AgreedIsComplete, SubmittedIsScored, StampsInOrder
<1>4. QED
  BY <1>1, <1>2, <1>3 DEF IInv

LEMMA IInvStep == IInv /\ [Next]_vars => IInv'
<1> SUFFICES ASSUME IInv, [Next]_vars PROVE IInv'
  OBVIOUS
<1>1. TypeOK'
  BY TypeStep DEF IInv
<1>2. row' = row => AgreedIsComplete' /\ SubmittedIsScored' /\ StampsInOrder'
  BY DEF IInv, AgreedIsComplete, SubmittedIsScored, StampsInOrder
<1>3. CASE row' = row /\ UNCHANGED req
  BY <1>1, <1>2, <1>3 DEF IInv, RequestsAreSound
<1>4. ASSUME NEW w \in Workers, row' = row,
             Call(w) \/ CheckSaveSelf(w) \/ CheckSaveMentor(w)
                     \/ ReadScale(w) \/ ReadPrevious(w)
      PROVE  IInv'
  <2>1. RequestsAreSound'
    BY <1>4, LoadSound, CheckSound DEF RequestsAreSound, IInv
  <2>2. QED
    BY <1>1, <1>2, <1>4, <2>1 DEF IInv
<1>5. ASSUME NEW w \in Workers, row' = row, NotifyMentor(w) \/ NotifyCoaching(w) \/ Stop(w)
      PROVE  IInv'
  <2>1. req'[w] = Idle /\ \A v \in Workers : v # w => req'[v] = req[v]
    BY <1>5 DEF NotifyMentor, NotifyCoaching, Stop, Becomes, IInv, TypeOK
  <2>2. RequestsAreSound'
    BY <1>5, <2>1 DEF RequestsAreSound, IInv, Idle, InFlight
  <2>3. QED
    BY <1>1, <1>2, <1>5, <2>2 DEF IInv
<1>6. ASSUME NEW w \in Workers, Write(w) PROVE IInv'
  BY <1>1, <1>6, WriteKeepsRow, WriteKeepsSound DEF IInv
<1>7. QED
  BY <1>3, <1>4, <1>5, <1>6, StepKinds

LEMMA Invariance == Spec => []IInv
BY IInvInit, IInvStep, PTL DEF Spec

\* However many requests race on an assessment, stopped half-way or not, it is
\* never agreed or completed with a dimension left without an agreed score.
THEOREM AgreedAlwaysComplete == Spec => []AgreedIsComplete
<1>1. IInv => AgreedIsComplete
  BY DEF IInv
<1>2. QED
  BY <1>1, Invariance, PTL

\* However saves and submissions race, whatever has left draft carries a self
\* score for every dimension.
THEOREM SubmittedAlwaysScored == Spec => []SubmittedIsScored
<1>1. IInv => SubmittedIsScored
  BY DEF IInv
<1>2. QED
  BY <1>1, Invariance, PTL

\* The timestamps of an assessment are always those of the steps it went through.
THEOREM StampsAlwaysInOrder == Spec => []StampsInOrder
<1>1. IInv => StampsInOrder
  BY DEF IInv
<1>2. QED
  BY <1>1, Invariance, PTL

-----------------------------------------------------------------------------
(* No two requests on one assessment. *)

\* The invariant: nothing in flight is stale, besides what holds of any overlap.
Serial == IInv /\ RequestsAreFresh

-----------------------------------------------------------------------------
(* Requests stay fresh. *)

\* A step of `w` that changes no row another request is working on.
LEMMA FreshStays ==
  ASSUME RequestsAreFresh, NEW w \in Workers,
         \A v \in Workers : v # w => req'[v] = req[v],
         \A v \in Workers : v # w /\ InFlight(req[v]) => row'[req[v].a] = row[req[v].a],
         InFlight(req'[w]) => /\ Fresh(req'[w], row'[req'[w].a])
                              /\ \A v \in Workers : v # w => ~ Touches(req[v], req'[w].a)
  PROVE  RequestsAreFresh'
<1>1. \A v \in Workers : InFlight(req'[v]) => Fresh(req'[v], row'[req'[v].a])
  BY DEF RequestsAreFresh
<1>2. \A u, v \in Workers : InFlight(req'[u]) /\ Touches(req'[v], req'[u].a) => u = v
  <2> SUFFICES ASSUME NEW u \in Workers, NEW v \in Workers,
                      InFlight(req'[u]), Touches(req'[v], req'[u].a)
               PROVE  u = v
    OBVIOUS
  <2>1. InFlight(req'[v]) /\ Touches(req'[u], req'[v].a)
    BY DEF Touches
  <2>2. CASE u = w
    BY <2>2
  <2>3. CASE v = w
    BY <2>1, <2>3
  <2>4. CASE u # w /\ v # w
    BY <2>4 DEF RequestsAreFresh
  <2>5. QED
    BY <2>2, <2>3, <2>4
<1>3. QED
  BY <1>1, <1>2 DEF RequestsAreFresh, Fresh

\* A request is loaded from the row as it is, and nobody else is working on it.
LEMMA LoadFresh ==
  ASSUME Serial, ~ Overlapping, NEW w \in Workers, Call(w)
  PROVE  RequestsAreFresh'
<1>0. PICK a \in Assessments :
        \/ \E given \in ScoreMap : SaveSelf(w, a, given)
        \/ SubmitSelf(w, a)
        \/ \E given \in ScoreMap, mark \in BOOLEAN : SaveMentor(w, a, given, mark)
        \/ SubmitMentor(w, a)
  BY DEF Call
<1>1. /\ row' = row
      /\ \A v \in Workers : v # w => req'[v] = req[v]
      /\ \A v \in Workers : ~ Touches(req[v], a)
  BY <1>0 DEF SaveSelf, SubmitSelf, SaveMentor, SubmitMentor, MayLoad, Becomes,
              Serial, IInv, TypeOK
<1>2. req'[w].a = a /\ Fresh(req'[w], row[a])
  <2>1. CASE \E given \in ScoreMap : SaveSelf(w, a, given)
    BY <2>1 DEF SaveSelf, SelfEditable, Becomes, Loaded, Fresh, Serial, IInv, TypeOK
  <2>2. CASE SubmitSelf(w, a)
    BY <2>2 DEF SubmitSelf, Submittable, Becomes, Ready, Fresh, Serial, IInv, TypeOK
  <2>3. CASE \E given \in ScoreMap, mark \in BOOLEAN : SaveMentor(w, a, given, mark)
    BY <2>3 DEF SaveMentor, Reviewable, Becomes, Loaded, Fresh, Serial, IInv, TypeOK
  <2>4. CASE SubmitMentor(w, a)
    BY <2>4 DEF SubmitMentor, Completable, Becomes, Loaded, Fresh, Serial, IInv, TypeOK
  <2>5. QED
    BY <1>0, <2>1, <2>2, <2>3, <2>4
<1>3. QED
  BY <1>1, <1>2, FreshStays DEF Serial

\* What a check computes from the row it read is right for the row as it is.
LEMMA CheckFresh ==
  ASSUME Serial, NEW w \in Workers, row' = row,
         CheckSaveSelf(w) \/ CheckSaveMentor(w) \/ ReadScale(w) \/ ReadPrevious(w)
  PROVE  RequestsAreFresh'
<1> DEFINE r == req[w]
<1>0. /\ r \in Request /\ InFlight(r) /\ Fresh(r, row[r.a])
      /\ req \in [Workers -> Request]
      /\ \A v \in Workers : v # w => ~ Touches(req[v], r.a)
  BY DEF Serial, IInv, TypeOK, RequestsAreFresh, InFlight, Touches,
         CheckSaveSelf, CheckSaveMentor, ReadScale, ReadPrevious
<1>1. /\ \A v \in Workers : v # w => req'[v] = req[v]
      /\ InFlight(req'[w]) => req'[w].a = r.a /\ Fresh(req'[w], row[r.a])
  <2>1. CASE CheckSaveSelf(w)
    BY <1>0, <2>1 DEF CheckSaveSelf, Becomes, Ready, Idle, InFlight, Fresh
  <2>2. CASE CheckSaveMentor(w)
    <3>1. r.stage = "loaded" /\ r.op = "saveMentor"
      BY <2>2 DEF CheckSaveMentor
    <3>2. /\ r.snap = row[r.a]
          /\ row[r.a].status \in {"self_submitted", "mentor_review", "agreed"}
      BY <1>0, <3>1 DEF Fresh
    <3>3. /\ ReviewStatus(r) = Keep => row[r.a].status # "self_submitted"
          /\ ReviewStatus(r) = "mentor_review" => row[r.a].status = "self_submitted"
      BY <3>2 DEF ReviewStatus, Keep
    <3>4. \/ req'[w] = Idle
          \/ req'[w] = Ready("saveMentor", r.a, r.given, ReviewStatus(r), {})
      BY <1>0, <2>2 DEF CheckSaveMentor, Becomes
    <3>5. \A v \in Workers : v # w => req'[v] = req[v]
      BY <1>0, <2>2 DEF CheckSaveMentor, Becomes
    <3>6. QED
      BY <3>2, <3>3, <3>4, <3>5 DEF Ready, Idle, InFlight, Fresh
  <2>3. CASE ReadScale(w)
    BY <1>0, <2>3 DEF ReadScale, Scaled, Becomes, Fresh
  <2>4. CASE ReadPrevious(w)
    <3>1. /\ r.stage = "scaled" /\ r.op = "submitMentor" /\ r.scaleMax \in Scales
      BY <1>0, <2>4 DEF ReadPrevious, Request, Idle
    <3>2. PICK previous \in PreviousAgreedScores(r.a) :
            Becomes(w, Ready("submitMentor", r.a, NoScores, "completed",
                             Recommended(r.snap.agreed, r.scaleMax, previous)))
      BY <2>4 DEF ReadPrevious
    <3>3. \A d \in Dimensions : 5 * r.snap.agreed[d] <= 2 * r.scaleMax =>
            d \in Recommended(r.snap.agreed, r.scaleMax, previous)
      BY DEF Recommended, IsCoachingRecommended
    <3>4. r.snap = row[r.a] /\ row[r.a].status = "agreed"
      BY <1>0, <3>1 DEF Fresh
    <3>5. QED
      BY <1>0, <3>1, <3>2, <3>3, <3>4 DEF Becomes, Ready, Fresh
  <2>5. QED
    BY <2>1, <2>2, <2>3, <2>4
<1>2. QED
  BY <1>0, <1>1, FreshStays DEF Serial

\* A write meets nobody else on its row.
LEMMA WriteFresh ==
  ASSUME Serial, NEW w \in Workers, Write(w)
  PROVE  RequestsAreFresh'
<1> DEFINE r == req[w]
<1>1. /\ r.stage = "ready" /\ InFlight(r)
      /\ \A b \in Assessments : b # r.a => row'[b] = row[b]
      /\ \A v \in Workers : v # w => req'[v] = req[v]
      /\ ~ InFlight(req'[w])
  BY WriteEffect DEF Serial, IInv, InFlight
<1>2. \A v \in Workers : v # w /\ InFlight(req[v]) =>
        req[v].a \in Assessments /\ req[v].a # r.a
  BY <1>1, RequestShape DEF Serial, IInv, TypeOK, RequestsAreFresh, InFlight, Touches
<1>3. QED
  BY <1>1, <1>2, FreshStays DEF Serial

LEMMA SerialStep ==
  ASSUME Serial, ~ Overlapping, [Next]_vars
  PROVE  Serial'
<1>1. IInv'
  BY IInvStep DEF Serial
<1>2. CASE row' = row /\ UNCHANGED req
  BY <1>1, <1>2 DEF Serial, RequestsAreFresh
<1>3. ASSUME NEW w \in Workers, row' = row,
             Call(w) \/ CheckSaveSelf(w) \/ CheckSaveMentor(w) \/ ReadScale(w) \/ ReadPrevious(w)
      PROVE  Serial'
  BY <1>1, <1>3, LoadFresh, CheckFresh DEF Serial
<1>4. ASSUME NEW w \in Workers, row' = row, NotifyMentor(w) \/ NotifyCoaching(w) \/ Stop(w)
      PROVE  Serial'
  <2>1. /\ \A v \in Workers : v # w => req'[v] = req[v]
        /\ ~ InFlight(req'[w])
    BY <1>4 DEF NotifyMentor, NotifyCoaching, Stop, Becomes, Idle, InFlight,
                Serial, IInv, TypeOK
  <2>2. QED
    BY <1>1, <1>4, <2>1, FreshStays DEF Serial
<1>5. ASSUME NEW w \in Workers, Write(w)
      PROVE  Serial'
  BY <1>1, <1>5, WriteFresh DEF Serial
<1>6. QED
  BY <1>2, <1>3, <1>4, <1>5, StepKinds

LEMMA SerialInit == Init => Serial
<1> SUFFICES ASSUME Init PROVE Serial
  OBVIOUS
<1>1. \A w \in Workers : ~ InFlight(req[w])
  BY DEF Init, Idle, InFlight
<1>2. QED
  BY <1>1, IInvInit DEF Serial, RequestsAreFresh, Touches

\* If no two requests on one assessment overlap, every request in flight still
\* sees the row it read, and writes to a row in the status it checked.
THEOREM AlwaysFresh ==
  ASSUME ~ Overlapping
  PROVE  Spec => []RequestsAreFresh
<1>1. Serial /\ [Next]_vars => Serial'
  BY SerialStep
<1>2. Serial => RequestsAreFresh
  BY DEF Serial
<1>3. QED
  BY SerialInit, <1>1, <1>2, PTL DEF Spec

-----------------------------------------------------------------------------
(* What a step may do to an assessment. *)

\* Rows are written by requests only.
LEMMA RowStep ==
  ASSUME [Next]_vars
  PROVE  row' = row \/ \E w \in Workers : Write(w)
BY StepKinds

\* What a write finds, by the handler that makes it.
LEMMA WriteFinds ==
  ASSUME Serial, NEW w \in Workers, Write(w)
  PROVE  LET r == req[w]
             now == row[r.a]
         IN  /\ r.op \in {"saveSelf", "submitSelf"} => now.status = "draft"
             /\ r.op = "submitSelf" => Complete(now.self)
             /\ r.op = "saveMentor" =>
                  /\ now.status \in {"self_submitted", "mentor_review", "agreed"}
                  /\ r.status \in {"mentor_review", "agreed", Keep}
                  /\ r.status = Keep => now.status # "self_submitted"
                  /\ r.status = "mentor_review" => now.status = "self_submitted"
                  /\ r.status = "agreed" => Complete(Overlay(now.agreed, r.given))
             /\ r.op = "submitMentor" =>
                  /\ now.status = "agreed"
                  /\ Complete(now.agreed)
                  /\ \E s \in Scales : \A d \in Dimensions :
                       5 * now.agreed[d] <= 2 * s => d \in r.flagged
<1> DEFINE r == req[w]
<1>1. r.stage = "ready" /\ InFlight(r)
  BY WriteEffect DEF Serial, IInv, InFlight
<1>2. Fresh(r, row[r.a]) /\ Sound(r, row[r.a])
  BY <1>1 DEF Serial, IInv, RequestsAreFresh, RequestsAreSound
<1>3. QED
  BY <1>1, <1>2 DEF Fresh, Sound

LEMMA FrozenStep ==
  ASSUME Serial, [Next]_vars, NEW a \in Assessments
  PROVE  /\ row[a].status = "completed" => row'[a] = row[a]
         /\ row[a].status # "draft" => row'[a].self = row[a].self
<1>1. ASSUME NEW w \in Workers, Write(w), req[w].a = a
      PROVE  /\ row[a].status # "completed"
             /\ row[a].status # "draft" => row'[a].self = row[a].self
  <2>1. Written(w, row'[a])
    BY <1>1, WriteEffect DEF Serial, IInv
  <2>2. QED
    BY <1>1, <2>1, WriteFinds DEF Written
<1>2. ASSUME NEW w \in Workers, Write(w), req[w].a # a
      PROVE  row'[a] = row[a]
  BY <1>2, WriteEffect DEF Serial, IInv
<1>3. QED
  BY <1>1, <1>2, RowStep

\* "This cycle is complete and can no longer be edited".
THEOREM CompletedStaysFrozen ==
  ASSUME ~ Overlapping
  PROVE  Spec => CompletedIsFrozen
<1>1. Serial /\ [Next]_vars => Serial'
  BY SerialStep
<1>2. Serial /\ [Next]_vars =>
        [\A a \in Assessments : row[a].status = "completed" => row'[a] = row[a]]_vars
  BY FrozenStep
<1>3. QED
  BY SerialInit, <1>1, <1>2, PTL DEF Spec, CompletedIsFrozen

\* "Self-assessment can only be edited while in draft".
THEOREM SubmittedSelfStaysFrozen ==
  ASSUME ~ Overlapping
  PROVE  Spec => SelfFrozenOnceSubmitted
<1>1. Serial /\ [Next]_vars => Serial'
  BY SerialStep
<1>2. Serial /\ [Next]_vars =>
        [\A a \in Assessments :
           row[a].status # "draft" => row'[a].self = row[a].self]_vars
  BY FrozenStep
<1>3. QED
  BY SerialInit, <1>1, <1>2, PTL DEF Spec, SelfFrozenOnceSubmitted

-----------------------------------------------------------------------------
(* The handlers implement ReviewCycle. *)

View(r) == [status |-> r.status, self |-> r.self, agreed |-> r.agreed, flagged |-> r.flagged]

LEMMA ViewStep ==
  ASSUME TypeOK, NEW w \in Workers, Write(w)
  PROVE  ReviewCycleView' = [ReviewCycleView EXCEPT ![req[w].a] = View(row'[req[w].a])]
<1>1. \A b \in Assessments : b # req[w].a => row'[b] = row[b]
  BY WriteEffect
<1>2. QED
  BY <1>1 DEF ReviewCycleView, View

LEMMA CycleStep ==
  ASSUME Serial, NEW w \in Workers, Write(w)
  PROVE  Cycle!Next
<1> DEFINE r == req[w]
           a == r.a
           now == row[a]
           new == row'[a]
<1>1. /\ a \in Assessments /\ now \in Row /\ new \in Row
      /\ Written(w, new)
  BY WriteEffect DEF Serial, IInv
<1>2. /\ ReviewCycleView[a].status = now.status
      /\ ReviewCycleView[a].self = now.self
      /\ ReviewCycleView[a].agreed = now.agreed
      /\ ReviewCycleView[a].flagged = now.flagged
  BY <1>1 DEF ReviewCycleView
<1>3. Cycle!Becomes(a, new.status, new.self, new.agreed, new.flagged)
  BY ViewStep DEF Serial, IInv, View, Cycle!Becomes
<1>4. /\ new.self \in Cycle!ScoreMap /\ new.agreed \in Cycle!ScoreMap
      /\ new.flagged \in SUBSET Dimensions
  BY <1>1 DEF Row, ScoreMap, Cycle!ScoreMap
<1> HIDE DEF a, now, new
<1>5. CASE r.op = "saveSelf"
  <2>1. /\ now.status = "draft" /\ new.status = "draft"
        /\ new.self = Overlay(now.self, r.given)
        /\ new.agreed = now.agreed /\ new.flagged = now.flagged
    BY <1>1, <1>5, WriteFinds DEF Written, a, now, new
  <2>2. Cycle!Revises(new.self, now.self)
    BY <2>1, OverlayKeeps DEF Cycle!Revises
  <2>3. Cycle!ScoreSelf(a)
    BY <1>2, <1>3, <1>4, <2>1, <2>2 DEF Cycle!ScoreSelf
  <2>4. QED
    BY <1>1, <2>3 DEF Cycle!Next
<1>6. CASE r.op = "submitSelf"
  <2>1. /\ now.status = "draft" /\ new.status = "self_submitted" /\ Complete(now.self)
        /\ new.self = now.self /\ new.agreed = now.agreed /\ new.flagged = now.flagged
    BY <1>1, <1>6, WriteFinds DEF Written, a, now, new
  <2>2. Cycle!Submit(a)
    BY <1>2, <1>3, <2>1 DEF Cycle!Submit, Cycle!Settled, Complete
  <2>3. QED
    BY <1>1, <2>2 DEF Cycle!Next
<1>7. CASE r.op = "saveMentor"
  <2>1. /\ now.status \in {"self_submitted", "mentor_review", "agreed"}
        /\ new.self = now.self /\ new.agreed = Overlay(now.agreed, r.given)
        /\ new.flagged = now.flagged
    BY <1>1, <1>7, WriteFinds DEF Written, a, now, new
  <2>2. \/ new.status = "agreed" /\ Complete(new.agreed)
        \/ new.status = IF now.status = "agreed" THEN "agreed" ELSE "mentor_review"
    BY <1>1, <1>7, <2>1, WriteFinds DEF Written, Keep, a, now, new
  <2>3. Cycle!Revises(new.agreed, now.agreed)
    BY <2>1, OverlayKeeps DEF Cycle!Revises
  <2>4. CASE new.status = "agreed" /\ Complete(new.agreed)
    <3>1. Cycle!Agree(a)
      BY <1>2, <1>3, <1>4, <2>1, <2>3, <2>4 DEF Cycle!Agree, Cycle!Settled, Complete
    <3>2. QED
      BY <1>1, <3>1 DEF Cycle!Next
  <2>5. CASE new.status = IF now.status = "agreed" THEN "agreed" ELSE "mentor_review"
    <3>1. Cycle!Review(a)
      BY <1>2, <1>3, <1>4, <2>1, <2>3, <2>5 DEF Cycle!Review
    <3>2. QED
      BY <1>1, <3>1 DEF Cycle!Next
  <2>6. QED
    BY <2>2, <2>4, <2>5
<1>8. CASE r.op = "submitMentor"
  <2>1. /\ now.status = "agreed" /\ new.status = "completed" /\ Complete(now.agreed)
        /\ new.self = now.self /\ new.agreed = now.agreed /\ new.flagged = r.flagged
    BY <1>1, <1>8, WriteFinds DEF Written, a, now, new
  <2>2. PICK s \in Scales : \A d \in Dimensions :
          5 * now.agreed[d] <= 2 * s => d \in r.flagged
    BY <1>8, WriteFinds DEF a, now
  <2>3. Cycle!Weak(now.agreed, s) \subseteq new.flagged
    BY <2>1, <2>2 DEF Cycle!Weak
  <2>4. Cycle!Close(a)
    BY <1>2, <1>3, <1>4, <2>1, <2>3 DEF Cycle!Close, Cycle!Settled, Complete
  <2>5. QED
    BY <1>1, <2>4 DEF Cycle!Next
<1>9. QED
  BY <1>1, <1>5, <1>6, <1>7, <1>8 DEF Written

\* If no two requests on one assessment overlap, the handlers of many
\* statements, stopped half-way or not, behave like the atomic endpoints.
THEOREM Implements ==
  ASSUME ~ Overlapping
  PROVE  Spec => ImplementsReviewCycle
<1>1. Serial /\ [Next]_vars => Serial'
  BY SerialStep
<1>2. Init => Cycle!Init
  BY DEF Init, Draft, NoScores, ReviewCycleView, Cycle!Init
<1>3. Serial /\ [Next]_vars => [Cycle!Next]_ReviewCycleView
  <2> SUFFICES ASSUME Serial, [Next]_vars PROVE [Cycle!Next]_ReviewCycleView
    OBVIOUS
  <2>1. CASE row' = row
    BY <2>1 DEF ReviewCycleView
  <2>2. QED
    BY <2>1, CycleStep, RowStep
<1>4. QED
  BY SerialInit, <1>1, <1>2, <1>3, PTL DEF Spec, ImplementsReviewCycle, Cycle!Spec

-----------------------------------------------------------------------------
(* A submission is announced once. *)

\* `w` has written the submission of `a` and is about to tell the mentor.
Announces(w, a) == req[w].stage = "notify" /\ req[w].op = "submitSelf" /\ req[w].a = a

\* Announcements go with the one step out of draft.
NoticeOf(a) ==
  /\ row[a].status = "draft" =>
       submissionNotices[a] = 0 /\ \A w \in Workers : ~ Announces(w, a)
  /\ \A w \in Workers : Announces(w, a) => submissionNotices[a] = 0
  /\ \A v, w \in Workers : Announces(v, a) /\ Announces(w, a) => v = w
  /\ submissionNotices[a] <= 1

NoticeInv == \A a \in Assessments : NoticeOf(a)

\* A step that neither announces, nor entitles to, nor goes back to draft.
LEMMA NoticeStays ==
  ASSUME NEW a \in Assessments, NoticeOf(a),
         submissionNotices'[a] = submissionNotices[a],
         row'[a].status = "draft" => row[a].status = "draft",
         \A v \in Workers : Announces(v, a)' => Announces(v, a)
  PROVE  NoticeOf(a)'
BY DEF NoticeOf

LEMMA NotifyNotice ==
  ASSUME Serial, NoticeInv, NEW w \in Workers, NotifyMentor(w), NEW a \in Assessments
  PROVE  NoticeOf(a)'
<1>1. /\ req[w].stage = "notify" /\ req[w].op = "submitSelf" /\ req[w].a \in Assessments
      /\ row' = row
      /\ submissionNotices' = [submissionNotices EXCEPT ![req[w].a] = @ + 1]
      /\ req'[w].stage = "idle"
      /\ \A v \in Workers : v # w => req'[v] = req[v]
      /\ submissionNotices \in [Assessments -> Nat]
  BY RequestShape DEF NotifyMentor, Becomes, Idle, Serial, IInv, TypeOK
<1>2. \A v \in Workers : Announces(v, a)' => v # w /\ Announces(v, a)
  BY <1>1 DEF Announces
<1>3. CASE req[w].a # a
  <2>1. submissionNotices'[a] = submissionNotices[a]
    BY <1>1, <1>3
  <2>2. QED
    BY <1>1, <1>2, <2>1, NoticeStays DEF NoticeInv
<1>4. CASE req[w].a = a
  <2>1. Announces(w, a)
    BY <1>1, <1>4 DEF Announces
  <2>2. /\ row[a].status # "draft" /\ submissionNotices[a] = 0
        /\ \A v \in Workers : v # w => ~ Announces(v, a)
    BY <2>1 DEF NoticeInv, NoticeOf
  <2>3. submissionNotices'[a] = 1
    BY <1>1, <1>4, <2>2
  <2>4. QED
    BY <1>1, <1>2, <2>2, <2>3 DEF NoticeOf
<1>5. QED
  BY <1>3, <1>4

LEMMA WriteNotice ==
  ASSUME Serial, NoticeInv, NEW w \in Workers, Write(w), NEW a \in Assessments
  PROVE  NoticeOf(a)'
<1>1. /\ \A v \in Workers : v # w => req'[v] = req[v]
      /\ \A b \in Assessments : b # req[w].a => row'[b] = row[b]
      /\ req[w].a = a => Written(w, row'[a])
      /\ submissionNotices' = submissionNotices
  BY WriteEffect
     DEF Serial, IInv, Write, WriteSelf, WriteSubmitted, WriteReview, WriteCompleted
<1>2. row'[a].status = "draft" => row[a].status = "draft"
  <2>1. CASE req[w].a = a
    BY <1>1, <2>1, WriteFinds DEF Written, Keep
  <2>2. CASE req[w].a # a
    BY <1>1, <2>2
  <2>3. QED
    BY <2>1, <2>2
<1>3. req'[w] \in {Idle, Notify("submitSelf", req[w].a), Notify("submitMentor", req[w].a)}
  BY DEF Write, WriteSelf, WriteSubmitted, WriteReview, WriteCompleted, AfterSubmit,
         AfterComplete, Becomes, Serial, IInv, TypeOK
<1>4. CASE WriteSubmitted(w) /\ req[w].a = a
  <2>1. row[a].status = "draft" /\ row'[a].status # "draft"
    <3>1. req[w].op = "submitSelf"
      BY <1>4 DEF WriteSubmitted
    <3>2. QED
      BY <1>1, <1>4, <3>1, WriteFinds DEF Written
  <2>2. submissionNotices[a] = 0 /\ \A v \in Workers : ~ Announces(v, a)
    BY <2>1 DEF NoticeInv, NoticeOf
  <2>3. \A v \in Workers : Announces(v, a)' => v = w
    BY <1>1, <2>2 DEF Announces
  <2>4. QED
    BY <1>1, <2>1, <2>2, <2>3 DEF NoticeOf
<1>5. CASE ~ (WriteSubmitted(w) /\ req[w].a = a)
  <2>1. ~ Announces(w, a)'
    <3>1. CASE req[w].a # a
      BY <1>3, <3>1 DEF Announces, Idle, Notify
    <3>2. CASE ~ WriteSubmitted(w)
      <4>1. req'[w] \in {Idle, Notify("submitMentor", req[w].a)}
        BY <3>2 DEF Write, WriteSelf, WriteReview, WriteCompleted, AfterComplete, Becomes,
                    Serial, IInv, TypeOK
      <4>2. QED
        BY <4>1 DEF Announces, Idle, Notify
    <3>3. QED
      BY <1>5, <3>1, <3>2
  <2>2. \A v \in Workers : Announces(v, a)' => Announces(v, a)
    BY <1>1, <2>1 DEF Announces
  <2>3. QED
    BY <1>1, <1>2, <2>2, NoticeStays DEF NoticeInv
<1>6. QED
  BY <1>4, <1>5

LEMMA NoticeStep ==
  ASSUME Serial, NoticeInv, [Next]_vars
  PROVE  NoticeInv'
<1> SUFFICES ASSUME NEW a \in Assessments PROVE NoticeOf(a)'
  BY DEF NoticeInv
<1>1. CASE \E w \in Workers : Write(w)
  BY <1>1, WriteNotice
<1>2. CASE \E w \in Workers : NotifyMentor(w)
  BY <1>2, NotifyNotice
<1>3. ASSUME row' = row, UNCHANGED submissionNotices,
             \A v \in Workers : req'[v] = req[v] \/ req'[v].stage # "notify"
      PROVE  NoticeOf(a)'
  BY <1>3, NoticeStays DEF NoticeInv, Announces
<1>4. ASSUME NEW w \in Workers, Call(w)
      PROVE  NoticeOf(a)'
  <2>1. /\ row' = row /\ UNCHANGED submissionNotices
        /\ \A v \in Workers : v # w => req'[v] = req[v]
        /\ req'[w].stage # "notify"
    BY <1>4 DEF Call, SaveSelf, SubmitSelf, SaveMentor, SubmitMentor, Becomes, Loaded,
                Ready, Serial, IInv, TypeOK
  <2>2. QED
    BY <1>3, <2>1
<1>5. ASSUME NEW w \in Workers,
             CheckSaveSelf(w) \/ CheckSaveMentor(w) \/ ReadScale(w) \/ ReadPrevious(w)
      PROVE  NoticeOf(a)'
  <2>1. /\ row' = row /\ UNCHANGED submissionNotices
        /\ \A v \in Workers : v # w => req'[v] = req[v]
        /\ req'[w].stage # "notify"
    BY <1>5 DEF CheckSaveSelf, CheckSaveMentor, ReadScale, ReadPrevious, Becomes, Idle,
                Ready, Scaled, Serial, IInv, TypeOK
  <2>2. QED
    BY <1>3, <2>1
<1>6. ASSUME NEW w \in Workers, NotifyCoaching(w) \/ Stop(w)
      PROVE  NoticeOf(a)'
  <2>1. /\ row' = row /\ UNCHANGED submissionNotices
        /\ \A v \in Workers : v # w => req'[v] = req[v]
        /\ req'[w].stage # "notify"
    BY <1>6 DEF NotifyCoaching, Stop, Becomes, Idle, Serial, IInv, TypeOK
  <2>2. QED
    BY <1>3, <2>1
<1>7. ASSUME NEW s \in Scales, Rescale(s)
      PROVE  NoticeOf(a)'
  BY <1>3, <1>7 DEF Rescale
<1>8. CASE UNCHANGED vars
  BY <1>3, <1>8 DEF vars
<1>9. QED
  BY <1>1, <1>2, <1>4, <1>5, <1>6, <1>7, <1>8 DEF Next, Steady, Proceed, Write

\* "Assessment has already been submitted": the mentor hears of it once.
THEOREM AnnouncedAtMostOnce ==
  ASSUME ~ Overlapping
  PROVE  Spec => []OneSubmissionNotice
<1>1. Init => NoticeInv
  <2> SUFFICES ASSUME Init, NEW a \in Assessments PROVE NoticeOf(a)
    BY DEF NoticeInv
  <2>1. \A w \in Workers : req[w].stage = "idle"
    BY DEF Init, Idle
  <2>2. \A w \in Workers : ~ Announces(w, a)
    BY <2>1 DEF Announces
  <2>3. submissionNotices[a] = 0
    BY DEF Init
  <2>4. QED
    BY <2>2, <2>3 DEF NoticeOf
<1>2. Serial /\ [Next]_vars => Serial'
  BY SerialStep
<1>3. Serial /\ NoticeInv /\ [Next]_vars => NoticeInv'
  BY NoticeStep
<1>4. NoticeInv => OneSubmissionNotice
  BY DEF NoticeInv, NoticeOf, OneSubmissionNotice
<1>5. QED
  BY SerialInit, <1>1, <1>2, <1>3, <1>4, PTL DEF Spec

-----------------------------------------------------------------------------
(* Which overlaps harm.  What a check found can go stale in many ways, but  *)
(* only one of them edits a completed cycle, and only one a submitted       *)
(* self-assessment: a request that was let in before and is in flight still. *)

\* No other request is in flight on a cycle at the moment it is completed.
CompletesAlone ==
  \A a \in Assessments :
    row[a].status # "completed" /\ row'[a].status = "completed" =>
      \A v \in Workers : ~ Touches(req'[v], a)

\* Nobody is saving self scores of a cycle at the moment it is submitted.
SubmitsAlone ==
  \A a \in Assessments :
    row[a].status = "draft" /\ row'[a].status # "draft" =>
      \A v \in Workers : ~ (Touches(req'[v], a) /\ req'[v].op = "saveSelf")

NoneOnCompleted ==
  \A v \in Workers : InFlight(req[v]) => row[req[v].a].status # "completed"

NoSelfOnSubmitted ==
  \A v \in Workers :
    InFlight(req[v]) /\ req[v].op = "saveSelf" => row[req[v].a].status = "draft"

\* Who is in flight after a step was so before it, on the same assessment and
\* from the same endpoint, or was let in by this step's check of the row.
LEMMA InFlightBefore ==
  ASSUME TypeOK, [Next]_vars, NEW v \in Workers, InFlight(req'[v])
  PROVE  /\ req'[v].a \in Assessments
         /\ \/ InFlight(req[v]) /\ req'[v].a = req[v].a /\ req'[v].op = req[v].op
            \/ /\ row' = row
               /\ row[req'[v].a].status # "completed"
               /\ req'[v].op = "saveSelf" => row[req'[v].a].status = "draft"
<1>0. req[v] \in Request /\ req \in [Workers -> Request]
  BY DEF TypeOK
<1>1. CASE row' = row /\ UNCHANGED req
  BY <1>0, <1>1, RequestShape DEF InFlight
<1>2. ASSUME NEW w \in Workers, row' = row, Call(w), v = w
      PROVE  /\ req'[v].a \in Assessments
             /\ row[req'[v].a].status # "completed"
             /\ req'[v].op = "saveSelf" => row[req'[v].a].status = "draft"
  <2>1. PICK a \in Assessments :
          \/ \E given \in ScoreMap : SaveSelf(w, a, given)
          \/ SubmitSelf(w, a)
          \/ \E given \in ScoreMap, mark \in BOOLEAN : SaveMentor(w, a, given, mark)
          \/ SubmitMentor(w, a)
    BY <1>2 DEF Call
  <2>2. CASE \E given \in ScoreMap : SaveSelf(w, a, given)
    BY <1>0, <1>2, <2>2 DEF SaveSelf, SelfEditable, Becomes, Loaded
  <2>3. CASE SubmitSelf(w, a)
    BY <1>0, <1>2, <2>3 DEF SubmitSelf, Submittable, Becomes, Ready
  <2>4. CASE \E given \in ScoreMap, mark \in BOOLEAN : SaveMentor(w, a, given, mark)
    BY <1>0, <1>2, <2>4 DEF SaveMentor, Reviewable, Becomes, Loaded
  <2>5. CASE SubmitMentor(w, a)
    BY <1>0, <1>2, <2>5 DEF SubmitMentor, Completable, Becomes, Loaded
  <2>6. QED
    BY <2>1, <2>2, <2>3, <2>4, <2>5
<1>3. ASSUME NEW w \in Workers, Call(w), v # w
      PROVE  req'[v] = req[v]
  BY <1>0, <1>3 DEF Call, SaveSelf, SubmitSelf, SaveMentor, SubmitMentor, Becomes
<1>4. ASSUME NEW w \in Workers,
             CheckSaveSelf(w) \/ CheckSaveMentor(w) \/ ReadScale(w) \/ ReadPrevious(w)
      PROVE  InFlight(req[v]) /\ req'[v].a = req[v].a /\ req'[v].op = req[v].op
  <2>1. CASE v # w
    BY <1>0, <1>4, <2>1 DEF CheckSaveSelf, CheckSaveMentor, ReadScale, ReadPrevious, Becomes
  <2>2. CASE v = w
    <3>1. CASE CheckSaveSelf(w) \/ CheckSaveMentor(w)
      BY <1>0, <2>2, <3>1 DEF CheckSaveSelf, CheckSaveMentor, Becomes, Ready, Idle, InFlight
    <3>2. CASE ReadScale(w)
      BY <1>0, <2>2, <3>2 DEF ReadScale, Becomes, Scaled, InFlight
    <3>3. CASE ReadPrevious(w)
      BY <1>0, <2>2, <3>3 DEF ReadPrevious, Becomes, Ready, InFlight, Request, Idle
    <3>4. QED
      BY <1>4, <3>1, <3>2, <3>3
  <2>3. QED
    BY <2>1, <2>2
<1>5. ASSUME NEW w \in Workers,
             NotifyMentor(w) \/ NotifyCoaching(w) \/ Stop(w) \/ Write(w)
      PROVE  req'[v] = req[v]
  <2>1. ~ InFlight(req'[w]) /\ \A u \in Workers : u # w => req'[u] = req[u]
    BY <1>0, <1>5, WriteEffect
       DEF NotifyMentor, NotifyCoaching, Stop, Becomes, Idle, InFlight
  <2>2. QED
    BY <2>1
<1>6. InFlight(req[v]) => req[v].a \in Assessments
  BY <1>0, RequestShape DEF InFlight
<1>7. QED
  BY <1>1, <1>2, <1>3, <1>4, <1>5, <1>6, StepKinds

\* A row that is written was that of a request in flight.
LEMMA RowStays ==
  ASSUME TypeOK, [Next]_vars, NEW a \in Assessments, row'[a] # row[a]
  PROVE  \E w \in Workers : Write(w) /\ Touches(req[w], a) /\ Written(w, row'[a])
<1>1. PICK w \in Workers : Write(w)
  BY RowStep
<1>2. QED
  BY <1>1, WriteEffect DEF Touches, InFlight

LEMMA NoneOnCompletedStep ==
  ASSUME IInv, NoneOnCompleted, [Next]_vars, CompletesAlone
  PROVE  NoneOnCompleted'
<1> SUFFICES ASSUME NEW v \in Workers, InFlight(req'[v]),
                    row'[req'[v].a].status = "completed"
             PROVE  FALSE
  BY DEF NoneOnCompleted, InFlight
<1>1. PICK a \in Assessments : req'[v].a = a
  BY InFlightBefore DEF IInv
<1>2. row[a].status = "completed"
  BY <1>1 DEF CompletesAlone, Touches
<1>3. QED
  BY <1>1, <1>2, InFlightBefore DEF IInv, NoneOnCompleted

LEMMA NoSelfOnSubmittedStep ==
  ASSUME IInv, NoSelfOnSubmitted, [Next]_vars, SubmitsAlone
  PROVE  NoSelfOnSubmitted'
<1> SUFFICES ASSUME NEW v \in Workers, InFlight(req'[v]), req'[v].op = "saveSelf",
                    row'[req'[v].a].status # "draft"
             PROVE  FALSE
  BY DEF NoSelfOnSubmitted, InFlight
<1>1. PICK a \in Assessments : req'[v].a = a
  BY InFlightBefore DEF IInv
<1>2. row[a].status # "draft"
  BY <1>1 DEF SubmitsAlone, Touches
<1>3. QED
  BY <1>1, <1>2, InFlightBefore DEF IInv, NoSelfOnSubmitted

\* The overlaps that may edit a completed cycle are the ones of lifecycle_race
\* and no others: if each completion finds itself alone on its cycle, a completed
\* cycle never changes, whatever else overlaps or stops half-way.
THEOREM CompletedAloneStaysFrozen ==
  Spec /\ [][CompletesAlone]_vars => CompletedIsFrozen
<1>1. Init => NoneOnCompleted
  BY DEF Init, Idle, InFlight, NoneOnCompleted
<1>2. IInv /\ NoneOnCompleted /\ [Next]_vars /\ [CompletesAlone]_vars => NoneOnCompleted'
  <2>1. CASE UNCHANGED vars
    BY <2>1 DEF vars, NoneOnCompleted
  <2>2. QED
    BY <2>1, NoneOnCompletedStep
<1>3. IInv /\ NoneOnCompleted /\ [Next]_vars =>
        [\A a \in Assessments : row[a].status = "completed" => row'[a] = row[a]]_vars
  BY RowStays DEF IInv, NoneOnCompleted, Touches
<1>4. QED
  BY Invariance, <1>1, <1>2, <1>3, PTL DEF Spec, CompletedIsFrozen

\* Likewise, if each submission finds nobody else saving the student's self
\* scores, they never change once submitted, whatever else overlaps.
THEOREM SelfSubmittedAloneStaysFrozen ==
  Spec /\ [][SubmitsAlone]_vars => SelfFrozenOnceSubmitted
<1>1. Init => NoSelfOnSubmitted
  BY DEF Init, Idle, InFlight, NoSelfOnSubmitted
<1>2. IInv /\ NoSelfOnSubmitted /\ [Next]_vars /\ [SubmitsAlone]_vars => NoSelfOnSubmitted'
  <2>1. CASE UNCHANGED vars
    BY <2>1 DEF vars, NoSelfOnSubmitted
  <2>2. QED
    BY <2>1, NoSelfOnSubmittedStep
<1>3. IInv /\ NoSelfOnSubmitted /\ [Next]_vars =>
        [\A a \in Assessments :
           row[a].status # "draft" => row'[a].self = row[a].self]_vars
  <2> SUFFICES ASSUME IInv, NoSelfOnSubmitted, [Next]_vars, NEW a \in Assessments,
                      row[a].status # "draft", row'[a].self # row[a].self
               PROVE  FALSE
    OBVIOUS
  <2>1. PICK w \in Workers : Touches(req[w], a) /\ Written(w, row'[a])
    BY RowStays DEF IInv
  <2>2. req[w].op = "saveSelf"
    BY <2>1 DEF Written, Touches
  <2>3. QED
    BY <2>1, <2>2 DEF NoSelfOnSubmitted, Touches
<1>4. QED
  BY Invariance, <1>1, <1>2, <1>3, PTL DEF Spec, SelfFrozenOnceSubmitted

-----------------------------------------------------------------------------
(* The coaching flags are current.  submitMentor gathers what the rule needs *)
(* in three reads: the agreed scores, the scale, the previous period.  The   *)
(* first and the last can change only by requests about the same student,    *)
(* the scale only by a coordinator.                                          *)

\* No two requests about one student, of any of his assessments, are in flight.
OneRequestPerStudent ==
  \A v, w \in Workers :
    /\ InFlight(req[v]) /\ InFlight(req[w])
    /\ StudentOf[req[v].a] = StudentOf[req[w].a]
    => v = w

\* The scale is changed only while no request is in flight.
RescalesAlone == scale' = scale \/ \A w \in Workers : ~ InFlight(req[w])

LEMMA ScaleOnlyRescaled ==
  ASSUME [Next]_vars
  PROVE  scale' = scale \/ \E s \in Scales : Rescale(s)
<1>1. ASSUME NEW w \in Workers, Call(w) \/ Proceed(w) \/ Stop(w)
      PROVE  scale' = scale
  <2>1. CASE Call(w)
    BY <2>1 DEF Call, SaveSelf, SubmitSelf, SaveMentor, SubmitMentor
  <2>2. CASE Proceed(w)
    BY <2>2 DEF Proceed, CheckSaveSelf, CheckSaveMentor, ReadScale, ReadPrevious,
                WriteSelf, WriteSubmitted, WriteReview, WriteCompleted,
                NotifyMentor, NotifyCoaching
  <2>3. CASE Stop(w)
    BY <2>3 DEF Stop
  <2>4. QED
    BY <1>1, <2>1, <2>2, <2>3
<1>2. QED
  BY <1>1 DEF Next, Steady, vars

LEMMA ScaleStep ==
  ASSUME [Next]_vars
  PROVE  scale' = scale \/ UNCHANGED <<row, req>>
BY ScaleOnlyRescaled DEF Rescale

\* What a completion has gathered so far is what the tables still say.
Gathered(r) ==
  /\ r.stage = "loaded" => r.snap = row[r.a]
  /\ r.stage = "scaled" => r.snap = row[r.a] /\ r.scaleMax = scale
  /\ r.stage = "ready" =>
       \E previous \in PreviousAgreedScores(r.a) :
         r.flagged = Recommended(row[r.a].agreed, scale, previous)

CompletionsAreCurrent ==
  \A w \in Workers :
    InFlight(req[w]) /\ req[w].op = "submitMentor" => Gathered(req[w])

\* What the rule reads of other assessments belongs to the same student.
LEMMA PreviousStays ==
  ASSUME NEW a \in Assessments,
         \A b \in Assessments : StudentOf[b] = StudentOf[a] => row'[b] = row[b]
  PROVE  PreviousAgreedScores(a)' = PreviousAgreedScores(a)
<1>1. PreviousRows(a)' = PreviousRows(a)
  BY DEF PreviousRows
<1>2. \A b \in PreviousRows(a) : row'[b].agreed = row[b].agreed
  BY DEF PreviousRows
<1>3. QED
  BY <1>1, <1>2 DEF PreviousAgreedScores

\* What a completion gathered stays current while nobody writes to its student.
LEMMA GatheredStays ==
  ASSUME NEW r, r.a \in Assessments, Gathered(r), scale' = scale,
         \A b \in Assessments : StudentOf[b] = StudentOf[r.a] => row'[b] = row[b]
  PROVE  Gathered(r)'
<1>1. row'[r.a] = row[r.a]
  OBVIOUS
<1>2. PreviousAgreedScores(r.a)' = PreviousAgreedScores(r.a)
  BY PreviousStays
<1>3. \A previous : Recommended(row[r.a].agreed, scale, previous)'
                      = Recommended(row[r.a].agreed, scale, previous)
  BY <1>1 DEF Recommended
<1>4. QED
  BY <1>1, <1>2, <1>3 DEF Gathered

\* The step of a completion itself reads what is there now.
LEMMA GathersNow ==
  ASSUME IInv, CompletionsAreCurrent, NEW w \in Workers, row' = row, scale' = scale,
         \/ Call(w) \/ CheckSaveSelf(w) \/ CheckSaveMentor(w)
         \/ ReadScale(w) \/ ReadPrevious(w),
         InFlight(req'[w]), req'[w].op = "submitMentor"
  PROVE  Gathered(req[w])'
<1> DEFINE r == req[w]
<1>0. req \in [Workers -> Request] /\ r \in Request
  BY DEF IInv, TypeOK
<1>1. ASSUME NEW a \in Assessments, SubmitMentor(w, a)
      PROVE  Gathered(req[w])'
  <2>1. req'[w] = Loaded("submitMentor", a, NoScores, FALSE)
    BY <1>0, <1>1 DEF SubmitMentor, Becomes
  <2>2. QED
    BY <2>1 DEF Loaded, Gathered
<1>2. CASE Call(w)
  <2>1. PICK a \in Assessments :
          \/ \E given \in ScoreMap : SaveSelf(w, a, given)
          \/ SubmitSelf(w, a)
          \/ \E given \in ScoreMap, mark \in BOOLEAN : SaveMentor(w, a, given, mark)
          \/ SubmitMentor(w, a)
    BY <1>2 DEF Call
  <2>2. SubmitMentor(w, a)
    BY <1>0, <2>1 DEF SaveSelf, SubmitSelf, SaveMentor, Becomes, Loaded, Ready
  <2>3. QED
    BY <1>1, <2>2
<1>3. CASE CheckSaveSelf(w) \/ CheckSaveMentor(w)
  BY <1>0, <1>3 DEF CheckSaveSelf, CheckSaveMentor, Becomes, Ready, Idle, InFlight
<1>4. CASE ReadScale(w)
  <2>1. r.stage = "loaded" /\ r.op = "submitMentor" /\ InFlight(r) /\ req'[w] = Scaled(r)
    BY <1>0, <1>4 DEF ReadScale, Becomes, InFlight
  <2>2. r.snap = row[r.a]
    BY <2>1 DEF CompletionsAreCurrent, Gathered
  <2>3. QED
    BY <2>1, <2>2 DEF Scaled, Gathered
<1>5. CASE ReadPrevious(w)
  <2>1. r.stage = "scaled" /\ r.op = "submitMentor" /\ InFlight(r)
    BY <1>0, <1>5 DEF ReadPrevious, Request, Idle, InFlight
  <2>2. r.a \in Assessments /\ r.snap = row[r.a] /\ r.scaleMax = scale
    BY <1>0, <2>1, RequestShape DEF CompletionsAreCurrent, Gathered
  <2>3. PICK previous \in PreviousAgreedScores(r.a) :
          Becomes(w, Ready("submitMentor", r.a, NoScores, "completed",
                           Recommended(r.snap.agreed, r.scaleMax, previous)))
    BY <1>5 DEF ReadPrevious
  <2>4. /\ req'[w].stage = "ready" /\ req'[w].a = r.a
        /\ req'[w].flagged = Recommended(row[r.a].agreed, scale, previous)
    BY <1>0, <2>2, <2>3 DEF Becomes, Ready
  <2>5. PICK a \in Assessments : a = r.a
    BY <2>2
  <2>6. PreviousAgreedScores(a)' = PreviousAgreedScores(a)
    BY PreviousStays
  <2>7. Recommended(row[a].agreed, scale, previous)'
          = Recommended(row[a].agreed, scale, previous)
    BY DEF Recommended
  <2>8. QED
    BY <2>4, <2>5, <2>6, <2>7 DEF Gathered
<1>6. QED
  BY <1>2, <1>3, <1>4, <1>5

LEMMA CurrentStep ==
  ASSUME IInv, CompletionsAreCurrent, OneRequestPerStudent, [Next]_vars,
         [RescalesAlone]_vars
  PROVE  CompletionsAreCurrent'
<1>1. SUFFICES ASSUME NEW w \in Workers, InFlight(req'[w]), req'[w].op = "submitMentor"
               PROVE  Gathered(req[w])'
  BY DEF CompletionsAreCurrent, InFlight
<1>0. scale' = scale
  BY <1>1, ScaleStep DEF RescalesAlone, vars
<1>2. ASSUME req'[w] = req[w],
             \A b \in Assessments : StudentOf[b] = StudentOf[req[w].a] => row'[b] = row[b]
      PROVE  Gathered(req[w])'
  <2>1. req[w].a \in Assessments /\ Gathered(req[w])
    BY <1>1, <1>2, RequestShape DEF IInv, TypeOK, InFlight, CompletionsAreCurrent
  <2>2. QED
    BY <1>0, <1>2, <2>1, GatheredStays DEF Gathered
<1>3. CASE row' = row /\ UNCHANGED req
  BY <1>2, <1>3
<1>4. ASSUME NEW v \in Workers, row' = row,
             Call(v) \/ CheckSaveSelf(v) \/ CheckSaveMentor(v)
                     \/ ReadScale(v) \/ ReadPrevious(v)
      PROVE  Gathered(req[w])'
  <2>1. CASE v = w
    BY <1>0, <1>1, <1>4, <2>1, GathersNow
  <2>2. CASE v # w
    BY <1>2, <1>4, <2>2, LoadSound, CheckSound
  <2>3. QED
    BY <2>1, <2>2
<1>5. ASSUME NEW v \in Workers, row' = row, NotifyMentor(v) \/ NotifyCoaching(v) \/ Stop(v)
      PROVE  Gathered(req[w])'
  <2>1. req'[v] = Idle /\ \A u \in Workers : u # v => req'[u] = req[u]
    BY <1>5 DEF NotifyMentor, NotifyCoaching, Stop, Becomes, IInv, TypeOK
  <2>2. w # v
    BY <1>1, <2>1 DEF Idle, InFlight
  <2>3. QED
    BY <1>2, <1>5, <2>1, <2>2
<1>6. ASSUME NEW v \in Workers, Write(v)
      PROVE  Gathered(req[w])'
  <2>1. /\ req[v].stage = "ready"
        /\ \A b \in Assessments : b # req[v].a => row'[b] = row[b]
        /\ \A u \in Workers : u # v => req'[u] = req[u]
        /\ ~ InFlight(req'[v])
    BY <1>6, WriteEffect DEF IInv
  <2>2. w # v /\ req'[w] = req[w]
    BY <1>1, <2>1
  <2>3. StudentOf[req[v].a] # StudentOf[req[w].a]
    BY <1>1, <2>1, <2>2 DEF OneRequestPerStudent, InFlight
  <2>4. QED
    BY <1>2, <2>1, <2>2, <2>3
<1>7. QED
  BY <1>3, <1>4, <1>5, <1>6, StepKinds

\* A step completes an assessment only by a completion's write.
LEMMA CompletedCurrent ==
  ASSUME IInv, CompletionsAreCurrent, [Next]_vars, NEW a \in Assessments,
         row[a].status # "completed", row'[a].status = "completed"
  PROVE  \E previous \in PreviousAgreedScores(a) :
           row'[a].flagged = Recommended(row[a].agreed, scale, previous)
<1>1. PICK w \in Workers : Write(w) /\ req[w].a = a
  BY RowStep, WriteEffect DEF IInv
<1>2. req[w].stage = "ready" /\ InFlight(req[w]) /\ Written(w, row'[a])
  BY <1>1, WriteEffect DEF IInv, InFlight
<1>3. Sound(req[w], row[a])
  BY <1>1, <1>2 DEF IInv, RequestsAreSound
<1>4. req[w].op = "submitMentor" /\ row'[a].flagged = req[w].flagged
  BY <1>1, <1>2, <1>3 DEF Written, Sound, Keep
<1>5. QED
  BY <1>1, <1>2, <1>4 DEF CompletionsAreCurrent, Gathered

\* While nobody changes the scale under a request and no two requests about one
\* student overlap, the flags of every completed assessment are the coaching rule applied to its
\* agreed scores, the scale and the previous period as they are at that moment,
\* half-way stops and requests about other students included
\* (assessments.service.ts:326).
THEOREM FlagsAlwaysCurrent ==
  Spec /\ []OneRequestPerStudent /\ [][RescalesAlone]_vars => FlagsAreCurrent
<1>1. Init => CompletionsAreCurrent
  BY DEF Init, Idle, InFlight, CompletionsAreCurrent
<1>2. IInv /\ CompletionsAreCurrent /\ OneRequestPerStudent /\ [Next]_vars
        /\ [RescalesAlone]_vars => CompletionsAreCurrent'
  BY CurrentStep
<1>3. IInv /\ CompletionsAreCurrent /\ [Next]_vars =>
        [\A a \in Assessments :
           row[a].status # "completed" /\ row'[a].status = "completed" =>
             \E previous \in PreviousAgreedScores(a) :
               row'[a].flagged = Recommended(row[a].agreed, scale, previous)]_vars
  BY CompletedCurrent
<1>4. QED
  BY Invariance, <1>1, <1>2, <1>3, PTL DEF Spec, FlagsAreCurrent

-----------------------------------------------------------------------------
(* The handlers are what Programme takes them for.                           *)

\* What a review has checked besides the row: that somebody mentors the student
\* and that its scores are within the scale.
ReviewsAreLet(r) ==
  /\ r.op \in {"saveMentor", "submitMentor"} => IsMentored(r.a)
  /\ r.op = "saveMentor" => Dimensions # {}
  /\ r.op = "saveMentor" /\ r.stage = "ready" => InRange(r.given, scale)

ReviewsStayLet == \A w \in Workers : InFlight(req[w]) => ReviewsAreLet(req[w])

\* No two periods of a student start on one date.
StartsDiffer ==
  \A a, b \in Assessments : StudentOf[a] = StudentOf[b] /\ StartOf[a] = StartOf[b] => a = b

LEMMA LetStep ==
  ASSUME IInv, ReviewsStayLet, [Next]_vars, [RescalesAlone]_vars
  PROVE  ReviewsStayLet'
<1>1. SUFFICES ASSUME NEW w \in Workers, InFlight(req'[w])
               PROVE  ReviewsAreLet(req[w])'
  BY DEF ReviewsStayLet, InFlight
<1>2. ASSUME req'[w] = req[w]
      PROVE  ReviewsAreLet(req[w])'
  <2>1. scale' = scale
    BY <1>1, <1>2, ScaleStep DEF RescalesAlone, vars
  <2>2. ReviewsAreLet(req[w])
    BY <1>1, <1>2 DEF ReviewsStayLet
  <2>3. QED
    BY <1>2, <2>1, <2>2 DEF ReviewsAreLet, InRange, IsMentored
<1>3. CASE UNCHANGED req
  BY <1>2, <1>3
<1>4. ASSUME NEW v \in Workers, row' = row,
             Call(v) \/ CheckSaveSelf(v) \/ CheckSaveMentor(v)
                     \/ ReadScale(v) \/ ReadPrevious(v)
      PROVE  ReviewsAreLet(req[w])'
  <2>0. req \in [Workers -> Request]
    BY DEF IInv, TypeOK
  <2>1. CASE v # w
    BY <1>2, <1>4, <2>1, LoadSound, CheckSound
  <2>2. CASE v = w /\ Call(w)
    BY <2>0, <2>2 DEF Call, SaveSelf, SubmitSelf, SaveMentor, SubmitMentor, Becomes,
                      Loaded, Ready, ReviewsAreLet, IsMentored
  <2>3. CASE v = w /\ CheckSaveSelf(w)
    BY <1>1, <2>0, <2>3 DEF CheckSaveSelf, Becomes, Ready, Idle, InFlight, ReviewsAreLet
  <2>4. CASE v = w /\ CheckSaveMentor(w)
    <3>1. /\ ReviewsAreLet(req[w]) /\ req[w].op = "saveMentor" /\ scale' = scale
      BY <2>4 DEF CheckSaveMentor, InFlight, ReviewsStayLet
    <3>2. /\ req'[w] = Ready("saveMentor", req[w].a, req[w].given, ReviewStatus(req[w]), {})
          /\ InRange(req[w].given, scale)
      BY <1>1, <2>0, <2>4 DEF CheckSaveMentor, AcceptsReview, Becomes, Idle, InFlight
    <3>3. QED
      BY <3>1, <3>2 DEF Ready, ReviewsAreLet, IsMentored, InRange
  <2>5. CASE v = w /\ (ReadScale(w) \/ ReadPrevious(w))
    <3>1. /\ req[w].op = "submitMentor" /\ InFlight(req[w])
          /\ req'[w].a = req[w].a /\ req'[w].op = "submitMentor"
      BY <2>0, <2>5 DEF ReadScale, ReadPrevious, Becomes, Scaled, Ready, Request, Idle,
                        InFlight
    <3>2. QED
      BY <3>1 DEF ReviewsStayLet, ReviewsAreLet, IsMentored
  <2>6. QED
    BY <1>4, <2>1, <2>2, <2>3, <2>4, <2>5
<1>5. ASSUME NEW v \in Workers, NotifyMentor(v) \/ NotifyCoaching(v) \/ Stop(v)
      PROVE  ReviewsAreLet(req[w])'
  <2>1. req'[v] = Idle /\ \A u \in Workers : u # v => req'[u] = req[u]
    BY <1>5 DEF NotifyMentor, NotifyCoaching, Stop, Becomes, IInv, TypeOK
  <2>2. QED
    BY <1>1, <1>2, <2>1 DEF Idle, InFlight
<1>6. ASSUME NEW v \in Workers, Write(v)
      PROVE  ReviewsAreLet(req[w])'
  BY <1>1, <1>2, <1>6, WriteEffect DEF IInv
<1>7. QED
  BY <1>3, <1>4, <1>5, <1>6, StepKinds

-----------------------------------------------------------------------------
(* The view of the tables. *)

LEMMA ViewOfRow ==
  ASSUME NEW a \in Assessments
  PROVE  /\ Key(a) \in DOMAIN ProgrammeView
         /\ ProgrammeView[Key(a)] = AssessmentView(row[a])
         /\ Key(a)[1] = StudentOf[a] /\ Key(a)[2] = a
BY DEF ProgrammeView, Key

\* What the view of a row shows of it.
LEMMA ViewFields ==
  ASSUME NEW x, NEW agreed, agreed = Given(x.agreed)
  PROVE  /\ AssessmentView(x) = [status |-> x.status, scored |-> Dimensions,
                                 agreed |-> agreed, flagged |-> x.flagged]
         /\ AssessmentView(x).status = x.status
         /\ AssessmentView(x).scored = Dimensions
         /\ AssessmentView(x).agreed = agreed
         /\ AssessmentView(x).flagged = x.flagged
<1>1. AssessmentView(x) = [status |-> x.status, scored |-> Dimensions, agreed |-> agreed,
                           flagged |-> x.flagged]
  BY Zenon DEF AssessmentView
<1>2. QED
  BY <1>1

\* By student and period, or by assessment.
ByKey(f) == [r \in {Key(b) : b \in Assessments} |-> f[r[2]]]

LEMMA EditByKey ==
  ASSUME NEW f, NEW g, NEW a \in Assessments,
         \A b \in Assessments : b # a => g[b] = f[b]
  PROVE  /\ ByKey(g) = [ByKey(f) EXCEPT ![Key(a)] = g[a]]
         /\ g[a] = f[a] => ByKey(g) = ByKey(f)
<1> DEFINE Keys == {Key(b) : b \in Assessments}
<1>1. /\ Key(a) \in Keys
      /\ \A r \in Keys : r[2] \in Assessments /\ (r[2] = a <=> r = Key(a))
  BY DEF Key
<1>2. ByKey(f) = [r \in Keys |-> f[r[2]]] /\ ByKey(g) = [r \in Keys |-> g[r[2]]]
  BY DEF ByKey
<1> HIDE DEF Keys
<1>3. [ByKey(f) EXCEPT ![Key(a)] = g[a]] = [r \in Keys |-> IF r = Key(a) THEN g[a] ELSE f[r[2]]]
  BY <1>1, <1>2
<1>4. \A r \in Keys : g[r[2]] = IF r = Key(a) THEN g[a] ELSE f[r[2]]
  BY <1>1
<1>5. \A r \in Keys : g[a] = f[a] => g[r[2]] = f[r[2]]
  BY <1>1
<1>6. QED
  BY <1>2, <1>3, <1>4, <1>5

\* A write shows as an edit of one row of the view, and nothing else changes.
LEMMA ViewOfWrite ==
  ASSUME TypeOK, NEW w \in Workers, Write(w)
  PROVE  LET a == req[w].a
         IN  /\ Composed!Becomes(Key(a), AssessmentView(row'[a]))
             /\ AssessmentView(row'[a]) = AssessmentView(row[a]) => UNCHANGED Composed!vars
<1>1. PICK a \in Assessments : a = req[w].a
  BY WriteEffect
<1>2. scale' = scale /\ \A b \in Assessments : b # a => row'[b] = row[b]
  BY <1>1, WriteEffect
<1>3. PICK f : f = [b \in Assessments |-> AssessmentView(row[b])]
  OBVIOUS
<1>4. PICK g : g = [b \in Assessments |-> AssessmentView(row'[b])]
  OBVIOUS
<1>5. \A b \in Assessments : f[b] = AssessmentView(row[b]) /\ g[b] = AssessmentView(row'[b])
  BY <1>3, <1>4
<1>6. \A b \in Assessments : b # a => g[b] = f[b]
  BY <1>2, <1>5
<1>7. ProgrammeView = ByKey(f)
  BY <1>5 DEF ProgrammeView, ByKey, Key
<1>8. ProgrammeView' = ByKey(g)
  BY <1>5 DEF ProgrammeView, ByKey, Key
<1>9. /\ ProgrammeView' = [ProgrammeView EXCEPT ![Key(a)] = g[a]]
      /\ g[a] = f[a] => ProgrammeView' = ProgrammeView
  BY <1>6, <1>7, <1>8, EditByKey
<1>10. CohortView' = CohortView
  BY <1>2 DEF CohortView
<1>11. UNCHANGED <<[s \in Students |-> "cohort"], CohortView, Dimensions,
                   [b \in Assessments |-> "active"], RosterView>>
  BY <1>10 DEF RosterView
<1>12. Composed!Becomes(Key(a), g[a])
  BY <1>9, <1>11 DEF Composed!Becomes
<1>13. g[a] = f[a] => UNCHANGED Composed!vars
  BY <1>9, <1>11 DEF Composed!vars
<1>14. QED
  BY <1>1, <1>5, <1>12, <1>13

-----------------------------------------------------------------------------
(* Every handler, when it writes, is the one step of Programme. *)

LEMMA GivenOverlay ==
  ASSUME NEW stored, NEW given
  PROVE  /\ Given(Overlay(stored, given)) = Composed!Overlay(Given(stored), Given(given))
         /\ Complete(Overlay(stored, given)) =>
              DOMAIN Composed!Overlay(Given(stored), Given(given)) = Dimensions
<1> DEFINE D(scores) == {e \in Dimensions : scores[e] # NoScore}
<1>1. \A d \in Dimensions :
        Overlay(stored, given)[d] = IF given[d] = NoScore THEN stored[d] ELSE given[d]
  BY DEF Overlay
<1>2. D(Overlay(stored, given)) = D(stored) \cup D(given)
  BY <1>1
<1>3. Given(Overlay(stored, given))
        = [d \in D(stored) \cup D(given) |-> IF given[d] = NoScore THEN stored[d] ELSE given[d]]
  BY <1>1, <1>2 DEF Given
<1>4. Composed!Overlay(Given(stored), Given(given))
        = [d \in D(stored) \cup D(given) |-> IF given[d] = NoScore THEN stored[d] ELSE given[d]]
  BY DEF Composed!Overlay, Given
<1>5. Complete(Overlay(stored, given)) => D(Overlay(stored, given)) = Dimensions
  BY DEF Complete
<1>6. QED
  BY <1>2, <1>3, <1>4, <1>5

\* Somebody mentors the student there if somebody does here.
LEMMA MentorThere ==
  ASSUME NEW a \in Assessments, IsMentored(a)
  PROVE  \E f \in Facilitators : Composed!IsAssigned(f, Key(a)[1])
<1>1. PICK f : f \in Mentors[StudentOf[a]]
  BY DEF IsMentored
<1>2. f \in Facilitators /\ StudentOf[a] \in Students
  BY <1>1, LifecycleAssumption
<1>3. <<f, StudentOf[a], "cohort">> \in RosterView
  BY <1>1, <1>2 DEF RosterView
<1>4. QED
  BY <1>2, <1>3, ViewOfRow DEF Composed!IsAssigned

LEMMA SubmissionThere ==
  ASSUME Serial, NEW w \in Workers, Write(w), req[w].op = "submitSelf"
  PROVE  Composed!SubmitSelf(Key(req[w].a))
<1> DEFINE a == req[w].a
<1>1. a \in Assessments /\ row[a].status = "draft" /\ Written(w, row'[a])
  BY WriteEffect, WriteFinds DEF Serial, IInv
<1>2. AssessmentView(row'[a]) = [AssessmentView(row[a]) EXCEPT !.status = "self_submitted"]
  BY <1>1 DEF Written, AssessmentView
<1>3. Composed!Becomes(Key(a), AssessmentView(row'[a]))
  BY ViewOfWrite DEF Serial, IInv
<1>4. ProgrammeView[Key(a)] = AssessmentView(row[a]) /\ AssessmentView(row[a]).status = "draft"
  BY <1>1, ViewOfRow DEF AssessmentView
<1>5. QED
  BY <1>2, <1>3, <1>4 DEF Composed!SubmitSelf

LEMMA ReviewThere ==
  ASSUME Serial, ReviewsStayLet, NEW w \in Workers, Write(w), req[w].op = "saveMentor"
  PROVE  \E f \in Facilitators, mark \in BOOLEAN :
           Composed!Review(f, Key(req[w].a), Given(req[w].given), mark)
<1> DEFINE r == req[w]
           a == r.a
           old == row[a]
           mark == r.status = "agreed"
<1>1. /\ a \in Assessments /\ r.stage = "ready" /\ Written(w, row'[a])
      /\ old \in Row
  BY WriteEffect DEF Serial, IInv
<1>2. /\ old.status \in {"self_submitted", "mentor_review", "agreed"}
      /\ r.status \in {"mentor_review", "agreed", Keep}
      /\ r.status = Keep => old.status # "self_submitted"
      /\ r.status = "mentor_review" => old.status = "self_submitted"
      /\ mark => Complete(Overlay(old.agreed, r.given))
  BY WriteFinds
<1>3. IsMentored(a) /\ Dimensions # {} /\ InRange(r.given, scale)
  BY <1>1 DEF ReviewsStayLet, ReviewsAreLet, InFlight
<1>4. PICK f \in Facilitators : Composed!IsAssigned(f, Key(a)[1])
  BY <1>1, <1>3, MentorThere
<1>5. ProgrammeView[Key(a)] = AssessmentView(old) /\ Key(a)[2] = a
  BY <1>1, ViewOfRow
<1>6. Composed!Becomes(Key(a), AssessmentView(row'[a]))
  BY ViewOfWrite DEF Serial, IInv
<1>7. /\ row'[a].status = Composed!ReviewStatus(old.status, mark)
      /\ row'[a].agreed = Overlay(old.agreed, r.given)
      /\ row'[a].flagged = old.flagged
  <2>1. /\ row'[a].status = IF r.status = Keep THEN old.status ELSE r.status
        /\ row'[a].agreed = Overlay(old.agreed, r.given)
        /\ row'[a].flagged = old.flagged
    BY <1>1 DEF Written
  <2>2. QED
    BY <1>2, <2>1 DEF Composed!ReviewStatus, Keep
<1> HIDE DEF mark
<1>8. DOMAIN Given(r.given) \subseteq Dimensions
  BY DEF Given
<1>9. Composed!InRange(Given(r.given), scale)
  BY <1>3 DEF Given, InRange, Composed!InRange
<1>10. AssessmentView(row'[a])
         = [AssessmentView(old) EXCEPT
              !.agreed = Composed!Overlay(AssessmentView(old).agreed, Given(r.given)),
              !.status = Composed!ReviewStatus(AssessmentView(old).status, mark)]
  <2>1. PICK stored : stored = Given(old.agreed)
    OBVIOUS
  <2>2. PICK agreed : agreed = Composed!Overlay(stored, Given(r.given))
    OBVIOUS
  <2>3. agreed = Given(row'[a].agreed)
    BY <1>7, <2>1, <2>2, GivenOverlay
  <2>4. AssessmentView(old) = [status |-> old.status, scored |-> Dimensions,
                               agreed |-> stored, flagged |-> old.flagged]
    BY <2>1, ViewFields
  <2>5. AssessmentView(row'[a])
          = [status |-> Composed!ReviewStatus(old.status, mark), scored |-> Dimensions,
             agreed |-> agreed, flagged |-> old.flagged]
    BY <1>7, <2>3, ViewFields
  <2>6. PICK v : v = [AssessmentView(old) EXCEPT !.agreed = agreed]
    OBVIOUS
  <2>7. v = [status |-> old.status, scored |-> Dimensions, agreed |-> agreed,
             flagged |-> old.flagged]
    BY <2>4, <2>6
  <2>8. [v EXCEPT !.status = Composed!ReviewStatus(old.status, mark)]
          = [status |-> Composed!ReviewStatus(old.status, mark), scored |-> Dimensions,
             agreed |-> agreed, flagged |-> old.flagged]
    BY <2>7
  <2>9. [v EXCEPT !.status = Composed!ReviewStatus(old.status, mark)]
          = [AssessmentView(old) EXCEPT
               !.agreed = agreed, !.status = Composed!ReviewStatus(old.status, mark)]
    BY <2>6, Zenon
  <2>10. /\ AssessmentView(old).status = old.status
         /\ agreed = Composed!Overlay(AssessmentView(old).agreed, Given(r.given))
    BY <2>1, <2>2, ViewFields
  <2>11. QED
    BY <2>5, <2>8, <2>9, <2>10, Zenon
<1>11. Composed!Reviewable(f, Key(a))
  BY <1>2, <1>3, <1>4, <1>5 DEF Composed!Reviewable, Composed!Pending, AssessmentView
<1>12. mark => DOMAIN Composed!Overlay(AssessmentView(old).agreed, Given(r.given)) = Dimensions
  BY <1>2, GivenOverlay DEF AssessmentView
<1>13. CohortView[[x \in Assessments \cup Dimensions |-> "cohort"][Key(a)[2]]].scale = scale
  BY <1>1, <1>5 DEF CohortView
<1>14. mark \in BOOLEAN
  BY DEF mark
<1>15. AssessmentView(old).scored = Dimensions
  BY DEF AssessmentView
<1>16. Composed!Review(f, Key(a), Given(r.given), mark)
  BY <1>5, <1>6, <1>8, <1>9, <1>10, <1>11, <1>12, <1>13, <1>15 DEF Composed!Review
<1>17. QED
  BY <1>4, <1>14, <1>16

\* With no two periods of a student starting on one date, there is at most one
\* previous assessment to choose, here and there.
LEMMA PreviousThere ==
  ASSUME StartsDiffer, NEW a \in Assessments
  PROVE  /\ Composed!Previous(Key(a)) = {Key(b) : b \in PreviousRows(a)}
         /\ \A b, c \in PreviousRows(a) : b = c
<1>1. /\ Composed!Rows = {Key(b) : b \in Assessments}
      /\ \A b \in Assessments : ProgrammeView[Key(b)].status = row[b].status
  BY DEF Composed!Rows, ProgrammeView, Key, AssessmentView
<1>2. \A b \in Assessments : Key(b)[1] = StudentOf[b] /\ Key(b)[2] = b
  BY DEF Key
<1>3. Composed!Completed = {Key(b) : b \in {c \in Assessments : row[c].status = "completed"}}
  BY <1>1 DEF Composed!Completed
<1> DEFINE earlier == {b \in Assessments : /\ StudentOf[b] = StudentOf[a]
                                           /\ row[b].status = "completed"
                                           /\ StartOf[b] < StartOf[a]}
           there == {q \in Composed!Completed :
                       q[1] = Key(a)[1] /\ StartOf[q[2]] < StartOf[Key(a)[2]]}
<1>4. there = {Key(b) : b \in earlier}
  BY <1>2, <1>3
<1>5. Composed!Previous(Key(a)) = {q \in there : \A e \in there : StartOf[e[2]] <= StartOf[q[2]]}
  BY DEF Composed!Previous
<1>6. PreviousRows(a) = {b \in earlier : \A c \in earlier : StartOf[c] <= StartOf[b]}
  BY DEF PreviousRows
<1>7. \A b, c \in PreviousRows(a) : b = c
  <2>1. SUFFICES ASSUME NEW b \in PreviousRows(a), NEW c \in PreviousRows(a)
                 PROVE  b = c
    OBVIOUS
  <2>2. StartOf[b] <= StartOf[c] /\ StartOf[c] <= StartOf[b] /\ b \in earlier /\ c \in earlier
    BY <1>6
  <2>3. StartOf[b] \in Int /\ StartOf[c] \in Int
    BY <2>2, LifecycleAssumption
  <2>4. QED
    BY <2>2, <2>3 DEF StartsDiffer
<1>8. \A b \in earlier : b \in Assessments
  OBVIOUS
<1> HIDE DEF earlier, there
<1>9. Composed!Previous(Key(a)) = {Key(b) : b \in PreviousRows(a)}
  BY <1>2, <1>4, <1>5, <1>6, <1>8
<1>10. QED
  BY <1>7, <1>9

LEMMA RecommendedThere ==
  ASSUME TypeOK, StartsDiffer, NEW a \in Assessments, Complete(row[a].agreed),
         NEW previous \in PreviousAgreedScores(a)
  PROVE  Composed!Recommended(Key(a)) = Recommended(row[a].agreed, scale, previous)
<1>1. DOMAIN Given(row[a].agreed) = Dimensions
      /\ \A d \in Dimensions : Given(row[a].agreed)[d] = row[a].agreed[d]
  BY DEF Complete, Given
<1>2. /\ ProgrammeView[Key(a)].agreed = Given(row[a].agreed)
      /\ CohortView[[x \in Assessments \cup Dimensions |-> "cohort"][Key(a)[2]]].scale = scale
  BY ViewOfRow, ViewFields DEF CohortView
<1>3. ASSUME NEW d \in Dimensions
      PROVE  (\E q \in Composed!Previous(Key(a)) :
                 /\ d \in DOMAIN ProgrammeView[q].agreed
                 /\ row[a].agreed[d] <= ProgrammeView[q].agreed[d])
             <=> previous[d] # NoScore /\ row[a].agreed[d] <= previous[d]
  <2>1. CASE PreviousRows(a) = {}
    <3>1. previous[d] = NoScore
      BY <2>1 DEF PreviousAgreedScores, NoScores
    <3>2. Composed!Previous(Key(a)) = {}
      BY <2>1, PreviousThere
    <3>3. QED
      BY <3>1, <3>2
  <2>2. CASE PreviousRows(a) # {}
    <3>1. PICK b \in PreviousRows(a) : previous = row[b].agreed
      BY <2>2 DEF PreviousAgreedScores
    <3>2. Composed!Previous(Key(a)) = {Key(b)} /\ b \in Assessments
      BY <3>1, PreviousThere DEF PreviousRows
    <3>3. ProgrammeView[Key(b)].agreed = Given(previous)
      BY <3>1, <3>2, ViewOfRow, ViewFields
    <3>4. QED
      BY <3>2, <3>3 DEF Given
  <2>3. QED
    BY <2>1, <2>2
<1>4. Composed!Recommended(Key(a))
        = {d \in Dimensions :
             \/ 5 * row[a].agreed[d] <= 2 * scale
             \/ \E q \in Composed!Previous(Key(a)) :
                  /\ d \in DOMAIN ProgrammeView[q].agreed
                  /\ row[a].agreed[d] <= ProgrammeView[q].agreed[d]}
  BY <1>1, <1>2 DEF Composed!Recommended
<1>5. QED
  BY <1>3, <1>4 DEF Recommended, IsCoachingRecommended

LEMMA CompletionThere ==
  ASSUME Serial, CompletionsAreCurrent, ReviewsStayLet, StartsDiffer,
         NEW w \in Workers, Write(w), req[w].op = "submitMentor"
  PROVE  \E f \in Facilitators : Composed!Complete(f, Key(req[w].a))
<1> DEFINE r == req[w]
           a == r.a
<1>1. /\ a \in Assessments /\ r.stage = "ready" /\ Written(w, row'[a])
      /\ row[a].status = "agreed" /\ Complete(row[a].agreed)
  BY WriteEffect, WriteFinds DEF Serial, IInv
<1>2. InFlight(r)
  BY <1>1 DEF InFlight
<1>3. PICK f \in Facilitators : Composed!IsAssigned(f, Key(a)[1])
  BY <1>1, <1>2, MentorThere DEF ReviewsStayLet, ReviewsAreLet
<1>4. PICK previous \in PreviousAgreedScores(a) :
        r.flagged = Recommended(row[a].agreed, scale, previous)
  BY <1>1, <1>2 DEF CompletionsAreCurrent, Gathered
<1>5. r.flagged = Composed!Recommended(Key(a))
  BY <1>1, <1>4, RecommendedThere DEF Serial, IInv
<1>6. ProgrammeView[Key(a)] = AssessmentView(row[a])
  BY <1>1, ViewOfRow
<1>7. Composed!Becomes(Key(a), AssessmentView(row'[a]))
  BY ViewOfWrite DEF Serial, IInv
<1>8. AssessmentView(row'[a])
        = [AssessmentView(row[a]) EXCEPT !.status = "completed", !.flagged = r.flagged]
  <2>1. PICK agreed : agreed = Given(row[a].agreed)
    OBVIOUS
  <2>2. /\ row'[a].status = "completed" /\ row'[a].agreed = row[a].agreed
        /\ row'[a].flagged = r.flagged
    BY <1>1 DEF Written
  <2>3. AssessmentView(row'[a]) = [status |-> "completed", scored |-> Dimensions,
                                   agreed |-> agreed, flagged |-> r.flagged]
    BY <2>1, <2>2, ViewFields
  <2>4. AssessmentView(row[a]) = [status |-> row[a].status, scored |-> Dimensions,
                                  agreed |-> agreed, flagged |-> row[a].flagged]
    BY <2>1, ViewFields
  <2>5. PICK v : v = [AssessmentView(row[a]) EXCEPT !.status = "completed"]
    OBVIOUS
  <2>6. v = [status |-> "completed", scored |-> Dimensions, agreed |-> agreed,
             flagged |-> row[a].flagged]
    BY <2>4, <2>5
  <2>7. [v EXCEPT !.flagged = r.flagged]
          = [status |-> "completed", scored |-> Dimensions, agreed |-> agreed,
             flagged |-> r.flagged]
    BY <2>6
  <2>8. [v EXCEPT !.flagged = r.flagged]
          = [AssessmentView(row[a]) EXCEPT !.status = "completed", !.flagged = r.flagged]
    BY <2>5, Zenon
  <2>9. QED
    BY <2>3, <2>7, <2>8, Zenon
<1>9. AssessmentView(row[a]).status = "agreed"
  BY <1>1 DEF AssessmentView
<1>10. Composed!Complete(f, Key(a))
  BY <1>3, <1>5, <1>6, <1>7, <1>8, <1>9 DEF Composed!Complete
<1>11. QED
  BY <1>10

\* Drafting: self scores are not part of the view.
LEMMA EditThere ==
  ASSUME Serial, NEW w \in Workers, Write(w), req[w].op = "saveSelf"
  PROVE  UNCHANGED Composed!vars
<1> DEFINE a == req[w].a
<1>1. a \in Assessments /\ Written(w, row'[a])
  BY WriteEffect DEF Serial, IInv
<1>2. AssessmentView(row'[a]) = AssessmentView(row[a])
  BY <1>1 DEF Written, AssessmentView
<1>3. QED
  BY <1>2, ViewOfWrite DEF Serial, IInv

LEMMA WriteThere ==
  ASSUME Serial, CompletionsAreCurrent, ReviewsStayLet, StartsDiffer,
         NEW w \in Workers, Write(w)
  PROVE  [Composed!Next]_(Composed!vars)
<1> DEFINE a == req[w].a
           r == req[w]
<1>1. a \in Assessments /\ r.op \in Ops /\ r.given \in ScoreMap
  BY WriteEffect, RequestShape DEF Serial, IInv, TypeOK
<1>2. Key(a) \in Composed!Rows
  BY <1>1, ViewOfRow DEF Composed!Rows
<1>3. CASE r.op = "saveSelf"
  BY <1>3, EditThere
<1>4. CASE r.op = "submitSelf"
  BY <1>2, <1>4, SubmissionThere DEF Composed!Next, Composed!ReviewNext
<1>5. CASE r.op = "saveMentor"
  <2>1. PICK f \in Facilitators, mark \in BOOLEAN :
          Composed!Review(f, Key(a), Given(r.given), mark)
    BY <1>5, ReviewThere
  <2>2. Given(r.given) \in UNION {[D -> Scores] : D \in SUBSET Dimensions}
    <3>1. Given(r.given) \in [{d \in Dimensions : r.given[d] # NoScore} -> Scores]
      BY <1>1 DEF Given, ScoreMap
    <3>2. QED
      BY <3>1
  <2>3. Composed!ReviewNext
    BY <1>2, <2>1, <2>2 DEF Composed!ReviewNext
  <2>4. QED
    BY <2>3 DEF Composed!Next
<1>6. CASE r.op = "submitMentor"
  BY <1>2, <1>6, CompletionThere DEF Composed!Next, Composed!ReviewNext
<1>7. QED
  BY <1>1, <1>3, <1>4, <1>5, <1>6 DEF Ops

\* A new scale is an edit of the cohort.
LEMMA RescaleThere ==
  ASSUME NEW s \in Scales, Rescale(s)
  PROVE  Composed!Next
<1>1. row' = row /\ scale' = s
  BY DEF Rescale
<1>2. ProgrammeView' = ProgrammeView
  BY <1>1 DEF ProgrammeView
<1>3. CohortView' = [CohortView EXCEPT !["cohort"] = [scale |-> s, status |-> "active"]]
  BY <1>1 DEF CohortView
<1>4. UNCHANGED <<[t \in Students |-> "cohort"], Dimensions,
                  [a \in Assessments |-> "active"], RosterView, ProgrammeView>>
  BY <1>2 DEF RosterView
<1>5. Composed!UpdateCohort("cohort", s, "active")
  BY <1>3, <1>4 DEF Composed!UpdateCohort
<1>6. PICK e : e = <<"cohort", s, "active">>
  OBVIOUS
<1>7. e \in {"cohort"} \X Scales \X {"active"} /\ Composed!UpdateCohort(e[1], e[2], e[3])
  BY <1>5, <1>6
<1>8. QED
  BY <1>7 DEF Composed!Next

\* Reading, checking, telling and stopping are nothing to the programme.
LEMMA QuietThere ==
  ASSUME row' = row, scale' = scale
  PROVE  UNCHANGED Composed!vars
<1>1. ProgrammeView' = ProgrammeView /\ CohortView' = CohortView
  BY DEF ProgrammeView, CohortView
<1>2. UNCHANGED <<[s \in Students |-> "cohort"], Dimensions,
                  [a \in Assessments |-> "active"], RosterView>>
  BY DEF RosterView
<1>3. QED
  BY <1>1, <1>2 DEF Composed!vars

LEMMA ComposedStep ==
  ASSUME Serial, CompletionsAreCurrent, ReviewsStayLet, StartsDiffer, [Next]_vars
  PROVE  [Composed!Next]_(Composed!vars)
<1>1. CASE \E w \in Workers : Write(w)
  BY <1>1, WriteThere
<1>2. CASE \E s \in Scales : Rescale(s)
  BY <1>2, RescaleThere
<1>3. CASE row' = row /\ scale' = scale
  BY <1>3, QuietThere
<1>4. QED
  <2>1. scale' = scale \/ \E s \in Scales : Rescale(s)
    BY ScaleOnlyRescaled
  <2>2. QED
    BY <1>1, <1>2, <1>3, <2>1, RowStep

-----------------------------------------------------------------------------
(* What Programme takes for one step is one. *)

\* Programme takes every handler of AssessmentsService for one step.  That is
\* what the handlers amount to, whatever they read in between, stops included,
\* while no two requests about one student overlap, the scale is not changed under a
\* request and a student's periods start on different dates.
THEOREM ImplementsComposed ==
  ASSUME ~ Overlapping, StartsDiffer
  PROVE  Spec /\ []OneRequestPerStudent /\ [][RescalesAlone]_vars => ImplementsProgramme
<1>1. Init => Serial /\ CompletionsAreCurrent /\ ReviewsStayLet
  BY SerialInit DEF Init, Idle, InFlight, CompletionsAreCurrent, ReviewsStayLet
<1>2. Serial /\ [Next]_vars => Serial'
  BY SerialStep
<1>3. Serial /\ CompletionsAreCurrent /\ OneRequestPerStudent /\ [Next]_vars
        /\ [RescalesAlone]_vars => CompletionsAreCurrent'
  BY CurrentStep DEF Serial
<1>4. Serial /\ ReviewsStayLet /\ [Next]_vars /\ [RescalesAlone]_vars => ReviewsStayLet'
  BY LetStep DEF Serial
<1>5. Serial /\ CompletionsAreCurrent /\ ReviewsStayLet /\ [Next]_vars
        => [Composed!Next]_(Composed!vars)
  BY ComposedStep
<1>6. QED
  BY <1>1, <1>2, <1>3, <1>4, <1>5, PTL DEF Spec, ImplementsProgramme
=============================================================================
