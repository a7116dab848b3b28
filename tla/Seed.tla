--------------------------------- MODULE Seed ---------------------------------
(***************************************************************************)
(* prisma/seed.ts as a process.  It leaves a database that has users alone *)
(* unless SEED_RESET asks for it to be wiped, table by table, and then     *)
(* writes the demo data statement by statement.  Nothing is in a           *)
(* transaction, so it may stop anywhere, and every start of the container  *)
(* runs it again on what is there.                                         *)
(*                                                                         *)
(* A row is its table and a key that says what it is unique for.  Users    *)
(* are <<0>>, the coordinator, <<0, f>>, a facilitator, and <<c, s>>, a    *)
(* student; the keys of what belongs to a batch start with the batch.      *)
(* The score rows of an assessment are one row, and so are the items of a  *)
(* session and the goals of a student.                                     *)
(***************************************************************************)
EXTENDS SeedData, SequencesExt

VARIABLES
  db,        \* the rows
  run,       \* what the process is at, and the index of its next statement
  outcome    \* how the last run ended

vars == <<db, run, outcome>>

Of(table, rows) == {r \in rows : r[1] = table}

-----------------------------------------------------------------------------
(* The schema. *)

\* Fault: the batches are wiped last.
RESET_ORDER_COHORTS_LAST ==
  <<"auditLog", "achievement", "notification", "notificationRule", "goal", "actionItem",
    "coachingSession", "assessmentScore", "assessment", "assessmentPeriod", "dimension",
    "mentorAssignment", "cohortMember", "otpCode", "refreshToken", "user", "cohort">>

\* Fault: users are wiped before what belongs to the batches.
RESET_ORDER_USERS_EARLY ==
  <<"auditLog", "achievement", "notification", "notificationRule", "goal", "otpCode",
    "refreshToken", "user", "actionItem", "coachingSession", "assessmentScore",
    "assessment", "assessmentPeriod", "dimension", "mentorAssignment", "cohortMember",
    "cohort">>

\* resetDatabase; a session goes with its participants and dimensions.
RESET_ORDER ==
  <<"auditLog", "achievement", "notification", "notificationRule", "goal", "actionItem",
    "coachingSession", "assessmentScore", "assessment", "assessmentPeriod", "dimension",
    "mentorAssignment", "cohortMember", "cohort", "otpCode", "refreshToken", "user">>

\* The rows that row r refers to.
References(r) ==
  LET k == r[2]
      owner == <<"user", IF Len(k) = 1 THEN k ELSE <<k[1], k[2]>>>>
      batch == <<"cohort", <<k[1]>>>>
  IN  CASE r[1] \in {"cohortMember", "mentorAssignment"} -> {owner, batch}
        [] r[1] \in {"dimension", "assessmentPeriod"}    -> {batch}
        [] r[1] = "assessment"        -> {owner, <<"assessmentPeriod", <<k[1], k[3]>>>>}
        [] r[1] = "assessmentScore"   -> {<<"assessment", k>>}
                                         \cup {<<"dimension", <<k[1], d>>>> : d \in Dims}
        [] r[1] = "coachingSession"   -> {<<"user", <<0, k[2]>>>>, batch}
        [] r[1] = "actionItem"        -> {<<"coachingSession", k>>}
        [] r[1] \in {"auditLog", "achievement", "notification", "goal"} -> {owner}
        [] OTHER                      -> {}

-----------------------------------------------------------------------------
(* The script: the rows that main() writes, statement by statement. *)

Insert(table, keys) == {<<table, k>> : k \in keys}

PeopleScript ==
  <<Insert("user", {<<0>>})>>
  \o [i \in 1 .. FACILITATOR_COUNT |-> Insert("user", {<<0, i - 1>>})]

\* An open batch also has a cycle to come, without assessments.
Scheduled(c) == COHORTS[c].closed + (IF COHORTS[c].open THEN 2 ELSE 0)

StudentScript(c, s) ==
  <<Insert("user", {<<c, s>>}), Insert("cohortMember", {<<c, s>>}),
    Insert("mentorAssignment", {<<c, s>>})>>
  \o [p \in Cycles(c) |-> Insert("assessment", {<<c, s, p>>})
                           \cup Insert("assessmentScore", {<<c, s, p>>})]

BatchScript(c) ==
  <<Insert("cohort", {<<c>>})>>
  \o [i \in 1 .. Cardinality(Dims) |-> Insert("dimension", {<<c, i - 1>>})]
  \o [p \in 1 .. Scheduled(c) |-> Insert("assessmentPeriod", {<<c, p>>})]
  \o FlattenSeq([i \in 1 .. COHORTS[c].students |-> StudentScript(c, i - 1)])

\* Every third session is the demo facilitator's, with the demo batch.
SessionBatch(i) == IF i % 3 = 0 THEN DEMO_COHORT ELSE (i % Len(COHORTS)) + 1
SessionFacilitator(i) == IF i % 3 = 0 THEN 0 ELSE i % FACILITATOR_COUNT
IsPast(i) == i % 5 < 2

\* The sessions that are held by somebody who is still there.
SESSIONS == SelectSeq([i \in 1 .. 48 |-> i - 1], LAMBDA i : IsActive(SessionFacilitator(i)))

SessionKey(i) == <<SessionBatch(i), SessionFacilitator(i), i>>

CoachingScript ==
  FlattenSeq([n \in DOMAIN SESSIONS |->
    <<Insert("coachingSession", {SessionKey(SESSIONS[n])}),
      Insert("actionItem", {SessionKey(SESSIONS[n])})>>])

Everybody == UNION {{<<c, s>> : s \in Pupils(c)} : c \in DOMAIN COHORTS}

ActiveFacilitators == {<<0, f>> : f \in {g \in 0 .. FACILITATOR_COUNT - 1 : IsActive(g)}}

GoalScript ==
  FlattenSeq([c \in DOMAIN COHORTS |->
    [i \in 1 .. COHORTS[c].students |-> Insert("goal", {<<c, i - 1>>})]])

\* Somebody who has left the programme is not written to.
NotificationScript ==
  <<Insert("notification", Everybody \cup ActiveFacilitators \cup {<<0>>})>>

\* The catalogue is one row here.
RuleScript == <<Insert("notificationRule", {<<"catalogue">>})>>

AchievementScript == <<Insert("achievement", Everybody)>>

AuditScript == <<Insert("auditLog", {<<0>>})>>

Script ==
  PeopleScript \o FlattenSeq([c \in DOMAIN COHORTS |-> BatchScript(c)])
  \o CoachingScript \o GoalScript \o NotificationScript \o RuleScript
  \o AchievementScript \o AuditScript

Written(n) == UNION {Script[m] : m \in 1 .. n}

Whole == Written(Len(Script))

\* What main() makes sure of by the order of its calls: users come first, a row
\* comes after those it refers to or with them, and none comes twice.
ASSUME ScriptAssumption ==
  /\ Len(Script) \in Nat \ {0}
  /\ Script[1] # {} /\ Script[1] = Of("user", Script[1])
  /\ \A n \in 1 .. Len(Script) :
       /\ Script[n] \cap Written(n - 1) = {}
       /\ \A r \in Script[n] : /\ References(r) \subseteq Written(n)
                              /\ \E i \in DOMAIN RESET_ORDER : RESET_ORDER[i] = r[1]

-----------------------------------------------------------------------------
(* The process. *)

Idle == [stage |-> "idle", at |-> 0]

Init ==
  /\ db = {}
  /\ run = Idle
  /\ outcome = "none"

\* The container starts, with SEED_RESET or without it.
Start(reset) ==
  /\ run = Idle
  /\ IF Of("user", db) # {} /\ ~ reset
     THEN outcome' = "skipped" /\ run' = run
     ELSE /\ outcome' = "none"
          /\ run' = [stage |-> IF Of("user", db) # {} THEN "reset" ELSE "write", at |-> 1]
  /\ UNCHANGED db

Wipe ==
  /\ run.stage = "reset"
  /\ db' = db \ Of(RESET_ORDER[run.at], db)
  /\ run' = IF run.at < Len(RESET_ORDER) THEN [run EXCEPT !.at = @ + 1]
            ELSE [stage |-> "write", at |-> 1]
  /\ UNCHANGED outcome

\* The unique indexes refuse a row that is there already, which ends the run.
Write ==
  /\ run.stage = "write"
  /\ LET rows == Script[run.at]
         refused == rows \cap db # {}
         last == run.at = Len(Script)
     IN  /\ db' = IF refused THEN db ELSE db \cup rows
         /\ run' = IF refused \/ last THEN Idle ELSE [run EXCEPT !.at = @ + 1]
         /\ outcome' = IF refused THEN "refused" ELSE IF last THEN "seeded" ELSE outcome

\* The process stops; what is written stays.
Crash ==
  /\ run # Idle
  /\ run' = Idle
  /\ outcome' = "failed"
  /\ UNCHANGED db

Next ==
  \/ \E reset \in BOOLEAN : Start(reset)
  \/ Wipe
  \/ Write
  \/ Crash

Spec == Init /\ [][Next]_vars

-----------------------------------------------------------------------------
(* Properties. *)

\* What a row refers to is there, before, during and after a wipe, without the
\* cascades of the schema: "the order is written out explicitly rather than
\* relying on that" (seed.ts:327).
RowsHaveParents ==
  /\ db \subseteq Whole
  /\ \A r \in db : References(r) \subseteq db

\* Wherever earlier runs stopped, a run that is not skipped finds no row in its
\* way, and leaves all of the demo data behind: users go last, so that no wipe
\* that was interrupted looks like an empty database (seed.ts:493).  Without
\* SEED_RESET a first run that was interrupted stays as it is, and is skipped.
SeededIsWhole ==
  /\ outcome # "refused"
  /\ outcome = "seeded" => db = Whole
  /\ run = Idle /\ Of("user", db) = {} => db = {}

\* What a seeded database says of its students is lawful; see SeedIsLawful.
SeededIsLawful == outcome = "seeded" => SeedIsLawful

\* A seeded database tells the story its author meant: the archetypes show, the
\* demo facilitator has every state to review, and his calendar has sessions
\* behind it and to come, where every third session alone "would have handed
\* them nothing but past sessions" (seed.ts:928).
SeededTellsItsStory ==
  outcome = "seeded" =>
    /\ ArchetypesShow
    /\ DemoRosterIsFull
    /\ {IsPast(i) : i \in {j \in 0 .. 47 : SessionKey(j) = <<DEMO_COHORT, 0, j>>}} = BOOLEAN
=============================================================================
