---------------------------------- MODULE Goals ----------------------------------
(***************************************************************************)
(* Goals and who is told of them: GoalsService over the goals table.       *)
(*                                                                         *)
(*   create:  insert -> set  update:  write -> achieved -> lookup -> tell  *)
(*                                                                         *)
(* A stage is one awaited statement, after the read a request starts with. *)
(*                                                                         *)
(* Abstractions.  A goal is its student and its status.  The actor is the  *)
(* student himself or somebody else: `own`.  Facilitators do as the        *)
(* coordinator does when a goal is created; only the student and the       *)
(* coordinator get past assertCanModify.                                   *)
(***************************************************************************)
EXTENDS Notifications

CONSTANTS
  GoalIds,      \* goals.id
  MaxOwed,      \* bound on `owed`
  GoalForms,    \* the status a goal is created with
  GoalEdits     \* the status an update asks for; None if it leaves it alone

Statuses == {"active", "achieved", "archived"}

ASSUME GoalsAssumption ==
  /\ None \notin Statuses
  /\ GoalForms \subseteq Statuses /\ GoalEdits \subseteq Statuses \cup {None}

VARIABLES
  goal,     \* the goals table, by id
  mentor,   \* the facilitator a student is actively assigned to, or None
  errand,   \* the request each worker is handling
  owed      \* times a goal became achieved less times that was told; history

notices == <<notice, unread, sent>>

Errand ==
  {Idle}
  \cup [stage: {"insert"}, student: Students, status: Statuses, own: BOOLEAN]
  \cup [stage: {"set"}, student: Students]
  \cup [stage: {"write"}, goal: GoalIds, was: Statuses,
        status: Statuses \cup {None}, own: BOOLEAN]
  \cup [stage: {"achieved"}, goal: GoalIds, student: Students, own: BOOLEAN]
  \cup [stage: {"lookup"}, goal: GoalIds, student: Students, to: Facilitators]
  \cup [stage: {"tell"}, goal: GoalIds, to: Facilitators]

Turns(w, r) == errand' = [errand EXCEPT ![w] = r]

\* Room for the notice the request may send.
MayAct(w) == env.about = "goals" /\ FreeIn(errand, w) /\ sent + Cardinality(Workers) <= MaxNotices

Handled(g) == \E w \in Workers : errand[w].stage \in {"write", "achieved", "lookup", "tell"}
                                /\ errand[w].goal = g

\* One of the goals' achievements has been told, or there is nobody to tell.
Settle(g) == owed' = [owed EXCEPT ![g] = IF g \in DOMAIN goal THEN @ - 1 ELSE 0]

-----------------------------------------------------------------------------
\* create; a student creates goals for himself.
CreateGoal(w, s, status, own) ==
  /\ MayAct(w)
  /\ s \in Live
  /\ Turns(w, [stage |-> "insert", student |-> s, status |-> status, own |-> own])
  /\ UNCHANGED <<goal, mentor, owed, notices>>

InsertGoal(w) ==
  LET r == errand[w]
  IN  /\ r.stage = "insert"
      /\ \/ /\ r.student \in Live
            /\ \E g \in GoalIds \ DOMAIN goal :
                 /\ ~ Handled(g)
                 /\ goal' = [h \in DOMAIN goal \cup {g} |->
                               IF h = g THEN [student |-> r.student, status |-> r.status]
                               ELSE goal[h]]
            /\ Turns(w, IF r.own THEN Idle ELSE [stage |-> "set", student |-> r.student])
         \/ /\ r.student \notin Live
            /\ Turns(w, Idle)
            /\ goal' = goal
      /\ UNCHANGED <<mentor, owed, notices>>

\* notifyGoalSet.
NotifyGoalSet(w) ==
  /\ errand[w].stage = "set"
  /\ Turns(w, Idle)
  /\ IF errand[w].student \in Live THEN Send({errand[w].student}, "goal") ELSE SendNothing
  /\ UNCHANGED <<goal, mentor, owed>>

UpdateGoal(w, g, status, own) ==
  /\ MayAct(w)
  /\ g \in DOMAIN goal /\ owed[g] \in (0 - MaxOwed)..MaxOwed
  /\ Turns(w, [stage |-> "write", goal |-> g, was |-> goal[g].status,
               status |-> status, own |-> own])
  /\ UNCHANGED <<goal, mentor, owed, notices>>

\* Fault: the status of before is not looked at.
BecameAchievedAgain(was, updated) == updated = "achieved"

\* `updated` is the row as written, `was` what the request read.
BecameAchieved(was, updated) == updated = "achieved" /\ was # "achieved"

\* Fault: only what others mark is told.
AfterWriteByOthers(r, updated) ==
  IF BecameAchieved(r.was, updated) /\ ~ r.own
  THEN [stage |-> "achieved", goal |-> r.goal, own |-> r.own, student |-> goal[r.goal].student]
  ELSE Idle

AfterWrite(r, updated) ==
  IF BecameAchieved(r.was, updated)
  THEN [stage |-> "achieved", goal |-> r.goal, own |-> r.own, student |-> goal[r.goal].student]
  ELSE Idle

WriteGoal(w) ==
  LET r == errand[w]
      g == r.goal
      updated == IF r.status = None THEN goal[g].status ELSE r.status
  IN  /\ r.stage = "write"
      /\ \/ /\ g \in DOMAIN goal
            /\ goal' = [goal EXCEPT ![g].status = updated]
            /\ owed' = [owed EXCEPT ![g] =
                          IF goal[g].status # updated /\ updated = "achieved" THEN @ + 1 ELSE @]
            /\ Turns(w, AfterWrite(r, updated))
         \/ /\ g \notin DOMAIN goal
            /\ Turns(w, Idle)
            /\ UNCHANGED <<goal, owed>>
      /\ UNCHANGED <<mentor, notices>>

\* notifyGoalAchieved: the party who did not mark it.
NotifyGoalAchieved(w) ==
  LET r == errand[w]
  IN  /\ r.stage = "achieved"
      /\ \/ /\ ~ r.own
            /\ Turns(w, Idle)
            /\ IF r.student \in Live THEN Send({r.student}, "goal") ELSE SendNothing
            /\ Settle(r.goal)
         \/ /\ r.own
            /\ mentor[r.student] # None
            /\ Turns(w, [stage |-> "lookup", goal |-> r.goal, student |-> r.student,
                         to |-> mentor[r.student]])
            /\ SendNothing
            /\ owed' = owed
         \/ /\ r.own
            /\ mentor[r.student] = None
            /\ Turns(w, Idle)
            /\ SendNothing
            /\ Settle(r.goal)
      /\ UNCHANGED <<goal, mentor>>

\* The student's name is read for the text; findOne throws if he is gone, and
\* his goals with him.
LookupStudent(w) ==
  LET r == errand[w]
  IN  /\ r.stage = "lookup"
      /\ \/ /\ r.student \in Live
            /\ Turns(w, [stage |-> "tell", goal |-> r.goal, to |-> r.to])
            /\ owed' = owed
         \/ /\ r.student \notin Live
            /\ Turns(w, Idle)
            /\ Settle(r.goal)
      /\ UNCHANGED <<goal, mentor, notices>>

TellMentor(w) ==
  LET r == errand[w]
  IN  /\ r.stage = "tell"
      /\ Turns(w, Idle)
      /\ IF r.to \in Live THEN Send({r.to}, "goal") ELSE SendNothing
      /\ Settle(r.goal)
      /\ UNCHANGED <<goal, mentor>>

RemoveGoal(g) ==
  /\ env.about = "goals"
  /\ goal' = [h \in DOMAIN goal \ {g} |-> goal[h]]
  /\ owed' = [owed EXCEPT ![g] = 0]
  /\ UNCHANGED <<mentor, errand, notices>>

-----------------------------------------------------------------------------
\* A stage fails and the handler with it; what it wrote stays.
FailGoal(w) ==
  /\ env.fails /\ errand[w] # Idle
  /\ Turns(w, Idle)
  /\ UNCHANGED <<goal, mentor, owed, notices>>

\* MentorAssignments.
Reassign(s, f) ==
  /\ env.about = "goals"
  /\ s \in Live /\ f \in (Facilitators \cap Live) \cup {None}
  /\ mentor' = [mentor EXCEPT ![s] = f]
  /\ UNCHANGED <<goal, errand, owed, notices>>

\* The goals, assignments and notices of removed user u go.
DropGoals(u) ==
  /\ goal' = [g \in {h \in DOMAIN goal : goal[h].student # u} |-> goal[g]]
  /\ owed' = [g \in GoalIds |-> IF g \in DOMAIN goal' THEN owed[g] ELSE 0]
  /\ mentor' = [s \in Students |-> IF u \in {s, mentor[s]} THEN None ELSE mentor[s]]
  /\ errand' = errand

GoalsInit ==
  /\ NoticesInit
  /\ goal = <<>>
  /\ mentor = [s \in Students |-> None]
  /\ errand = [w \in Workers |-> Idle]
  /\ owed = [g \in GoalIds |-> 0]

\* The routes of GoalsController.
AskGoal(w) ==
  \/ \E s \in Students, status \in GoalForms, own \in BOOLEAN : CreateGoal(w, s, status, own)
  \/ \E g \in DOMAIN goal, status \in GoalEdits, own \in BOOLEAN : UpdateGoal(w, g, status, own)

AnswerGoal(w) ==
  \/ InsertGoal(w) \/ NotifyGoalSet(w)
  \/ WriteGoal(w) \/ NotifyGoalAchieved(w) \/ LookupStudent(w) \/ TellMentor(w)

GoalsNext ==
  \/ \E w \in Workers : AskGoal(w) \/ AnswerGoal(w) \/ FailGoal(w)
  \/ \E g \in DOMAIN goal : RemoveGoal(g)
  \/ \E s \in Students, f \in Facilitators \cup {None} : Reassign(s, f)

\* The routes of the notifications controller, and notices sent elsewhere.
NoticesNext ==
  /\ env.about = "notices"
  /\ \/ \E u \in Live : MarkRead(u) \/ MarkAllRead(u)
     \/ \E u \in Live, type \in Types : SendOther(type, u)
  /\ UNCHANGED <<goal, mentor, errand, owed>>

-----------------------------------------------------------------------------
(* Properties. *)

\* Rows refer to users who exist.
GoalsTypeOK ==
  /\ goal \in [DOMAIN goal -> [student: Students \cap Live, status: Statuses]]
  /\ DOMAIN goal \subseteq GoalIds
  /\ mentor \in [Students -> (Facilitators \cap Live) \cup {None}]
  /\ errand \in [Workers -> Errand]
  /\ owed \in [GoalIds -> Int]
  /\ notice \subseteq {n \in Notice : n.to \in Live} /\ unread \subseteq notice

\* An achievement is told at most once (goals.service.ts:95): without overlap no
\* notice is sent that no change of the status to achieved accounts for, whoever
\* edits the goal, however often it is reopened, and whatever fails.
ToldOnce == ~ env.overlap => \A g \in GoalIds : owed[g] >= 0

\* "Tell the party who did not mark it: the student when a mentor closed the
\* goal, otherwise the student's mentor" (goals.service.ts:131): every
\* achievement is told in the end, if requests neither fail nor overlap and
\* there is somebody to tell.
AchievementsAreTold ==
  (~ env.overlap /\ ~ env.fails) => \A g \in GoalIds : (owed[g] > 0) ~> (owed[g] = 0)
=============================================================================
