------------------------------- MODULE Engagement -------------------------------
(***************************************************************************)
(* Coaching, goals and notifications together, over the users they share:  *)
(* a user who moves or is removed changes all of them.                     *)
(***************************************************************************)
EXTENDS Coaching, Goals

coaching == <<session, item, req>>

following == <<notices, goal, mentor, errand, owed>>

vars == <<person, env, coaching, following>>

\* UsersService.update with a cohort; see Accounts.
Move(u, c) ==
  /\ env.about = "sessions"
  /\ u \in Live
  /\ person' = [person EXCEPT ![u] = c]
  /\ UNCHANGED <<coaching, following>>

\* UsersService.remove; the schema cascades.
RemoveUser(u) ==
  /\ u \in Live
  /\ person' = [person EXCEPT ![u] = Removed]
  /\ Cascade(u)
  /\ DropGoals(u)
  /\ DropNotices(u)

Init ==
  /\ person = [u \in People |-> None]
  /\ env \in Environments
  /\ CoachingInit
  /\ GoalsInit

Next ==
  /\ \/ CoachingNext /\ UNCHANGED following
     \/ (GoalsNext \/ NoticesNext) /\ UNCHANGED <<person, coaching>>
     \/ \E u \in People, c \in Cohorts : Move(u, c)
     \/ \E u \in People : RemoveUser(u)
  /\ env' = env

\* A request in flight is carried on with; nobody has to make one.
Fairness ==
  \A w \in Workers :
    /\ WF_vars(Proceed(w) /\ UNCHANGED <<env, following>>)
    /\ WF_vars(AnswerGoal(w) /\ UNCHANGED <<env, person, coaching>>)

Spec == Init /\ [][Next]_vars /\ Fairness

\* Rows refer to rows that exist, also after users were removed.
TypeOK == person \in [People -> Cohorts \cup {None, Removed}] /\ CoachingTypeOK /\ GoalsTypeOK
=============================================================================
