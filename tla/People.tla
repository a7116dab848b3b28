--------------------------------- MODULE People ---------------------------------
(***************************************************************************)
(* What coaching, goals and notifications share: the users with their      *)
(* cohorts, and how requests are served.  Accounts has the users' own      *)
(* operations; here a user moves between cohorts and may be removed.       *)
(***************************************************************************)
EXTENDS Integers, FiniteSets

CONSTANTS
  Students, Facilitators, Cohorts,
  None,         \* no cohort, no assignee, no mentor; a field left out
  Removed,      \* in place of the cohort of a user who was removed
  Workers,      \* slots for requests in flight
  Environments  \* which circumstances to look at: see `env`

People == Students \cup Facilitators

EnvType == [overlap: BOOLEAN,    \* may requests overlap?
            fails: BOOLEAN,      \* may a request fail half-way?
            picked: BOOLEAN,     \* do assignees come from the picker?
            about: {"sessions", "goals", "notices"}]   \* what do they ask?

ASSUME PeopleAssumption ==
  /\ None \notin People \cup Cohorts
  /\ Removed \notin Cohorts \cup {None}
  /\ Students \cap Facilitators = {}
  /\ Environments \subseteq EnvType

VARIABLES
  person,   \* the cohort of each user, if any, or Removed
  env       \* the circumstances; they do not change

Live == {u \in People : person[u] # Removed}

Idle == [stage |-> "idle"]

\* A request may start in slot w of `slots`.
FreeIn(slots, w) == slots[w] = Idle /\ (env.overlap \/ \A v \in Workers : slots[v] = Idle)
=============================================================================
