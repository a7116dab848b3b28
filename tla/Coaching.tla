------------------------------- MODULE Coaching -------------------------------
(***************************************************************************)
(* Coaching sessions, their participants and action items:                 *)
(* CoachingService over coaching_sessions, coaching_participants and       *)
(* action_items.                                                           *)
(*                                                                         *)
(* A handler reads, decides, and writes in one statement or transaction:   *)
(*   create: read -> create     update: read -> replace                    *)
(*   addActionItem: read -> add     updateActionItem: read -> assign       *)
(* Deletes read only what never changes, so they are one step.             *)
(*                                                                         *)
(* Abstractions.  class and batch scope do as group does; dates, notes,    *)
(* status and target dimensions are stored as given and left out.  Session *)
(* and item ids in use are never given out again.  Everybody may manage a  *)
(* session here, as coordinators may.                                      *)
(***************************************************************************)
EXTENDS People

CONSTANTS
  Sessions, Items,
  Bodies,       \* bodies of POST /coaching-sessions: scope, participants, cohort
  Edits         \* bodies of PATCH: the same; None where a field is left out

Scopes == {"individual", "group"}

\* The service takes the id of any user: nothing looks at a participant's role.
BodyType == [scope: Scopes, participants: SUBSET People, cohort: Cohorts \cup {None}]

EditType == [scope: Scopes \cup {None}, participants: (SUBSET People) \cup {None},
             cohort: Cohorts \cup {None}]

ASSUME CoachingAssumption ==
  None \notin Scopes /\ Bodies \subseteq BodyType /\ Edits \subseteq EditType

VARIABLES
  session,   \* coaching_sessions and coaching_participants, by session id
  item,      \* action_items, by item id
  req        \* the request each worker is handling

-----------------------------------------------------------------------------
SessionType == [facilitator: Facilitators, scope: Scopes,
                participants: SUBSET People, cohort: Cohorts \cup {None}]

Request ==
  [stage: {"idle"}]
  \cup [stage: {"create"}, new: SessionType]
  \cup [stage: {"replace"}, session: Sessions, edit: EditType]
  \cup [stage: {"add"}, session: Sessions, assignee: People \cup {None}]
  \cup [stage: {"assign"}, item: Items, assignee: People]

Becomes(w, r) == req' = [req EXCEPT ![w] = r]

Free(w) == env.about = "sessions" /\ FreeIn(req, w)

OnlyReq == UNCHANGED <<person, session, item>>

\* Ids that neither a row nor a request in flight holds.
NewSessions ==
  {x \in Sessions \ DOMAIN session :
     \A w \in Workers : req[w].stage \in {"replace", "add"} => req[w].session # x}

NewItems ==
  {i \in Items \ DOMAIN item :
     \A w \in Workers : req[w].stage = "assign" => req[w].item # i}

WithoutItems(of) == [i \in {j \in DOMAIN item : item[j].session \notin of} |-> item[i]]

-----------------------------------------------------------------------------
(* Sessions. *)

\* `idle` are those whose account is not active just then.
ActiveStudentIdsInCohort(c, idle) == {s \in Students \ idle : person[s] = c}

\* resolveParticipants.
ResolveParticipants(body, idle) ==
  IF body.scope # "individual" /\ body.cohort # None
  THEN ActiveStudentIdsInCohort(body.cohort, idle) ELSE body.participants

\* The one cohort among the memberships of these users, if there is just one.
SharedCohortId(ids) ==
  LET cohorts == {person[s] : s \in ids} \cap Cohorts
  IN  IF Cardinality(cohorts) = 1 THEN CHOOSE c \in cohorts : TRUE ELSE None

ResolveCohortId(c, ids) == IF c # None THEN c ELSE SharedCohortId(ids)

\* create, up to its write; "individual scope requires participantIds".
Create(w, f, body) ==
  /\ Free(w)
  /\ f \in Live
  /\ body.scope = "individual" => body.participants # {}
  /\ \E idle \in SUBSET Students :
       LET ids == ResolveParticipants(body, idle)
       IN  Becomes(w, [stage |-> "create",
                       new |-> [facilitator |-> f, scope |-> body.scope, participants |-> ids,
                                cohort |-> ResolveCohortId(body.cohort, ids)]])
  /\ OnlyReq

\* One nested insert, refused as a whole if a user it names is gone.
Insert(w) ==
  LET new == req[w].new
  IN  /\ req[w].stage = "create"
      /\ \/ /\ new.participants \cup {new.facilitator} \subseteq Live
            /\ \E x \in NewSessions :
                 session' = [y \in DOMAIN session \cup {x} |-> IF y = x THEN new ELSE session[y]]
         \/ /\ ~ (new.participants \cup {new.facilitator} \subseteq Live)
            /\ session' = session
      /\ Becomes(w, Idle)
      /\ UNCHANGED <<person, item>>

Given(new, old) == IF new = None THEN old ELSE new

Edited(row, edit) == [row EXCEPT !.scope = Given(edit.scope, @),
                                 !.cohort = Given(edit.cohort, @),
                                 !.participants = Given(edit.participants, @)]

Update(w, x, edit) ==
  /\ Free(w)
  /\ x \in DOMAIN session
  /\ ~ (edit.participants = {} /\ Given(edit.scope, session[x].scope) = "individual")
  /\ Becomes(w, [stage |-> "replace", session |-> x, edit |-> edit])
  /\ OnlyReq

\* Fault: the assignments stay when the participants are replaced.
KeptAssignee(i, x, ids) == item[i].assignee

\* The UPDATE of action_items in the transaction.
Assignee(i, x, ids) ==
  IF item[i].session = x /\ ids # None /\ item[i].assignee \notin ids
  THEN None ELSE item[i].assignee

\* The transaction fails if the session or a new participant is gone.
Replace(w) ==
  LET x == req[w].session
      e == req[w].edit
      ok == x \in DOMAIN session /\ (e.participants # None => e.participants \subseteq Live)
  IN  /\ req[w].stage = "replace"
      /\ IF ok
         THEN /\ session' = [session EXCEPT ![x] = Edited(@, e)]
              /\ item' = [i \in DOMAIN item |->
                            [item[i] EXCEPT !.assignee = Assignee(i, x, e.participants)]]
         ELSE UNCHANGED <<session, item>>
      /\ Becomes(w, Idle)
      /\ person' = person

\* remove; the items cascade.
RemoveSession(x) ==
  /\ session' = [y \in DOMAIN session \ {x} |-> session[y]]
  /\ item' = WithoutItems({x})
  /\ UNCHANGED <<person, req>>

-----------------------------------------------------------------------------
(* Action items. *)

\* What a request names as assignee of an item of session x.
Assignable(x) == IF env.picked THEN session[x].participants ELSE Live

AddActionItem(w, x, a) ==
  /\ Free(w)
  /\ x \in DOMAIN session /\ a \in Assignable(x) \cup {None}
  /\ Becomes(w, [stage |-> "add", session |-> x, assignee |-> a])
  /\ OnlyReq

\* The foreign keys are all that is checked.
Add(w) ==
  LET r == req[w]
      ok == r.session \in DOMAIN session /\ r.assignee \in Live \cup {None}
  IN  /\ r.stage = "add"
      /\ \/ /\ ok
            /\ \E i \in NewItems :
                 item' = [j \in DOMAIN item \cup {i} |->
                            IF j = i THEN [session |-> r.session, assignee |-> r.assignee]
                            ELSE item[j]]
         \/ ~ ok /\ item' = item
      /\ Becomes(w, Idle)
      /\ UNCHANGED <<person, session>>

UpdateActionItem(w, i, a) ==
  /\ Free(w)
  /\ i \in DOMAIN item /\ a \in Assignable(item[i].session)
  /\ Becomes(w, [stage |-> "assign", item |-> i, assignee |-> a])
  /\ OnlyReq

Assign(w) ==
  LET r == req[w]
  IN  /\ r.stage = "assign"
      /\ item' = IF r.item \in DOMAIN item /\ r.assignee \in Live
                 THEN [item EXCEPT ![r.item].assignee = r.assignee] ELSE item
      /\ Becomes(w, Idle)
      /\ UNCHANGED <<person, session>>

RemoveActionItem(i) ==
  /\ item' = [j \in DOMAIN item \ {i} |-> item[j]]
  /\ UNCHANGED <<person, session, req>>

-----------------------------------------------------------------------------
(* What the removal of user u does to these tables. *)

\* Fault: the items of a removed student stay assigned to him.
CascadeKeepingItems(u) ==
  LET lost == {x \in DOMAIN session : session[x].facilitator = u}
  IN  /\ session' = [x \in DOMAIN session \ lost |->
                       [session[x] EXCEPT !.participants = @ \ {u}]]
      /\ item' = WithoutItems(lost)
      /\ req' = req

\* His own sessions go, with their items; he leaves those of others, and the
\* items assigned to him are assigned to nobody.
Cascade(u) ==
  LET lost == {x \in DOMAIN session : session[x].facilitator = u}
      kept == WithoutItems(lost)
  IN  /\ session' = [x \in DOMAIN session \ lost |->
                       [session[x] EXCEPT !.participants = @ \ {u}]]
      /\ item' = [i \in DOMAIN kept |->
                    IF kept[i].assignee = u THEN [kept[i] EXCEPT !.assignee = None]
                    ELSE kept[i]]
      /\ req' = req

-----------------------------------------------------------------------------
(* Reads. *)

\* findAll for a facilitator and for a student, without filters.
ListedSessions(u) ==
  {x \in DOMAIN session :
     IF u \in Facilitators THEN session[x].facilitator = u
     ELSE u \in session[x].participants}

\* assertCanRead of findOne; coordinators may read everything.
CanRead(u, x) ==
  \/ u \in Facilitators /\ session[x].facilitator = u
  \/ u \in Students /\ u \in session[x].participants

-----------------------------------------------------------------------------
CoachingInit ==
  /\ session = <<>>
  /\ item = <<>>
  /\ req = [w \in Workers |-> Idle]

\* The routes of CoachingController.
Call(w) ==
  \/ \E f \in Facilitators, body \in Bodies : Create(w, f, body)
  \/ \E x \in DOMAIN session :
       \/ \E edit \in Edits : Update(w, x, edit)
       \/ \E a \in People \cup {None} : AddActionItem(w, x, a)
  \/ \E i \in DOMAIN item, a \in People : UpdateActionItem(w, i, a)

Proceed(w) == Insert(w) \/ Replace(w) \/ Add(w) \/ Assign(w)

\* The read before the write fails, or the write does.
Fail(w) ==
  /\ env.fails /\ req[w] # Idle
  /\ Becomes(w, Idle)
  /\ OnlyReq

CoachingNext ==
  \/ \E w \in Workers : Call(w) \/ Proceed(w) \/ Fail(w)
  \/ \E x \in DOMAIN session : RemoveSession(x)
  \/ \E i \in DOMAIN item : RemoveActionItem(i)

-----------------------------------------------------------------------------
(* Properties. *)

\* Rows refer to rows that exist.
CoachingTypeOK ==
  /\ session \in [DOMAIN session -> SessionType] /\ DOMAIN session \subseteq Sessions
  /\ \A x \in DOMAIN session : session[x].participants \cup {session[x].facilitator} \subseteq Live
  /\ item \in [DOMAIN item -> [session: DOMAIN session, assignee: Live \cup {None}]]
  /\ DOMAIN item \subseteq Items
  /\ req \in [Workers -> Request]

\* "An action item may only be assigned to a current participant, which the
\* assignee picker relies on" (coaching.repository.ts:134).  A student who has
\* something to do finds the session it belongs to in his list, and may open it;
\* a facilitator does not, unless the session is his own.
AssigneesParticipate ==
  \A i \in DOMAIN item :
    LET x == item[i].session
        a == item[i].assignee
    IN  \/ a = None
        \/ /\ a \in session[x].participants
           /\ a \in Students => x \in ListedSessions(a) /\ CanRead(a, x)

\* That much holds when requests do not overlap and assignees are picked from
\* the participants: replacing the list and removing users keep it so.  Adding
\* an item checks nothing (coaching.service.ts:123).
PickedParticipate == (env.picked /\ ~ env.overlap) => AssigneesParticipate
=============================================================================
