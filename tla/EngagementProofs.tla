--------------------------- MODULE EngagementProofs ---------------------------
(***************************************************************************)
(* Proofs about Coaching, Goals and Notifications, as Engagement composes  *)
(* them, for any number of users, sessions, items, goals and requests in   *)
(* flight.  The invariant has one part for coaching and one for goals;     *)
(* they meet in the users, whom a step may move between cohorts or remove. *)
(***************************************************************************)
EXTENDS Engagement, FiniteSetTheorems, TLAPS

-----------------------------------------------------------------------------
(* The inductive invariant. *)

PersonTyped == person \in [People -> Cohorts \cup {None, Removed}]

OneRequest == ~ env.overlap => \A v, w \in Workers : req[v] # Idle /\ req[w] # Idle => v = w

\* Who is about to be assigned an item that can still be written is, if still
\* there, a participant of its session.
PickedRequests ==
  (env.picked /\ ~ env.overlap) =>
    \A w \in Workers :
      /\ req[w].stage = "add" /\ req[w].session \in DOMAIN session =>
           req[w].assignee \in session[req[w].session].participants \/ req[w].assignee \notin Live
      /\ req[w].stage = "assign" /\ req[w].item \in DOMAIN item =>
           req[w].assignee \in session[item[req[w].item].session].participants
             \/ req[w].assignee \notin Live

PickedAssignees ==
  (env.picked /\ ~ env.overlap) =>
    \A i \in DOMAIN item :
      item[i].assignee = None \/ item[i].assignee \in session[item[i].session].participants

CoachingInv == CoachingTypeOK /\ OneRequest /\ PickedRequests /\ PickedAssignees

OneErrand == ~ env.overlap => \A v, w \in Workers : errand[v] # Idle /\ errand[w] # Idle => v = w

\* A request that is about to write a goal has read it as it still is.
ReadsCurrent ==
  ~ env.overlap =>
    \A w \in Workers :
      errand[w].stage = "write" /\ errand[w].goal \in DOMAIN goal =>
        errand[w].was = goal[errand[w].goal].status

\* An achievement that is about to be told has not been.
OwedWhileTelling ==
  ~ env.overlap =>
    \A w \in Workers :
      errand[w].stage \in {"achieved", "lookup", "tell"} /\ errand[w].goal \in DOMAIN goal =>
        owed[errand[w].goal] >= 1

GoalTyped ==
  /\ goal \in [DOMAIN goal -> [student: Students \cap Live, status: Statuses]]
  /\ DOMAIN goal \subseteq GoalIds

MentorTyped == mentor \in [Students -> (Facilitators \cap Live) \cup {None}]

ErrandsTyped == errand \in [Workers -> Errand]

OwedTyped == owed \in [GoalIds -> Int]

NoticesTyped ==
  notice \subseteq {n \in Notice : n.to \in Live} /\ unread \subseteq notice /\ sent \in Nat

GoalsInv ==
  /\ GoalTyped /\ MentorTyped /\ ErrandsTyped /\ OwedTyped /\ NoticesTyped
  /\ OneErrand /\ ReadsCurrent /\ OwedWhileTelling /\ ToldOnce

EngagementInv == PersonTyped /\ CoachingInv /\ GoalsInv

-----------------------------------------------------------------------------
(* Users. *)

LEMMA RemovedLive ==
  ASSUME PersonTyped, NEW u \in Live, person' = [person EXCEPT ![u] = Removed]
  PROVE  PersonTyped' /\ Live' = Live \ {u}
BY DEF PersonTyped, Live

LEMMA MovedLive ==
  ASSUME PersonTyped, NEW u \in People, NEW c \in Cohorts, Move(u, c)
  PROVE  PersonTyped' /\ Live' = Live
BY PeopleAssumption DEF PersonTyped, Live, Move, People

-----------------------------------------------------------------------------
(* Coaching: rows and requests. *)

LEMMA RequestShape ==
  ASSUME NEW r \in Request
  PROVE  /\ r.stage = "idle" <=> r = Idle
         /\ r.stage = "create" => r.new \in SessionType
         /\ r.stage = "replace" => r.session \in Sessions /\ r.edit \in EditType
         /\ r.stage = "add" => r.session \in Sessions /\ r.assignee \in People \cup {None}
         /\ r.stage = "assign" => r.item \in Items /\ r.assignee \in People
BY DEF Request, Idle

LEMMA RequestEntries ==
  /\ Idle \in Request
  /\ \A row \in SessionType : [stage |-> "create", new |-> row] \in Request
  /\ \A x \in Sessions :
       /\ \A e \in EditType : [stage |-> "replace", session |-> x, edit |-> e] \in Request
       /\ \A a \in People \cup {None} : [stage |-> "add", session |-> x, assignee |-> a] \in Request
  /\ \A i \in Items, a \in People : [stage |-> "assign", item |-> i, assignee |-> a] \in Request
BY DEF Request, Idle

LEMMA SessionShape ==
  ASSUME NEW row \in SessionType
  PROVE  /\ row.facilitator \in Facilitators /\ row.scope \in Scopes
         /\ row.participants \subseteq People /\ row.cohort \in Cohorts \cup {None}
BY DEF SessionType

LEMMA EditedShape ==
  ASSUME NEW row \in SessionType, NEW e \in EditType
  PROVE  /\ Edited(row, e) \in SessionType
         /\ Edited(row, e).facilitator = row.facilitator
         /\ Edited(row, e).participants = Given(e.participants, row.participants)
<1>1. /\ e.scope \in Scopes \cup {None} /\ e.participants \in (SUBSET People) \cup {None}
      /\ e.cohort \in Cohorts \cup {None}
  BY DEF EditType
<1>2. /\ Given(e.scope, row.scope) \in Scopes
      /\ Given(e.participants, row.participants) \in SUBSET People
      /\ Given(e.cohort, row.cohort) \in Cohorts \cup {None}
  BY <1>1 DEF SessionType, Given
<1>3. QED
  BY <1>2 DEF SessionType, Edited

\* A row when user u has left it.
WithoutUser(row, u) == [row EXCEPT !.participants = @ \ {u}]

LEMMA WithoutUserShape ==
  ASSUME NEW row \in SessionType, NEW u
  PROVE  /\ WithoutUser(row, u) \in SessionType
         /\ WithoutUser(row, u).facilitator = row.facilitator
         /\ WithoutUser(row, u).participants = row.participants \ {u}
BY DEF SessionType, WithoutUser

ItemType(sessions, assignees) == [session: sessions, assignee: assignees]

Assigned(row, a) == [row EXCEPT !.assignee = a]

LEMMA ItemShape ==
  ASSUME NEW S, NEW A, NEW B, NEW row \in ItemType(S, A), NEW a \in B
  PROVE  /\ row.session \in S /\ row.assignee \in A
         /\ Assigned(row, a) \in ItemType(S, B)
         /\ Assigned(row, a).session = row.session /\ Assigned(row, a).assignee = a
BY DEF Assigned, ItemType

LEMMA ItemTypes ==
  ASSUME CoachingTypeOK, NEW i \in DOMAIN item
  PROVE  /\ item[i] \in ItemType(DOMAIN session, Live \cup {None})
         /\ item[i].session \in DOMAIN session
         /\ item[i].assignee \in Live \cup {None}
BY DEF CoachingTypeOK, ItemType

\* What a session's request resolves to is a row.
LEMMA SharedCohort ==
  ASSUME NEW ids
  PROVE  SharedCohortId(ids) \in Cohorts \cup {None}
<1> DEFINE cohorts == {person[s] : s \in ids} \cap Cohorts
<1>1. CASE Cardinality(cohorts) = 1
  <2>1. cohorts # {}
    BY <1>1, FS_EmptySet
  <2>2. (CHOOSE c \in cohorts : TRUE) \in cohorts
    BY <2>1
  <2>3. QED
    BY <1>1, <2>2 DEF SharedCohortId
<1>2. QED
  BY <1>1 DEF SharedCohortId

LEMMA CreatedType ==
  ASSUME NEW w \in Workers, NEW f \in Facilitators, NEW body \in Bodies, Create(w, f, body)
  PROVE  \E row \in SessionType : Becomes(w, [stage |-> "create", new |-> row])
<1>1. PICK idle \in SUBSET Students :
        Becomes(w, [stage |-> "create",
                    new |-> [facilitator |-> f, scope |-> body.scope,
                             participants |-> ResolveParticipants(body, idle),
                             cohort |-> ResolveCohortId(body.cohort,
                                                        ResolveParticipants(body, idle))]])
  BY Zenon DEF Create
<1> DEFINE ids == ResolveParticipants(body, idle)
           row == [facilitator |-> f, scope |-> body.scope, participants |-> ids,
                   cohort |-> ResolveCohortId(body.cohort, ids)]
<1>2. body \in BodyType
  BY CoachingAssumption
<1>3. ids \subseteq People
  BY <1>2 DEF ResolveParticipants, ActiveStudentIdsInCohort, BodyType, People
<1>4. ResolveCohortId(body.cohort, ids) \in Cohorts \cup {None}
  BY <1>2, SharedCohort DEF ResolveCohortId, BodyType
<1>5. row \in SessionType
  BY <1>2, <1>3, <1>4 DEF SessionType, BodyType
<1>6. QED
  BY <1>1, <1>5, Zenon

-----------------------------------------------------------------------------
(* Coaching: requests come in. *)

LEMMA CallStep ==
  ASSUME CoachingInv, NEW w \in Workers, Call(w)
  PROVE  /\ Free(w) /\ OnlyReq
         /\ \E r \in Request :
              /\ Becomes(w, r)
              /\ r.stage = "add" => r.session \in DOMAIN session
                                    /\ r.assignee \in Assignable(r.session) \cup {None}
              /\ r.stage = "assign" => r.item \in DOMAIN item
                                       /\ r.assignee \in Assignable(item[r.item].session)
<1>1. CoachingTypeOK
  BY DEF CoachingInv
<1>2. ASSUME NEW f \in Facilitators, NEW body \in Bodies, Create(w, f, body)
      PROVE  /\ Free(w) /\ OnlyReq
             /\ \E r \in Request : Becomes(w, r) /\ r.stage = "create"
  <2>1. Free(w) /\ OnlyReq
    BY <1>2 DEF Create
  <2>2. QED
    BY <1>2, <2>1, CreatedType, RequestEntries
<1>3. ASSUME NEW x \in DOMAIN session, NEW edit \in Edits, Update(w, x, edit)
      PROVE  /\ Free(w) /\ OnlyReq
             /\ \E r \in Request : Becomes(w, r) /\ r.stage = "replace"
  BY <1>1, <1>3, RequestEntries, CoachingAssumption DEF Update, CoachingTypeOK
<1>4. ASSUME NEW x \in DOMAIN session, NEW a \in People \cup {None}, AddActionItem(w, x, a)
      PROVE  /\ Free(w) /\ OnlyReq
             /\ \E r \in Request : /\ Becomes(w, r) /\ r.stage = "add"
                                   /\ r.session \in DOMAIN session
                                   /\ r.assignee \in Assignable(r.session) \cup {None}
  <2> DEFINE r == [stage |-> "add", session |-> x, assignee |-> a]
  <2>1. r \in Request /\ r.stage = "add" /\ r.session = x /\ r.assignee = a
    BY <1>1, <1>4, RequestEntries DEF CoachingTypeOK
  <2>2. Free(w) /\ OnlyReq /\ Becomes(w, r) /\ a \in Assignable(x) \cup {None}
    BY <1>4 DEF AddActionItem
  <2> HIDE DEF r
  <2>3. QED
    BY <1>4, <2>1, <2>2
<1>5. ASSUME NEW i \in DOMAIN item, NEW a \in People, UpdateActionItem(w, i, a)
      PROVE  /\ Free(w) /\ OnlyReq
             /\ \E r \in Request : /\ Becomes(w, r) /\ r.stage = "assign"
                                   /\ r.item \in DOMAIN item
                                   /\ r.assignee \in Assignable(item[r.item].session)
  <2> DEFINE r == [stage |-> "assign", item |-> i, assignee |-> a]
  <2>1. r \in Request /\ r.stage = "assign" /\ r.item = i /\ r.assignee = a
    BY <1>1, <1>5, RequestEntries DEF CoachingTypeOK
  <2>2. Free(w) /\ OnlyReq /\ Becomes(w, r) /\ a \in Assignable(item[i].session)
    BY <1>5 DEF UpdateActionItem
  <2> HIDE DEF r
  <2>3. QED
    BY <1>5, <2>1, <2>2
<1>6. QED
  BY <1>2, <1>3, <1>4, <1>5 DEF Call

LEMMA CallKeepsInv ==
  ASSUME CoachingInv, env' = env, NEW w \in Workers, Call(w)
  PROVE  CoachingInv'
<1>1. PICK r \in Request :
        /\ Free(w) /\ OnlyReq /\ Becomes(w, r)
        /\ r.stage = "add" => r.session \in DOMAIN session
                              /\ r.assignee \in Assignable(r.session) \cup {None}
        /\ r.stage = "assign" => r.item \in DOMAIN item
                                 /\ r.assignee \in Assignable(item[r.item].session)
  BY CallStep
<1>2. /\ UNCHANGED <<person, session, item>> /\ Live' = Live
      /\ req \in [Workers -> Request] /\ req' = [req EXCEPT ![w] = r]
      /\ ~ env.overlap => \A v \in Workers : req[v] = Idle
  BY <1>1 DEF OnlyReq, Live, CoachingInv, CoachingTypeOK, Becomes, Free, FreeIn
<1>3. CoachingTypeOK'
  BY <1>2 DEF CoachingInv, CoachingTypeOK
<1>4. OneRequest'
  BY <1>2 DEF OneRequest
<1>5. PickedAssignees'
  BY <1>2 DEF CoachingInv, PickedAssignees
<1>6. PickedRequests'
  <2>1. None \notin Live
    BY PeopleAssumption DEF Live
  <2>2. ASSUME env.picked
        PROVE  /\ r.stage = "add" => r.assignee \in session[r.session].participants \cup {None}
               /\ r.stage = "assign" => r.assignee \in session[item[r.item].session].participants
    BY <1>1, <2>2 DEF Assignable
  <2>3. QED
    BY <1>2, <2>1, <2>2 DEF PickedRequests, Idle
<1>7. QED
  BY <1>3, <1>4, <1>5, <1>6 DEF CoachingInv

\* A request that fails is gone, and so is one that is done.
LEMMA IdleKeepsRequests ==
  ASSUME CoachingInv, env' = env, NEW w \in Workers, Becomes(w, Idle)
  PROVE  /\ req' \in [Workers -> Request] /\ OneRequest'
         /\ \A v \in Workers : req'[v].stage # "idle" => v # w /\ req'[v] = req[v]
<1>1. req \in [Workers -> Request] /\ Idle \in Request /\ req' = [req EXCEPT ![w] = Idle]
  BY RequestEntries DEF CoachingInv, CoachingTypeOK, Becomes
<1>2. QED
  BY <1>1 DEF CoachingInv, OneRequest, Idle

\* Without overlap nothing is left in flight when a request is done.
LEMMA DoneLeavesNone ==
  ASSUME CoachingInv, ~ env.overlap, NEW w \in Workers, req[w].stage # "idle", Becomes(w, Idle)
  PROVE  \A v \in Workers : req'[v].stage = "idle"
BY DEF CoachingInv, CoachingTypeOK, OneRequest, Becomes, Idle

LEMMA DoneKeepsRequests ==
  ASSUME CoachingInv, env' = env, NEW w \in Workers, req[w].stage # "idle", Becomes(w, Idle)
  PROVE  req' \in [Workers -> Request] /\ OneRequest' /\ PickedRequests'
<1>1. req' \in [Workers -> Request] /\ OneRequest'
  BY IdleKeepsRequests
<1>2. ~ env.overlap => \A v \in Workers : req'[v].stage = "idle"
  BY DoneLeavesNone
<1>3. PickedRequests'
  BY <1>2 DEF PickedRequests
<1>4. QED
  BY <1>1, <1>3

-----------------------------------------------------------------------------
(* Coaching: requests are carried on with. *)

LEMMA InsertStep ==
  ASSUME CoachingInv, env' = env, NEW w \in Workers, Insert(w)
  PROVE  CoachingInv'
<1>1. CoachingTypeOK /\ req[w] \in Request
  BY DEF CoachingInv, CoachingTypeOK
<1>2. /\ Becomes(w, Idle) /\ req[w].stage = "create" /\ req[w].new \in SessionType
      /\ UNCHANGED <<person, item>> /\ Live' = Live
  BY <1>1, RequestShape DEF Insert, Live
<1>3. req' \in [Workers -> Request] /\ OneRequest' /\ PickedRequests'
  BY <1>2, DoneKeepsRequests
<1>4. CASE session' = session
  BY <1>1, <1>2, <1>3, <1>4 DEF CoachingInv, CoachingTypeOK, PickedAssignees
<1>5. ASSUME NEW x \in NewSessions, NEW row, row = req[w].new,
             row.participants \cup {row.facilitator} \subseteq Live,
             session' = [y \in DOMAIN session \cup {x} |-> IF y = x THEN row ELSE session[y]]
      PROVE  CoachingInv'
  <2>1. x \in Sessions /\ x \notin DOMAIN session /\ row \in SessionType
    BY <1>2, <1>5 DEF NewSessions
  <2>2. CoachingTypeOK'
    BY <1>1, <1>2, <1>3, <1>5, <2>1 DEF CoachingTypeOK
  <2>3. \A i \in DOMAIN item : item[i].session \in DOMAIN session
    BY <1>1 DEF CoachingTypeOK
  <2>4. PickedAssignees'
    BY <1>2, <1>5, <2>1, <2>3 DEF CoachingInv, PickedAssignees
  <2>5. QED
    BY <1>3, <2>2, <2>4 DEF CoachingInv
<1>6. QED
  BY <1>4, <1>5 DEF Insert

LEMMA ReplaceStep ==
  ASSUME CoachingInv, env' = env, NEW w \in Workers, Replace(w)
  PROVE  CoachingInv'
<1> DEFINE x == req[w].session
           e == req[w].edit
<1>1. CoachingTypeOK /\ req[w] \in Request
  BY DEF CoachingInv, CoachingTypeOK
<1>2. /\ Becomes(w, Idle) /\ req[w].stage = "replace" /\ e \in EditType
      /\ person' = person /\ Live' = Live
  BY <1>1, RequestShape DEF Replace, Live
<1>3. req' \in [Workers -> Request] /\ OneRequest' /\ PickedRequests'
  BY <1>2, DoneKeepsRequests
<1>4. CASE UNCHANGED <<session, item>>
  BY <1>1, <1>2, <1>3, <1>4 DEF CoachingInv, CoachingTypeOK, PickedAssignees
<1>5. CASE /\ x \in DOMAIN session /\ (e.participants # None => e.participants \subseteq Live)
           /\ session' = [session EXCEPT ![x] = Edited(@, e)]
           /\ item' = [i \in DOMAIN item |->
                         [item[i] EXCEPT !.assignee = Assignee(i, x, e.participants)]]
  <2>1. /\ item' = [i \in DOMAIN item |-> Assigned(item[i], Assignee(i, x, e.participants))]
        /\ session' = [session EXCEPT ![x] = Edited(session[x], e)]
    BY <1>5 DEF Assigned
  <2> HIDE DEF x, e
  <2>2. /\ Edited(session[x], e) \in SessionType
        /\ Edited(session[x], e).facilitator = session[x].facilitator
        /\ Edited(session[x], e).participants = Given(e.participants, session[x].participants)
    BY <1>1, <1>2, <1>5, EditedShape DEF CoachingTypeOK
  <2>3. Given(e.participants, session[x].participants) \subseteq Live
    BY <1>1, <1>5 DEF Given, CoachingTypeOK
  <2>4. ASSUME NEW i \in DOMAIN item
        PROVE  /\ Assignee(i, x, e.participants) \in Live \cup {None}
               /\ item'[i] \in ItemType(DOMAIN session, Live \cup {None})
               /\ item'[i].session = item[i].session
               /\ item'[i].assignee = Assignee(i, x, e.participants)
               /\ item[i].session \in DOMAIN session
    <3>1. Assignee(i, x, e.participants) \in Live \cup {None}
      BY <1>1, <2>4, ItemTypes DEF Assignee
    <3>2. item'[i] = Assigned(item[i], Assignee(i, x, e.participants))
      BY <2>1, <2>4
    <3>3. QED
      BY <1>1, <2>4, <3>1, <3>2, ItemTypes, ItemShape
  <2>5. CoachingTypeOK'
    BY <1>1, <1>2, <1>3, <1>5, <2>1, <2>2, <2>3, <2>4 DEF CoachingTypeOK, ItemType
  <2>6. PickedAssignees'
    <3>1. SUFFICES ASSUME env.picked, ~ env.overlap, NEW i \in DOMAIN item
                   PROVE  \/ item'[i].assignee = None
                          \/ item'[i].assignee \in session'[item'[i].session].participants
      BY <2>1 DEF PickedAssignees
    <3>2. item[i].assignee = None \/ item[i].assignee \in session[item[i].session].participants
      BY <3>1 DEF CoachingInv, PickedAssignees
    <3>3. CASE item[i].session = x
      <4>1. session'[item'[i].session].participants = Given(e.participants, session[x].participants)
        BY <1>1, <1>5, <2>1, <2>2, <2>4, <3>1, <3>3
      <4>2. QED
        BY <2>4, <3>1, <3>2, <3>3, <4>1 DEF Assignee, Given
    <3>4. CASE item[i].session # x
      <4>1. session'[item'[i].session] = session[item[i].session]
        BY <1>1, <2>1, <2>4, <3>1, <3>4 DEF CoachingTypeOK
      <4>2. item'[i].assignee = item[i].assignee
        BY <2>4, <3>1, <3>4 DEF Assignee
      <4>3. QED
        BY <3>2, <4>1, <4>2
    <3>5. QED
      BY <3>3, <3>4
  <2>7. QED
    BY <1>3, <2>5, <2>6 DEF CoachingInv
<1>6. QED
  BY <1>4, <1>5, Zenon DEF Replace

LEMMA AddStep ==
  ASSUME CoachingInv, env' = env, NEW w \in Workers, Add(w)
  PROVE  CoachingInv'
<1> DEFINE x == req[w].session
           a == req[w].assignee
           row == [session |-> x, assignee |-> a]
<1>1. CoachingTypeOK /\ req[w] \in Request
  BY DEF CoachingInv, CoachingTypeOK
<1>2. /\ Becomes(w, Idle) /\ req[w].stage = "add" /\ a \in People \cup {None}
      /\ UNCHANGED <<person, session>> /\ Live' = Live
  BY <1>1, RequestShape DEF Add, Live
<1>3. req' \in [Workers -> Request] /\ OneRequest' /\ PickedRequests'
  BY <1>2, DoneKeepsRequests
<1>4. CASE item' = item
  BY <1>1, <1>2, <1>3, <1>4 DEF CoachingInv, CoachingTypeOK, PickedAssignees
<1>5. ASSUME NEW i \in NewItems, x \in DOMAIN session, a \in Live \cup {None},
             item' = [j \in DOMAIN item \cup {i} |-> IF j = i THEN row ELSE item[j]]
      PROVE  CoachingInv'
  <2>1. i \in Items /\ i \notin DOMAIN item
    BY <1>5 DEF NewItems
  <2>2. /\ row \in ItemType(DOMAIN session, Live \cup {None})
        /\ row.session = x /\ row.assignee = a
    BY <1>2, <1>5 DEF ItemType
  <2> HIDE DEF row
  <2>3. CoachingTypeOK'
    BY <1>1, <1>2, <1>3, <1>5, <2>1, <2>2 DEF CoachingTypeOK, ItemType
  <2>4. (env.picked /\ ~ env.overlap) => a = None \/ a \in session[x].participants
    <3>1. None \notin Live
      BY PeopleAssumption DEF Live
    <3>2. QED
      BY <1>2, <1>5, <3>1 DEF CoachingInv, PickedRequests
  <2>5. PickedAssignees'
    BY <1>2, <1>5, <2>1, <2>2, <2>4 DEF CoachingInv, PickedAssignees
  <2>6. QED
    BY <1>3, <2>3, <2>5 DEF CoachingInv
<1>6. QED
  BY <1>4, <1>5, Zenon DEF Add

LEMMA AssignStep ==
  ASSUME CoachingInv, env' = env, NEW w \in Workers, Assign(w)
  PROVE  CoachingInv'
<1> DEFINE i == req[w].item
           a == req[w].assignee
<1>1. CoachingTypeOK /\ req[w] \in Request
  BY DEF CoachingInv, CoachingTypeOK
<1>2. /\ Becomes(w, Idle) /\ req[w].stage = "assign" /\ a \in People
      /\ UNCHANGED <<person, session>> /\ Live' = Live
  BY <1>1, RequestShape DEF Assign, Live
<1>3. req' \in [Workers -> Request] /\ OneRequest' /\ PickedRequests'
  BY <1>2, DoneKeepsRequests
<1>4. CASE item' = item
  BY <1>1, <1>2, <1>3, <1>4 DEF CoachingInv, CoachingTypeOK, PickedAssignees
<1>5. CASE i \in DOMAIN item /\ a \in Live /\ item' = [item EXCEPT ![i].assignee = a]
  <2>1. item' = [item EXCEPT ![i] = Assigned(item[i], a)]
    BY <1>5, Zenon DEF Assigned
  <2>2. /\ Assigned(item[i], a) \in ItemType(DOMAIN session, Live \cup {None})
        /\ Assigned(item[i], a).session = item[i].session /\ Assigned(item[i], a).assignee = a
    BY <1>1, <1>2, <1>5, ItemTypes, ItemShape
  <2>3. CoachingTypeOK'
    BY <1>1, <1>2, <1>3, <1>5, <2>1, <2>2 DEF CoachingTypeOK, ItemType
  <2>4. (env.picked /\ ~ env.overlap) => a \in session[item[i].session].participants
    BY <1>2, <1>5 DEF CoachingInv, PickedRequests
  <2>5. PickedAssignees'
    BY <1>2, <1>5, <2>1, <2>2, <2>4 DEF CoachingInv, PickedAssignees
  <2>6. QED
    BY <1>3, <2>3, <2>5 DEF CoachingInv
<1>6. QED
  BY <1>4, <1>5, Zenon DEF Assign

LEMMA FailStep ==
  ASSUME CoachingInv, env' = env, NEW w \in Workers, Fail(w)
  PROVE  CoachingInv'
<1>1. /\ Becomes(w, Idle) /\ UNCHANGED <<person, session, item>> /\ Live' = Live
      /\ req[w].stage # "idle"
  BY RequestShape DEF Fail, OnlyReq, Live, CoachingInv, CoachingTypeOK
<1>2. req' \in [Workers -> Request] /\ OneRequest' /\ PickedRequests'
  BY <1>1, DoneKeepsRequests
<1>3. CoachingTypeOK' /\ PickedAssignees'
  BY <1>1, <1>2 DEF CoachingInv, CoachingTypeOK, PickedAssignees
<1>4. QED
  BY <1>2, <1>3 DEF CoachingInv

-----------------------------------------------------------------------------
(* Coaching: rows and users go. *)

\* When rows and users go, who is assigned an item still participates, and so
\* does who is about to be.
LEMMA RemovalKeepsInv ==
  ASSUME CoachingInv, env' = env, req' = req, CoachingTypeOK', Live' \subseteq Live,
         DOMAIN session' \subseteq DOMAIN session, DOMAIN item' \subseteq DOMAIN item,
         \A x \in DOMAIN session' : session'[x].participants = session[x].participants \cap Live',
         \A i \in DOMAIN item' : /\ item'[i].session = item[i].session
                                 /\ item'[i].assignee \in {None, item[i].assignee}
  PROVE  CoachingInv'
<1>1. \A i \in DOMAIN item' : /\ item'[i].session \in DOMAIN session'
                              /\ item'[i].assignee \in Live' \cup {None}
  BY DEF CoachingTypeOK
<1>2. OneRequest'
  BY DEF CoachingInv, OneRequest
<1>3. PickedAssignees'
  BY <1>1 DEF CoachingInv, PickedAssignees
<1>4. PickedRequests'
  BY <1>1 DEF CoachingInv, PickedRequests
<1>5. QED
  BY <1>2, <1>3, <1>4 DEF CoachingInv

LEMMA RemoveSessionStep ==
  ASSUME CoachingInv, env' = env, NEW x \in DOMAIN session, RemoveSession(x)
  PROVE  CoachingInv'
<1>1. CoachingTypeOK
  BY DEF CoachingInv
<1>2. /\ session' = [y \in DOMAIN session \ {x} |-> session[y]]
      /\ item' = [i \in {j \in DOMAIN item : item[j].session \notin {x}} |-> item[i]]
      /\ UNCHANGED <<person, req>> /\ Live' = Live
  BY DEF RemoveSession, WithoutItems, Live
<1>3. CoachingTypeOK'
  BY <1>1, <1>2, ItemTypes DEF CoachingTypeOK
<1>4. \A y \in DOMAIN session' : session'[y].participants = session[y].participants \cap Live'
  BY <1>1, <1>2, SessionShape DEF CoachingTypeOK
<1>5. QED
  BY <1>2, <1>3, <1>4, RemovalKeepsInv

LEMMA RemoveActionItemStep ==
  ASSUME CoachingInv, env' = env, NEW i \in DOMAIN item, RemoveActionItem(i)
  PROVE  CoachingInv'
<1>1. CoachingTypeOK
  BY DEF CoachingInv
<1>2. /\ item' = [j \in DOMAIN item \ {i} |-> item[j]]
      /\ UNCHANGED <<person, session, req>> /\ Live' = Live
  BY DEF RemoveActionItem, Live
<1>3. CoachingTypeOK'
  BY <1>1, <1>2 DEF CoachingTypeOK
<1>4. \A y \in DOMAIN session' : session'[y].participants = session[y].participants \cap Live'
  BY <1>1, <1>2, SessionShape DEF CoachingTypeOK
<1>5. QED
  BY <1>2, <1>3, <1>4, RemovalKeepsInv

LEMMA CascadeStep ==
  ASSUME CoachingInv, env' = env, NEW u \in Live, Cascade(u), Live' = Live \ {u}
  PROVE  CoachingInv'
<1> DEFINE lost == {x \in DOMAIN session : session[x].facilitator = u}
           kept == {j \in DOMAIN item : item[j].session \notin lost}
<1>1. CoachingTypeOK /\ None \notin Live
  BY PeopleAssumption DEF CoachingInv, Live
<1>2. session' = [x \in DOMAIN session \ lost |-> WithoutUser(session[x], u)]
  BY DEF Cascade, WithoutUser
<1>3. item' = [i \in kept |-> IF item[i].assignee = u THEN Assigned(item[i], None) ELSE item[i]]
  <2>1. WithoutItems(lost) = [i \in kept |-> item[i]]
    BY DEF WithoutItems
  <2>2. item' = [i \in DOMAIN WithoutItems(lost) |->
                   IF WithoutItems(lost)[i].assignee = u THEN Assigned(WithoutItems(lost)[i], None)
                   ELSE WithoutItems(lost)[i]]
    BY Zenon DEF Cascade, Assigned
  <2> HIDE DEF kept, lost
  <2>3. QED
    BY <2>1, <2>2
<1>4. req' = req
  BY DEF Cascade
<1>5. \A x \in DOMAIN session :
        /\ WithoutUser(session[x], u) \in SessionType
        /\ WithoutUser(session[x], u).facilitator = session[x].facilitator
        /\ WithoutUser(session[x], u).participants = session[x].participants \ {u}
        /\ session[x].participants \cup {session[x].facilitator} \subseteq Live
  BY <1>1, WithoutUserShape DEF CoachingTypeOK
<1>6. /\ DOMAIN session' = DOMAIN session \ lost
      /\ \A x \in DOMAIN session' :
           /\ session'[x] \in SessionType
           /\ session'[x].participants = session[x].participants \cap Live'
           /\ session'[x].participants \cup {session'[x].facilitator} \subseteq Live'
  BY <1>2, <1>5
<1>7. ASSUME NEW i \in kept
      PROVE  /\ i \in DOMAIN item /\ item[i].session \in DOMAIN session'
             /\ item'[i] \in ItemType(DOMAIN session, Live' \cup {None})
             /\ item'[i].session = item[i].session
             /\ item'[i].assignee \in {None, item[i].assignee}
  <2>1. /\ item[i] \in ItemType(DOMAIN session, Live \cup {None})
        /\ item[i].session \in DOMAIN session \ lost
        /\ item[i].assignee \in Live \cup {None}
    BY <1>1, <1>7, ItemTypes
  <2>2. CASE item[i].assignee = u
    <3>1. item'[i] = Assigned(item[i], None)
      BY <1>3, <1>7, <2>2
    <3>2. QED
      BY <1>6, <1>7, <2>1, <3>1, ItemShape
  <2>3. CASE item[i].assignee # u
    <3>1. item'[i] = item[i] /\ item[i].assignee \in Live' \cup {None}
      BY <1>3, <1>7, <2>1, <2>3
    <3>2. QED
      BY <1>6, <1>7, <2>1, <3>1 DEF ItemType
  <2>4. QED
    BY <2>2, <2>3
<1>8. DOMAIN item' = kept
  BY <1>3
<1>9. CoachingTypeOK'
  <2>1. item' \in [DOMAIN item' -> [session: DOMAIN session',
                                    assignee: Live' \cup {None}]]
    BY <1>3, <1>7 DEF ItemType
  <2>2. session' \in [DOMAIN session' -> SessionType]
    BY <1>2, <1>6
  <2>3. QED
    BY <1>1, <1>4, <1>6, <1>7, <1>8, <2>1, <2>2 DEF CoachingTypeOK
<1>10. QED
  BY <1>1, <1>4, <1>6, <1>7, <1>8, <1>9, RemovalKeepsInv

\* Nothing here has to do with a user's cohort.
LEMMA CoachingUnmoved ==
  ASSUME CoachingInv, env' = env, UNCHANGED coaching, Live' = Live
  PROVE  CoachingInv'
BY DEF coaching, CoachingInv, CoachingTypeOK, OneRequest, PickedRequests, PickedAssignees

LEMMA CoachingStep ==
  ASSUME CoachingInv, env' = env, CoachingNext
  PROVE  CoachingInv' /\ person' = person
<1>1. person' = person
  BY DEF CoachingNext, Call, Create, Update, AddActionItem, UpdateActionItem, Proceed, Insert,
     Replace, Add, Assign, Fail, RemoveSession, RemoveActionItem, OnlyReq
<1>2. ASSUME NEW w \in Workers, Call(w) \/ Proceed(w) \/ Fail(w)
      PROVE  CoachingInv'
  BY <1>2, CallKeepsInv, InsertStep, ReplaceStep, AddStep, AssignStep, FailStep DEF Proceed
<1>3. QED
  BY <1>1, <1>2, RemoveSessionStep, RemoveActionItemStep DEF CoachingNext

-----------------------------------------------------------------------------
(* Goals: rows, requests and notices. *)

LEMMA ErrandShape ==
  ASSUME NEW r \in Errand
  PROVE  /\ r.stage = "idle" <=> r = Idle
         /\ r.stage = "insert" => r.student \in Students /\ r.status \in Statuses
         /\ r.stage = "set" => r.student \in Students
         /\ r.stage = "write" => /\ r.goal \in GoalIds /\ r.was \in Statuses
                                 /\ r.status \in Statuses \cup {None} /\ r.own \in BOOLEAN
         /\ r.stage = "achieved" => r.goal \in GoalIds /\ r.student \in Students /\ r.own \in BOOLEAN
         /\ r.stage = "lookup" => /\ r.goal \in GoalIds /\ r.student \in Students
                                  /\ r.to \in Facilitators
         /\ r.stage = "tell" => r.goal \in GoalIds /\ r.to \in Facilitators
BY DEF Errand, Idle

LEMMA ErrandEntries ==
  /\ Idle \in Errand
  /\ \A s \in Students :
       /\ \A st \in Statuses, own \in BOOLEAN :
            [stage |-> "insert", student |-> s, status |-> st, own |-> own] \in Errand
       /\ [stage |-> "set", student |-> s] \in Errand
  /\ \A g \in GoalIds :
       /\ \A was \in Statuses, st \in Statuses \cup {None}, own \in BOOLEAN :
            [stage |-> "write", goal |-> g, was |-> was, status |-> st, own |-> own] \in Errand
       /\ \A own \in BOOLEAN, s \in Students :
            [stage |-> "achieved", goal |-> g, own |-> own, student |-> s] \in Errand
       /\ \A s \in Students, f \in Facilitators :
            [stage |-> "lookup", goal |-> g, student |-> s, to |-> f] \in Errand
       /\ \A f \in Facilitators : [stage |-> "tell", goal |-> g, to |-> f] \in Errand
BY DEF Errand, Idle

GoalType(students) == [student: students, status: Statuses]

WithStatus(row, st) == [row EXCEPT !.status = st]

LEMMA GoalShape ==
  ASSUME NEW S, NEW row \in GoalType(S), NEW st \in Statuses
  PROVE  /\ row.student \in S /\ row.status \in Statuses
         /\ WithStatus(row, st) \in GoalType(S)
         /\ WithStatus(row, st).student = row.student /\ WithStatus(row, st).status = st
BY DEF GoalType, WithStatus

LEMMA GoalTypes ==
  ASSUME GoalTyped, NEW g \in DOMAIN goal
  PROVE  /\ g \in GoalIds /\ goal[g] \in GoalType(Students \cap Live)
         /\ goal[g].student \in Students \cap Live /\ goal[g].status \in Statuses
BY DEF GoalTyped, GoalType

LEMMA SendTyped ==
  ASSUME NoticesTyped, Live' = Live, NEW u \in Live, NEW type \in Types, Send({u}, type)
  PROVE  NoticesTyped'
<1> DEFINE n == [to |-> u, type |-> type, nr |-> sent]
<1>1. n \in Notice /\ n.to = u
  BY DEF NoticesTyped, Notice, Live
<1>2. notice' = notice \cup {n} /\ unread' = unread \cup {n} /\ sent' = sent + 1
  BY DEF Send
<1> HIDE DEF n
<1>3. QED
  BY <1>1, <1>2 DEF NoticesTyped

LEMMA SendNothingTyped ==
  ASSUME NoticesTyped, Live' = Live, SendNothing
  PROVE  NoticesTyped'
BY DEF NoticesTyped, SendNothing

\* A step of one request: the others stay as they are, and without overlap there
\* are none.
LEMMA TurnStep ==
  ASSUME ErrandsTyped, OneErrand, env' = env, NEW w \in Workers, NEW r \in Errand, Turns(w, r),
         errand[w].stage # "idle" \/ MayAct(w)
  PROVE  /\ ErrandsTyped' /\ OneErrand'
         /\ errand'[w] = r
         /\ ~ env.overlap => \A v \in Workers : v # w => errand'[v] = Idle
<1>1. errand' = [errand EXCEPT ![w] = r] /\ errand \in [Workers -> Errand]
  BY DEF Turns, ErrandsTyped
<1>2. ~ env.overlap => \A v \in Workers : v # w => errand[v] = Idle
  BY DEF OneErrand, MayAct, FreeIn, Idle
<1>3. QED
  BY <1>1, <1>2 DEF ErrandsTyped, OneErrand

\* What else there is to show when a request moves and no row changes.
LEMMA GoalsUnchanged ==
  ASSUME GoalsInv, Live' = Live, UNCHANGED <<goal, mentor>>
  PROVE  GoalTyped' /\ MentorTyped'
BY DEF GoalsInv, GoalTyped, MentorTyped

\* So all there is to show of the requests in flight is about this one.
LEMMA TurnKeeps ==
  ASSUME ErrandsTyped, OneErrand, env' = env, NEW w \in Workers, NEW r \in Errand, Turns(w, r),
         errand[w].stage # "idle" \/ MayAct(w),
         ~ env.overlap =>
           /\ r.stage = "write" /\ r.goal \in DOMAIN goal' => r.was = goal'[r.goal].status
           /\ r.stage \in {"achieved", "lookup", "tell"} /\ r.goal \in DOMAIN goal' => owed'[r.goal] >= 1
  PROVE  ErrandsTyped' /\ OneErrand' /\ ReadsCurrent' /\ OwedWhileTelling'
<1>1. /\ ErrandsTyped' /\ OneErrand' /\ errand'[w] = r
      /\ ~ env.overlap => \A v \in Workers : v # w => errand'[v] = Idle
  BY TurnStep
<1>2. ~ env.overlap => \A v \in Workers : v # w => errand'[v].stage = "idle"
  BY <1>1 DEF Idle
<1>3. ReadsCurrent' /\ OwedWhileTelling'
  BY <1>1, <1>2 DEF ReadsCurrent, OwedWhileTelling
<1>4. QED
  BY <1>1, <1>3

-----------------------------------------------------------------------------
(* Goals: requests. *)

LEMMA AskGoalStep ==
  ASSUME GoalsInv, env' = env, Live' = Live, NEW w \in Workers, AskGoal(w)
  PROVE  GoalsInv'
<1>1. GoalTyped /\ ErrandsTyped /\ OneErrand
  BY DEF GoalsInv
<1>2. MayAct(w) /\ UNCHANGED <<goal, mentor, owed, notices>>
  BY DEF AskGoal, CreateGoal, UpdateGoal
<1>3. \E r \in Errand :
        /\ Turns(w, r)
        /\ r.stage \in {"insert", "write"}
        /\ r.stage = "write" => r.goal \in DOMAIN goal /\ r.was = goal[r.goal].status
  <2>1. ASSUME NEW s \in Students, NEW st \in GoalForms, NEW own \in BOOLEAN,
               CreateGoal(w, s, st, own)
        PROVE  \E r \in Errand : Turns(w, r) /\ r.stage = "insert"
    <3> DEFINE r == [stage |-> "insert", student |-> s, status |-> st, own |-> own]
    <3>1. r \in Errand /\ r.stage = "insert"
      BY ErrandEntries, GoalsAssumption
    <3>2. Turns(w, r)
      BY <2>1 DEF CreateGoal
    <3> HIDE DEF r
    <3>3. QED
      BY <3>1, <3>2
  <2>2. ASSUME NEW g \in DOMAIN goal, NEW st \in GoalEdits, NEW own \in BOOLEAN,
               UpdateGoal(w, g, st, own)
        PROVE  \E r \in Errand : /\ Turns(w, r) /\ r.stage = "write"
                                 /\ r.goal \in DOMAIN goal /\ r.was = goal[r.goal].status
    <3> DEFINE r == [stage |-> "write", goal |-> g, was |-> goal[g].status, status |-> st,
                     own |-> own]
    <3>1. g \in GoalIds /\ goal[g].status \in Statuses
      BY <1>1, GoalTypes
    <3>2. r \in Errand /\ r.stage = "write" /\ r.goal = g /\ r.was = goal[g].status
      BY <3>1, ErrandEntries, GoalsAssumption
    <3>3. Turns(w, r)
      BY <2>2 DEF UpdateGoal
    <3> HIDE DEF r
    <3>4. QED
      BY <3>2, <3>3
  <2>3. QED
    BY <2>1, <2>2 DEF AskGoal
<1>4. ErrandsTyped' /\ OneErrand' /\ ReadsCurrent' /\ OwedWhileTelling'
  BY <1>1, <1>2, <1>3, TurnKeeps
<1>5. QED
  BY <1>2, <1>4, GoalsUnchanged DEF GoalsInv, OwedTyped, NoticesTyped, notices, ToldOnce

LEMMA InsertGoalStep ==
  ASSUME GoalsInv, env' = env, Live' = Live, NEW w \in Workers, InsertGoal(w)
  PROVE  GoalsInv'
<1>1. GoalTyped /\ ErrandsTyped /\ OneErrand /\ errand[w] \in Errand
  BY DEF GoalsInv, ErrandsTyped
<1>2. /\ errand[w].stage = "insert" /\ UNCHANGED <<mentor, owed, notices>>
      /\ errand[w].student \in Students /\ errand[w].status \in Statuses
  BY <1>1, ErrandShape DEF InsertGoal
<1>3. \E r \in Errand : Turns(w, r) /\ r.stage \in {"idle", "set"}
  <2>1. Turns(w, Idle) \/ Turns(w, [stage |-> "set", student |-> errand[w].student])
    BY DEF InsertGoal
  <2>2. QED
    BY <1>2, <2>1, ErrandEntries DEF Idle
<1>4. ErrandsTyped' /\ OneErrand' /\ ReadsCurrent' /\ OwedWhileTelling'
  BY <1>1, <1>2, <1>3, TurnKeeps
<1>5. GoalTyped'
  <2>1. CASE goal' = goal
    BY <1>1, <2>1 DEF GoalTyped
  <2>2. ASSUME errand[w].student \in Live, NEW g \in GoalIds \ DOMAIN goal,
               goal' = [h \in DOMAIN goal \cup {g} |->
                          IF h = g THEN [student |-> errand[w].student, status |-> errand[w].status]
                          ELSE goal[h]]
        PROVE  GoalTyped'
    BY <1>1, <1>2, <2>2 DEF GoalTyped
  <2>3. QED
    BY <2>1, <2>2 DEF InsertGoal
<1>6. QED
  BY <1>2, <1>4, <1>5 DEF GoalsInv, MentorTyped, OwedTyped, NoticesTyped, notices, ToldOnce

LEMMA NotifyGoalSetStep ==
  ASSUME GoalsInv, env' = env, Live' = Live, NEW w \in Workers, NotifyGoalSet(w)
  PROVE  GoalsInv'
<1>1. ErrandsTyped /\ OneErrand /\ NoticesTyped
  BY DEF GoalsInv
<1>2. errand[w].stage = "set" /\ Turns(w, Idle) /\ UNCHANGED <<goal, mentor, owed>>
  BY DEF NotifyGoalSet
<1>3. ErrandsTyped' /\ OneErrand' /\ ReadsCurrent' /\ OwedWhileTelling'
  BY <1>1, <1>2, TurnKeeps, ErrandEntries DEF Idle
<1>4. NoticesTyped'
  BY <1>1, SendTyped, SendNothingTyped DEF NotifyGoalSet, Types
<1>5. QED
  BY <1>2, <1>3, <1>4, GoalsUnchanged DEF GoalsInv, OwedTyped, ToldOnce

LEMMA WriteGoalStep ==
  ASSUME GoalsInv, env' = env, Live' = Live, NEW w \in Workers, WriteGoal(w)
  PROVE  GoalsInv'
<1>1. /\ GoalTyped /\ ErrandsTyped /\ OneErrand /\ OwedTyped /\ ReadsCurrent /\ ToldOnce
      /\ errand[w] \in Errand
  BY DEF GoalsInv, ErrandsTyped
<1>2. errand[w].stage = "write" /\ UNCHANGED <<mentor, notices>>
  BY DEF WriteGoal
<1>3. CASE Turns(w, Idle) /\ UNCHANGED <<goal, owed>>
  <2>1. ErrandsTyped' /\ OneErrand' /\ ReadsCurrent' /\ OwedWhileTelling'
    BY <1>1, <1>2, <1>3, TurnKeeps, ErrandEntries DEF Idle
  <2>2. QED
    BY <1>2, <1>3, <2>1, GoalsUnchanged DEF GoalsInv, OwedTyped, NoticesTyped, notices, ToldOnce
<1>4. ASSUME NEW g \in DOMAIN goal, g = errand[w].goal,
             NEW updated, updated = (IF errand[w].status = None THEN goal[g].status
                                     ELSE errand[w].status),
             goal' = [goal EXCEPT ![g].status = updated],
             owed' = [owed EXCEPT ![g] = IF goal[g].status # updated /\ updated = "achieved"
                                         THEN @ + 1 ELSE @],
             Turns(w, AfterWrite(errand[w], updated))
      PROVE  GoalsInv'
  <2>1. /\ g \in GoalIds /\ goal[g] \in GoalType(Students \cap Live)
        /\ goal[g].student \in Students \cap Live /\ goal[g].status \in Statuses
    BY <1>1, <1>4, GoalTypes
  <2>2. updated \in Statuses /\ errand[w].own \in BOOLEAN
    BY <1>1, <1>2, <1>4, <2>1, ErrandShape
  <2>3. goal' = [goal EXCEPT ![g] = WithStatus(goal[g], updated)]
    BY <1>4, Zenon DEF WithStatus
  <2>4. /\ WithStatus(goal[g], updated) \in GoalType(Students \cap Live)
        /\ WithStatus(goal[g], updated).status = updated
    BY <2>1, <2>2, GoalShape
  <2>5. GoalTyped'
    BY <1>1, <1>4, <2>3, <2>4 DEF GoalTyped, GoalType
  <2>6. OwedTyped' /\ ToldOnce'
    BY <1>1, <1>4, <2>1 DEF OwedTyped, ToldOnce
  <2>7. ASSUME BecameAchieved(errand[w].was, updated), ~ env.overlap
        PROVE  owed'[g] >= 1
    <3>1. updated = "achieved" /\ goal[g].status # "achieved"
      BY <1>1, <1>2, <1>4, <2>7 DEF BecameAchieved, ReadsCurrent
    <3>2. owed[g] \in Int /\ owed[g] >= 0 /\ owed'[g] = owed[g] + 1
      BY <1>1, <1>4, <2>1, <2>7, <3>1 DEF OwedTyped, ToldOnce
    <3>3. QED
      BY <3>2
  <2>8. PICK r \in Errand : /\ r = AfterWrite(errand[w], updated)
                            /\ r.stage = "idle" \/ (/\ r.stage = "achieved" /\ r.goal = g
                                                    /\ BecameAchieved(errand[w].was, updated))
    <3>1. CASE ~ BecameAchieved(errand[w].was, updated)
      BY <3>1, ErrandEntries DEF AfterWrite, Idle
    <3>2. CASE BecameAchieved(errand[w].was, updated)
      <4> DEFINE r == [stage |-> "achieved", goal |-> g, own |-> errand[w].own,
                       student |-> goal[g].student]
      <4>1. r \in Errand /\ r.stage = "achieved" /\ r.goal = g
        BY <2>1, <2>2, ErrandEntries
      <4>2. r = AfterWrite(errand[w], updated)
        BY <1>4, <3>2 DEF AfterWrite
      <4> HIDE DEF r
      <4>3. QED
        BY <3>2, <4>1, <4>2
    <3>3. QED
      BY <3>1, <3>2
  <2>9. ErrandsTyped' /\ OneErrand' /\ ReadsCurrent' /\ OwedWhileTelling'
    BY <1>1, <1>2, <1>4, <2>7, <2>8, TurnKeeps
  <2>10. QED
    BY <1>2, <2>5, <2>6, <2>9 DEF GoalsInv, MentorTyped, NoticesTyped, notices
<1>5. QED
  BY <1>3, <1>4, Zenon DEF WriteGoal

\* An achievement is told: it was owed.
LEMMA SettleStep ==
  ASSUME GoalsInv, env' = env, NEW w \in Workers, errand[w].stage \in {"achieved", "lookup", "tell"},
         Settle(errand[w].goal)
  PROVE  OwedTyped' /\ ToldOnce'
<1>1. OwedTyped /\ ToldOnce /\ OwedWhileTelling
  BY DEF GoalsInv
<1>2. errand[w].goal \in GoalIds
  BY ErrandShape DEF GoalsInv, ErrandsTyped
<1>3. QED
  BY <1>1, <1>2 DEF Settle, OwedTyped, ToldOnce, OwedWhileTelling

LEMMA NotifyGoalAchievedStep ==
  ASSUME GoalsInv, env' = env, Live' = Live, NEW w \in Workers, NotifyGoalAchieved(w)
  PROVE  GoalsInv'
<1>1. /\ ErrandsTyped /\ OneErrand /\ NoticesTyped /\ MentorTyped /\ OwedTyped /\ ToldOnce
      /\ OwedWhileTelling /\ errand[w] \in Errand
  BY DEF GoalsInv, ErrandsTyped
<1>2. /\ errand[w].stage = "achieved" /\ UNCHANGED <<goal, mentor>>
      /\ errand[w].goal \in GoalIds /\ errand[w].student \in Students
  BY <1>1, ErrandShape DEF NotifyGoalAchieved
<1>3. CASE Turns(w, Idle) /\ Settle(errand[w].goal)
  <2>1. ErrandsTyped' /\ OneErrand' /\ ReadsCurrent' /\ OwedWhileTelling'
    BY <1>1, <1>2, <1>3, TurnKeeps, ErrandEntries DEF Idle
  <2>2. OwedTyped' /\ ToldOnce'
    BY <1>2, <1>3, SettleStep
  <2>3. NoticesTyped'
    BY <1>1, SendTyped, SendNothingTyped DEF NotifyGoalAchieved, Types
  <2>4. QED
    BY <1>2, <2>1, <2>2, <2>3, GoalsUnchanged DEF GoalsInv
<1>4. ASSUME NEW f, f = mentor[errand[w].student], f # None,
             Turns(w, [stage |-> "lookup", goal |-> errand[w].goal, student |-> errand[w].student,
                       to |-> f]),
             SendNothing, owed' = owed
      PROVE  GoalsInv'
  <2> DEFINE r == [stage |-> "lookup", goal |-> errand[w].goal, student |-> errand[w].student,
                   to |-> f]
  <2>1. f \in Facilitators
    BY <1>1, <1>2, <1>4 DEF MentorTyped
  <2>2. r \in Errand /\ r.stage = "lookup" /\ r.goal = errand[w].goal
    BY <1>2, <2>1, ErrandEntries
  <2>3. ~ env.overlap /\ errand[w].goal \in DOMAIN goal => owed[errand[w].goal] >= 1
    BY <1>1, <1>2 DEF OwedWhileTelling
  <2>4. Turns(w, r)
    BY <1>4
  <2> HIDE DEF r
  <2>5. ErrandsTyped' /\ OneErrand' /\ ReadsCurrent' /\ OwedWhileTelling'
    BY <1>1, <1>2, <1>4, <2>2, <2>3, <2>4, TurnKeeps
  <2>6. NoticesTyped'
    BY <1>1, <1>4, SendNothingTyped
  <2>7. QED
    BY <1>1, <1>2, <1>4, <2>5, <2>6, GoalsUnchanged DEF GoalsInv, OwedTyped, ToldOnce
<1>5. QED
  BY <1>3, <1>4, Zenon DEF NotifyGoalAchieved

LEMMA LookupStudentStep ==
  ASSUME GoalsInv, env' = env, Live' = Live, NEW w \in Workers, LookupStudent(w)
  PROVE  GoalsInv'
<1>1. /\ ErrandsTyped /\ OneErrand /\ OwedTyped /\ ToldOnce /\ OwedWhileTelling
      /\ errand[w] \in Errand
  BY DEF GoalsInv, ErrandsTyped
<1>2. /\ errand[w].stage = "lookup" /\ UNCHANGED <<goal, mentor, notices>>
      /\ errand[w].goal \in GoalIds /\ errand[w].to \in Facilitators
  BY <1>1, ErrandShape DEF LookupStudent
<1>3. GoalTyped' /\ MentorTyped' /\ NoticesTyped'
  BY <1>2, GoalsUnchanged DEF GoalsInv, NoticesTyped, notices
<1>4. CASE Turns(w, Idle) /\ Settle(errand[w].goal)
  <2>1. ErrandsTyped' /\ OneErrand' /\ ReadsCurrent' /\ OwedWhileTelling'
    BY <1>1, <1>2, <1>4, TurnKeeps, ErrandEntries DEF Idle
  <2>2. OwedTyped' /\ ToldOnce'
    BY <1>2, <1>4, SettleStep
  <2>3. QED
    BY <1>3, <2>1, <2>2 DEF GoalsInv
<1>5. CASE /\ Turns(w, [stage |-> "tell", goal |-> errand[w].goal, to |-> errand[w].to])
           /\ owed' = owed
  <2> DEFINE r == [stage |-> "tell", goal |-> errand[w].goal, to |-> errand[w].to]
  <2>1. r \in Errand /\ r.stage = "tell" /\ r.goal = errand[w].goal
    BY <1>2, ErrandEntries
  <2>2. ~ env.overlap /\ errand[w].goal \in DOMAIN goal => owed[errand[w].goal] >= 1
    BY <1>1, <1>2 DEF OwedWhileTelling
  <2>3. Turns(w, r)
    BY <1>5
  <2> HIDE DEF r
  <2>4. ErrandsTyped' /\ OneErrand' /\ ReadsCurrent' /\ OwedWhileTelling'
    BY <1>1, <1>2, <1>5, <2>1, <2>2, <2>3, TurnKeeps
  <2>5. QED
    BY <1>1, <1>3, <1>5, <2>4 DEF GoalsInv, OwedTyped, ToldOnce
<1>6. QED
  BY <1>4, <1>5, Zenon DEF LookupStudent

LEMMA TellMentorStep ==
  ASSUME GoalsInv, env' = env, Live' = Live, NEW w \in Workers, TellMentor(w)
  PROVE  GoalsInv'
<1>1. ErrandsTyped /\ OneErrand /\ NoticesTyped
  BY DEF GoalsInv
<1>2. /\ errand[w].stage = "tell" /\ Turns(w, Idle) /\ UNCHANGED <<goal, mentor>>
      /\ Settle(errand[w].goal)
  BY DEF TellMentor
<1>3. ErrandsTyped' /\ OneErrand' /\ ReadsCurrent' /\ OwedWhileTelling'
  BY <1>1, <1>2, TurnKeeps, ErrandEntries DEF Idle
<1>4. OwedTyped' /\ ToldOnce'
  BY <1>2, SettleStep
<1>5. NoticesTyped'
  BY <1>1, SendTyped, SendNothingTyped DEF TellMentor, Types
<1>6. QED
  BY <1>2, <1>3, <1>4, <1>5, GoalsUnchanged DEF GoalsInv

LEMMA FailGoalStep ==
  ASSUME GoalsInv, env' = env, Live' = Live, NEW w \in Workers, FailGoal(w)
  PROVE  GoalsInv'
<1>1. ErrandsTyped /\ OneErrand /\ errand[w] \in Errand
  BY DEF GoalsInv, ErrandsTyped
<1>2. errand[w].stage # "idle" /\ Turns(w, Idle) /\ UNCHANGED <<goal, mentor, owed, notices>>
  BY <1>1, ErrandShape DEF FailGoal
<1>3. ErrandsTyped' /\ OneErrand' /\ ReadsCurrent' /\ OwedWhileTelling'
  BY <1>1, <1>2, TurnKeeps, ErrandEntries DEF Idle
<1>4. QED
  BY <1>2, <1>3, GoalsUnchanged DEF GoalsInv, OwedTyped, NoticesTyped, notices, ToldOnce

-----------------------------------------------------------------------------
(* Goals: rows, mentors, notices and users. *)

\* Goals go, and what was owed for them.
LEMMA FewerGoals ==
  ASSUME GoalsInv, env' = env, errand' = errand, DOMAIN goal' \subseteq DOMAIN goal,
         \A g \in DOMAIN goal' : goal'[g] = goal[g],
         owed' \in [GoalIds -> Int],
         \A g \in GoalIds : owed'[g] = 0 \/ owed'[g] = owed[g],
         \A g \in DOMAIN goal' : owed'[g] = owed[g]
  PROVE  OwedTyped' /\ ErrandsTyped' /\ OneErrand' /\ ReadsCurrent' /\ OwedWhileTelling' /\ ToldOnce'
BY DEF GoalsInv, OwedTyped, ErrandsTyped, OneErrand, ReadsCurrent, OwedWhileTelling, ToldOnce

LEMMA RemoveGoalStep ==
  ASSUME GoalsInv, env' = env, Live' = Live, NEW g \in DOMAIN goal, RemoveGoal(g)
  PROVE  GoalsInv'
<1>1. GoalTyped /\ OwedTyped
  BY DEF GoalsInv
<1>2. /\ goal' = [h \in DOMAIN goal \ {g} |-> goal[h]] /\ owed' = [owed EXCEPT ![g] = 0]
      /\ UNCHANGED <<mentor, errand, notices>>
  BY DEF RemoveGoal
<1>3. GoalTyped'
  BY <1>1, <1>2 DEF GoalTyped
<1>4. /\ owed' \in [GoalIds -> Int] /\ \A h \in GoalIds : owed'[h] = 0 \/ owed'[h] = owed[h]
      /\ \A h \in DOMAIN goal' : owed'[h] = owed[h]
  <2>1. DOMAIN goal' = DOMAIN goal \ {g} /\ DOMAIN goal \subseteq GoalIds
    BY <1>1, <1>2 DEF GoalTyped
  <2>2. \A h \in GoalIds : owed'[h] = IF h = g THEN 0 ELSE owed[h]
    BY <1>1, <1>2 DEF OwedTyped
  <2>3. owed' \in [GoalIds -> Int]
    <3>1. owed \in [GoalIds -> Int] /\ owed' = [owed EXCEPT ![g] = 0]
      BY <1>1, <1>2 DEF OwedTyped
    <3>2. 0 \in Int
      OBVIOUS
    <3>3. QED
      BY <3>1, <3>2, Zenon
  <2>4. QED
    BY <2>1, <2>2, <2>3
<1>5. QED
  BY <1>2, <1>3, <1>4, FewerGoals DEF GoalsInv, MentorTyped, NoticesTyped, notices

LEMMA ReassignStep ==
  ASSUME GoalsInv, env' = env, Live' = Live, NEW s \in Students, NEW f, Reassign(s, f)
  PROVE  GoalsInv'
<1>1. MentorTyped'
  BY DEF GoalsInv, MentorTyped, Reassign
<1>2. UNCHANGED <<goal, errand, owed, notices>>
  BY DEF Reassign
<1>3. QED
  BY <1>1, <1>2 DEF GoalsInv, GoalTyped, ErrandsTyped, OwedTyped, NoticesTyped, notices,
     OneErrand, ReadsCurrent, OwedWhileTelling, ToldOnce

LEMMA NoticesStep ==
  ASSUME GoalsInv, env' = env, Live' = Live, NoticesNext
  PROVE  GoalsInv'
<1>1. NoticesTyped /\ UNCHANGED <<goal, mentor, errand, owed>>
  BY DEF GoalsInv, NoticesNext
<1>2. ASSUME NEW u \in Live, MarkRead(u) \/ MarkAllRead(u)
      PROVE  NoticesTyped'
  BY <1>1, <1>2 DEF MarkRead, MarkAllRead, NoticesTyped
<1>3. ASSUME NEW u \in Live, NEW type \in Types, SendOther(type, u)
      PROVE  NoticesTyped'
  BY <1>1, <1>3, SendTyped DEF SendOther
<1>4. QED
  BY <1>1, <1>2, <1>3 DEF NoticesNext, GoalsInv, GoalTyped, MentorTyped, ErrandsTyped, OwedTyped,
     OneErrand, ReadsCurrent, OwedWhileTelling, ToldOnce

LEMMA DropStep ==
  ASSUME GoalsInv, env' = env, NEW u \in Live, Live' = Live \ {u}, DropGoals(u), DropNotices(u)
  PROVE  GoalsInv'
<1>1. GoalTyped /\ OwedTyped /\ MentorTyped /\ NoticesTyped
  BY DEF GoalsInv
<1>2. /\ goal' = [g \in {h \in DOMAIN goal : goal[h].student # u} |-> goal[g]]
      /\ owed' = [g \in GoalIds |-> IF g \in DOMAIN goal' THEN owed[g] ELSE 0]
      /\ mentor' = [s \in Students |-> IF u \in {s, mentor[s]} THEN None ELSE mentor[s]]
      /\ errand' = errand
  BY DEF DropGoals
<1>3. GoalTyped'
  BY <1>1, <1>2 DEF GoalTyped
<1>4. MentorTyped'
  BY <1>1, <1>2 DEF MentorTyped
<1>5. NoticesTyped'
  BY <1>1 DEF DropNotices, NoticesTyped
<1>6. /\ owed' \in [GoalIds -> Int] /\ DOMAIN goal' \subseteq DOMAIN goal
      /\ DOMAIN goal' \subseteq GoalIds
      /\ \A g \in DOMAIN goal' : goal'[g] = goal[g]
      /\ \A g \in GoalIds : owed'[g] = 0 \/ owed'[g] = owed[g]
      /\ \A g \in DOMAIN goal' : owed'[g] = owed[g]
  BY <1>1, <1>2 DEF OwedTyped, GoalTyped
<1>7. QED
  BY <1>2, <1>3, <1>4, <1>5, <1>6, FewerGoals DEF GoalsInv

LEMMA GoalsStep ==
  ASSUME GoalsInv, env' = env, Live' = Live, GoalsNext \/ NoticesNext
  PROVE  GoalsInv'
<1>1. ASSUME NEW w \in Workers, AskGoal(w) \/ AnswerGoal(w) \/ FailGoal(w)
      PROVE  GoalsInv'
  BY <1>1, AskGoalStep, InsertGoalStep, NotifyGoalSetStep, WriteGoalStep, NotifyGoalAchievedStep,
     LookupStudentStep, TellMentorStep, FailGoalStep DEF AnswerGoal
<1>2. QED
  BY <1>1, RemoveGoalStep, ReassignStep, NoticesStep DEF GoalsNext

LEMMA GoalsUntouched ==
  ASSUME GoalsInv, env' = env, Live' = Live, UNCHANGED following
  PROVE  GoalsInv'
BY DEF following, notices, GoalsInv, GoalTyped, MentorTyped, ErrandsTyped, OwedTyped,
   NoticesTyped, OneErrand, ReadsCurrent, OwedWhileTelling, ToldOnce

-----------------------------------------------------------------------------
(* The theorems. *)

LEMMA InvInit == Init => EngagementInv
<1> SUFFICES ASSUME Init
             PROVE  EngagementInv
  OBVIOUS
<1> USE DEF Init
<1>1. PersonTyped
  BY DEF PersonTyped
<1>2. DOMAIN session = {} /\ DOMAIN item = {} /\ DOMAIN goal = {}
  BY DEF CoachingInit, GoalsInit
<1>3. /\ session \in [DOMAIN session -> SessionType]
      /\ item \in [DOMAIN item -> [session: DOMAIN session,
                                   assignee: Live \cup {None}]]
      /\ goal \in [DOMAIN goal -> [student: Students \cap Live, status: Statuses]]
  BY <1>2 DEF CoachingInit, GoalsInit
<1>4. CoachingInv
  BY <1>2, <1>3, RequestEntries DEF CoachingInit, CoachingInv, CoachingTypeOK, OneRequest,
     PickedRequests, PickedAssignees, Idle
<1>5. GoalsInv
  BY <1>2, <1>3, ErrandEntries DEF GoalsInit, NoticesInit, GoalsInv, GoalTyped, MentorTyped,
     ErrandsTyped, OwedTyped, NoticesTyped, OneErrand, ReadsCurrent, OwedWhileTelling, ToldOnce, Idle
<1>6. QED
  BY <1>1, <1>4, <1>5 DEF EngagementInv

LEMMA InvStep == EngagementInv /\ [Next]_vars => EngagementInv'
<1> SUFFICES ASSUME EngagementInv, [Next]_vars
             PROVE  EngagementInv'
  OBVIOUS
<1> USE DEF EngagementInv
<1>1. env' = env
  BY DEF Next, vars
<1>2. ASSUME person' = person
      PROVE  Live' = Live /\ PersonTyped'
  BY <1>2 DEF Live, PersonTyped
<1>3. CASE CoachingNext /\ UNCHANGED following
  BY <1>1, <1>2, <1>3, CoachingStep, GoalsUntouched
<1>4. CASE (GoalsNext \/ NoticesNext) /\ UNCHANGED <<person, coaching>>
  BY <1>1, <1>2, <1>4, GoalsStep, CoachingUnmoved
<1>5. ASSUME NEW u \in People, NEW c \in Cohorts, Move(u, c)
      PROVE  EngagementInv'
  BY <1>1, <1>5, MovedLive, CoachingUnmoved, GoalsUntouched DEF Move
<1>6. ASSUME NEW u \in People, RemoveUser(u)
      PROVE  EngagementInv'
  BY <1>1, <1>6, RemovedLive, CascadeStep, DropStep DEF RemoveUser
<1>7. CASE UNCHANGED vars
  BY <1>1, <1>2, <1>7, CoachingUnmoved, GoalsUntouched DEF vars
<1>8. QED
  BY <1>3, <1>4, <1>5, <1>6, <1>7 DEF Next

LEMMA Invariance == Spec => []EngagementInv
BY InvInit, InvStep, PTL DEF Spec

\* However requests race and whoever is removed meanwhile, every row of sessions,
\* items, goals, mentors and notices refers to rows and users that exist.
THEOREM RowsAlwaysReferToRows == Spec => []TypeOK
<1>1. EngagementInv => TypeOK
  BY DEF EngagementInv, PersonTyped, CoachingInv, GoalsInv, GoalTyped, MentorTyped, ErrandsTyped,
     OwedTyped, NoticesTyped, TypeOK, GoalsTypeOK
<1>2. QED
  BY <1>1, Invariance, PTL

\* When requests do not overlap and assignees are picked from the participants,
\* whoever is assigned an action item participates in its session, and a student
\* finds it in his list and may open it: replaced lists and removed users included.
THEOREM PickedAlwaysParticipate == Spec => []PickedParticipate
<1>1. EngagementInv => PickedParticipate
  <2>1. SUFFICES ASSUME CoachingTypeOK, PickedAssignees, env.picked, ~ env.overlap,
                        NEW i \in DOMAIN item, item[i].assignee # None
                 PROVE  /\ item[i].assignee \in session[item[i].session].participants
                        /\ item[i].assignee \in Students =>
                             /\ item[i].session \in ListedSessions(item[i].assignee)
                             /\ CanRead(item[i].assignee, item[i].session)
    BY DEF EngagementInv, CoachingInv, PickedParticipate, AssigneesParticipate
  <2>2. /\ item[i].session \in DOMAIN session
        /\ item[i].assignee \in session[item[i].session].participants
        /\ item[i].assignee \in Students => item[i].assignee \notin Facilitators
    BY <2>1, ItemTypes, PeopleAssumption DEF PickedAssignees
  <2>3. QED
    BY <2>2 DEF ListedSessions, CanRead
<1>2. QED
  BY <1>1, Invariance, PTL

\* Without overlap no notice tells an achievement that was told before or never
\* was: for any number of goals, whoever edits them and whatever fails.
THEOREM AchievementsAlwaysToldOnce == Spec => []ToldOnce
<1>1. EngagementInv => ToldOnce
  BY DEF EngagementInv, GoalsInv
<1>2. QED
  BY <1>1, Invariance, PTL
=============================================================================
