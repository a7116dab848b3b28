------------------------ MODULE MentorAssignmentsProofs ------------------------
(***************************************************************************)
(* Proofs about MentorAssignments for any number of students, facilitators,*)
(* cohorts and requests in flight.                                         *)
(***************************************************************************)
EXTENDS MentorAssignments, TLAPS

LEMMA RequestShape ==
  ASSUME NEW r \in Request
  PROVE  /\ r = Idle \/ (r.stage \in Stages /\ r.t \in Trios)
         /\ r.stage = "idle" => r = Idle
BY DEF Request, Idle, Stages

LEMMA TrioShape ==
  ASSUME NEW t \in Trios
  PROVE  /\ t[1] \in Facilitators /\ t[2] \in Students /\ t[3] \in Cohorts
         /\ t = <<t[1], t[2], t[3]>>
BY DEF Trios

LEMMA AtType ==
  ASSUME NEW stage \in Stages, NEW t \in Trios
  PROVE  At(stage, t) \in Request /\ At(stage, t).stage = stage /\ At(stage, t).t = t
BY DEF At, Request

-----------------------------------------------------------------------------
(* Type correctness. *)

LEMMA TypeStep ==
  ASSUME TypeOK, [Next]_vars
  PROVE  TypeOK'
<1> USE AssignmentsAssumption
<1>1. ASSUME NEW w \in Workers, Call(w)
      PROVE  TypeOK'
  <2>1. CASE \E f \in Facilitators, s \in Students, c \in Cohorts \cup {NoCohort} :
               Create(w, f, s, c)
    <3>1. PICK f \in Facilitators, s \in Students, c \in Cohorts \cup {NoCohort} :
            Create(w, f, s, c)
      BY <2>1
    <3> DEFINE k == IF c # NoCohort THEN c ELSE member[s]
    <3>2. k \in Cohorts
      BY <3>1 DEF Create, Acceptable, TypeOK
    <3>3. At("retire", <<f, s, k>>) \in Request
      BY <3>2, AtType DEF Trios, Stages
    <3>4. /\ UNCHANGED <<row, member>>
          /\ req' = [req EXCEPT ![w] = At("retire", <<f, s, k>>)]
      BY <3>1 DEF Create, Becomes
    <3> HIDE DEF k
    <3>5. QED
      BY <3>3, <3>4 DEF TypeOK
  <2>2. CASE \E t \in Trios : Remove(w, t)
    <3>1. PICK t \in Trios : Remove(w, t)
      BY <2>2
    <3>2. At("delete", t) \in Request
      BY AtType DEF Stages
    <3>3. QED
      BY <3>1, <3>2 DEF Remove, Becomes, TypeOK
  <2>3. QED
    BY <1>1, <2>1, <2>2 DEF Call
<1>2. ASSUME NEW w \in Workers, Proceed(w)
      PROVE  TypeOK'
  <2>1. req[w] \in Request /\ Idle \in Request
    BY DEF TypeOK, Request
  <2>2. req[w] # Idle
    BY <1>2 DEF Proceed, Retire, Find, Reactivate, Insert, Delete, Idle
  <2>3. req[w].t \in Trios /\ row[req[w].t] \in RowState
    BY <2>1, <2>2, RequestShape DEF TypeOK
  <2>4. \A stage \in Stages : At(stage, req[w].t) \in Request
    BY <2>3, AtType
  <2>5. CASE Retire(w)
    BY <2>4, <2>5 DEF Retire, Becomes, TypeOK, RowState, Stages
  <2>6. CASE Find(w)
    <3>1. AfterFind(req[w].t) \in Request
      BY <2>1, <2>3, <2>4 DEF AfterFind, RowState, Stages
    <3>2. QED
      BY <2>6, <3>1 DEF Find, Becomes, TypeOK
  <2>7. CASE Reactivate(w)
    BY <2>1, <2>3, <2>7 DEF Reactivate, Becomes, TypeOK, RowState
  <2>8. CASE Insert(w)
    BY <2>1, <2>3, <2>8 DEF Insert, Becomes, TypeOK, RowState
  <2>9. CASE Delete(w)
    BY <2>1, <2>3, <2>9 DEF Delete, TypeOK, RowState
  <2>10. QED
    BY <1>2, <2>5, <2>6, <2>7, <2>8, <2>9 DEF Proceed
<1>3. ASSUME NEW s \in Students, NEW c \in Cohorts \cup {NoCohort}, SetCohort(s, c)
      PROVE  TypeOK'
  BY <1>3 DEF SetCohort, TypeOK
<1>4. ASSUME NEW w \in Workers, Stop(w)
      PROVE  TypeOK'
  BY <1>4 DEF Stop, Becomes, TypeOK, Request
<1>5. CASE UNCHANGED vars
  BY <1>5 DEF vars, TypeOK
<1>6. QED
  BY <1>1, <1>2, <1>3, <1>4, <1>5 DEF Next, Requests

\* Rows, memberships and requests in flight stay within their types: an
\* assignment without a cohort is never written.
THEOREM TypeCorrect == Spec => []TypeOK
<1>1. Init => TypeOK
  BY DEF Init, TypeOK, RowState, Request
<1>2. QED
  BY <1>1, TypeStep, PTL DEF Spec

-----------------------------------------------------------------------------
(* One mentor at a time, when a student is assigned by one request at a time.  *)

OneAssigner ==
  \A v, w \in Workers, s \in Students : Assigning(v, s) /\ Assigning(w, s) => v = w

\* Once the others are retired nobody brings one back.
StillRetired ==
  \A w \in Workers : Underway(w) =>
    \A u \in Trios : row[u] = "active" /\ u[2] = req[w].t[2] => u[1] = req[w].t[1]

OneMentorPerRows ==
  \A u, v \in Trios :
    row[u] = "active" /\ row[v] = "active" /\ u[2] = v[2] => u[1] = v[1]

SInv == TypeOK /\ OneAssigner /\ StillRetired /\ OneMentorPerRows

\* A step that brings no row into force and moves no request onwards.
LEMMA NothingNew ==
  ASSUME SInv,
         \A u \in Trios : row'[u] = "active" => row[u] = "active",
         \A v \in Workers : req'[v].stage \in Stages \ {"delete"} =>
            /\ req[v].stage \in Stages \ {"delete"}
            /\ req'[v].t = req[v].t
            /\ Underway(v)' => Underway(v)
  PROVE  OneAssigner' /\ StillRetired' /\ OneMentorPerRows'
<1>1. OneAssigner'
  BY DEF SInv, OneAssigner, Assigning
<1>2. StillRetired'
  BY DEF SInv, StillRetired, Underway, Stages
<1>3. OneMentorPerRows'
  BY DEF SInv, OneMentorPerRows
<1>4. QED
  BY <1>1, <1>2, <1>3

LEMMA CreateKeepsOne ==
  ASSUME SInv, ~ Overlapping, NEW w \in Workers, NEW f \in Facilitators,
         NEW s \in Students, NEW c \in Cohorts \cup {NoCohort}, Create(w, f, s, c)
  PROVE  OneAssigner' /\ StillRetired' /\ OneMentorPerRows'
<1> DEFINE k == IF c # NoCohort THEN c ELSE member[s]
<1>1. /\ req'[w] = At("retire", <<f, s, k>>)
      /\ \A v \in Workers : v # w => req'[v] = req[v]
      /\ row' = row
      /\ \A v \in Workers : ~ Assigning(v, s)
  BY DEF Create, Becomes, SInv, TypeOK
<1>2. req'[w].stage = "retire" /\ req'[w].t[2] = s
  BY <1>1 DEF At
<1>3. \A v \in Workers, x \in Students :
        Assigning(v, x)' => (v # w /\ Assigning(v, x)) \/ (v = w /\ x = s)
  BY <1>1, <1>2 DEF Assigning
<1>4. OneAssigner'
  BY <1>1, <1>3 DEF SInv, OneAssigner
<1>5. \A v \in Workers : Underway(v)' => Underway(v) /\ req'[v] = req[v]
  BY <1>1, <1>2 DEF Underway
<1>6. StillRetired'
  BY <1>1, <1>5 DEF SInv, StillRetired
<1>7. QED
  BY <1>1, <1>4, <1>6 DEF SInv, OneMentorPerRows

LEMMA RetireKeepsOne ==
  ASSUME SInv, NEW w \in Workers, Retire(w)
  PROVE  OneAssigner' /\ StillRetired' /\ OneMentorPerRows'
<1> DEFINE t == req[w].t
<1>1. t \in Trios
  BY RequestShape DEF Retire, SInv, TypeOK, Idle
<1>2. /\ req[w].stage = "retire"
      /\ req'[w] = At("find", t)
      /\ \A v \in Workers : v # w => req'[v] = req[v]
      /\ \A u \in Trios : row'[u] = "active" => row[u] = "active" /\ ~ Superseded(u, t)
  BY DEF Retire, Becomes, SInv, TypeOK
<1>3. req'[w].stage = "find" /\ req'[w].t = t
  BY <1>2 DEF At
<1>4. OneAssigner'
  BY <1>2, <1>3 DEF SInv, OneAssigner, Assigning, Stages
<1>5. StillRetired'
  BY <1>2, <1>3 DEF SInv, StillRetired, Underway, Superseded
<1>6. OneMentorPerRows'
  BY <1>2 DEF SInv, OneMentorPerRows
<1>7. QED
  BY <1>4, <1>5, <1>6

\* reactivate and insert: the row that comes into force is of the facilitator
\* whose rivals are retired, and nobody else is assigning the student.
LEMMA InForceKeepsOne ==
  ASSUME SInv, NEW w \in Workers, Reactivate(w) \/ Insert(w)
  PROVE  OneAssigner' /\ StillRetired' /\ OneMentorPerRows'
<1> DEFINE t == req[w].t
<1>1. t \in Trios /\ t[2] \in Students
  BY RequestShape, TrioShape DEF Reactivate, Insert, SInv, TypeOK, Idle
<1>2. /\ Underway(w)
      /\ Assigning(w, t[2])
      /\ req'[w] = Idle
      /\ \A v \in Workers : v # w => req'[v] = req[v]
      /\ \A u \in Trios : row'[u] = "active" => row[u] = "active" \/ u = t
  BY <1>1 DEF Reactivate, Insert, Becomes, SInv, TypeOK, Underway, Assigning, Stages
<1>3. req'[w].stage = "idle"
  BY <1>2 DEF Idle
<1>4. OneAssigner'
  BY <1>2, <1>3 DEF SInv, OneAssigner, Assigning, Stages
<1>5. \A u \in Trios : row[u] = "active" /\ u[2] = t[2] => u[1] = t[1]
  BY <1>2 DEF SInv, StillRetired
<1>6. \A v \in Workers : Underway(v)' =>
        /\ v # w
        /\ Underway(v)
        /\ req'[v].t = req[v].t
        /\ req[v].t[2] # t[2]
  <2>1. \A v \in Workers : Underway(v)' => v # w /\ Underway(v) /\ req'[v].t = req[v].t
    BY <1>2, <1>3 DEF Underway
  <2>2. \A v \in Workers : Underway(v) /\ req[v].t[2] = t[2] => Assigning(v, t[2])
    BY DEF Underway, Assigning, Stages
  <2>3. QED
    BY <1>1, <1>2, <2>1, <2>2 DEF SInv, OneAssigner
<1>7. StillRetired'
  BY <1>2, <1>6 DEF SInv, StillRetired
<1>8. OneMentorPerRows'
  BY <1>2, <1>5 DEF SInv, OneMentorPerRows
<1>9. QED
  BY <1>4, <1>7, <1>8

LEMMA OneMentorStep ==
  ASSUME SInv, ~ Overlapping, [Next]_vars
  PROVE  SInv'
<1>1. TypeOK'
  BY TypeStep DEF SInv
<1> USE DEF SInv
<1>2. CASE UNCHANGED vars
  BY <1>2, <1>1, NothingNew DEF vars, Underway
<1>3. ASSUME NEW w \in Workers, NEW f \in Facilitators, NEW s \in Students,
             NEW c \in Cohorts \cup {NoCohort}, Create(w, f, s, c)
      PROVE  SInv'
  BY <1>1, <1>3, CreateKeepsOne
<1>4. ASSUME NEW w \in Workers, NEW t \in Trios, Remove(w, t)
      PROVE  SInv'
  <2>1. /\ row' = row
        /\ req'[w].stage = "delete"
        /\ \A v \in Workers : v # w => req'[v] = req[v]
    BY <1>4 DEF Remove, Becomes, At, TypeOK
  <2>2. QED
    BY <1>1, <2>1, NothingNew DEF Underway
<1>5. ASSUME NEW w \in Workers, Retire(w)
      PROVE  SInv'
  BY <1>1, <1>5, RetireKeepsOne
<1>6. ASSUME NEW w \in Workers, Find(w)
      PROVE  SInv'
  <2>1. /\ row' = row
        /\ req[w].stage = "find"
        /\ req'[w] = AfterFind(req[w].t)
        /\ \A v \in Workers : v # w => req'[v] = req[v]
        /\ req[w].t \in Trios
    BY <1>6, RequestShape DEF Find, Becomes, TypeOK, Idle
  <2>2. \/ req'[w].stage = "idle"
        \/ req'[w].t = req[w].t
    BY <2>1 DEF AfterFind, At, Idle, TypeOK, RowState
  <2>3. QED
    BY <1>1, <2>1, <2>2, NothingNew DEF Underway, Stages
<1>7. ASSUME NEW w \in Workers, Reactivate(w) \/ Insert(w)
      PROVE  SInv'
  BY <1>1, <1>7, InForceKeepsOne
<1>8. ASSUME NEW w \in Workers, Delete(w)
      PROVE  SInv'
  <2>1. /\ \A u \in Trios : row'[u] = "active" => row[u] = "active"
        /\ \A v \in Workers : req'[v] = Idle \/ req'[v] = req[v]
    BY <1>8 DEF Delete, TypeOK
  <2>2. Idle.stage = "idle"
    BY DEF Idle
  <2>3. QED
    BY <1>1, <2>1, <2>2, NothingNew DEF Underway, Stages
<1>9. ASSUME NEW w \in Workers, Stop(w)
      PROVE  SInv'
  <2>1. /\ row' = row
        /\ req'[w].stage = "idle"
        /\ \A v \in Workers : v # w => req'[v] = req[v]
    BY <1>9 DEF Stop, Becomes, Idle, TypeOK
  <2>2. QED
    BY <1>1, <2>1, NothingNew DEF Underway, Stages
<1>10. ASSUME NEW s \in Students, NEW c \in Cohorts \cup {NoCohort}, SetCohort(s, c)
       PROVE  SInv'
  BY <1>1, <1>10, NothingNew DEF SetCohort, Underway
<1>11. QED
  BY <1>2, <1>3, <1>4, <1>5, <1>6, <1>7, <1>8, <1>9, <1>10
     DEF Next, Requests, Call, Proceed

LEMMA SInvInit == Init => SInv
<1> SUFFICES ASSUME Init PROVE SInv
  OBVIOUS
<1>1. TypeOK
  BY DEF Init, TypeOK, RowState, Request
<1>2. \A w \in Workers : req[w].stage = "idle"
  BY DEF Init, Idle
<1>3. QED
  BY <1>1, <1>2 DEF Init, SInv, OneAssigner, StillRetired, OneMentorPerRows,
                    Assigning, Underway, Stages

\* If no student is ever being assigned by two requests at once, no student is
\* ever on two rosters, removals and half-finished requests included.
THEOREM SerialMentorship ==
  ASSUME ~ Overlapping
  PROVE  Spec => []AtMostOneMentor
<1>1. Init => SInv
  BY SInvInit
<1>2. SInv /\ [Next]_vars => SInv'
  BY OneMentorStep
<1>3. SInv => AtMostOneMentor
  <2> SUFFICES ASSUME SInv, NEW s \in Students, NEW f \in Mentors(s), NEW g \in Mentors(s)
               PROVE  f = g
    BY DEF AtMostOneMentor
  <2>2. PICK c \in Cohorts : row[<<f, s, c>>] = "active"
    BY DEF Mentors
  <2>3. PICK d \in Cohorts : row[<<g, s, d>>] = "active"
    BY DEF Mentors
  <2>4. <<f, s, c>> \in Trios /\ <<g, s, d>> \in Trios
    BY DEF Mentors, Trios
  <2>5. QED
    BY <2>2, <2>3, <2>4 DEF SInv, OneMentorPerRows
<1>4. QED
  BY <1>1, <1>2, <1>3, PTL DEF Spec

-----------------------------------------------------------------------------
(* A successor for every retired mentor, however requests overlap.          *)

Known(s) == \E t \in Trios : t[2] = s /\ row[t] # "none"

InForce(s) == \E t \in Trios : t[2] = s /\ row[t] = "active"

LEMMA MentorsInForce ==
  ASSUME NEW s \in Students
  PROVE  Mentors(s) # {} <=> InForce(s)
<1>1. ASSUME NEW f \in Mentors(s)
      PROVE  InForce(s)
  <2>1. PICK c \in Cohorts : row[<<f, s, c>>] = "active"
    BY DEF Mentors
  <2>2. <<f, s, c>> \in Trios
    BY DEF Mentors, Trios
  <2>3. QED
    BY <2>1, <2>2 DEF InForce
<1>2. ASSUME NEW t \in Trios, t[2] = s, row[t] = "active"
      PROVE  t[1] \in Mentors(s)
  BY <1>2, TrioShape DEF Mentors
<1>3. QED
  BY <1>1, <1>2 DEF InForce

\* SuccessorExists in the terms of the table.
HasSuccessor(s) == Known(s) => InForce(s) \/ \E w \in Workers : WillAssign(w, s)

NoDeletes == \A w \in Workers : req[w].stage # "delete"

NInv == TypeOK /\ NoDeletes /\ \A s \in Students : HasSuccessor(s)

\* A step that touches no row, and no request that will assign the student.
LEMMA SuccessorStays ==
  ASSUME NEW s \in Students, HasSuccessor(s), row' = row,
         \A w \in Workers : WillAssign(w, s) => req'[w] = req[w]
  PROVE  HasSuccessor(s)'
<1>1. \A w \in Workers : WillAssign(w, s) => WillAssign(w, s)'
  BY DEF WillAssign, Assigning
<1>2. QED
  BY <1>1 DEF HasSuccessor, Known, InForce

\* Writing one trio leaves the students of the others alone.
LEMMA OtherStudents ==
  ASSUME NEW s \in Students, HasSuccessor(s), TypeOK, NEW w \in Workers,
         req[w] # Idle, req[w].t[2] # s,
         \A u \in Trios : u[2] = s => row'[u] = row[u],
         \A v \in Workers : v # w => req'[v] = req[v]
  PROVE  HasSuccessor(s)'
<1>1. Known(s)' => Known(s)
  BY DEF Known
<1>2. InForce(s) => InForce(s)'
  BY DEF InForce
<1>3. \A v \in Workers : WillAssign(v, s) => WillAssign(v, s)'
  <2> SUFFICES ASSUME NEW v \in Workers, WillAssign(v, s) PROVE WillAssign(v, s)'
    OBVIOUS
  <2>1. v # w /\ req'[v] = req[v]
    BY DEF WillAssign, Assigning
  <2>2. req[v].t \in Trios /\ req[v].t[2] = s
    BY RequestShape DEF WillAssign, Assigning, Idle, TypeOK, Stages
  <2>3. row'[req[v].t] = row[req[v].t]
    BY <2>2
  <2>4. QED
    BY <2>1, <2>3 DEF WillAssign, Assigning
<1>4. QED
  BY <1>1, <1>2, <1>3 DEF HasSuccessor

LEMMA RetireKeepsSuccessor ==
  ASSUME NInv, NEW w \in Workers, Retire(w), NEW s \in Students
  PROVE  HasSuccessor(s)'
<1> DEFINE t == req[w].t
<1>1. /\ t \in Trios /\ req[w] # Idle
      /\ req'[w] = At("find", t)
      /\ \A v \in Workers : v # w => req'[v] = req[v]
  BY RequestShape DEF Retire, Becomes, NInv, TypeOK, Idle
<1>2. CASE t[2] = s
  <2>1. WillAssign(w, s)'
    BY <1>1, <1>2 DEF WillAssign, Assigning, At, Stages
  <2>2. QED
    BY <2>1 DEF HasSuccessor
<1>3. CASE t[2] # s
  <2>1. \A u \in Trios : u[2] = s => row'[u] = row[u]
    BY <1>3 DEF Retire, Superseded
  <2>2. QED
    BY <1>1, <1>3, <2>1, OtherStudents DEF NInv
<1>4. QED
  BY <1>2, <1>3

LEMMA FindKeepsSuccessor ==
  ASSUME NInv, NEW w \in Workers, Find(w), NEW s \in Students
  PROVE  HasSuccessor(s)'
<1> DEFINE t == req[w].t
<1>1. /\ t \in Trios /\ req[w] # Idle /\ row[t] \in RowState
      /\ row' = row
      /\ req'[w] = AfterFind(t)
      /\ \A v \in Workers : v # w => req'[v] = req[v]
  BY RequestShape DEF Find, Becomes, NInv, TypeOK, Idle
<1>2. CASE t[2] # s
  BY <1>1, <1>2, OtherStudents DEF NInv
<1>3. CASE t[2] = s /\ row[t] = "active"
  BY <1>1, <1>3 DEF HasSuccessor, InForce
<1>4. CASE t[2] = s /\ row[t] # "active"
  <2>1. WillAssign(w, s)'
    BY <1>1, <1>4 DEF AfterFind, RowState, WillAssign, Assigning, At, Stages
  <2>2. QED
    BY <2>1 DEF HasSuccessor
<1>5. QED
  BY <1>2, <1>3, <1>4

LEMMA InForceKeepsSuccessor ==
  ASSUME NInv, NEW w \in Workers, Reactivate(w) \/ Insert(w), NEW s \in Students
  PROVE  HasSuccessor(s)'
<1> DEFINE t == req[w].t
<1>1. /\ t \in Trios /\ req[w] # Idle
      /\ \A v \in Workers : v # w => req'[v] = req[v]
      /\ \A u \in Trios : u # t => row'[u] = row[u]
      /\ row'[t] = "active" \/ (row' = row /\ ~ WillAssign(w, s))
  BY RequestShape DEF Reactivate, Insert, Becomes, NInv, TypeOK, Idle, WillAssign
<1>2. CASE t[2] # s
  BY <1>1, <1>2, OtherStudents DEF NInv
<1>3. CASE t[2] = s /\ row'[t] = "active"
  BY <1>1, <1>3 DEF HasSuccessor, InForce
<1>4. CASE row' = row /\ ~ WillAssign(w, s)
  BY <1>1, <1>4, SuccessorStays DEF NInv
<1>5. QED
  BY <1>1, <1>2, <1>3, <1>4

LEMMA SuccessorStep ==
  ASSUME NInv, ~ Removals, [Requests]_vars
  PROVE  NInv'
<1>1. TypeOK'
  BY TypeStep DEF NInv, Next
<1>2. CASE UNCHANGED vars
  BY <1>1, <1>2, SuccessorStays DEF vars, NInv, NoDeletes
<1>3. ASSUME NEW w \in Workers, NEW f \in Facilitators, NEW x \in Students,
             NEW c \in Cohorts \cup {NoCohort}, Create(w, f, x, c)
      PROVE  NInv'
  <2>1. /\ row' = row
        /\ req[w].stage = "idle"
        /\ req'[w].stage = "retire"
        /\ \A v \in Workers : v # w => req'[v] = req[v]
    BY <1>3 DEF Create, Becomes, At, Idle, NInv, TypeOK
  <2>2. ASSUME NEW s \in Students PROVE HasSuccessor(s)'
    BY <2>1, SuccessorStays DEF NInv, WillAssign, Assigning, Stages
  <2>3. QED
    BY <1>1, <2>1, <2>2 DEF NInv, NoDeletes
<1>4. ASSUME NEW w \in Workers, Retire(w)
      PROVE  NInv'
  <2>1. NoDeletes'
    BY <1>4 DEF Retire, Becomes, At, NInv, NoDeletes, TypeOK
  <2>2. QED
    BY <1>1, <1>4, <2>1, RetireKeepsSuccessor DEF NInv
<1>5. ASSUME NEW w \in Workers, Find(w)
      PROVE  NInv'
  <2>1. row[req[w].t] \in RowState
    BY <1>5, RequestShape DEF Find, Idle, NInv, TypeOK
  <2>2. NoDeletes'
    BY <1>5, <2>1 DEF Find, Becomes, AfterFind, At, Idle, NInv, NoDeletes, TypeOK, RowState
  <2>3. QED
    BY <1>1, <1>5, <2>2, FindKeepsSuccessor DEF NInv
<1>6. ASSUME NEW w \in Workers, Reactivate(w) \/ Insert(w)
      PROVE  NInv'
  <2>1. NoDeletes'
    BY <1>6 DEF Reactivate, Insert, Becomes, Idle, NInv, NoDeletes, TypeOK
  <2>2. QED
    BY <1>1, <1>6, <2>1, InForceKeepsSuccessor DEF NInv
<1>7. ASSUME NEW x \in Students, NEW c \in Cohorts \cup {NoCohort}, SetCohort(x, c)
      PROVE  NInv'
  BY <1>1, <1>7, SuccessorStays DEF SetCohort, NInv, NoDeletes
<1>8. \A w \in Workers, t \in Trios : ~ Remove(w, t) /\ ~ Delete(w)
  BY DEF Remove, Delete, NInv, NoDeletes
<1>9. QED
  BY <1>2, <1>3, <1>4, <1>5, <1>6, <1>7, <1>8 DEF Requests, Call, Proceed, Delete,
     NInv, NoDeletes

\* Where nothing fails and nobody unassigns, a student who was ever assigned has
\* a mentor whenever no request is assigning them, whatever requests raced.
THEOREM MentorshipEndures ==
  ASSUME ~ Removals
  PROVE  SteadySpec => []NeverOrphaned
<1>1. Init => NInv
  <2> SUFFICES ASSUME Init PROVE NInv
    OBVIOUS
  <2>1. TypeOK
    BY DEF Init, TypeOK, RowState, Request
  <2>2. QED
    BY <2>1 DEF Init, NInv, NoDeletes, HasSuccessor, Known, Idle
<1>2. NInv /\ [Requests]_vars => NInv'
  BY SuccessorStep
<1>3. NInv => NeverOrphaned
  BY MentorsInForce DEF NInv, HasSuccessor, Known, NeverOrphaned, WillAssign
<1>4. QED
  BY <1>1, <1>2, <1>3, PTL DEF SteadySpec

-----------------------------------------------------------------------------
(* Programme takes create and remove for one step each. *)

\* What find saw missing is still missing when it is inserted: nobody else
\* assigns the student.
StillMissing == \A w \in Workers : req[w].stage = "insert" => row[req[w].t] = "none"

RInv == SInv /\ StillMissing

LEMMA UnderwayShape ==
  ASSUME SInv, NEW w \in Workers, Underway(w)
  PROVE  req[w].t \in Trios /\ req[w].t[2] \in Students /\ Assigning(w, req[w].t[2])
<1>1. req[w].t \in Trios
  BY RequestShape DEF SInv, TypeOK, Underway, Idle
<1>2. QED
  BY <1>1, TrioShape DEF Underway, Assigning, Stages

\* Two requests under way are about two students.
LEMMA UnderwayAlone ==
  ASSUME SInv, NEW v \in Workers, NEW w \in Workers, Underway(v), v # w,
         NEW s \in Students, Assigning(w, s)
  PROVE  req[v].t[2] # s
BY UnderwayShape DEF SInv, OneAssigner

LEMMA MissingStep ==
  ASSUME RInv, ~ Overlapping, [Next]_vars
  PROVE  StillMissing'
<1> USE DEF RInv
<1>1. SUFFICES ASSUME NEW v \in Workers, req'[v].stage = "insert"
               PROVE  row'[req'[v].t] = "none"
  BY DEF StillMissing
<1>2. ASSUME req'[v] = req[v], row' = row
      PROVE  row'[req'[v].t] = "none"
  BY <1>1, <1>2 DEF StillMissing
<1>3. CASE UNCHANGED vars
  BY <1>2, <1>3 DEF vars
<1>4. ASSUME NEW w \in Workers, NEW f \in Facilitators, NEW s \in Students,
             NEW c \in Cohorts \cup {NoCohort}, Create(w, f, s, c)
      PROVE  row'[req'[v].t] = "none"
  BY <1>1, <1>2, <1>4 DEF Create, Becomes, At, SInv, TypeOK
<1>5. ASSUME NEW w \in Workers, NEW t \in Trios, Remove(w, t)
      PROVE  row'[req'[v].t] = "none"
  BY <1>1, <1>2, <1>5 DEF Remove, Becomes, At, SInv, TypeOK
<1>6. ASSUME NEW w \in Workers, Retire(w)
      PROVE  row'[req'[v].t] = "none"
  <2>1. /\ req'[w] = At("find", req[w].t)
        /\ \A u \in Workers : u # w => req'[u] = req[u]
        /\ \A u \in Trios : row[u] = "none" => row'[u] = "none"
    BY <1>6 DEF Retire, Becomes, SInv, TypeOK
  <2>2. v # w /\ req'[v] = req[v]
    BY <1>1, <2>1 DEF At
  <2>3. row[req[v].t] = "none" /\ req[v].t \in Trios
    BY <1>1, <2>2, UnderwayShape DEF StillMissing, Underway
  <2>4. QED
    BY <2>1, <2>2, <2>3
<1>7. ASSUME NEW w \in Workers, Find(w)
      PROVE  row'[req'[v].t] = "none"
  <2>1. /\ row' = row
        /\ req'[w] = AfterFind(req[w].t)
        /\ \A u \in Workers : u # w => req'[u] = req[u]
        /\ req[w].t \in Trios
    BY <1>7, RequestShape DEF Find, Becomes, SInv, TypeOK, Idle
  <2>2. CASE v = w
    BY <1>1, <2>1, <2>2 DEF AfterFind, At, Idle, SInv, TypeOK, RowState
  <2>3. QED
    BY <1>2, <2>1, <2>2
<1>8. ASSUME NEW w \in Workers, Reactivate(w) \/ Insert(w)
      PROVE  row'[req'[v].t] = "none"
  <2>1. /\ Underway(w)
        /\ req'[w] = Idle
        /\ \A u \in Workers : u # w => req'[u] = req[u]
        /\ \A u \in Trios : u # req[w].t => row'[u] = row[u]
    BY <1>8 DEF Reactivate, Insert, Becomes, SInv, TypeOK, Underway
  <2>2. v # w /\ req'[v] = req[v] /\ Underway(v)
    BY <1>1, <2>1 DEF Idle, Underway
  <2>3. req[v].t \in Trios /\ req[v].t # req[w].t
    BY <2>1, <2>2, UnderwayShape, UnderwayAlone
  <2>4. QED
    BY <1>1, <2>1, <2>2, <2>3 DEF StillMissing
<1>9. ASSUME NEW w \in Workers, Delete(w)
      PROVE  row'[req'[v].t] = "none"
  <2>1. /\ req'[v] = Idle \/ req'[v] = req[v]
        /\ row' = [row EXCEPT ![req[w].t] = "none"]
    BY <1>9 DEF Delete
  <2>2. req'[v] = req[v] /\ row[req[v].t] = "none" /\ req[v].t \in Trios
    BY <1>1, <2>1, UnderwayShape DEF Idle, StillMissing, Underway
  <2>3. QED
    BY <2>1, <2>2 DEF SInv, TypeOK
<1>10. ASSUME NEW w \in Workers, Stop(w)
       PROVE  row'[req'[v].t] = "none"
  BY <1>1, <1>2, <1>10 DEF Stop, Becomes, Idle, SInv, TypeOK
<1>11. ASSUME NEW s \in Students, NEW c \in Cohorts \cup {NoCohort}, SetCohort(s, c)
       PROVE  row'[req'[v].t] = "none"
  BY <1>2, <1>11 DEF SetCohort
<1>12. QED
  BY <1>3, <1>4, <1>5, <1>6, <1>7, <1>8, <1>9, <1>10, <1>11
     DEF Next, Requests, Call, Proceed

-----------------------------------------------------------------------------
(* The roster there, step by step. *)

\* The roster after a step depends on what is in force and under way only.
LEMMA RosterStays ==
  ASSUME RosterView' = RosterView
  PROVE  UNCHANGED Composed!vars
BY DEF Composed!vars

LEMMA InRoster ==
  ASSUME NEW x
  PROVE  x \in RosterView <=> \/ x \in Trios /\ row[x] = "active"
                              \/ \E v \in Workers : Underway(v) /\ req[v].t = x
BY DEF RosterView

LEMMA InRosterAfter ==
  ASSUME NEW x
  PROVE  x \in RosterView' <=> \/ x \in Trios /\ row'[x] = "active"
                               \/ \E v \in Workers : Underway(v)' /\ req'[v].t = x
BY DEF RosterView

\* Steps that leave alone what is in force and what is under way.
LEMMA QuietRoster ==
  ASSUME row' = row,
         \A v \in Workers : /\ Underway(v)' <=> Underway(v)
                            /\ Underway(v) => req'[v].t = req[v].t
  PROVE  RosterView' = RosterView
BY InRoster, InRosterAfter

LEMMA RetireThere ==
  ASSUME SInv, NEW w \in Workers, Retire(w)
  PROVE  Composed!Next
<1> DEFINE t == req[w].t
<1>1. t \in Trios /\ t[2] \in Students /\ t = <<t[1], t[2], t[3]>>
  BY RequestShape, TrioShape DEF Retire, SInv, TypeOK, Idle
<1>2. /\ req[w].stage = "retire"
      /\ req'[w] = At("find", t)
      /\ \A v \in Workers : v # w => req'[v] = req[v]
      /\ \A u \in Trios : row'[u] = "active" <=> row[u] = "active" /\ ~ Superseded(u, t)
  BY DEF Retire, Becomes, SInv, TypeOK
<1>3. /\ ~ Underway(w) /\ Underway(w)' /\ req'[w].t = t
      /\ \A v \in Workers : v # w => (Underway(v)' <=> Underway(v)) /\ req'[v].t = req[v].t
  BY <1>2 DEF Underway, At
<1>4. \A v \in Workers : Underway(v) => v # w /\ req[v].t \in Trios /\ req[v].t[2] # t[2]
  <2>1. Assigning(w, t[2])
    BY <1>2 DEF Assigning, Stages
  <2>2. QED
    BY <1>1, <1>3, <2>1, UnderwayShape, UnderwayAlone
<1>5. \A u \in RosterView : u \in Trios
  BY <1>4, InRoster
<1>6. ASSUME NEW x
      PROVE  x \in RosterView' <=>
               \/ x \in RosterView /\ (x[2] = t[2] => x[1] = t[1])
               \/ x = t
  <2>1. x \in RosterView' <=> \/ x \in Trios /\ row[x] = "active" /\ ~ Superseded(x, t)
                              \/ \E v \in Workers : Underway(v) /\ req[v].t = x
                              \/ x = t
    BY <1>2, <1>3, InRosterAfter
  <2>2. QED
    BY <1>4, <2>1, InRoster DEF Superseded
<1>7. RosterView' = {r \in RosterView : r[2] = t[2] => r[1] = t[1]} \cup {<<t[1], t[2], t[3]>>}
  BY <1>1, <1>6
<1>8. Composed!Assign(t[1], t[2], t[3])
  BY <1>1, <1>7 DEF Composed!Assign, Composed!Retire, Composed!Accounts
<1>9. QED
  BY <1>1, <1>8 DEF Composed!Next

\* reactivate and insert bring into force what was about to be.
LEMMA InForceThere ==
  ASSUME RInv, NEW w \in Workers, Reactivate(w) \/ Insert(w)
  PROVE  RosterView' = RosterView
<1> DEFINE t == req[w].t
<1>1. Underway(w) /\ t \in Trios
  BY UnderwayShape DEF Reactivate, Insert, Underway, RInv
<1>2. /\ req'[w] = Idle
      /\ \A v \in Workers : v # w => req'[v] = req[v]
      /\ row' = [row EXCEPT ![t] = "active"]
  BY DEF Reactivate, Insert, Becomes, RInv, SInv, TypeOK, StillMissing
<1>3. /\ ~ Underway(w)'
      /\ \A v \in Workers : v # w => (Underway(v)' <=> Underway(v)) /\ req'[v].t = req[v].t
      /\ row'[t] = "active" /\ \A u \in Trios : u # t => row'[u] = row[u]
  BY <1>1, <1>2 DEF Underway, Idle, RInv, SInv, TypeOK
<1>4. ASSUME NEW x
      PROVE  x \in RosterView' <=> x \in RosterView
  <2>1. x \in RosterView' <=> \/ x \in Trios /\ row'[x] = "active"
                              \/ \E v \in Workers : v # w /\ Underway(v) /\ req[v].t = x
    BY <1>3, InRosterAfter
  <2>2. x \in RosterView <=> \/ x \in Trios /\ row[x] = "active"
                             \/ x = t
                             \/ \E v \in Workers : v # w /\ Underway(v) /\ req[v].t = x
    BY <1>1, InRoster
  <2>3. QED
    BY <1>1, <1>3, <2>1, <2>2
<1>5. QED
  BY <1>4

\* A deletion takes the trio off the roster, unless somebody is about to bring
\* it back.
LEMMA DeleteThere ==
  ASSUME SInv, NEW w \in Workers, Delete(w)
  PROVE  [Composed!Next]_(Composed!vars)
<1> DEFINE t == req[w].t
<1>1. t \in Trios /\ req[w].stage = "delete"
  BY RequestShape DEF Delete, SInv, TypeOK, Idle
<1>2. /\ row'[t] = "none" /\ \A u \in Trios : u # t => row'[u] = row[u]
      /\ \A v \in Workers : req'[v] = IF HoldsId(req[v], t) THEN Idle ELSE req[v]
  BY <1>1 DEF Delete, SInv, TypeOK
<1>3. \A v \in Workers : /\ Underway(v)' => Underway(v) /\ req'[v].t = req[v].t
                         /\ Underway(v) /\ ~ Underway(v)' => req[v].t = t
  BY <1>2 DEF HoldsId, Underway, Idle
<1>4. ASSUME NEW x, x # t
      PROVE  x \in RosterView' <=> x \in RosterView
  BY <1>2, <1>3, <1>4, InRoster, InRosterAfter
<1>5. CASE t \in RosterView'
  <2>1. t \in RosterView
    BY <1>2, <1>3, <1>5, InRoster, InRosterAfter
  <2>2. RosterView' = RosterView
    BY <1>4, <1>5, <2>1
  <2>3. QED
    BY <2>2, RosterStays
<1>6. CASE t \notin RosterView' /\ t \notin RosterView
  <2>1. RosterView' = RosterView
    BY <1>4, <1>6
  <2>2. QED
    BY <2>1, RosterStays
<1>7. CASE t \notin RosterView' /\ t \in RosterView
  <2>1. RosterView' = RosterView \ {t}
    BY <1>4, <1>7
  <2>2. Composed!Unassign(t)
    BY <2>1 DEF Composed!Unassign
  <2>3. QED
    BY <1>7, <2>2 DEF Composed!Next
<1>8. QED
  BY <1>5, <1>6, <1>7

\* A request that ends with its trio in force, or not under way, changes nothing.
LEMMA EndThere ==
  ASSUME SInv, NEW w \in Workers, row' = row, req' = [req EXCEPT ![w] = Idle],
         Underway(w) => row[req[w].t] = "active"
  PROVE  RosterView' = RosterView
<1>1. /\ ~ Underway(w)'
      /\ \A v \in Workers : v # w => (Underway(v)' <=> Underway(v)) /\ req'[v].t = req[v].t
  BY DEF Underway, Idle, SInv, TypeOK
<1>2. Underway(w) => req[w].t \in Trios
  BY UnderwayShape
<1>3. ASSUME NEW x
      PROVE  x \in RosterView' <=> x \in RosterView
  BY <1>1, <1>2, InRoster, InRosterAfter
<1>4. QED
  BY <1>3

LEMMA FindThere ==
  ASSUME SInv, NEW w \in Workers, Find(w)
  PROVE  RosterView' = RosterView
<1> DEFINE t == req[w].t
<1>1. /\ req[w].stage = "find" /\ Underway(w) /\ t \in Trios
      /\ row' = row /\ req' = [req EXCEPT ![w] = AfterFind(t)]
  BY UnderwayShape DEF Find, Becomes, Underway
<1>2. CASE row[t] = "active"
  BY <1>1, <1>2, EndThere DEF AfterFind
<1>3. CASE row[t] # "active"
  <2>1. req'[w].stage \in {"reactivate", "insert"} /\ req'[w].t = t
    BY <1>1, <1>3 DEF AfterFind, At, SInv, TypeOK, RowState
  <2>2. \A v \in Workers : v # w => req'[v] = req[v]
    BY <1>1 DEF SInv, TypeOK
  <2>3. QED
    BY <1>1, <2>1, <2>2, QuietRoster DEF Underway
<1>4. QED
  BY <1>2, <1>3

\* A request that stops gives up what it was about to bring into force.
LEMMA StopThere ==
  ASSUME SInv, NEW w \in Workers, Stop(w)
  PROVE  [Composed!Next]_(Composed!vars)
<1> DEFINE t == req[w].t
<1>1. row' = row /\ req' = [req EXCEPT ![w] = Idle]
  BY DEF Stop, Becomes
<1>2. CASE Underway(w) => row[t] = "active"
  BY <1>1, <1>2, EndThere, RosterStays
<1>3. CASE Underway(w) /\ row[t] # "active"
  <2>1. /\ ~ Underway(w)'
        /\ \A v \in Workers : v # w => (Underway(v)' <=> Underway(v)) /\ req'[v].t = req[v].t
    BY <1>1 DEF Underway, Idle, SInv, TypeOK
  <2>2. t \in RosterView
    BY <1>3, InRoster
  <2>3. ASSUME NEW x, x # t
        PROVE  x \in RosterView' <=> x \in RosterView
    BY <1>1, <2>1, <2>3, InRoster, InRosterAfter
  <2>4. CASE t \in RosterView'
    <3>1. RosterView' = RosterView
      BY <2>2, <2>3, <2>4
    <3>2. QED
      BY <3>1, RosterStays
  <2>5. CASE t \notin RosterView'
    <3>1. RosterView' = RosterView \ {t}
      BY <2>3, <2>5
    <3>2. Composed!Unassign(t)
      BY <3>1 DEF Composed!Unassign
    <3>3. QED
      BY <2>2, <3>2 DEF Composed!Next
  <2>6. QED
    BY <2>4, <2>5
<1>4. QED
  BY <1>2, <1>3

LEMMA ComposedStep ==
  ASSUME RInv, [Next]_vars
  PROVE  [Composed!Next]_(Composed!vars)
<1> USE DEF RInv
<1>1. CASE UNCHANGED vars
  <2>1. RosterView' = RosterView
    BY <1>1, QuietRoster DEF vars, Underway
  <2>2. QED
    BY <2>1, RosterStays
<1>2. ASSUME NEW w \in Workers, Call(w)
      PROVE  RosterView' = RosterView
  <2>1. /\ row' = row
        /\ req[w] = Idle /\ req'[w].stage \in {"retire", "delete"}
        /\ \A v \in Workers : v # w => req'[v] = req[v]
    BY <1>2 DEF Call, Create, Remove, Becomes, At, SInv, TypeOK
  <2>2. QED
    BY <2>1, QuietRoster DEF Underway, Idle
<1>3. ASSUME NEW w \in Workers, Stop(w)
      PROVE  [Composed!Next]_(Composed!vars)
  BY <1>3, StopThere
<1>4. ASSUME NEW s \in Students, NEW c \in Cohorts \cup {NoCohort}, SetCohort(s, c)
      PROVE  RosterView' = RosterView
  BY <1>4, QuietRoster DEF SetCohort, Underway
<1>5. ASSUME NEW w \in Workers, Proceed(w)
      PROVE  [Composed!Next]_(Composed!vars)
  BY <1>5, RetireThere, FindThere, InForceThere, DeleteThere, RosterStays DEF Proceed
<1>6. QED
  BY <1>1, <1>2, <1>3, <1>4, <1>5, RosterStays DEF Next, Requests

\* While no two requests assign one student at once, create and remove change the
\* roster in one step each, as Programme takes them to: between its statements a
\* student is still on exactly one roster.  A create that fails half-way is one
\* more step, the deletion of what it was about to assign.
THEOREM ImplementsComposed ==
  ASSUME ~ Overlapping
  PROVE  Spec => ImplementsProgramme
<1>1. Init => RInv
  <2> SUFFICES ASSUME Init PROVE RInv
    OBVIOUS
  <2>1. \A w \in Workers : req[w].stage = "idle"
    BY DEF Init, Idle
  <2>2. SInv
    BY SInvInit
  <2>3. QED
    BY <2>1, <2>2 DEF RInv, StillMissing
<1>2. RInv /\ [Next]_vars => RInv'
  BY OneMentorStep, MissingStep DEF RInv
<1>3. RInv /\ [Next]_vars => [Composed!Next]_(Composed!vars)
  BY ComposedStep
<1>4. QED
  BY <1>1, <1>2, <1>3, PTL DEF Spec, ImplementsProgramme
=============================================================================
