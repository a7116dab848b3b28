---------------------------- MODULE SessionsProofs ----------------------------
(***************************************************************************)
(* Proofs about Accounts and Sessions for any number of users, cohorts,    *)
(* codes and requests in flight.  The first part is about the requests of  *)
(* UsersController, whose invariant no authentication request disturbs;    *)
(* the second about sessions and codes, from which removed users go.       *)
(***************************************************************************)
EXTENDS Sessions, FiniteSetTheorems, TLAPS

-----------------------------------------------------------------------------
(* Requests and rows. *)

LEMMA RequestShape ==
  ASSUME NEW r \in Request
  PROVE  \/ r = Idle /\ r.stage = "idle"
         \/ /\ r.stage \in Stages /\ r # Idle
            /\ r.user \in Ids \cup {None} /\ r.form \in FormType
BY DEF Request, Idle, Stages

LEMMA AtType ==
  ASSUME NEW stage \in Stages, NEW u \in Ids \cup {None}, NEW form \in FormType
  PROVE  /\ At(stage, u, form) \in Request
         /\ At(stage, u, form).stage = stage
         /\ At(stage, u, form).user = u
         /\ At(stage, u, form).form = form
BY DEF At, Request

LEMMA FormShape ==
  ASSUME NEW form \in FormType
  PROVE  /\ form.email \in Emails \cup {None} /\ form.code \in StudentCodes \cup {None}
         /\ form.isActive \in BOOLEAN /\ form.cohort \in Cohorts \cup {None}
BY DEF FormType

LEMMA RowType ==
  ASSUME NEW form \in FormType, form.email # None
  PROVE  Row(form) \in User
BY FormShape DEF Row, User

LEMMA EditedType ==
  ASSUME NEW row \in User, NEW form \in FormType
  PROVE  Edited(row, form) \in User /\ Edited(row, form).password = row.password
BY FormShape DEF Edited, Given, User

\* What a request carries at each stage.
Formed(r) ==
  /\ r.stage \in {"code", "insert"} /\ r.user = None => r.form.email # None
  /\ r.stage = "insert" => r.user = None
  /\ r.stage \in {"write", "leave", "join", "delete"} => r.user \in Ids
  /\ r.stage \in {"leave", "join"} => r.form.cohort \in Cohorts

RequestsFormed == \A w \in Workers : Formed(req[w])

LEMMA FormedAt ==
  ASSUME NEW stage \in Stages, NEW u \in Ids \cup {None}, NEW form \in FormType,
         stage \in {"code", "insert"} /\ u = None => form.email # None,
         stage = "insert" => u = None,
         stage \in {"write", "leave", "join", "delete"} => u \in Ids,
         stage \in {"leave", "join"} => form.cohort \in Cohorts
  PROVE  At(stage, u, form) \in Request /\ Formed(At(stage, u, form))
BY AtType DEF Formed

LEMMA IdleFormed == Idle \in Request /\ Formed(Idle)
BY DEF Request, Idle, Formed

LEMMA AfterRowFormed ==
  ASSUME NEW u \in Ids, NEW form \in FormType
  PROVE  AfterRow(u, form) \in Request /\ Formed(AfterRow(u, form))
BY IdleFormed, FormedAt, FormShape DEF AfterRow, Stages

\* Requests of UsersController keep to their types and shapes.
LEMMA RequestsStep ==
  ASSUME UsersTypeOK, RequestsFormed, UsersNext
  PROVE  req' \in [Workers -> Request] /\ RequestsFormed'
<1> USE AccountsAssumption
<1>1. SUFFICES ASSUME NEW w \in Workers, NEW r \in Request, Formed(r), Becomes(w, r)
               PROVE  req' \in [Workers -> Request] /\ RequestsFormed'
  <2>1. ASSUME NEW w \in Workers, Post(w)
        PROVE  req' \in [Workers -> Request] /\ RequestsFormed'
    <3>1. CASE \E form \in env.forms : Create(w, form)
      <4>1. PICK form \in env.forms : Create(w, form)
        BY <3>1
      <4>2. form \in FormType /\ form.email # None
        BY DEF UsersTypeOK
      <4>3. At("code", None, form) \in Request /\ Formed(At("code", None, form))
        BY <4>2, FormedAt DEF Stages
      <4>4. QED
        BY <4>1, <4>3, <1>1 DEF Create
    <3>2. CASE \E batch \in env.batches : CreateMany(w, batch)
      BY <3>2 DEF CreateMany, UsersTypeOK, RequestsFormed
    <3>3. QED
      BY <2>1, <3>1, <3>2 DEF Post
  <2>2. ASSUME NEW w \in Workers, PatchOrDelete(w)
        PROVE  req' \in [Workers -> Request] /\ RequestsFormed'
    <3>1. PICK u \in Live : (\E edit \in env.edits : Update(w, u, edit)) \/ Remove(w, u)
      BY <2>2 DEF PatchOrDelete
    <3>2. u \in Ids
      BY DEF Live
    <3>3. CASE \E edit \in env.edits : Update(w, u, edit)
      <4>1. PICK edit \in env.edits : Update(w, u, edit)
        BY <3>3
      <4>2. edit \in FormType
        BY DEF UsersTypeOK
      <4>3. At("code", u, edit) \in Request /\ Formed(At("code", u, edit))
        BY <3>2, <4>2, FormedAt DEF Stages
      <4>4. QED
        BY <4>1, <4>3, <1>1 DEF Update
    <3>4. CASE Remove(w, u)
      <4>1. NoForm \in FormType
        BY DEF NoForm, FormType
      <4>2. At("delete", u, NoForm) \in Request /\ Formed(At("delete", u, NoForm))
        BY <3>2, <4>1, FormedAt DEF Stages
      <4>3. QED
        BY <3>4, <4>2, <1>1 DEF Remove
    <3>5. QED
      BY <3>1, <3>3, <3>4
  <2>3. ASSUME NEW w \in Workers, Proceed(w)
        PROVE  req' \in [Workers -> Request] /\ RequestsFormed'
    <3>1. req[w] \in Request /\ Formed(req[w])
      BY DEF UsersTypeOK, RequestsFormed
    <3>2. req[w].stage \in Stages
      BY <2>3 DEF Proceed, CheckCode, Insert, Write, Leave, Join, Delete, Stages
    <3>3. req[w].user \in Ids \cup {None} /\ req[w].form \in FormType
      BY <3>1, <3>2, RequestShape DEF Stages
    <3> DEFINE r == req[w]
    <3>4. CASE CheckCode(w)
      <4>1. Writing(r.user) \in Stages
        BY DEF Writing, Stages
      <4>2. At(Writing(r.user), r.user, r.form) \in Request
            /\ Formed(At(Writing(r.user), r.user, r.form))
        BY <3>1, <3>3, <3>4, <4>1, FormedAt DEF Writing, CheckCode, Formed
      <4>3. QED
        BY <3>4, <4>2, <1>1, IdleFormed DEF CheckCode
    <3>5. CASE Insert(w)
      BY <3>5, <3>3, <1>1, IdleFormed, AfterRowFormed DEF Insert
    <3>6. CASE Write(w)
      <4>1. r.user \in Ids
        BY <3>1, <3>6 DEF Write, Formed
      <4>2. QED
        BY <3>6, <3>3, <4>1, <1>1, IdleFormed, AfterRowFormed DEF Write
    <3>7. CASE Leave(w)
      <4>1. At("join", r.user, r.form) \in Request /\ Formed(At("join", r.user, r.form))
        BY <3>1, <3>3, <3>7, FormedAt DEF Leave, Formed, Stages
      <4>2. QED
        BY <3>7, <4>1, <1>1 DEF Leave
    <3>8. CASE Join(w)
      BY <3>8, <1>1, IdleFormed DEF Join
    <3>9. CASE Delete(w)
      BY <3>9, <1>1, IdleFormed DEF Delete
    <3>10. QED
      BY <2>3, <3>4, <3>5, <3>6, <3>7, <3>8, <3>9 DEF Proceed
  <2>4. ASSUME NEW w \in Workers, Stop(w)
        PROVE  req' \in [Workers -> Request] /\ RequestsFormed'
    BY <2>4, <1>1, IdleFormed DEF Stop
  <2>5. QED
    BY <2>1, <2>2, <2>3, <2>4 DEF UsersNext
<1>2. QED
  BY <1>1 DEF Becomes, UsersTypeOK, RequestsFormed

\* A user who is not there, or not any more, was granted nothing.
OnlyUsersGranted == \A u \in Ids : u \notin Live => granted[u] = None

UsersInv == UsersTypeOK /\ RequestsFormed /\ OnlyUsersGranted

LEMMA LiveUser ==
  ASSUME UsersTypeOK
  PROVE  Live \subseteq Ids /\ (\A u \in Live : account[u] \in User)
BY DEF Live, UsersTypeOK

LEMMA RowsAreLive ==
  ASSUME NEW row \in User
  PROVE  row \notin {Unborn, Gone}
BY AccountsAssumption

\* What an accepted batch writes.
Filled(batch, id, u) == \E f \in batch : id[f] = u

LEMMA BatchStep ==
  ASSUME UsersInv, NEW w \in Workers, NEW batch \in env.batches, CreateMany(w, batch)
  PROVE  \E id \in [batch -> Ids], form \in [Ids -> FormType] :
           /\ \A u \in Ids : Filled(batch, id, u) =>
                form[u] \in batch /\ id[form[u]] = u /\ account[u] = Unborn
           /\ \A f \in batch : form[id[f]] = f
           /\ account' = [u \in Ids |-> IF Filled(batch, id, u) THEN Row(form[u]) ELSE account[u]]
           /\ granted' = [u \in Ids |-> IF Filled(batch, id, u) THEN form[u].cohort ELSE granted[u]]
           /\ member' = member \cup {<<id[f], f.cohort>> : f \in {g \in batch : g.cohort # None}}
<1> USE AccountsAssumption
<1>1. batch \subseteq Forms /\ batch \subseteq FormType
  BY DEF UsersInv, UsersTypeOK
<1>2. PICK id \in Injection(batch, {u \in Ids : account[u] = Unborn}) :
        LET new == {id[f] : f \in batch}
            form(u) == CHOOSE f \in batch : id[f] = u
        IN  /\ account' = [u \in Ids |-> IF u \in new THEN Row(form(u)) ELSE account[u]]
            /\ granted' = [u \in Ids |-> IF u \in new THEN form(u).cohort ELSE granted[u]]
            /\ member' = member \cup {<<id[f], f.cohort>> : f \in {g \in batch : g.cohort # None}}
  BY DEF CreateMany
<1>3. /\ id \in [batch -> {u \in Ids : account[u] = Unborn}]
      /\ \A f, g \in batch : id[f] = id[g] => f = g
  BY <1>2 DEF Injection, IsInjective
<1> DEFINE form == [u \in Ids |-> IF Filled(batch, id, u) THEN CHOOSE f \in batch : id[f] = u
                                  ELSE NoForm]
<1>4. \A u \in Ids : Filled(batch, id, u) =>
        form[u] \in batch /\ id[form[u]] = u /\ account[u] = Unborn
  BY <1>3 DEF Filled
<1>5. form \in [Ids -> FormType]
  <2>1. NoForm \in FormType
    BY DEF NoForm, FormType
  <2>2. QED
    BY <1>1, <1>4, <2>1
<1>6. \A f \in batch : form[id[f]] = f
  BY <1>3, <1>4 DEF Filled
<1>7. \A u : u \in {id[f] : f \in batch} <=> Filled(batch, id, u)
  BY DEF Filled
<1>8. /\ account' = [u \in Ids |-> IF Filled(batch, id, u) THEN Row(form[u]) ELSE account[u]]
      /\ granted' = [u \in Ids |-> IF Filled(batch, id, u) THEN form[u].cohort ELSE granted[u]]
  BY <1>2, <1>7
<1> HIDE DEF form
<1>9. QED
  BY <1>2, <1>3, <1>4, <1>5, <1>6, <1>8

\* Most steps only move a request on.
LEMMA UsersCases ==
  ASSUME UsersNext
  PROVE  \/ OnlyReq
         \/ \E w \in Workers : Insert(w) \/ Write(w) \/ Leave(w) \/ Join(w) \/ Delete(w)
         \/ \E w \in Workers, batch \in env.batches : CreateMany(w, batch)
BY DEF UsersNext, Post, PatchOrDelete, Proceed, Stop, Create, Update, CheckCode, Remove

\* An id is given out once, and only its removal ends a user; none of these
\* requests sets a password.
AccountsEvolve ==
  /\ account' \in [Ids -> User \cup {Unborn, Gone}]
  /\ \A u \in Ids : account[u] # Unborn => account'[u] # Unborn
  /\ \A u \in Ids : account[u] = Gone => account'[u] = Gone
  /\ \A u \in Live : u \in Live' => account'[u].password = account[u].password

LEMMA AccountsStep ==
  ASSUME UsersInv, UsersNext
  PROVE  AccountsEvolve
<1> USE AccountsAssumption DEF AccountsEvolve
<1>1. UsersTypeOK /\ RequestsFormed /\ account \in [Ids -> User \cup {Unborn, Gone}]
  BY DEF UsersInv, UsersTypeOK
<1>2. CASE account' = account
  BY <1>1, <1>2 DEF Live
<1>3. ASSUME NEW w \in Workers, Insert(w)
      PROVE  AccountsEvolve
  <2>1. req[w].form \in FormType /\ req[w].form.email # None
    BY <1>1, <1>3, RequestShape DEF Insert, Stages, Formed, RequestsFormed, UsersTypeOK
  <2>2. Row(req[w].form) \in User
    BY <2>1, RowType
  <2>3. CASE account' = account
    BY <1>2, <2>3
  <2>4. ASSUME NEW u \in Ids, account[u] = Unborn,
               account' = [account EXCEPT ![u] = Row(req[w].form)]
        PROVE  AccountsEvolve
    BY <1>1, <2>2, <2>4 DEF Live
  <2>5. QED
    BY <1>3, <2>3, <2>4 DEF Insert
<1>4. ASSUME NEW w \in Workers, Write(w)
      PROVE  AccountsEvolve
  <2>1. req[w].form \in FormType
    BY <1>1, <1>4, RequestShape DEF Write, Stages, UsersTypeOK
  <2>2. CASE account' = account
    BY <1>2, <2>2
  <2>3. CASE /\ req[w].user \in Live
             /\ account' = [account EXCEPT ![req[w].user] = Edited(@, req[w].form)]
    <3> DEFINE u == req[w].user
    <3>1. u \in Ids /\ account[u] \in User
      BY <1>1, <2>3, LiveUser
    <3>2. /\ Edited(account[u], req[w].form) \in User
          /\ Edited(account[u], req[w].form).password = account[u].password
      BY <2>1, <3>1, EditedType
    <3>3. account' = [account EXCEPT ![u] = Edited(account[u], req[w].form)]
      BY <2>3
    <3> HIDE DEF u
    <3>4. QED
      BY <1>1, <3>1, <3>2, <3>3 DEF Live
  <2>4. QED
    BY <1>4, <2>2, <2>3 DEF Write
<1>5. ASSUME NEW w \in Workers, Delete(w)
      PROVE  AccountsEvolve
  BY <1>1, <1>5 DEF Delete, Live
<1>6. ASSUME NEW w \in Workers, NEW batch \in env.batches, CreateMany(w, batch)
      PROVE  AccountsEvolve
  <2>1. PICK id \in [batch -> Ids], form \in [Ids -> FormType] :
          /\ \A u \in Ids : Filled(batch, id, u) => form[u] \in batch /\ account[u] = Unborn
          /\ account' = [u \in Ids |-> IF Filled(batch, id, u) THEN Row(form[u]) ELSE account[u]]
    BY <1>6, BatchStep
  <2>2. \A u \in Ids : Filled(batch, id, u) => Row(form[u]) \in User
    BY <1>1, <2>1, RowType DEF UsersTypeOK
  <2>3. QED
    BY <1>1, <2>1, <2>2 DEF Live
<1>7. QED
  BY <1>2, <1>3, <1>4, <1>5, <1>6, UsersCases DEF OnlyReq, Leave, Join

\* What is left of the type invariant, with the grants.
TablesTyped ==
  /\ member \subseteq Live \X Cohorts
  /\ granted \in [Ids -> Cohorts \cup {None}]
  /\ OnlyUsersGranted

LEMMA TablesStep ==
  ASSUME UsersInv, UsersNext
  PROVE  TablesTyped'
<1> USE AccountsAssumption
<1>1. UsersTypeOK /\ RequestsFormed /\ TablesTyped /\ AccountsEvolve
  BY AccountsStep DEF UsersInv, UsersTypeOK, TablesTyped
<1>2. \A u \in Live : u \in Live' \/ account'[u] = Gone
  BY <1>1 DEF AccountsEvolve, Live
<1>3. CASE Live' = Live /\ UNCHANGED <<member, granted>>
  BY <1>1, <1>3 DEF TablesTyped, OnlyUsersGranted
<1>4. ASSUME NEW w \in Workers, Insert(w)
      PROVE  TablesTyped'
  <2>1. Live \subseteq Live' /\ UNCHANGED <<member, granted>>
    BY <1>1, <1>4 DEF Insert, Live, UsersTypeOK
  <2>2. QED
    BY <1>1, <2>1 DEF TablesTyped, OnlyUsersGranted
<1>5. ASSUME NEW w \in Workers, Write(w)
      PROVE  TablesTyped'
  <2>1. Live' = Live
    <3>1. CASE account' = account
      BY <3>1 DEF Live
    <3>2. CASE req[w].user \in Live /\ \E row : account' = [account EXCEPT ![req[w].user] = row]
      <4>1. account'[req[w].user] \in User \cup {Unborn, Gone} /\ account[req[w].user] \in User
        BY <1>1, <3>2, LiveUser DEF AccountsEvolve
      <4>2. account'[req[w].user] # Unborn
        BY <1>1, <3>2, <4>1 DEF AccountsEvolve, Live
      <4>3. account'[req[w].user] # Gone
        <5>1. /\ req[w].form \in FormType
              /\ account'[req[w].user] = Edited(account[req[w].user], req[w].form)
                 \/ account' = account
          BY <1>1, <1>5, <3>2, RequestShape DEF Write, Stages, UsersTypeOK, Live
        <5>2. QED
          BY <4>1, <5>1, EditedType
      <4>4. QED
        BY <1>1, <3>2, <4>2, <4>3 DEF Live, UsersTypeOK
    <3>3. QED
      BY <1>5, <3>1, <3>2 DEF Write
  <2>2. QED
    BY <1>3, <1>5, <2>1 DEF Write
<1>6. ASSUME NEW w \in Workers, Leave(w)
      PROVE  TablesTyped'
  BY <1>1, <1>6 DEF Leave, Left, TablesTyped, OnlyUsersGranted, Live
<1>7. ASSUME NEW w \in Workers, Join(w)
      PROVE  TablesTyped'
  <2>1. req[w].form.cohort \in Cohorts /\ req[w].user \in Ids
    BY <1>1, <1>7 DEF Join, RequestsFormed, Formed
  <2>2. QED
    BY <1>1, <1>7, <2>1 DEF Join, MayJoin, TablesTyped, OnlyUsersGranted, Live
<1>8. ASSUME NEW w \in Workers, Delete(w)
      PROVE  TablesTyped'
  <2>1. req[w].user \in Ids
    BY <1>1, <1>8 DEF Delete, RequestsFormed, Formed
  <2>2. Live' = Live \ {req[w].user}
    BY <1>1, <1>8, <2>1 DEF Delete, Live, UsersTypeOK
  <2>3. QED
    BY <1>1, <1>8, <2>1, <2>2 DEF Delete, TablesTyped, OnlyUsersGranted
<1>9. ASSUME NEW w \in Workers, NEW batch \in env.batches, CreateMany(w, batch)
      PROVE  TablesTyped'
  <2>1. PICK id \in [batch -> Ids], form \in [Ids -> FormType] :
          /\ \A u \in Ids : Filled(batch, id, u) => form[u] \in batch /\ account[u] = Unborn
          /\ account' = [u \in Ids |-> IF Filled(batch, id, u) THEN Row(form[u]) ELSE account[u]]
          /\ granted' = [u \in Ids |-> IF Filled(batch, id, u) THEN form[u].cohort ELSE granted[u]]
          /\ member' = member \cup {<<id[f], f.cohort>> : f \in {g \in batch : g.cohort # None}}
    BY <1>9, BatchStep
  <2>2. /\ \A f \in batch : f \in FormType /\ f.email # None /\ f.cohort \in Cohorts \cup {None}
        /\ \A u \in Ids : form[u].cohort \in Cohorts \cup {None}
    BY <1>1, <2>1, FormShape DEF UsersTypeOK
  <2>3. \A u \in Ids : Filled(batch, id, u) => Row(form[u]) \in User
    BY <2>1, <2>2, RowType
  <2>4. \A u \in Ids : Filled(batch, id, u) => u \in Live'
    BY <2>1, <2>3 DEF Live
  <2>5. Live \subseteq Live' /\ \A u \in Live' : u \in Live \/ Filled(batch, id, u)
    BY <2>1, <2>3 DEF Live
  <2>6. \A f \in batch : Filled(batch, id, id[f]) /\ id[f] \in Ids
    BY DEF Filled
  <2>7. (member \subseteq Live \X Cohorts)'
    BY <1>1, <2>1, <2>2, <2>4, <2>5, <2>6 DEF TablesTyped
  <2>8. (granted \in [Ids -> Cohorts \cup {None}])' /\ OnlyUsersGranted'
    BY <1>1, <2>1, <2>2, <2>4, <2>5 DEF TablesTyped, OnlyUsersGranted
  <2>9. QED
    BY <2>7, <2>8 DEF TablesTyped
<1>10. QED
  BY <1>3, <1>4, <1>5, <1>6, <1>7, <1>8, <1>9, UsersCases DEF OnlyReq, Live

LEMMA UsersStep ==
  ASSUME UsersInv, UsersNext
  PROVE  UsersInv'
BY RequestsStep, AccountsStep, TablesStep
   DEF UsersInv, UsersTypeOK, AccountsEvolve, TablesTyped, UsersNext

-----------------------------------------------------------------------------
(* Enrolment. *)

\* Requests that do not overlap are handled one at a time.
Alone == ~ env.overlap => \A v, w \in Workers : req[v] # Idle /\ req[w] # Idle => v = w

\* Then nobody enrols a user between the two statements of setCohort.
JoinsNone == ~ env.overlap => \A w \in Workers : req[w].stage = "join" => CohortsOf(req[w].user) = {}

EnrolInv == UsersInv /\ Alone /\ JoinsNone /\ EnrolmentEndures

\* A step moves one request: a new one, or one that is in flight.
LEMMA OneMoves ==
  ASSUME UsersNext
  PROVE  \E w \in Workers :
           /\ req' = req \/ \E r : req' = [req EXCEPT ![w] = r]
           /\ \/ Free(w) /\ (req' = req \/ \E stage \in {"code", "delete"} : \E u, form :
                                             req' = [req EXCEPT ![w] = At(stage, u, form)])
              \/ (Proceed(w) \/ Stop(w)) /\ req[w] # Idle
<1>1. ASSUME NEW w \in Workers, Post(w) \/ PatchOrDelete(w)
      PROVE  Free(w) /\ (req' = req \/ \E stage \in {"code", "delete"} : \E u, form :
                                        req' = [req EXCEPT ![w] = At(stage, u, form)])
  BY <1>1 DEF Post, PatchOrDelete, Create, CreateMany, Update, Remove, Becomes
<1>2. ASSUME NEW w \in Workers, Proceed(w) \/ Stop(w)
      PROVE  req[w] # Idle /\ \E r : req' = [req EXCEPT ![w] = r]
  BY <1>2 DEF Proceed, Stop, CheckCode, Insert, Write, Leave, Join, Delete, Becomes, Idle
<1>3. QED
  BY <1>1, <1>2 DEF UsersNext

LEMMA AloneStep ==
  ASSUME UsersInv, Alone, UsersNext
  PROVE  Alone'
<1>1. req \in [Workers -> Request] /\ env' = env
  BY DEF UsersInv, UsersTypeOK, UsersNext
<1>2. PICK w \in Workers :
        /\ req' = req \/ \E r : req' = [req EXCEPT ![w] = r]
        /\ Free(w) \/ req[w] # Idle
  BY OneMoves
<1>3. QED
  BY <1>1, <1>2 DEF Alone, Free

LEMMA JoinsNoneStep ==
  ASSUME UsersInv, Alone, JoinsNone, UsersNext
  PROVE  JoinsNone'
<1>1. SUFFICES ASSUME ~ env.overlap, NEW w \in Workers, req'[w].stage = "join"
               PROVE  (CohortsOf(req[w].user) = {})'
  BY DEF JoinsNone, UsersNext
<1>2. /\ req \in [Workers -> Request] /\ req[w] \in Request
      /\ member \subseteq Live \X Cohorts
  BY DEF UsersInv, UsersTypeOK
<1>3. CASE req[w] = Idle
  <2>1. req'[w] # req[w]
    BY <1>1, <1>3 DEF Idle
  <2>2. req'[w].stage \in {"code", "delete"}
    BY <1>2, <1>3, <2>1, OneMoves DEF At
  <2>3. QED
    BY <1>1, <2>2
<1>4. CASE req[w] # Idle
  <2>1. \A v \in Workers : ~ Free(v)
    BY <1>1, <1>4 DEF Free
  <2>2. \A v \in Workers : req[v] # Idle => v = w
    BY <1>1, <1>4 DEF Alone
  <2>3. Proceed(w) \/ Stop(w)
    BY <2>1, <2>2, OneMoves
  <2>4. CASE Leave(w)
    <3>1. req'[w].user = req[w].user /\ member' = Left(req[w].user)
      BY <1>2, <2>4 DEF Leave, Becomes, At
    <3>2. QED
      BY <3>1 DEF CohortsOf, Left
  <2>5. CASE ~ Leave(w)
    BY <1>1, <1>2, <2>3, <2>5 DEF Proceed, Stop, CheckCode, Insert, Write, Join, Delete,
       Becomes, At, Idle, AfterRow, Writing
  <2>6. QED
    BY <2>4, <2>5
<1>5. QED
  BY <1>3, <1>4

LEMMA EnduresStep ==
  ASSUME EnrolInv, UsersNext
  PROVE  EnrolmentEndures'
<1> USE AccountsAssumption
<1>1. /\ UsersInv /\ UsersTypeOK /\ RequestsFormed /\ EnrolmentEndures /\ UsersInv'
      /\ req \in [Workers -> Request] /\ granted \in [Ids -> Cohorts \cup {None}]
      /\ member \subseteq Live \X Cohorts /\ env' = env
  BY UsersStep DEF EnrolInv, UsersInv, UsersTypeOK, UsersNext
<1>2. SUFFICES ASSUME ~ env.fails, NEW u \in Ids, (u \in Live)', granted'[u] # None,
                      ~ Enrolling(u)'
               PROVE  (CohortsOf(u) # {} /\ (~ env.overlap => CohortsOf(u) = {granted[u]}))'
  BY <1>1 DEF EnrolmentEndures, Live, Enrolling, CohortsOf
<1> DEFINE Enrolled == CohortsOf(u) # {} /\ (~ env.overlap => CohortsOf(u) = {granted[u]})
\* He was enrolled before, and this step does not concern him.
<1>3. CASE /\ u \in Live /\ granted'[u] = granted[u] /\ CohortsOf(u)' = CohortsOf(u)
           /\ ~ Enrolling(u)
  BY <1>1, <1>2, <1>3 DEF EnrolmentEndures
\* Nor does one that moves a request before or after its work on the membership.
<1>4. ASSUME NEW w \in Workers, req' = req \/ \E r : req' = [req EXCEPT ![w] = r],
             req[w].stage \notin {"leave", "join"}
      PROVE  ~ Enrolling(u)
  BY <1>1, <1>2, <1>4 DEF Enrolling
<1>5. ASSUME NEW w \in Workers, Leave(w)
      PROVE  Enrolled'
  <2>1. req'[w] = At("join", req[w].user, req[w].form)
    BY <1>1, <1>5 DEF Leave, Becomes
  <2>2. req[w].user # u
    BY <1>2, <2>1 DEF Enrolling, At
  <2>3. CohortsOf(u)' = CohortsOf(u)
    BY <1>5, <2>2 DEF Leave, Left, CohortsOf
  <2>4. ~ Enrolling(u)
    BY <1>1, <1>2, <1>5, <2>2 DEF Leave, Becomes, Enrolling
  <2>5. QED
    BY <1>2, <1>3, <1>5, <2>3, <2>4 DEF Leave, Live
<1>6. ASSUME NEW w \in Workers, Join(w)
      PROVE  Enrolled'
  <2>1. u \in Live /\ req[w].form.cohort \in Cohorts
    BY <1>1, <1>2, <1>6 DEF Join, RequestsFormed, Formed, Live
  <2>2. CASE req[w].user # u
    <3>1. CohortsOf(u)' = CohortsOf(u) /\ granted'[u] = granted[u]
      BY <1>1, <1>6, <2>2 DEF Join, CohortsOf
    <3>2. ~ Enrolling(u)
      BY <1>1, <1>2, <1>6, <2>2 DEF Join, Becomes, Enrolling
    <3>3. QED
      BY <1>3, <2>1, <3>1, <3>2
  <2>3. CASE req[w].user = u
    <3>1. CASE MayJoin(u, req[w].form.cohort)
      <4>1. /\ CohortsOf(u)' = CohortsOf(u) \cup {req[w].form.cohort}
            /\ granted'[u] = req[w].form.cohort
        BY <1>1, <1>6, <2>1, <2>3, <3>1 DEF Join, CohortsOf
      <4>2. ~ env.overlap => CohortsOf(u) = {}
        BY <1>6, <2>3 DEF Join, EnrolInv, JoinsNone
      <4>3. QED
        BY <1>1, <4>1, <4>2
    <3>2. CASE ~ MayJoin(u, req[w].form.cohort)
      <4>1. req[w].form.cohort \in CohortsOf(u)
        BY <2>1, <3>2 DEF MayJoin
      <4>2. env.overlap
        BY <1>6, <2>3, <4>1 DEF Join, EnrolInv, JoinsNone
      <4>3. member' = member
        BY <1>6, <2>3, <3>2 DEF Join
      <4>4. QED
        BY <1>1, <4>1, <4>2, <4>3 DEF CohortsOf
    <3>3. QED
      BY <3>1, <3>2
  <2>4. QED
    BY <2>2, <2>3
<1>7. ASSUME NEW w \in Workers, Delete(w)
      PROVE  Enrolled'
  <2>1. req[w].user # u
    BY <1>1, <1>2, <1>7 DEF Delete, Live, UsersTypeOK
  <2>2. /\ u \in Live /\ granted'[u] = granted[u] /\ CohortsOf(u)' = CohortsOf(u)
    BY <1>1, <1>2, <1>7, <2>1 DEF Delete, Live, CohortsOf, UsersTypeOK
  <2>3. ~ Enrolling(u)
    BY <1>4, <1>7 DEF Delete, Becomes
  <2>4. QED
    BY <1>3, <2>2, <2>3
<1>8. ASSUME NEW w \in Workers, Insert(w) \/ Write(w)
      PROVE  Enrolled'
  <2>1. UNCHANGED <<member, granted>>
    BY <1>8 DEF Insert, Write
  <2>2. u \in Live
    BY <1>1, <1>2, <2>1 DEF UsersInv, OnlyUsersGranted
  <2>3. ~ Enrolling(u)
    BY <1>4, <1>8 DEF Insert, Write, Becomes
  <2>4. QED
    BY <1>3, <2>1, <2>2, <2>3 DEF CohortsOf
<1>9. ASSUME NEW w \in Workers, NEW batch \in env.batches, CreateMany(w, batch)
      PROVE  Enrolled'
  <2>1. PICK id \in [batch -> Ids], form \in [Ids -> FormType] :
          /\ \A x \in Ids : Filled(batch, id, x) =>
               form[x] \in batch /\ id[form[x]] = x /\ account[x] = Unborn
          /\ \A f \in batch : form[id[f]] = f
          /\ granted' = [x \in Ids |-> IF Filled(batch, id, x) THEN form[x].cohort ELSE granted[x]]
          /\ member' = member \cup {<<id[f], f.cohort>> : f \in {g \in batch : g.cohort # None}}
    BY <1>1, <1>9, BatchStep
  <2>2. CASE Filled(batch, id, u)
    <3>1. form[u] \in batch /\ id[form[u]] = u /\ u \notin Live /\ granted'[u] = form[u].cohort
      BY <2>1, <2>2 DEF Live
    <3>2. form[u].cohort \in Cohorts
      BY <1>2, <2>1, <3>1, FormShape
    <3>3. \A c : <<u, c>> \in member' <=> c = form[u].cohort
      BY <1>1, <1>2, <2>1, <3>1
    <3>4. QED
      BY <3>1, <3>2, <3>3 DEF CohortsOf
  <2>3. CASE ~ Filled(batch, id, u)
    <3>1. granted'[u] = granted[u] /\ CohortsOf(u)' = CohortsOf(u)
      BY <2>1, <2>3 DEF CohortsOf, Filled
    <3>2. u \in Live
      BY <1>1, <1>2, <3>1 DEF UsersInv, OnlyUsersGranted
    <3>3. ~ Enrolling(u)
      BY <1>2, <1>9 DEF CreateMany, Enrolling
    <3>4. QED
      BY <1>3, <3>1, <3>2, <3>3
  <2>4. QED
    BY <2>2, <2>3
<1>10. CASE OnlyReq /\ ~ \E w \in Workers : Leave(w) \/ Join(w)
  <2>1. PICK w \in Workers : /\ req' = req \/ \E r : req' = [req EXCEPT ![w] = r]
                             /\ Free(w) \/ Proceed(w) \/ Stop(w)
    BY OneMoves
  <2>2. CASE Free(w)
    <3>1. req[w].stage \notin {"leave", "join"}
      BY <2>2 DEF Free, Idle
    <3>2. QED
      BY <1>2, <1>3, <1>4, <1>10, <2>1, <3>1 DEF OnlyReq, Live, CohortsOf
  <2>3. CASE Proceed(w) \/ Stop(w)
    <3>1. CheckCode(w) \/ Insert(w) \/ Write(w) \/ Delete(w)
      BY <1>2, <1>10, <2>3 DEF Proceed, Stop
    <3>2. req[w].stage \notin {"leave", "join"}
      BY <3>1 DEF CheckCode, Insert, Write, Delete
    <3>3. QED
      BY <1>2, <1>3, <1>4, <1>10, <2>1, <3>2 DEF OnlyReq, Live, CohortsOf
  <2>4. QED
    BY <2>1, <2>2, <2>3
<1>11. QED
  BY <1>2, <1>5, <1>6, <1>7, <1>8, <1>9, <1>10, UsersCases

LEMMA EnrolStep ==
  ASSUME EnrolInv, UsersNext
  PROVE  EnrolInv'
BY UsersStep, AloneStep, JoinsNoneStep, EnduresStep DEF EnrolInv

-----------------------------------------------------------------------------
(* Sessions and codes: types. *)

SessionsTyped ==
  /\ session \subseteq Live \X Nat
  /\ otp \in [Codes -> [user: Ids \cup {None}, wrote: SUBSET Nat,
                        state: {"none", "active", "consumed", "expired", "gone"}]]
  /\ visit \in [Visitors -> Visit]

ActiveOwned == \A k \in Codes : otp[k].state = "active" => otp[k].user \in Live

\* A code belongs to whom it was sent to, who had an account then.
OwnersBorn == \A k \in Codes : otp[k].user \in Ids => account[otp[k].user] # Unborn

Resetting(w) == visit[w].stage \in {"consume", "setPassword", "revoke"}

CodesOfVisits == \A w \in Visitors : Resetting(w) => otp[visit[w].code].user = visit[w].user

AuthInv == SessionsTyped /\ ActiveOwned /\ OwnersBorn /\ CodesOfVisits

-----------------------------------------------------------------------------
(* Codes are single-use. *)

OneVisit == ~ env.overlap => \A v, w \in Visitors : visit[v] # Idle /\ visit[w] # Idle => v = w

\* A code that is open, or about to be used, has set no password.
FreshCodes ==
  ~ env.overlap =>
    /\ \A k \in Codes : otp[k].state = "active" => otp[k].wrote = {}
    /\ \A w \in Visitors :
         visit[w].stage \in {"consume", "setPassword"} => otp[visit[w].code].wrote = {}

\* It is used up before it sets a password.
UsedUp ==
  \A w \in Visitors : visit[w].stage \in {"setPassword", "revoke"} => otp[visit[w].code].state # "active"

WroteOnce == ~ env.overlap => \A k \in Codes : \A m, n \in otp[k].wrote : m = n

\* The codes of before are invalid when a new one is written.
Superseded ==
  ~ env.overlap =>
    \A w \in Visitors, k \in Codes :
      visit[w].stage = "newCode" /\ otp[k].state = "active" => otp[k].user # visit[w].user

OneOpenCode ==
  ~ env.overlap =>
    \A k, l \in Codes :
      (otp[k].state = "active" /\ otp[l].state = "active" /\ otp[k].user = otp[l].user) => k = l

CodesInv == OneVisit /\ FreshCodes /\ UsedUp /\ WroteOnce /\ Superseded /\ OneOpenCode

-----------------------------------------------------------------------------
(* A reset ends the sessions of before. *)

Undisturbed == ~ env.overlap /\ ~ env.fails

\* No password a code has set is newer than `password`.
NoneNewer(u, password) == \A k \in Codes : otp[k].user = u => \A n \in otp[k].wrote : n <= password

AccountsNewest == \A u \in Live : NoneNewer(u, Password(u))

IssuesNewest ==
  \A w \in Visitors : visit[w].stage = "issue" => NoneNewer(visit[w].user, visit[w].password)

Revoking(u) == \E w \in Visitors : visit[w].stage = "revoke" /\ visit[w].user = u

SessionsNewest == \A t \in session : Revoking(t[1]) \/ NoneNewer(t[1], t[2])

ResetInv == Undisturbed => AccountsNewest /\ IssuesNewest /\ SessionsNewest

SessionsInv == EnrolInv /\ AuthInv /\ CodesInv /\ ResetInv

LEMMA VisitShape ==
  ASSUME NEW r \in Visit
  PROVE  /\ r.stage = "idle" <=> r = Idle
         /\ r.stage = "issue" => r.user \in Ids /\ r.password \in Nat
         /\ r.stage \in {"invalidate", "newCode", "change"} => r.user \in Ids
         /\ r.stage \in {"consume", "setPassword", "revoke"} => r.user \in Ids /\ r.code \in Codes
BY DEF Visit, Idle

\* The requests a visitor may come in with.
LEMMA VisitEntries ==
  /\ Idle \in Visit
  /\ \A u \in Ids :
       /\ \A n \in Nat : [stage |-> "issue", user |-> u, password |-> n] \in Visit
       /\ [stage |-> "invalidate", user |-> u] \in Visit
       /\ [stage |-> "change", user |-> u] \in Visit
       /\ \A k \in Codes : [stage |-> "consume", user |-> u, code |-> k] \in Visit
BY DEF Visit, Idle

\* How one stage follows another.
ToStage(r, stage) == [r EXCEPT !.stage = stage]

LEMMA ToNewCode ==
  ASSUME NEW r \in Visit, r.stage = "invalidate"
  PROVE  LET s == ToStage(r, "newCode")
         IN  s \in Visit /\ s.stage = "newCode" /\ s.user = r.user
BY DEF Visit, ToStage

LEMMA ToSetPassword ==
  ASSUME NEW r \in Visit, r.stage = "consume"
  PROVE  LET s == ToStage(r, "setPassword")
         IN  s \in Visit /\ s.stage = "setPassword" /\ s.user = r.user /\ s.code = r.code
BY DEF Visit, ToStage

LEMMA ToRevoke ==
  ASSUME NEW r \in Visit, r.stage = "setPassword"
  PROVE  LET s == ToStage(r, "revoke")
         IN  s \in Visit /\ s.stage = "revoke" /\ s.user = r.user /\ s.code = r.code
BY DEF Visit, ToStage

LEMMA PasswordSet ==
  ASSUME UsersTypeOK, NEW u \in Live, SetsPassword(u)
  PROVE  /\ account' \in [Ids -> User \cup {Unborn, Gone}]
         /\ Live' = Live
         /\ Password(u)' = Password(u) + 1 /\ Password(u) \in Nat
         /\ \A x \in Ids : x # u => account'[x] = account[x]
<1>1. u \in Ids /\ account[u] \in User /\ account \in [Ids -> User \cup {Unborn, Gone}]
  BY LiveUser DEF UsersTypeOK
<1> DEFINE row == [account[u] EXCEPT !.password = @ + 1]
<1>2. row \in User /\ row.password = account[u].password + 1 /\ account[u].password \in Nat
  BY <1>1 DEF User
<1>3. account' = [account EXCEPT ![u] = row]
  BY DEF SetsPassword
<1> HIDE DEF row
<1>4. QED
  BY <1>1, <1>2, <1>3, RowsAreLive DEF Live, Password

\* Authentication sets passwords and leaves everything else about users alone.
LEMMA AuthUsers ==
  ASSUME UsersTypeOK, AuthNext
  PROVE  /\ env' = env /\ UNCHANGED <<member, granted, req>>
         /\ account' = account \/ \E u \in Live : SetsPassword(u)
<1>1. CASE \E w \in Visitors : Enter(w) \/ Continue(w) \/ Abort(w)
  BY <1>1 DEF AuthNext, Enter, Continue, Login, Logout, Forgot, Change, Reset, Issue, Invalidate,
     NewCode, Consume, ResetPassword, Revoke, ChangePassword, Abort, OnlyVisit, users
<1>2. QED
  BY <1>1 DEF AuthNext, ExpireCode, ExpireSession, users

LEMMA AuthAccounts ==
  ASSUME UsersTypeOK, AuthNext
  PROVE  /\ account' \in [Ids -> User \cup {Unborn, Gone}]
         /\ Live' = Live
         /\ \A u \in Ids : (account'[u] = Unborn) = (account[u] = Unborn)
<1>1. CASE account' = account
  BY <1>1 DEF UsersTypeOK, Live
<1>2. ASSUME NEW u \in Live, SetsPassword(u)
      PROVE  /\ account' \in [Ids -> User \cup {Unborn, Gone}]
             /\ Live' = Live
             /\ \A x \in Ids : (account'[x] = Unborn) = (account[x] = Unborn)
  <2>1. /\ account' \in [Ids -> User \cup {Unborn, Gone}] /\ Live' = Live
        /\ \A x \in Ids : x # u => account'[x] = account[x]
    BY <1>2, PasswordSet
  <2>2. QED
    BY <2>1 DEF Live
<1>3. QED
  BY <1>1, <1>2, AuthUsers

LEMMA EnrolAuthStep ==
  ASSUME EnrolInv, AuthNext
  PROVE  EnrolInv'
<1>1. UsersTypeOK /\ RequestsFormed /\ OnlyUsersGranted
  BY DEF EnrolInv, UsersInv
<1>2. /\ env' = env /\ UNCHANGED <<member, granted, req>>
      /\ account' \in [Ids -> User \cup {Unborn, Gone}] /\ Live' = Live
  BY <1>1, AuthUsers, AuthAccounts
<1>3. UsersInv'
  BY <1>1, <1>2 DEF UsersInv, UsersTypeOK, RequestsFormed, OnlyUsersGranted
<1>4. QED
  BY <1>2, <1>3 DEF EnrolInv, Alone, JoinsNone, EnrolmentEndures, CohortsOf, Enrolling

-----------------------------------------------------------------------------
(* The type invariant, with the owners of codes. *)

CodeRow == [user: Ids \cup {None}, wrote: SUBSET Nat,
            state: {"none", "active", "consumed", "expired", "gone"}]

WithState(c, st) == [c EXCEPT !.state = st]

WithPassword(c, n) == [c EXCEPT !.wrote = @ \cup {n}]

LEMMA WithStateShape ==
  ASSUME NEW c \in CodeRow, NEW st \in {"none", "active", "consumed", "expired", "gone"}
  PROVE  /\ WithState(c, st) \in CodeRow /\ WithState(c, st).state = st
         /\ WithState(c, st).user = c.user /\ WithState(c, st).wrote = c.wrote
BY DEF CodeRow, WithState

LEMMA WithPasswordShape ==
  ASSUME NEW c \in CodeRow, NEW n \in Nat
  PROVE  /\ WithPassword(c, n) \in CodeRow /\ WithPassword(c, n).state = c.state
         /\ WithPassword(c, n).user = c.user /\ WithPassword(c, n).wrote = c.wrote \cup {n}
BY DEF CodeRow, WithPassword

\* What removing users does to the codes.
LEMMA CascadeCodesOf ==
  ASSUME SessionsTyped, Cascade
  PROVE  /\ otp' \in [Codes -> CodeRow]
         /\ \A k \in Codes :
              /\ otp'[k].user = otp[k].user /\ otp'[k].wrote = otp[k].wrote
              /\ otp[k].user \in Live' \cup {None} => otp'[k].state = otp[k].state
              /\ otp[k].user \notin Live' \cup {None} => otp'[k].state = "gone"
<1>1. otp \in [Codes -> CodeRow]
  BY DEF SessionsTyped, CodeRow
<1>2. otp' = [k \in Codes |-> IF otp[k].user \in Live' \cup {None} THEN otp[k]
                             ELSE WithState(otp[k], "gone")]
  BY DEF Cascade, WithState
<1>3. QED
  BY <1>1, <1>2, WithStateShape

LEMMA AuthUsersStep ==
  ASSUME UsersInv, AuthInv, UsersNext, Cascade
  PROVE  AuthInv'
<1> USE AccountsAssumption
<1>1. SessionsTyped /\ ActiveOwned /\ OwnersBorn /\ CodesOfVisits /\ UsersTypeOK
  BY DEF AuthInv, UsersInv
<1>2. AccountsEvolve /\ visit' = visit /\ session' = {t \in session : t[1] \in Live'}
  BY AccountsStep DEF Cascade
<1>3. SessionsTyped'
  BY <1>1, <1>2, CascadeCodesOf DEF SessionsTyped, CodeRow
<1>4. ActiveOwned'
  BY <1>1, CascadeCodesOf, LiveUser DEF ActiveOwned
<1>5. OwnersBorn'
  BY <1>1, <1>2, CascadeCodesOf DEF OwnersBorn, AccountsEvolve
<1>6. CodesOfVisits'
  BY <1>1, <1>2, CascadeCodesOf, VisitShape DEF CodesOfVisits, Resetting, SessionsTyped
<1>7. QED
  BY <1>3, <1>4, <1>5, <1>6 DEF AuthInv

\* One visitor moves, or none.
LEMMA VisitStep ==
  ASSUME UsersTypeOK, AuthInv, AuthNext
  PROVE  /\ visit' \in [Visitors -> Visit]
         /\ visit' = visit \/ \E w \in Visitors, r \in Visit :
              /\ visit' = [visit EXCEPT ![w] = r]
              /\ visit[w] # Idle \/ Calls(w)
<1>1. ASSUME NEW w \in Visitors, NEW r \in Visit, Turns(w, r), visit[w] # Idle \/ Calls(w)
      PROVE  /\ visit' \in [Visitors -> Visit]
             /\ \E v \in Visitors, s \in Visit :
                  visit' = [visit EXCEPT ![v] = s] /\ (visit[v] # Idle \/ Calls(v))
  BY <1>1 DEF Turns, SessionsTyped, AuthInv
<1>2. CASE visit' = visit
  BY <1>2 DEF SessionsTyped, AuthInv
<1>3. ASSUME NEW w \in Visitors, Enter(w)
      PROVE  visit' = visit \/ (Calls(w) /\ \E r \in Visit : Turns(w, r))
  <2>1. ASSUME NEW u \in Live, Login(w, u) \/ Logout(w, u) \/ Forgot(w, u) \/ Change(w, u)
        PROVE  visit' = visit \/ (Calls(w) /\ \E r \in Visit : Turns(w, r))
    <3>1. u \in Ids /\ Password(u) \in Nat
      BY LiveUser DEF Password, User
    <3>2. QED
      BY <2>1, <3>1, VisitEntries DEF Login, Logout, Forgot, Change
  <2>2. ASSUME NEW k \in Codes, Reset(w, k)
        PROVE  Calls(w) /\ \E r \in Visit : Turns(w, r)
    BY <2>2, LiveUser, VisitEntries DEF Reset, Matches, ActiveOwned, AuthInv
  <2>3. QED
    BY <1>3, <2>1, <2>2 DEF Enter
<1>4. ASSUME NEW w \in Visitors, Continue(w) \/ Abort(w)
      PROVE  visit[w] # Idle /\ \E r \in Visit : Turns(w, r)
  <2>1. visit[w] \in Visit
    BY DEF SessionsTyped, AuthInv
  <2>2. visit[w] # Idle
    BY <1>4 DEF Continue, Abort, Issue, Invalidate, NewCode, Consume, ResetPassword, Revoke,
       ChangePassword, Idle
  <2>3. CASE Issue(w) \/ NewCode(w) \/ Revoke(w) \/ ChangePassword(w) \/ Abort(w)
    BY <2>2, <2>3, VisitEntries DEF Issue, NewCode, Revoke, ChangePassword, Abort
  <2>4. CASE Invalidate(w)
    BY <2>1, <2>2, <2>4, ToNewCode DEF Invalidate, ToStage
  <2>5. CASE Consume(w)
    BY <2>1, <2>2, <2>5, VisitEntries, ToSetPassword DEF Consume, ToStage
  <2>6. CASE ResetPassword(w)
    BY <2>1, <2>2, <2>6, VisitEntries, ToRevoke DEF ResetPassword, AfterReset, ToStage
  <2>7. QED
    BY <1>4, <2>3, <2>4, <2>5, <2>6 DEF Continue
<1>5. QED
  BY <1>1, <1>2, <1>3, <1>4 DEF AuthNext, ExpireCode, ExpireSession

NewActive(u) == [user |-> u, state |-> "active", wrote |-> {}]

\* A step leaves every code with its owner and with what it wrote, and opens none;
CodesTidied ==
  /\ otp' \in [Codes -> CodeRow]
  /\ \A k \in Codes :
       /\ otp'[k].user = otp[k].user /\ otp'[k].wrote = otp[k].wrote
       /\ otp'[k].state = "active" => otp[k].state = "active"

\* or it issues one;
CodeIssued ==
  \E w \in Visitors, k \in Codes :
    /\ NewCode(w) /\ visit[w].user \in Live /\ otp[k] = Unissued
    /\ otp' = [otp EXCEPT ![k] = NewActive(visit[w].user)]

\* or it sets a password with one.
CodeUsed ==
  \E w \in Visitors :
    /\ ResetPassword(w) /\ visit[w].user \in Live
    /\ otp' = [otp EXCEPT ![visit[w].code] = WithPassword(@, Password(visit[w].user) + 1)]

LEMMA CodesCases ==
  ASSUME AuthInv, AuthNext
  PROVE  CodesTidied \/ CodeIssued \/ CodeUsed
<1>1. otp \in [Codes -> CodeRow] /\ visit \in [Visitors -> Visit]
  BY DEF AuthInv, SessionsTyped, CodeRow
<1>2. ASSUME otp' = otp
      PROVE  CodesTidied
  BY <1>1, <1>2 DEF CodesTidied
<1>3. ASSUME NEW k \in Codes, NEW st \in {"consumed", "expired"},
             otp' = [otp EXCEPT ![k].state = st]
      PROVE  CodesTidied
  <2>1. otp' = [otp EXCEPT ![k] = WithState(otp[k], st)]
    BY <1>3 DEF WithState
  <2>2. QED
    BY <1>1, <1>3, <2>1, WithStateShape DEF CodesTidied
<1>4. ASSUME NEW w \in Visitors, Invalidate(w)
      PROVE  CodesTidied
  <2>1. otp' = [k \in Codes |-> IF otp[k].user = visit[w].user /\ otp[k].state = "active"
                               THEN WithState(otp[k], "consumed") ELSE otp[k]]
    BY <1>4 DEF Invalidate, WithState
  <2>2. QED
    BY <1>1, <2>1, WithStateShape DEF CodesTidied
<1>5. ASSUME NEW w \in Visitors, Consume(w)
      PROVE  CodesTidied
  <2>1. visit[w].code \in Codes
    BY <1>1, <1>5, VisitShape DEF Consume
  <2>2. CASE visit[w].user \notin Live
    <3>1. otp' = otp
      BY <1>5, <2>2, Zenon DEF Consume
    <3>2. QED
      BY <1>2, <3>1
  <2>3. CASE visit[w].user \in Live
    <3>1. otp' = [otp EXCEPT ![visit[w].code].state = "consumed"]
      BY <1>5, <2>3 DEF Consume
    <3>2. QED
      BY <1>3, <2>1, <3>1
  <2>4. QED
    BY <2>2, <2>3
<1>6. ASSUME NEW w \in Visitors, NewCode(w)
      PROVE  CodesTidied \/ CodeIssued
  <2>1. CASE visit[w].user \notin Live
    <3>1. otp' = otp
      BY <1>6, <2>1, Zenon DEF NewCode
    <3>2. QED
      BY <1>2, <3>1
  <2>2. CASE visit[w].user \in Live
    <3>1. \E k \in Codes :
            otp[k] = Unissued /\ otp' = [otp EXCEPT ![k] = NewActive(visit[w].user)]
      BY <1>6, <2>2, Zenon DEF NewCode, NewActive
    <3>2. QED
      BY <1>6, <2>2, <3>1 DEF CodeIssued
  <2>3. QED
    BY <2>1, <2>2
<1>7. ASSUME NEW w \in Visitors, ResetPassword(w)
      PROVE  CodesTidied \/ CodeUsed
  <2>1. CASE visit[w].user \notin Live
    <3>1. otp' = otp
      BY <1>7, <2>1, Zenon DEF ResetPassword
    <3>2. QED
      BY <1>2, <3>1
  <2>2. CASE visit[w].user \in Live
    <3>1. otp' = [otp EXCEPT ![visit[w].code].wrote = @ \cup {Password(visit[w].user) + 1}]
      BY <1>7, <2>2, Zenon DEF ResetPassword
    <3>2. otp' = [otp EXCEPT ![visit[w].code] =
                               WithPassword(@, Password(visit[w].user) + 1)]
      BY <3>1, Zenon DEF WithPassword
    <3>3. QED
      BY <1>7, <2>2, <3>2 DEF CodeUsed
  <2>3. QED
    BY <2>1, <2>2
<1>8. ASSUME NEW k \in Codes, ExpireCode(k)
      PROVE  CodesTidied
  BY <1>3, <1>8 DEF ExpireCode
<1>9. \/ otp' = otp
      \/ \E w \in Visitors : Invalidate(w) \/ NewCode(w) \/ Consume(w) \/ ResetPassword(w)
      \/ \E k \in Codes : ExpireCode(k)
  BY DEF AuthNext, Enter, Continue, Login, Logout, Forgot, Change, Reset, Issue, Revoke,
     ChangePassword, Abort, OnlyVisit, ExpireSession
<1>10. QED
  BY <1>2, <1>4, <1>5, <1>6, <1>7, <1>8, <1>9

\* What the row of a used code is before and after.
LEMMA CodeUsedShape ==
  ASSUME UsersTypeOK, AuthInv, NEW w \in Visitors, ResetPassword(w), visit[w].user \in Live,
         otp' = [otp EXCEPT ![visit[w].code] = WithPassword(@, Password(visit[w].user) + 1)]
  PROVE  LET c == visit[w].code
             n == Password(visit[w].user) + 1
         IN  /\ c \in Codes /\ n \in Nat /\ otp[c].user = visit[w].user
             /\ otp'[c] \in CodeRow /\ otp'[c].state = otp[c].state
             /\ otp'[c].user = otp[c].user /\ otp'[c].wrote = otp[c].wrote \cup {n}
             /\ \A k \in Codes : k # c => otp'[k] = otp[k]
<1> DEFINE c == visit[w].code
           n == Password(visit[w].user) + 1
<1>1. otp \in [Codes -> CodeRow] /\ visit[w] \in Visit
  BY DEF AuthInv, SessionsTyped, CodeRow
<1>2. c \in Codes /\ otp[c].user = visit[w].user
  BY <1>1, VisitShape DEF ResetPassword, AuthInv, CodesOfVisits, Resetting
<1>3. n \in Nat
  BY LiveUser DEF Password, User
<1>4. otp' = [otp EXCEPT ![c] = WithPassword(otp[c], n)]
  OBVIOUS
<1> HIDE DEF c, n
<1>5. /\ WithPassword(otp[c], n) \in CodeRow /\ WithPassword(otp[c], n).state = otp[c].state
      /\ WithPassword(otp[c], n).user = otp[c].user
      /\ WithPassword(otp[c], n).wrote = otp[c].wrote \cup {n}
  BY <1>1, <1>2, <1>3, WithPasswordShape
<1>6. QED
  BY <1>1, <1>2, <1>3, <1>4, <1>5 DEF c, n

\* A code keeps its owner, and only a new one becomes active.
CodesEvolve ==
  /\ otp' \in [Codes -> CodeRow]
  /\ \A k \in Codes : otp[k].user \in Ids => otp'[k].user = otp[k].user
  /\ \A k \in Codes : otp'[k].user = otp[k].user \/ otp'[k].user \in Live
  /\ \A k \in Codes : otp'[k].state = "active" =>
       otp'[k].user \in Live \/ (otp[k].state = "active" /\ otp'[k].user = otp[k].user)

LEMMA CodesStep ==
  ASSUME UsersTypeOK, AuthInv, AuthNext
  PROVE  CodesEvolve
<1>1. otp \in [Codes -> CodeRow]
  BY DEF AuthInv, SessionsTyped, CodeRow
<1>2. CASE CodesTidied
  BY <1>2 DEF CodesTidied, CodesEvolve
<1>3. CASE CodeIssued
  <2>1. PICK w \in Visitors, k \in Codes :
          /\ visit[w].user \in Live /\ otp[k] = Unissued
          /\ otp' = [otp EXCEPT ![k] = NewActive(visit[w].user)]
    BY <1>3 DEF CodeIssued
  <2>2. visit[w].user \in Ids
    BY <2>1, LiveUser
  <2>3. NewActive(visit[w].user) \in CodeRow /\ NewActive(visit[w].user).user = visit[w].user
    BY <2>2 DEF NewActive, CodeRow
  <2>4. otp[k].user = None
    BY <2>1 DEF Unissued
  <2>5. QED
    BY <1>1, <2>1, <2>2, <2>3, <2>4, AccountsAssumption DEF CodesEvolve
<1>4. CASE CodeUsed
  <2>1. PICK w \in Visitors :
          /\ ResetPassword(w) /\ visit[w].user \in Live
          /\ otp' = [otp EXCEPT ![visit[w].code] = WithPassword(@, Password(visit[w].user) + 1)]
    BY <1>4 DEF CodeUsed
  <2>2. QED
    BY <1>1, <2>1, CodeUsedShape DEF CodesEvolve
<1>5. QED
  BY <1>2, <1>3, <1>4, CodesCases

\* How a request comes to be at a stage.
LEMMA VisitTransition ==
  ASSUME UsersTypeOK, AuthInv, AuthNext, NEW w \in Visitors
  PROVE  \/ visit'[w] = visit[w]
         \/ visit'[w].stage \in {"idle", "invalidate", "change"}
         \/ visit'[w].stage = "issue" /\ \E u \in Live : Login(w, u)
         \/ /\ visit'[w].stage = "newCode" /\ Invalidate(w)
            /\ visit'[w].user = visit[w].user
         \/ visit'[w].stage = "consume" /\ \E k \in Codes : Reset(w, k)
         \/ /\ visit'[w].stage = "setPassword" /\ Consume(w) /\ visit[w].user \in Live
            /\ visit'[w].user = visit[w].user /\ visit'[w].code = visit[w].code
         \/ /\ visit'[w].stage = "revoke" /\ ResetPassword(w) /\ visit[w].user \in Live
            /\ visit'[w].user = visit[w].user /\ visit'[w].code = visit[w].code
<1>1. visit \in [Visitors -> Visit] /\ visit[w] \in Visit
  BY DEF AuthInv, SessionsTyped
<1>2. SUFFICES ASSUME visit'[w] # visit[w]
               PROVE  \/ visit'[w].stage \in {"idle", "invalidate", "change"}
                      \/ visit'[w].stage = "issue" /\ \E u \in Live : Login(w, u)
                      \/ /\ visit'[w].stage = "newCode" /\ Invalidate(w)
                         /\ visit'[w].user = visit[w].user
                      \/ visit'[w].stage = "consume" /\ \E k \in Codes : Reset(w, k)
                      \/ /\ visit'[w].stage = "setPassword" /\ Consume(w)
                         /\ visit[w].user \in Live
                         /\ visit'[w].user = visit[w].user /\ visit'[w].code = visit[w].code
                      \/ /\ visit'[w].stage = "revoke" /\ ResetPassword(w)
                         /\ visit[w].user \in Live
                         /\ visit'[w].user = visit[w].user /\ visit'[w].code = visit[w].code
  OBVIOUS
<1>3. PICK v \in Visitors : Enter(v) \/ Continue(v) \/ Abort(v)
  BY <1>2 DEF AuthNext, ExpireCode, ExpireSession
<1>4. visit' = visit \/ \E r : visit' = [visit EXCEPT ![v] = r]
  BY <1>3 DEF Enter, Continue, Abort, Login, Logout, Forgot, Change, Reset, Issue, Invalidate,
     NewCode, Consume, ResetPassword, Revoke, ChangePassword, Turns
<1>5. v = w
  BY <1>1, <1>2, <1>4
<1>6. CASE \E u \in Live : Login(w, u) \/ Logout(w, u) \/ Forgot(w, u) \/ Change(w, u)
  BY <1>1, <1>2, <1>6 DEF Login, Logout, Forgot, Change, Turns
<1>7. CASE \E k \in Codes : Reset(w, k)
  <2>1. visit'[w].stage = "consume"
    BY <1>1, <1>7 DEF Reset, Turns
  <2>2. QED
    BY <1>7, <2>1
<1>8. CASE Issue(w) \/ NewCode(w) \/ Revoke(w) \/ ChangePassword(w) \/ Abort(w)
  BY <1>1, <1>8 DEF Issue, NewCode, Revoke, ChangePassword, Abort, Turns, Idle
<1>9. CASE Invalidate(w)
  <2>1. visit'[w] = ToStage(visit[w], "newCode")
    BY <1>1, <1>9 DEF Invalidate, Turns, ToStage
  <2>2. QED
    BY <1>1, <1>9, <2>1, ToNewCode DEF Invalidate
<1>10. CASE Consume(w)
  <2>1. visit'[w] = IF visit[w].user \in Live THEN ToStage(visit[w], "setPassword") ELSE Idle
    BY <1>1, <1>10 DEF Consume, Turns, ToStage
  <2>2. QED
    BY <1>1, <1>10, <2>1, ToSetPassword DEF Consume, Idle
<1>11. CASE ResetPassword(w)
  <2>1. visit'[w] = IF visit[w].user \in Live THEN ToStage(visit[w], "revoke") ELSE Idle
    BY <1>1, <1>11 DEF ResetPassword, AfterReset, Turns, ToStage
  <2>2. QED
    BY <1>1, <1>11, <2>1, ToRevoke DEF ResetPassword, Idle
<1>12. QED
  BY <1>3, <1>5, <1>6, <1>7, <1>8, <1>9, <1>10, <1>11 DEF Enter, Continue

LEMMA AuthStep ==
  ASSUME UsersInv, AuthInv, AuthNext
  PROVE  AuthInv'
<1> USE AccountsAssumption
<1>1. UsersTypeOK /\ SessionsTyped /\ ActiveOwned /\ OwnersBorn /\ CodesOfVisits
  BY DEF UsersInv, AuthInv
<1>2. Live' = Live /\ \A u \in Ids : (account'[u] = Unborn) = (account[u] = Unborn)
  BY <1>1, AuthAccounts
<1>3. CodesEvolve /\ visit' \in [Visitors -> Visit]
  BY <1>1, CodesStep, VisitStep
<1>4. session' \subseteq Live \X Nat
  <2>1. session \subseteq Live \X Nat /\ visit \in [Visitors -> Visit]
    BY <1>1 DEF SessionsTyped
  <2>2. CASE session' \subseteq session
    BY <2>1, <2>2
  <2>3. ASSUME NEW w \in Visitors, Issue(w)
        PROVE  session' \subseteq Live \X Nat
    BY <2>1, <2>3, VisitShape DEF Issue
  <2>4. QED
    BY <2>2, <2>3 DEF AuthNext, Enter, Continue, Login, Logout, Forgot, Change, Reset,
       Invalidate, NewCode, Consume, ResetPassword, Revoke, ChangePassword, Abort, OnlyVisit,
       ExpireSession, ExpireCode, Revoked
<1>5. SessionsTyped'
  BY <1>2, <1>3, <1>4 DEF SessionsTyped, CodesEvolve, CodeRow
<1>6. ActiveOwned'
  BY <1>1, <1>2, <1>3 DEF ActiveOwned, CodesEvolve
<1>7. OwnersBorn'
  BY <1>1, <1>2, <1>3 DEF OwnersBorn, CodesEvolve, Live
<1>8. CodesOfVisits'
  <2>1. SUFFICES ASSUME NEW w \in Visitors, Resetting(w)'
                 PROVE  (otp[visit[w].code].user = visit[w].user)'
    BY DEF CodesOfVisits
  <2>2. visit[w] \in Visit /\ visit'[w] \in Visit
    BY <1>1, <1>3 DEF SessionsTyped
  <2>3. CASE Resetting(w) /\ visit'[w].code = visit[w].code /\ visit'[w].user = visit[w].user
    BY <1>1, <1>3, <2>2, <2>3, VisitShape DEF CodesOfVisits, CodesEvolve, Resetting
  <2>4. ASSUME NEW k \in Codes, Reset(w, k)
        PROVE  (otp[visit[w].code].user = visit[w].user)'
    BY <1>1, <2>4 DEF Reset, Turns, OnlyVisit, SessionsTyped
  <2>5. Resetting(w) \/ \E k \in Codes : Reset(w, k)
    BY <1>1, <2>1, VisitTransition DEF Resetting, Consume, ResetPassword
  <2>6. QED
    BY <1>1, <2>1, <2>3, <2>4, <2>5, VisitTransition DEF Resetting
<1>9. QED
  BY <1>5, <1>6, <1>7, <1>8 DEF AuthInv

-----------------------------------------------------------------------------
(* Codes stay single-use. *)

LEMMA CodesUsersStep ==
  ASSUME AuthInv, CodesInv, UsersNext, Cascade
  PROVE  CodesInv'
<1>1. SessionsTyped /\ \A w \in Visitors : Resetting(w) => visit[w].code \in Codes
  BY VisitShape DEF AuthInv, SessionsTyped, Resetting
<1>2. /\ env' = env /\ visit' = visit
      /\ \A k \in Codes : /\ otp'[k].user = otp[k].user /\ otp'[k].wrote = otp[k].wrote
                          /\ otp'[k].state = "active" => otp[k].state = "active"
  BY <1>1, CascadeCodesOf DEF UsersNext, Cascade
<1>3. OneVisit' /\ WroteOnce'
  BY <1>2 DEF CodesInv, OneVisit, WroteOnce
<1>4. FreshCodes' /\ UsedUp'
  BY <1>1, <1>2 DEF CodesInv, FreshCodes, UsedUp, Resetting
<1>5. Superseded' /\ OneOpenCode'
  BY <1>2 DEF CodesInv, Superseded, OneOpenCode
<1>6. QED
  BY <1>3, <1>4, <1>5 DEF CodesInv

LEMMA OneVisitStep ==
  ASSUME UsersTypeOK, AuthInv, OneVisit, AuthNext
  PROVE  OneVisit'
<1>1. env' = env
  BY AuthUsers
<1>2. CASE visit' = visit
  BY <1>1, <1>2 DEF OneVisit
<1>3. CASE visit' # visit
  <2>1. PICK w \in Visitors, r \in Visit : /\ visit' = [visit EXCEPT ![w] = r]
                                           /\ visit[w] # Idle \/ Calls(w)
    BY <1>3, VisitStep
  <2>2. ~ env.overlap => \A v \in Visitors : v # w => visit[v] = Idle
    BY <2>1 DEF OneVisit, Calls
  <2>3. QED
    BY <1>1, <2>1, <2>2 DEF OneVisit, AuthInv, SessionsTyped
<1>4. QED
  BY <1>2, <1>3

\* The request that is at work is the only one.
LEMMA AtWorkAlone ==
  ASSUME OneVisit, ~ env.overlap, NEW w \in Visitors, visit[w] # Idle
  PROVE  \A v \in Visitors : v # w => visit[v] = Idle
BY DEF OneVisit

\* A step that issues no code and sets no password with one.
LEMMA TidiedStep ==
  ASSUME UsersTypeOK, AuthInv, CodesInv, AuthNext, CodesTidied
  PROVE  (FreshCodes /\ UsedUp /\ WroteOnce /\ Superseded /\ OneOpenCode)'
<1>1. env' = env /\ visit \in [Visitors -> Visit] /\ visit' \in [Visitors -> Visit]
  BY AuthUsers, VisitStep DEF AuthInv, SessionsTyped
<1>2. \A k \in Codes : /\ otp'[k].user = otp[k].user /\ otp'[k].wrote = otp[k].wrote
                       /\ otp'[k].state = "active" => otp[k].state = "active"
  BY DEF CodesTidied
<1>3. WroteOnce' /\ OneOpenCode'
  BY <1>1, <1>2 DEF CodesInv, WroteOnce, OneOpenCode
<1>4. FreshCodes'
  <2>1. SUFFICES ASSUME ~ env.overlap, NEW w \in Visitors,
                        visit'[w].stage \in {"consume", "setPassword"}
                 PROVE  otp'[visit'[w].code].wrote = {}
    BY <1>1, <1>2 DEF FreshCodes, CodesInv
  <2>2. CASE visit'[w] = visit[w]
    BY <1>1, <1>2, <2>1, <2>2, VisitShape DEF FreshCodes, CodesInv
  <2>3. ASSUME NEW k \in Codes, Reset(w, k)
        PROVE  otp'[visit'[w].code].wrote = {}
    BY <1>1, <1>2, <2>1, <2>3 DEF Reset, Matches, Turns, FreshCodes, CodesInv
  <2>4. CASE Consume(w) /\ visit'[w].code = visit[w].code
    BY <1>1, <1>2, <2>1, <2>4, VisitShape DEF Consume, FreshCodes, CodesInv
  <2>5. QED
    BY <2>1, <2>2, <2>3, <2>4, VisitTransition
<1>5. UsedUp'
  <2>1. SUFFICES ASSUME NEW w \in Visitors, visit'[w].stage \in {"setPassword", "revoke"}
                 PROVE  otp'[visit'[w].code].state # "active"
    BY DEF UsedUp
  <2>2. CASE visit'[w] = visit[w]
    BY <1>1, <1>2, <2>1, <2>2, VisitShape DEF UsedUp, CodesInv
  <2>3. CASE Consume(w) /\ visit[w].user \in Live /\ visit'[w].code = visit[w].code
    <3>1. visit[w].code \in Codes /\ otp[visit[w].code] \in CodeRow
      BY <1>1, <2>3, VisitShape DEF Consume, AuthInv, SessionsTyped, CodeRow
    <3>2. otp' = [otp EXCEPT ![visit[w].code].state = "consumed"]
      BY <2>3 DEF Consume
    <3>3. otp' = [otp EXCEPT ![visit[w].code] = WithState(otp[visit[w].code], "consumed")]
      BY <3>2, Zenon DEF WithState
    <3>4. QED
      BY <2>3, <3>1, <3>3, WithStateShape DEF AuthInv, SessionsTyped
  <2>4. CASE ResetPassword(w) /\ visit'[w].code = visit[w].code
    BY <1>1, <1>2, <2>1, <2>4, VisitShape DEF ResetPassword, UsedUp, CodesInv
  <2>5. QED
    BY <2>1, <2>2, <2>3, <2>4, VisitTransition
<1>6. Superseded'
  <2>1. SUFFICES ASSUME ~ env.overlap, NEW w \in Visitors, NEW k \in Codes,
                        visit'[w].stage = "newCode", otp'[k].state = "active"
                 PROVE  otp'[k].user # visit'[w].user
    BY <1>1 DEF Superseded
  <2>2. CASE visit'[w] = visit[w]
    BY <1>2, <2>1, <2>2 DEF Superseded, CodesInv
  <2>3. CASE Invalidate(w) /\ visit'[w].user = visit[w].user
    <3>1. SUFFICES ASSUME otp[k].user = visit[w].user, otp[k].state = "active"
                   PROVE  FALSE
      BY <1>2, <2>1, <2>3
    <3>2. otp' = [c \in Codes |-> IF otp[c].user = visit[w].user /\ otp[c].state = "active"
                                  THEN WithState(otp[c], "consumed") ELSE otp[c]]
      BY <2>3 DEF Invalidate, WithState
    <3>3. otp'[k] = WithState(otp[k], "consumed")
      BY <3>1, <3>2
    <3>4. otp[k] \in CodeRow
      BY DEF AuthInv, SessionsTyped, CodeRow
    <3>5. QED
      BY <2>1, <3>3, <3>4, WithStateShape
  <2>4. QED
    BY <2>1, <2>2, <2>3, VisitTransition
<1>7. QED
  BY <1>3, <1>4, <1>5, <1>6

\* A new code: no request is at work on it.
LEMMA IssuedStep ==
  ASSUME UsersTypeOK, AuthInv, CodesInv, AuthNext, CodeIssued
  PROVE  (FreshCodes /\ UsedUp /\ WroteOnce /\ Superseded /\ OneOpenCode)'
<1>1. env' = env /\ otp \in [Codes -> CodeRow] /\ visit \in [Visitors -> Visit]
  BY AuthUsers DEF AuthInv, SessionsTyped, CodeRow
<1>2. PICK w \in Visitors, k \in Codes :
        /\ NewCode(w) /\ visit[w].user \in Live /\ otp[k] = Unissued
        /\ otp' = [otp EXCEPT ![k] = NewActive(visit[w].user)]
  BY DEF CodeIssued
<1> DEFINE u == visit[w].user
<1>3. /\ visit[w].stage = "newCode" /\ visit' = [visit EXCEPT ![w] = Idle]
      /\ visit[w] # Idle
  BY <1>2 DEF NewCode, Turns, Idle
<1>4. /\ otp'[k].user = u /\ otp'[k].state = "active" /\ otp'[k].wrote = {}
      /\ \A c \in Codes : c # k => otp'[c] = otp[c]
  BY <1>1, <1>2 DEF NewActive
<1>5. \A v \in Visitors : visit'[v].stage # "idle" => v # w /\ visit'[v] = visit[v]
  BY <1>1, <1>3 DEF Idle
<1>6. \A v \in Visitors : Resetting(v) => visit[v].code \in Codes \ {k}
  <2>1. otp[k].user = None
    BY <1>2 DEF Unissued
  <2>2. QED
    BY <1>1, <2>1, VisitShape, AccountsAssumption DEF Resetting, AuthInv, CodesOfVisits
<1> HIDE DEF u
<1>7. ~ env.overlap => \A v \in Visitors : visit'[v] = Idle
  BY <1>1, <1>3, AtWorkAlone DEF CodesInv
<1>8. FreshCodes'
  BY <1>1, <1>4, <1>7 DEF FreshCodes, CodesInv, Idle
<1>9. UsedUp'
  <2>1. SUFFICES ASSUME NEW v \in Visitors, visit'[v].stage \in {"setPassword", "revoke"}
                 PROVE  otp'[visit'[v].code].state # "active"
    BY DEF UsedUp
  <2>2. visit'[v] = visit[v]
    BY <1>5, <2>1
  <2>3. QED
    BY <1>4, <1>6, <2>1, <2>2 DEF UsedUp, CodesInv, Resetting
<1>10. WroteOnce'
  BY <1>1, <1>4 DEF WroteOnce, CodesInv
<1>11. Superseded'
  BY <1>1, <1>7 DEF Superseded, Idle
<1>12. OneOpenCode'
  <2>1. ~ env.overlap => \A c \in Codes : otp[c].state = "active" => otp[c].user # u
    BY <1>3 DEF Superseded, CodesInv, u
  <2>2. QED
    BY <1>1, <1>4, <2>1 DEF OneOpenCode, CodesInv
<1>13. QED
  BY <1>8, <1>9, <1>10, <1>11, <1>12

\* A code that sets a password: it has set none before, and is used up.
LEMMA UsedStep ==
  ASSUME UsersTypeOK, AuthInv, CodesInv, AuthNext, CodeUsed
  PROVE  (FreshCodes /\ UsedUp /\ WroteOnce /\ Superseded /\ OneOpenCode)'
<1>1. env' = env /\ otp \in [Codes -> CodeRow] /\ visit \in [Visitors -> Visit]
  BY AuthUsers DEF AuthInv, SessionsTyped, CodeRow
<1>2. PICK w \in Visitors :
        /\ ResetPassword(w) /\ visit[w].user \in Live
        /\ otp' = [otp EXCEPT ![visit[w].code] = WithPassword(@, Password(visit[w].user) + 1)]
  BY DEF CodeUsed
<1> DEFINE c == visit[w].code
           n == Password(visit[w].user) + 1
<1>3. /\ c \in Codes /\ n \in Nat /\ otp'[c].state = otp[c].state
      /\ otp'[c].user = otp[c].user /\ otp'[c].wrote = otp[c].wrote \cup {n}
      /\ \A k \in Codes : k # c => otp'[k] = otp[k]
  BY <1>2, CodeUsedShape
<1>4. visit[w].stage = "setPassword" /\ visit[w] # Idle
  BY <1>2 DEF ResetPassword, Idle
<1>5. /\ visit' = [visit EXCEPT ![w] = ToStage(visit[w], "revoke")]
      /\ ToStage(visit[w], "revoke").stage = "revoke" /\ ToStage(visit[w], "revoke").code = c
  <2>1. visit' = [visit EXCEPT ![w] = ToStage(visit[w], "revoke")]
    BY <1>2, Zenon DEF ResetPassword, Turns, AfterReset, ToStage
  <2>2. QED
    BY <1>1, <1>4, <2>1, ToRevoke
<1>6. otp[c].state # "active" /\ (~ env.overlap => otp[c].wrote = {})
  BY <1>4 DEF CodesInv, UsedUp, FreshCodes
<1> HIDE DEF c, n
<1>7. ~ env.overlap => \A v \in Visitors : visit'[v].stage \in {"idle", "revoke"}
  BY <1>1, <1>4, <1>5, AtWorkAlone DEF CodesInv, Idle
<1>8. FreshCodes'
  BY <1>1, <1>3, <1>6, <1>7 DEF FreshCodes, CodesInv
<1>9. UsedUp'
  <2>1. SUFFICES ASSUME NEW v \in Visitors, visit'[v].stage \in {"setPassword", "revoke"}
                 PROVE  otp'[visit'[v].code].state # "active"
    BY DEF UsedUp
  <2>2. CASE v = w
    BY <1>1, <1>3, <1>5, <1>6, <2>2
  <2>3. CASE v # w
    <3>1. visit'[v] = visit[v]
      BY <1>5, <2>3, <1>1
    <3>2. visit[v].code \in Codes
      BY <1>1, <2>1, <3>1, VisitShape
    <3>3. QED
      BY <1>3, <1>6, <2>1, <3>1, <3>2 DEF UsedUp, CodesInv
  <2>4. QED
    BY <2>2, <2>3
<1>10. WroteOnce'
  BY <1>1, <1>3, <1>6 DEF WroteOnce, CodesInv
<1>11. Superseded'
  BY <1>1, <1>7 DEF Superseded
<1>12. OneOpenCode'
  BY <1>1, <1>3 DEF OneOpenCode, CodesInv
<1>13. QED
  BY <1>8, <1>9, <1>10, <1>11, <1>12

LEMMA CodesAuthStep ==
  ASSUME UsersTypeOK, AuthInv, CodesInv, AuthNext
  PROVE  CodesInv'
BY CodesCases, OneVisitStep, TidiedStep, IssuedStep, UsedStep DEF CodesInv

-----------------------------------------------------------------------------
(* A reset ends the sessions of before. *)

LEMMA ResetUsersStep ==
  ASSUME UsersInv, AuthInv, ResetInv, UsersNext, Cascade
  PROVE  ResetInv'
<1>1. SessionsTyped /\ OwnersBorn /\ AccountsEvolve /\ UsersTypeOK
  BY AccountsStep DEF AuthInv, UsersInv
<1>2. /\ env' = env /\ visit' = visit /\ session' \subseteq session
      /\ \A k \in Codes : otp'[k].user = otp[k].user /\ otp'[k].wrote = otp[k].wrote
  BY <1>1, CascadeCodesOf DEF UsersNext, Cascade
<1>3. ASSUME NEW u, NEW p, NEW q, p = q
      PROVE  NoneNewer(u, p) => NoneNewer(u, q)'
  BY <1>2, <1>3 DEF NoneNewer
<1>4. SUFFICES ASSUME Undisturbed
               PROVE  (AccountsNewest /\ IssuesNewest /\ SessionsNewest)'
  BY <1>2 DEF ResetInv, Undisturbed
<1>5. ASSUME NEW u \in Live'
      PROVE  NoneNewer(u, Password(u))'
  <2>1. CASE u \in Live
    <3>1. Password(u)' = Password(u)
      BY <1>1, <1>5, <2>1 DEF AccountsEvolve, Password
    <3>2. QED
      BY <1>2, <1>4, <2>1, <3>1 DEF ResetInv, AccountsNewest, NoneNewer
  <2>2. CASE u \notin Live
    <3>1. u \in Ids /\ account[u] = Unborn
      BY <1>1, <1>5, <2>2 DEF Live, AccountsEvolve
    <3>2. QED
      BY <1>1, <1>2, <3>1 DEF OwnersBorn, NoneNewer
  <2>3. QED
    BY <2>1, <2>2
<1>6. IssuesNewest' /\ SessionsNewest'
  BY <1>2, <1>4 DEF ResetInv, IssuesNewest, SessionsNewest, NoneNewer, Revoking
<1>7. QED
  BY <1>5, <1>6 DEF AccountsNewest

\* A request that is to end sessions does so, or fails.
LEMMA RevokeLeaves ==
  ASSUME AuthInv, AuthNext, NEW w \in Visitors, visit[w].stage = "revoke", ~ env.fails
  PROVE  visit'[w] = visit[w] \/ Revoke(w)
<1>1. CASE visit' = visit
  BY <1>1
<1>2. CASE visit' # visit
  <2>1. PICK v \in Visitors : Enter(v) \/ Continue(v)
    BY <1>2 DEF AuthNext, ExpireCode, ExpireSession, Abort
  <2>2. \E r : visit' = [visit EXCEPT ![v] = r]
    BY <1>2, <2>1 DEF Enter, Continue, Login, Logout, Forgot, Change, Reset, Issue, Invalidate,
       NewCode, Consume, ResetPassword, Revoke, ChangePassword, Turns
  <2>3. CASE v # w
    BY <2>2, <2>3 DEF AuthInv, SessionsTyped
  <2>4. CASE v = w
    <3>1. visit[w] # Idle
      BY DEF Idle
    <3>2. CASE Enter(w)
      BY <1>2, <3>1, <3>2 DEF Enter, Login, Logout, Forgot, Change, Reset, Calls
    <3>3. CASE Continue(w)
      BY <3>3 DEF Continue, Issue, Invalidate, NewCode, Consume, ResetPassword, ChangePassword
    <3>4. QED
      BY <2>1, <2>4, <3>2, <3>3
  <2>5. QED
    BY <2>3, <2>4
<1>3. QED
  BY <1>1, <1>2

LEMMA SessionsCases ==
  ASSUME AuthNext
  PROVE  session' \subseteq session \/ \E w \in Visitors : Issue(w)
BY DEF AuthNext, Enter, Continue, Login, Logout, Forgot, Change, Reset, Invalidate, NewCode,
   Consume, ResetPassword, Revoke, ChangePassword, Abort, OnlyVisit, ExpireSession, ExpireCode,
   Revoked

\* No code of before sets a password, and a new one has set none.
WritesNothing ==
  \A k \in Codes : otp'[k].wrote = {} \/ (otp'[k].user = otp[k].user /\ otp'[k].wrote = otp[k].wrote)

LEMMA WritesNothingCases ==
  ASSUME AuthInv, CodesTidied \/ CodeIssued
  PROVE  WritesNothing
<1>1. CASE CodesTidied
  BY <1>1 DEF CodesTidied, WritesNothing
<1>2. CASE CodeIssued
  <2>1. PICK w \in Visitors, k \in Codes : otp' = [otp EXCEPT ![k] = NewActive(visit[w].user)]
    BY <1>2 DEF CodeIssued
  <2>2. NewActive(visit[w].user).wrote = {}
    BY DEF NewActive
  <2>3. QED
    BY <2>1, <2>2 DEF WritesNothing, AuthInv, SessionsTyped
<1>3. QED
  BY <1>1, <1>2

\* Passwords are only set anew.
LEMMA PasswordsGrow ==
  ASSUME UsersTypeOK, AuthNext, NEW u \in Live
  PROVE  Password(u) \in Nat /\ Password(u)' \in Nat /\ Password(u)' >= Password(u)
<1>1. u \in Ids /\ Password(u) \in Nat
  BY LiveUser DEF Password, User
<1>2. CASE account' = account
  BY <1>1, <1>2 DEF Password
<1>3. ASSUME NEW v \in Live, SetsPassword(v)
      PROVE  Password(u)' \in Nat /\ Password(u)' >= Password(u)
  <2>1. Password(v)' = Password(v) + 1 /\ \A x \in Ids : x # v => account'[x] = account[x]
    BY <1>3, PasswordSet
  <2>2. QED
    BY <1>1, <2>1 DEF Password
<1>4. QED
  BY <1>1, <1>2, <1>3, AuthUsers

LEMMA NewestWhenNothingWritten ==
  ASSUME UsersTypeOK, AuthInv, ResetInv, AuthNext, WritesNothing, Undisturbed
  PROVE  (AccountsNewest /\ IssuesNewest /\ SessionsNewest)'
<1>1. /\ AccountsNewest /\ IssuesNewest /\ SessionsNewest /\ Live' = Live
      /\ visit \in [Visitors -> Visit] /\ session \subseteq Live \X Nat
      /\ \A k \in Codes : otp[k].wrote \subseteq Nat
  BY AuthAccounts DEF ResetInv, AuthInv, SessionsTyped
<1>2. ASSUME NEW u, NEW p \in Nat, NEW q \in Nat, p <= q, NoneNewer(u, p)
      PROVE  NoneNewer(u, q)'
  BY <1>1, <1>2 DEF NoneNewer, WritesNothing
<1>3. AccountsNewest'
  BY <1>1, <1>2, PasswordsGrow DEF AccountsNewest
<1>4. IssuesNewest'
  <2>1. SUFFICES ASSUME NEW w \in Visitors, visit'[w].stage = "issue"
                 PROVE  NoneNewer(visit[w].user, visit[w].password)'
    BY DEF IssuesNewest
  <2>2. CASE visit'[w] = visit[w]
    BY <1>1, <1>2, <2>1, <2>2, VisitShape DEF IssuesNewest
  <2>3. ASSUME NEW u \in Live, Login(w, u)
        PROVE  NoneNewer(visit[w].user, visit[w].password)'
    <3>1. visit'[w].user = u /\ visit'[w].password = Password(u)
      BY <1>1, <2>3 DEF Login, Turns
    <3>2. NoneNewer(u, Password(u))'
      BY <1>3, <1>1 DEF AccountsNewest
    <3>3. Password(u)' = Password(u)
      BY <2>3 DEF Login, OnlyVisit, users, Password
    <3>4. QED
      BY <3>1, <3>2, <3>3 DEF NoneNewer
  <2>4. QED
    BY <2>1, <2>2, <2>3, VisitTransition
<1>5. ASSUME NEW t \in session'
      PROVE  Revoking(t[1])' \/ NoneNewer(t[1], t[2])'
  <2>1. CASE t \in session
    <3>1. t[2] \in Nat
      BY <1>1, <2>1
    <3>2. CASE NoneNewer(t[1], t[2])
      BY <1>2, <3>1, <3>2 DEF NoneNewer
    <3>3. ASSUME NEW w \in Visitors, visit[w].stage = "revoke", visit[w].user = t[1],
                 ~ Revoking(t[1])'
          PROVE  FALSE
      <4>1. Revoke(w)
        BY <3>3, RevokeLeaves DEF Revoking, Undisturbed
      <4>2. QED
        BY <1>5, <3>3, <4>1 DEF Revoke, Revoked
    <3>4. QED
      BY <1>1, <2>1, <3>2, <3>3 DEF SessionsNewest, Revoking
  <2>2. CASE t \notin session
    <3>1. PICK w \in Visitors : Issue(w)
      BY <1>5, <2>2, SessionsCases
    <3>2. /\ visit[w].stage = "issue" /\ t = <<visit[w].user, visit[w].password>>
      BY <1>5, <2>2, <3>1 DEF Issue
    <3>3. visit[w].password \in Nat /\ NoneNewer(visit[w].user, visit[w].password)
      BY <1>1, <3>2, VisitShape DEF IssuesNewest
    <3>4. QED
      BY <1>2, <3>2, <3>3 DEF NoneNewer
  <2>3. QED
    BY <2>1, <2>2
<1>6. QED
  BY <1>3, <1>4, <1>5 DEF SessionsNewest

LEMMA NewestWhenUsed ==
  ASSUME UsersTypeOK, AuthInv, OneVisit, ResetInv, AuthNext, CodeUsed, Undisturbed
  PROVE  (AccountsNewest /\ IssuesNewest /\ SessionsNewest)'
<1>1. /\ AccountsNewest /\ SessionsNewest /\ Live' = Live
      /\ visit \in [Visitors -> Visit] /\ session \subseteq Live \X Nat
      /\ otp \in [Codes -> CodeRow]
  BY AuthAccounts DEF ResetInv, AuthInv, SessionsTyped, CodeRow
<1>2. PICK w \in Visitors, u \in Live :
        /\ ResetPassword(w) /\ u = visit[w].user /\ visit[w].user \in Live
        /\ otp' = [otp EXCEPT ![visit[w].code] = WithPassword(@, Password(visit[w].user) + 1)]
  BY DEF CodeUsed
<1> DEFINE c == visit[w].code
           n == Password(u) + 1
<1>3. /\ c \in Codes /\ n \in Nat /\ otp[c].user = u
      /\ otp'[c].user = u /\ otp'[c].wrote = otp[c].wrote \cup {n}
      /\ \A k \in Codes : k # c => otp'[k] = otp[k]
  BY <1>2, CodeUsedShape
<1>4. visit[w].stage = "setPassword" /\ visit[w] # Idle /\ session' = session
  BY <1>2 DEF ResetPassword, Idle
<1>5. /\ visit' = [visit EXCEPT ![w] = ToStage(visit[w], "revoke")]
      /\ ToStage(visit[w], "revoke").stage = "revoke" /\ ToStage(visit[w], "revoke").user = u
  <2>1. visit' = [visit EXCEPT ![w] = ToStage(visit[w], "revoke")]
    BY <1>2, Zenon DEF ResetPassword, Turns, AfterReset, ToStage
  <2>2. QED
    BY <1>1, <1>2, <1>4, <2>1, ToRevoke
<1>6. \A v \in Visitors : v # w => visit[v] = Idle /\ visit'[v] = Idle
  BY <1>1, <1>4, <1>5, AtWorkAlone DEF Undisturbed
<1>7. Password(u)' = n /\ \A x \in Live : x # u => Password(x)' = Password(x)
  <2>1. SetsPassword(u)
    BY <1>2, Zenon DEF ResetPassword
  <2>2. QED
    BY <2>1, PasswordSet, LiveUser DEF Password
<1>8. Password(u) \in Nat /\ Password(u) <= n
  BY <1>4, LiveUser DEF Password, User
<1> HIDE DEF c, n
<1>9. ASSUME NEW x, NEW p, x # u
      PROVE  NoneNewer(x, p) => NoneNewer(x, p)'
  BY <1>3, <1>9 DEF NoneNewer
<1>10. AccountsNewest'
  <2>1. SUFFICES ASSUME NEW x \in Live
                 PROVE  NoneNewer(x, Password(x))'
    BY <1>1 DEF AccountsNewest
  <2>2. CASE x = u
    <3>1. NoneNewer(u, Password(u))
      BY <1>1, <1>4 DEF AccountsNewest
    <3>2. \A k \in Codes : otp[k].wrote \subseteq Nat
      BY <1>1 DEF CodeRow
    <3>3. \A k \in Codes : otp'[k].user = u => \A m \in otp'[k].wrote : m <= n
      BY <1>3, <1>8, <3>1, <3>2 DEF NoneNewer
    <3>4. QED
      BY <1>7, <2>2, <3>3 DEF NoneNewer
  <2>3. CASE x # u
    BY <1>1, <1>7, <1>9, <2>3 DEF AccountsNewest, NoneNewer
  <2>4. QED
    BY <2>2, <2>3
<1>11. IssuesNewest'
  BY <1>1, <1>5, <1>6 DEF IssuesNewest, Idle
<1>12. SessionsNewest'
  <2>1. SUFFICES ASSUME NEW t \in session, ~ Revoking(t[1])'
                 PROVE  NoneNewer(t[1], t[2])'
    BY <1>4 DEF SessionsNewest
  <2>2. t[1] # u
    BY <1>1, <1>5, <2>1 DEF Revoking
  <2>3. ~ Revoking(t[1])
    BY <1>4, <1>6 DEF Revoking, Idle
  <2>4. QED
    BY <1>1, <1>9, <2>1, <2>2, <2>3 DEF SessionsNewest, NoneNewer
<1>13. QED
  BY <1>10, <1>11, <1>12

LEMMA ResetAuthStep ==
  ASSUME UsersTypeOK, AuthInv, OneVisit, ResetInv, AuthNext
  PROVE  ResetInv'
<1>1. Undisturbed' = Undisturbed
  BY AuthUsers DEF Undisturbed
<1>2. QED
  BY <1>1, CodesCases, WritesNothingCases, NewestWhenNothingWritten, NewestWhenUsed DEF ResetInv

-----------------------------------------------------------------------------
(* The theorems. *)

LEMMA InvInit == SessionsInit => SessionsInv
<1> SUFFICES ASSUME SessionsInit
             PROVE  SessionsInv
  OBVIOUS
<1> USE AccountsAssumption DEF SessionsInit, Init
<1>1. Live = {} /\ \A u \in Ids : account[u] = Unborn
  BY DEF Live
<1>2. UsersInv
  <2>1. UsersTypeOK
    BY IdleFormed DEF UsersTypeOK
  <2>2. RequestsFormed
    BY IdleFormed DEF RequestsFormed
  <2>3. OnlyUsersGranted
    BY DEF OnlyUsersGranted
  <2>4. QED
    BY <2>1, <2>2, <2>3 DEF UsersInv
<1>3. Alone /\ JoinsNone /\ EnrolmentEndures
  BY <1>1 DEF Alone, JoinsNone, EnrolmentEndures, Idle
<1>4. AuthInv
  <2>1. \A k \in Codes : otp[k].user = None /\ otp[k].state = "none" /\ otp[k].wrote = {}
    BY DEF Unissued
  <2>2. SessionsTyped
    BY VisitEntries DEF SessionsTyped, Unissued
  <2>3. QED
    BY <2>1, <2>2 DEF AuthInv, ActiveOwned, OwnersBorn, CodesOfVisits, Resetting, Idle
<1>5. \A k \in Codes : otp[k].state = "none" /\ otp[k].wrote = {}
  BY DEF Unissued
<1>6. CodesInv
  BY <1>5 DEF CodesInv, OneVisit, FreshCodes, UsedUp, WroteOnce, Superseded, OneOpenCode, Idle
<1>7. ResetInv
  BY <1>5 DEF ResetInv, AccountsNewest, IssuesNewest, SessionsNewest, NoneNewer, Idle
<1>8. QED
  BY <1>2, <1>3, <1>4, <1>6, <1>7 DEF SessionsInv, EnrolInv

LEMMA InvStep == SessionsInv /\ [Next]_vars => SessionsInv'
<1> SUFFICES ASSUME SessionsInv, [Next]_vars
             PROVE  SessionsInv'
  OBVIOUS
<1> USE DEF SessionsInv
<1>1. UsersInv /\ UsersTypeOK /\ OneVisit
  BY DEF EnrolInv, UsersInv, CodesInv
<1>2. CASE UsersNext /\ Cascade
  BY <1>1, <1>2, EnrolStep, AuthUsersStep, CodesUsersStep, ResetUsersStep
<1>3. CASE AuthNext
  BY <1>1, <1>3, EnrolAuthStep, AuthStep, CodesAuthStep, ResetAuthStep
<1>4. CASE UNCHANGED vars
  <2>1. EnrolInv'
    BY <1>4 DEF vars, users, EnrolInv, UsersInv, UsersTypeOK, RequestsFormed, OnlyUsersGranted,
       Alone, JoinsNone, EnrolmentEndures, Live, CohortsOf, Enrolling
  <2>2. AuthInv'
    BY <1>4 DEF vars, users, auth, AuthInv, SessionsTyped, ActiveOwned, OwnersBorn,
       CodesOfVisits, Resetting, Live
  <2>3. CodesInv'
    BY <1>4 DEF vars, auth, CodesInv, OneVisit, FreshCodes, UsedUp, WroteOnce, Superseded,
       OneOpenCode
  <2>4. ResetInv'
    BY <1>4 DEF vars, users, auth, ResetInv, Undisturbed, AccountsNewest, IssuesNewest,
       SessionsNewest, NoneNewer, Revoking, Password, Live
  <2>5. QED
    BY <2>1, <2>2, <2>3, <2>4
<1>5. QED
  BY <1>2, <1>3, <1>4 DEF Next

LEMMA Invariance == Spec => []SessionsInv
BY InvInit, InvStep, PTL DEF Spec

\* Whatever requests about users, sessions and codes race, the tables hold what
\* their columns admit, no session outlives its user and no open code is without
\* an owner: removing a user takes both with him.
THEOREM SessionsAlwaysTyped == Spec => []TypeOK
<1>1. SessionsInv => TypeOK
  BY DEF SessionsInv, EnrolInv, UsersInv, AuthInv, SessionsTyped, ActiveOwned, TypeOK
<1>2. QED
  BY <1>1, Invariance, PTL

\* As long as no statement fails, a user who was ever enrolled is enrolled again
\* whenever no request is moving him, for any number of racing requests; and
\* without overlap he is in the one cohort the last answer named.
THEOREM EnrolmentAlwaysEndures == Spec => []EnrolmentEndures
<1>1. SessionsInv => EnrolmentEndures
  BY DEF SessionsInv, EnrolInv
<1>2. QED
  BY <1>1, Invariance, PTL

\* While requests do not overlap a reset code sets a password at most once and a
\* user has at most one open code, even if resets stop half-way.
THEOREM CodesAlwaysSingleUse == Spec => []CodesAreSingleUse
<1>1. SessionsInv => CodesAreSingleUse
  <2>1. SUFFICES ASSUME WroteOnce, ~ env.overlap, NEW k \in Codes
                 PROVE  Cardinality(otp[k].wrote) <= 1
    BY DEF SessionsInv, CodesInv, OneOpenCode, CodesAreSingleUse
  <2>2. CASE otp[k].wrote = {}
    BY <2>2, FS_EmptySet
  <2>3. CASE otp[k].wrote # {}
    <3>1. PICK n \in otp[k].wrote : TRUE
      BY <2>3
    <3>2. otp[k].wrote = {n}
      BY <2>1, <3>1 DEF WroteOnce
    <3>3. Cardinality(otp[k].wrote) = 1
      BY <3>2, FS_Singleton
    <3>4. QED
      BY <3>3
  <2>4. QED
    BY <2>2, <2>3
<1>2. QED
  BY <1>1, Invariance, PTL

\* When requests neither overlap nor fail, a reset that is done leaves no session
\* that was opened with a password of before.
THEOREM ResetAlwaysEndsSessions == Spec => []ResetEndsSessions
<1>1. SessionsInv => ResetEndsSessions
  <2>1. SUFFICES ASSUME SessionsTyped, SessionsNewest, NEW t \in session, NEW k \in Codes,
                        otp[k].user = t[1], Pending(t[1], {"revoke"}) = {},
                        NEW n \in otp[k].wrote
                 PROVE  t[2] >= n
    BY DEF SessionsInv, ResetInv, Undisturbed, AuthInv, ResetEndsSessions
  <2>2. ~ Revoking(t[1])
    BY <2>1 DEF Revoking, Pending
  <2>3. n <= t[2]
    BY <2>1, <2>2 DEF SessionsNewest, NoneNewer
  <2>4. n \in Int /\ t[2] \in Int
    BY <2>1 DEF SessionsTyped
  <2>5. QED
    BY <2>3, <2>4
<1>2. QED
  BY <1>1, Invariance, PTL
=============================================================================
