------------------------------- MODULE Accounts -------------------------------
(***************************************************************************)
(* User accounts and their cohort: UsersService.create, createMany, update *)
(* and remove over the users and cohort_members tables.                    *)
(*                                                                         *)
(*   create:  code -> insert -> leave -> join        remove:  delete       *)
(*   update:  code -> write  -> leave -> join                              *)
(*                                                                         *)
(* A stage is one awaited statement.  Only createMany is a transaction: it *)
(* is one step.  leave and join are the two statements of setCohort.       *)
(*                                                                         *)
(* Abstractions.  Of a form the unique fields, the active flag and the     *)
(* cohort are kept.  A password is the number of times it has been set.    *)
(* A request the code refuses before it writes anything changes nothing    *)
(* and is left out; a cohort asked for exists.                             *)
(***************************************************************************)
EXTENDS Integers, FiniteSets, Functions

CONSTANTS
  Ids,           \* users.id; an id is never given out twice
  Unborn, Gone,  \* an id not given out yet, the id of a removed user
  Emails, StudentCodes, Cohorts,
  None,          \* a field left out, a null column, no cohort
  Forms,         \* bodies of POST /users: the inputs of create
  Batches,       \* bodies of POST /users/bulk: sets of forms
  Edits,         \* bodies of PATCH /users/:id
  Workers,       \* slots for requests in flight
  Environments   \* which circumstances to look at: see `env`

FormType == [email: Emails \cup {None}, code: StudentCodes \cup {None},
             isActive: BOOLEAN, cohort: Cohorts \cup {None}]

NoForm == [email |-> None, code |-> None, isActive |-> FALSE, cohort |-> None]

User == [email: Emails, code: StudentCodes \cup {None}, isActive: BOOLEAN, password: Nat]

ASSUME AccountsAssumption ==
  /\ Unborn # Gone /\ Unborn \notin User /\ Gone \notin User
  /\ None \notin Ids \cup Emails \cup StudentCodes \cup Cohorts
  /\ Forms \subseteq {f \in FormType : f.email # None}
  /\ Batches \subseteq SUBSET Forms
  /\ Edits \subseteq FormType
  /\ Environments \subseteq [overlap: BOOLEAN, fails: BOOLEAN, forms: SUBSET Forms,
                            batches: SUBSET Batches, edits: SUBSET Edits,
                            visits: BOOLEAN]

VARIABLES
  account,   \* the users table, by id
  member,    \* the cohort_members table: <<user, cohort>>
  granted,   \* the cohort the last answered request enrolled a user in; history
  req,       \* the request each worker is handling
  env        \* may requests overlap, may they fail, what do they bring; fixed

users == <<account, member, granted, req>>

-----------------------------------------------------------------------------
Live == {u \in Ids : account[u] \notin {Unborn, Gone}}

CohortsOf(u) == {c \in Cohorts : <<u, c>> \in member}

EmailTaken(e, except) == \E u \in Live \ {except} : account[u].email = e

CodeTaken(k, except) ==
  k # None /\ \E u \in Live \ {except} : account[u].code = k

Idle == [stage |-> "idle"]

Stages == {"code", "insert", "write", "leave", "join", "delete"}

\* `user` is None until create has inserted the row.
Request == {Idle} \cup [stage: Stages, user: Ids \cup {None}, form: FormType]

At(stage, u, form) == [stage |-> stage, user |-> u, form |-> form]

Becomes(w, r) == req' = [req EXCEPT ![w] = r]

OnlyReq == UNCHANGED <<account, member, granted>>

\* A request may start in slot w.
Free(w) == req[w] = Idle /\ (env.overlap \/ \A v \in Workers : req[v] = Idle)

-----------------------------------------------------------------------------
(* create and update. *)

Row(form) == [email |-> form.email, code |-> form.code,
              isActive |-> form.isActive, password |-> 0]

\* The stage that writes the users row: insert without an id, else update.
Writing(u) == IF u = None THEN "insert" ELSE "write"

\* What follows the users row: setCohort, if a cohort was asked for.
AfterRow(u, form) == IF form.cohort = None THEN Idle ELSE At("leave", u, form)

\* findByEmail, or findOne for an update.
Create(w, form) ==
  /\ Free(w)
  /\ ~ EmailTaken(form.email, None)
  /\ Becomes(w, At("code", None, form))
  /\ OnlyReq

Update(w, u, edit) ==
  /\ Free(w)
  /\ u \in Live
  /\ Becomes(w, At("code", u, edit))
  /\ OnlyReq

\* assertStudentCodeFree.
CheckCode(w) ==
  LET r == req[w]
  IN  /\ r.stage = "code"
      /\ Becomes(w, IF CodeTaken(r.form.code, r.user) THEN Idle
                    ELSE At(Writing(r.user), r.user, r.form))
      /\ OnlyReq

\* The unique indices, which answer 409 (P2002).
Unique(form, except) ==
  ~ EmailTaken(form.email, except) /\ ~ CodeTaken(form.code, except)

Insert(w) ==
  LET r == req[w]
  IN  /\ r.stage = "insert"
      /\ \/ /\ Unique(r.form, None)
            /\ \E u \in Ids :
                 /\ account[u] = Unborn
                 /\ account' = [account EXCEPT ![u] = Row(r.form)]
                 /\ Becomes(w, AfterRow(u, r.form))
         \/ /\ ~ Unique(r.form, None)
            /\ Becomes(w, Idle)
            /\ account' = account
      /\ UNCHANGED <<member, granted>>

Given(new, old) == IF new = None THEN old ELSE new

Edited(row, form) == [row EXCEPT !.email = Given(form.email, @),
                                 !.code = Given(form.code, @),
                                 !.isActive = form.isActive]

\* The UPDATE finds no row (P2025, 404) once the user is removed.
Write(w) ==
  LET r == req[w]
      ok == r.user \in Live /\ Unique(r.form, r.user)
  IN  /\ r.stage = "write"
      /\ account' = IF ok THEN [account EXCEPT ![r.user] = Edited(@, r.form)] ELSE account
      /\ Becomes(w, IF ok THEN AfterRow(r.user, r.form) ELSE Idle)
      /\ UNCHANGED <<member, granted>>

\* Fault: a user who is in some cohort already stays in it.
LeftNone(u) == member

\* deleteMany of setCohort.
Left(u) == {m \in member : m[1] # u}

Leave(w) ==
  LET r == req[w]
  IN  /\ r.stage = "leave"
      /\ member' = Left(r.user)
      /\ Becomes(w, At("join", r.user, r.form))
      /\ UNCHANGED <<account, granted>>

\* Fault: a unique index on the user alone, as if enrolment were a column.
MayJoinOnce(u, c) == u \in Live /\ CohortsOf(u) = {}

\* The foreign key, and the unique index on user and cohort.
MayJoin(u, c) == u \in Live /\ c \notin CohortsOf(u)

\* create of setCohort.
Join(w) ==
  LET r == req[w]
      ok == MayJoin(r.user, r.form.cohort)
  IN  /\ r.stage = "join"
      /\ member' = IF ok THEN member \cup {<<r.user, r.form.cohort>>} ELSE member
      /\ granted' = IF ok THEN [granted EXCEPT ![r.user] = r.form.cohort] ELSE granted
      /\ Becomes(w, Idle)
      /\ account' = account

-----------------------------------------------------------------------------
(* createMany and remove. *)

\* findDuplicateStudentCode.
HasDuplicateCode(batch) ==
  \E f, g \in batch : f # g /\ f.code # None /\ f.code = g.code

\* All rows and memberships of the batch, or none.
CreateMany(w, batch) ==
  /\ Free(w)
  /\ ~ HasDuplicateCode(batch)
  /\ \A f, g \in batch : f.email = g.email => f = g
  /\ \A f \in batch : Unique(f, None)
  /\ \E id \in Injection(batch, {u \in Ids : account[u] = Unborn}) :
       LET new == {id[f] : f \in batch}
           form(u) == CHOOSE f \in batch : id[f] = u
       IN  /\ account' = [u \in Ids |-> IF u \in new THEN Row(form(u)) ELSE account[u]]
           /\ granted' = [u \in Ids |-> IF u \in new THEN form(u).cohort ELSE granted[u]]
           /\ member' = member \cup {<<id[f], f.cohort>> : f \in {g \in batch : g.cohort # None}}
  /\ req' = req

Remove(w, u) ==
  /\ Free(w)
  /\ u \in Live
  /\ Becomes(w, At("delete", u, NoForm))
  /\ OnlyReq

\* The memberships cascade.  A second delete finds nothing (404).
Delete(w) ==
  LET r == req[w]
  IN  /\ r.stage = "delete"
      /\ account' = [account EXCEPT ![r.user] = Gone]
      /\ member' = {m \in member : m[1] # r.user}
      /\ granted' = [granted EXCEPT ![r.user] = None]
      /\ Becomes(w, Idle)

-----------------------------------------------------------------------------

\* The process dies or a statement throws.
Stop(w) ==
  /\ env.fails /\ req[w] # Idle
  /\ Becomes(w, Idle)
  /\ OnlyReq

Init ==
  /\ env \in Environments
  /\ account = [u \in Ids |-> Unborn]
  /\ member = {}
  /\ granted = [u \in Ids |-> None]
  /\ req = [w \in Workers |-> Idle]

\* The routes of UsersController, for coordinators.
Post(w) ==
  \/ \E form \in env.forms : Create(w, form)
  \/ \E batch \in env.batches : CreateMany(w, batch)

PatchOrDelete(w) ==
  \E u \in Live :
    \/ \E edit \in env.edits : Update(w, u, edit)
    \/ Remove(w, u)

Proceed(w) ==
  \/ CheckCode(w) \/ Insert(w) \/ Write(w)
  \/ Leave(w) \/ Join(w) \/ Delete(w)

UsersNext ==
  /\ \E w \in Workers : Post(w) \/ PatchOrDelete(w) \/ Proceed(w) \/ Stop(w)
  /\ env' = env

-----------------------------------------------------------------------------
(* Properties. *)

UsersTypeOK ==
  /\ env \in Environments
  /\ account \in [Ids -> User \cup {Unborn, Gone}]
  /\ member \subseteq Live \X Cohorts
  /\ granted \in [Ids -> Cohorts \cup {None}]
  /\ req \in [Workers -> Request]

Enrolling(u) == \E w \in Workers : req[w].stage \in {"leave", "join"} /\ req[w].user = u

\* "Set the user's cohort, replacing any existing membership (one per user)"
\* (users.repository.ts:69).  Unless a statement fails, a user who was ever
\* enrolled is enrolled again whenever nobody is moving him, requests that race
\* each other and refusals included; and if requests do not overlap, he is in
\* the one cohort the last answer named.
EnrolmentEndures ==
  ~ env.fails =>
    \A u \in Live :
      (granted[u] # None /\ ~ Enrolling(u)) =>
        /\ CohortsOf(u) # {}
        /\ ~ env.overlap => CohortsOf(u) = {granted[u]}

\* w is about to move u into c.
Leaving(w, u, c) ==
  req[w].stage = "leave" /\ req[w].user = u /\ req[w].form.cohort = c

\* Each request that reaches setCohort puts the user into the cohort it asked
\* for, if only until another one moves him, unless he is removed: no account
\* is left without its cohort for good (users.service.ts:87, :217).
EnrolmentTakesEffect ==
  \A u \in Ids, c \in Cohorts :
    (~ env.fails /\ \E w \in Workers : Leaving(w, u, c))
      ~> (<<u, c>> \in member \/ account[u] = Gone)
=============================================================================
