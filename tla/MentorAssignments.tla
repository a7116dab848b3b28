--------------------------- MODULE MentorAssignments ---------------------------
(***************************************************************************)
(* Which facilitator mentors which student: AssignmentsService.create and  *)
(* remove over the mentor_assignments table.                               *)
(*                                                                         *)
(*   create:  retire -> find -> reactivate | insert     remove:  delete    *)
(*                                                                         *)
(* Every stage is one awaited statement; there is no transaction around    *)
(* them and a request in flight may stop before any of them.               *)
(*                                                                         *)
(* Abstractions.  A row is its (facilitator, student, cohort) trio, which  *)
(* a unique index makes its key, and its active flag.  Users and cohorts   *)
(* are there throughout.  create first refuses users whose role is not the *)
(* one asked for.  users.update may write a role at any time; roles are    *)
(* not kept here, and a request that is refused for one is a request that  *)
(* is not made.  One that gets past the checks begins with the read of the *)
(* student's cohort, whatever becomes of the roles after that.             *)
(***************************************************************************)
EXTENDS Integers

CONSTANTS
  Facilitators,
  Students,
  Cohorts,
  NoCohort,
  Workers,       \* slots for requests in flight
  Overlapping,   \* may two requests assign the same student at once?
  Removals       \* do coordinators ever remove an assignment?

ASSUME AssignmentsAssumption ==
  /\ NoCohort \notin Cohorts
  /\ Overlapping \in BOOLEAN
  /\ Removals \in BOOLEAN

VARIABLES
  row,      \* the mentor_assignments table
  member,   \* the cohort of each student, if any
  req       \* the request each worker is handling

vars == <<row, member, req>>

-----------------------------------------------------------------------------
Trios == Facilitators \X Students \X Cohorts

RowState == {"none", "active", "retired"}

Stages == {"retire", "find", "reactivate", "insert", "delete"}

Idle == [stage |-> "idle"]

At(stage, t) == [stage |-> stage, t |-> t]

Request == {Idle} \cup [stage: Stages, t: Trios]

Becomes(w, r) == req' = [req EXCEPT ![w] = r]

\* `w` is in the course of assigning student `s` to somebody.
Assigning(w, s) == req[w].stage \in Stages \ {"delete"} /\ req[w].t[2] = s

\* The facilitators on whose roster the student is.
Mentors(s) == {f \in Facilitators : \E c \in Cohorts : row[<<f, s, c>>] = "active"}

TypeOK ==
  /\ row \in [Trios -> RowState]
  /\ member \in [Students -> Cohorts \cup {NoCohort}]
  /\ req \in [Workers -> Request]

-----------------------------------------------------------------------------
(* create. *)

Acceptable(c) == c # NoCohort

\* The cohort is the one given or else the student's own.
Create(w, f, s, given) ==
  LET c == IF given # NoCohort THEN given ELSE member[s]
  IN  /\ req[w] = Idle
      /\ Overlapping \/ \A v \in Workers : ~ Assigning(v, s)
      /\ Acceptable(c)
      /\ Becomes(w, At("retire", <<f, s, c>>))
      /\ UNCHANGED <<row, member>>

\* Fault: only the rows of the same cohort are retired.
SupersededInCohort(u, t) == u[2] = t[2] /\ u[1] # t[1] /\ u[3] = t[3]

\* deactivateForStudent spares the facilitator the student is assigned to.
Superseded(u, t) == u[2] = t[2] /\ u[1] # t[1]

Retire(w) ==
  LET t == req[w].t
  IN  /\ req[w].stage = "retire"
      /\ row' = [u \in Trios |-> IF row[u] = "active" /\ Superseded(u, t)
                                   THEN "retired" ELSE row[u]]
      /\ Becomes(w, At("find", t))
      /\ UNCHANGED member

\* Fault: an existing row is taken to stand, whatever its active flag.
AfterFindStands(t) == IF row[t] = "none" THEN At("insert", t) ELSE Idle

\* What findByTrio makes of the request: a standing assignment is left alone.
AfterFind(t) ==
  CASE row[t] = "active"  -> Idle
    [] row[t] = "retired" -> At("reactivate", t)
    [] row[t] = "none"    -> At("insert", t)

Find(w) ==
  /\ req[w].stage = "find"
  /\ Becomes(w, AfterFind(req[w].t))
  /\ UNCHANGED <<row, member>>

Reactivate(w) ==
  /\ req[w].stage = "reactivate"
  /\ row' = [row EXCEPT ![req[w].t] = "active"]
  /\ Becomes(w, Idle)
  /\ UNCHANGED member

\* The unique index on the trio refuses a second row, with 409.
Insert(w) ==
  LET t == req[w].t
  IN  /\ req[w].stage = "insert"
      /\ row' = IF row[t] = "none" THEN [row EXCEPT ![t] = "active"] ELSE row
      /\ Becomes(w, Idle)
      /\ UNCHANGED member

-----------------------------------------------------------------------------
(* remove. *)

Remove(w, t) ==
  /\ Removals
  /\ req[w] = Idle
  /\ row[t] # "none"
  /\ Becomes(w, At("delete", t))
  /\ UNCHANGED <<row, member>>

\* reactivate and delete go by the id of the row they found.
HoldsId(r, t) == r.stage \in {"reactivate", "delete"} /\ r.t = t

\* Whoever else holds the id of the deleted row will find nothing there, not
\* even a new row of the same trio: that request can only end.
Delete(w) ==
  LET t == req[w].t
  IN  /\ req[w].stage = "delete"
      /\ row' = [row EXCEPT ![t] = "none"]
      /\ req' = [v \in Workers |-> IF HoldsId(req[v], t) THEN Idle ELSE req[v]]
      /\ UNCHANGED member

-----------------------------------------------------------------------------
(* The environment. *)

\* The process dies or a statement throws.
Stop(w) ==
  /\ req[w] # Idle
  /\ Becomes(w, Idle)
  /\ UNCHANGED <<row, member>>

\* UsersService.setCohort, seen between its statements too.
SetCohort(s, c) ==
  /\ member[s] # c
  /\ member' = [member EXCEPT ![s] = c]
  /\ UNCHANGED <<row, req>>

-----------------------------------------------------------------------------
Init ==
  /\ row = [t \in Trios |-> "none"]
  /\ member \in [Students -> Cohorts \cup {NoCohort}]
  /\ req = [w \in Workers |-> Idle]

Call(w) ==
  \/ \E f \in Facilitators, s \in Students, c \in Cohorts \cup {NoCohort} :
       Create(w, f, s, c)
  \/ \E t \in Trios : Remove(w, t)

Proceed(w) == Retire(w) \/ Find(w) \/ Reactivate(w) \/ Insert(w) \/ Delete(w)

Requests ==
  \/ \E w \in Workers : Call(w) \/ Proceed(w)
  \/ \E s \in Students, c \in Cohorts \cup {NoCohort} : SetCohort(s, c)

Next == Requests \/ \E w \in Workers : Stop(w)

Spec == Init /\ [][Next]_vars

\* Requests in flight are carried on with; coordinators owe the system nothing.
Fairness == \A w \in Workers : WF_vars(Proceed(w))

\* Nothing fails.
SteadySpec == Init /\ [][Requests]_vars /\ Fairness

-----------------------------------------------------------------------------
(* Properties. *)

\* "A self-assessor has exactly one facilitator": never two rosters at once,
\* whatever the cohorts of the rows and however often they are reassigned.
AtMostOneMentor ==
  \A s \in Students : \A f, g \in Mentors(s) : f = g

\* Nor none: create retires the old mentor before the new one is in force, but
\* once nobody is assigning a student who was ever assigned, somebody mentors
\* them, even if the requests raced each other and some were refused.
NeverOrphaned ==
  \A s \in Students :
    (\E t \in Trios : t[2] = s /\ row[t] # "none")
      => Mentors(s) # {} \/ \E w \in Workers : Assigning(w, s)

\* A request that will bring a row of its own into force.
WillAssign(w, s) ==
  /\ Assigning(w, s)
  /\ \/ req[w].stage \in {"find", "reactivate"}
     \/ req[w].stage = "insert" /\ row[req[w].t] = "none"

\* Why: whoever retires a mentor is itself about to assign one, and can be
\* prevented only by another who just has.
SuccessorExists ==
  \A s \in Students :
    (\E t \in Trios : t[2] = s /\ row[t] # "none")
      => Mentors(s) # {} \/ \E w \in Workers : WillAssign(w, s)

\* Every assignment asked for comes into force, though it may be superseded at
\* once: a request the unique index refuses lost to one for the same trio.
AssignmentTakesEffect ==
  \A w \in Workers, t \in Trios :
    (req[w] = At("retire", t)) ~> (row[t] = "active")

-----------------------------------------------------------------------------
(* Programme takes create and remove for one step each. *)

\* Past its first statement a create has begun to change the roster.
Underway(w) == req[w].stage \in {"find", "reactivate", "insert"}

\* The roster as Programme keeps it: what is in force, or about to be.
RosterView ==
  {t \in Trios : row[t] = "active"} \cup {req[w].t : w \in {v \in Workers : Underway(v)}}

Composed == INSTANCE Programme WITH
  Dimensions <- {}, Periods <- {}, CohortOf <- <<>>, StartOf <- [c \in Cohorts |-> 0],
  NoAccount <- "no account", Setups <- {}, Payloads <- {}, Enrolments <- {},
  Assignable <- Trios, CohortEdits <- {}, Creatable <- {}, Retirable <- {}, Deactivatable <- {},
  member <- [s \in Students |-> "a member"], cohort <- <<>>, active <- {}, period <- <<>>,
  roster <- RosterView, assessment <- <<>>

\* If no two requests assign one student at once, a create amounts to one change
\* of the roster, made when it retires the mentors before, and a remove to one
\* deletion.  A create that fails half-way amounts to an assignment that is
\* deleted again: what it retired does not come back.
ImplementsProgramme == [][Composed!Next]_(Composed!vars)
=============================================================================
