------------------------------ MODULE MCSessions ------------------------------
(* A small instance of Sessions, and of the Accounts in it, for TLC. *)
EXTENDS Sessions, TLC

CONSTANTS u1, u2, c1, c2, e1, e2, k1, w1, w2, v1, v2, o1, o2

Form(e, k, c) == [email |-> e, code |-> k, isActive |-> TRUE, cohort |-> c]

\* Two students with one code, and an account without code and cohort.
Forms1 == {Form(e1, k1, c1), Form(e2, k1, c2), Form(e2, None, None)}

\* Refused for its repeated code; taken; the one user of the sessions.
Batches1 == {{Form(e1, k1, c1), Form(e2, k1, c2)},
             {Form(e1, k1, c1), Form(e2, None, None)},
             {Form(e1, k1, c1)}}

\* Move to one cohort; move to the other and take the other's address.
Edits1 == {Form(None, None, c1), Form(e2, None, c2)}

Environment(o, f, forms, batches, edits) ==
  [overlap |-> o, fails |-> f, visits |-> edits = {},
   forms |-> forms, batches |-> batches, edits |-> edits]

\* Coordinators whose requests overlap or not; or a user whose own requests do
\* not overlap and whom a coordinator may remove.  Either may fail.
Environments1 ==
  {Environment(o, f, Forms1, Batches1, Edits1) : o \in BOOLEAN, f \in BOOLEAN}
  \cup {Environment(FALSE, f, {}, {{Form(e1, k1, c1)}}, {}) : f \in BOOLEAN}
=============================================================================
