----------------------------- MODULE MCEngagement -----------------------------
(* A small instance of Engagement for TLC. *)
EXTENDS Engagement, TLC

CONSTANTS s1, s2, f1, c1, x1, i1, w1, w2, g1

Body(scope, ids, c) == [scope |-> scope, participants |-> ids, cohort |-> c]

\* With a student and the facilitator, with whoever is in the cohort (maybe
\* nobody), with one student.
Bodies1 == {Body("group", {s1, f1}, None), Body("group", {}, c1), Body("individual", {s1}, None)}

\* A new list, a new cohort, a new scope with the list left alone, no change.
Edits1 == {Body(None, {s2}, None), Body(None, None, c1),
           Body("individual", None, None), Body("group", {}, None)}

Environment(o, f, p, a) == [overlap |-> o, fails |-> f, picked |-> p, about |-> a]

\* Requests about sessions may fail, and overlap or name anybody as assignee;
\* those about goals do not overlap and may fail or not.
Environments1 ==
  {Environment(o, TRUE, TRUE, "sessions") : o \in BOOLEAN}
  \cup {Environment(FALSE, f, TRUE, "goals") : f \in BOOLEAN}
  \cup {Environment(FALSE, TRUE, FALSE, "sessions"),
        Environment(FALSE, FALSE, TRUE, "notices")}
=============================================================================
