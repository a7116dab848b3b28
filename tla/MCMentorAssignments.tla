------------------------- MODULE MCMentorAssignments -------------------------
(* Small instances of MentorAssignments for TLC. *)
EXTENDS MentorAssignments, TLC

CONSTANTS f1, f2, f3, c1, c2, w1, w2, w3

\* Not for the runs with temporal properties.
Symmetry ==
  Permutations(Facilitators) \cup Permutations(Cohorts) \cup Permutations(Workers)
=============================================================================
