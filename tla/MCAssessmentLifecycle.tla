------------------------ MODULE MCAssessmentLifecycle ------------------------
(* Small instances of AssessmentLifecycle for TLC. *)
EXTENDS AssessmentLifecycle, TLC

CONSTANTS a1, a2, d1, d2, s1, f1, w1, w2

\* One student's assessments of two successive periods.
OneStudent == a1 :> s1 @@ a2 :> s1
Starts == a1 :> 1 @@ a2 :> 2
OneMentor == s1 :> {f1}

OneAssessment == a1 :> s1
OneStart == a1 :> 1
=============================================================================
