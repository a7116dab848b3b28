---------------------------- MODULE AssessmentLogic ----------------------------
(***************************************************************************)
(* The coaching rule of assessment-logic.ts, which submitMentor and the    *)
(* seed share.                                                             *)
(***************************************************************************)
EXTENDS Integers

CONSTANT NoScore    \* SQL NULL: no score, no previous period

\* agreedScore <= 0.4 * scaleMax, or no better than the previous period.
IsCoachingRecommended(agreedScore, scaleMax, previous) ==
  \/ 5 * agreedScore <= 2 * scaleMax
  \/ previous # NoScore /\ agreedScore <= previous
=============================================================================
