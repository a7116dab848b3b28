--------------------------- MODULE MCPeriodOpening ---------------------------
(* Small instances of PeriodOpening for TLC. *)
EXTENDS PeriodOpening, TLC

CONSTANTS p1, s1, s2, f1, w1, w2

\* Two students, only one of whom has a facilitator.
OneMentored == s1 :> f1 @@ s2 :> NoOne

SlotSymmetry == Permutations({w1, w2})
=============================================================================
