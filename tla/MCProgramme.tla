----------------------------- MODULE MCProgramme -----------------------------
(* Small instances of Programme and its analytics for TLC. *)
EXTENDS ProgrammeAnalytics, TLC

CONSTANTS s1, s2, f1, f2, c1, c2, d1, d2, p1, p2

\* c2 has no dimensions or periods; students move there and back.
Homes == p1 :> c1 @@ p2 :> c1 @@ d1 :> c1 @@ d2 :> c1

Starts == p1 :> 1 @@ p2 :> 2 @@ c1 :> 1 @@ c2 :> 2

\* On a scale of 5, 2 is the 40% boundary; on a scale of 10 so is 4.  All is agreed
\* at once, or one dimension alone: the first step of a review, a correction, or
\* all there is once the other dimension was retired; or only notes are given.
High == [d \in Dimensions |-> IF d = d1 THEN 3 ELSE 4]
Reviews1 == {High, d1 :> 2, <<>>}

Setup(S, P, D) == [students |-> S, periods |-> P, dimensions |-> D]

\* Two cycles of one student, the first of which is created last; one cycle of
\* two students; a cohort that has no active dimension yet.
Setups1 == {Setup({s1}, {p2}, {d1, d2}),
            Setup({s1, s2}, {p1}, {d1, d2}),
            Setup({s1}, {p1}, {})}

\* Only s1 changes cohort or mentor.
Enrolments1 == {<<s1, c1>>, <<s1, c2>>, <<s2, c1>>}
Assignable1 == {<<f1, s1, c1>>, <<f2, s1, c1>>, <<f1, s1, c2>>, <<f1, s2, c1>>}
\* c1 may be closed with another scale than it was graded on, and reopened.
Edits1 == {<<c1, 5, "active">>, <<c1, 10, "completed">>, <<c2, 5, "active">>}

-----------------------------------------------------------------------------
(* The pure functions that no table feeds here, against what they are for. *)

Times == 0 .. 6

\* Every submission that is fetched and lies before now is in one of the weeks.
ASSUME WeeksPartition ==
  \A at \in [1 .. 3 -> Times], now \in {4, 5}, weeks \in 1 .. 2 :
    SumFunction(WeeklyCounts(at, now, weeks, 2))
      = Cardinality({x \in SinceWindow(at, now, weeks, 2) : at[x] < now})

\* The newest of the newest of each table are the newest of all.
ASSUME FeedIsNewest ==
  LET Rows1 == {1, 2, 3}
      Rows2 == {4, 5}
  IN  \A at \in {g \in [1 .. 5 -> Times] : \A x, y \in 1 .. 5 : g[x] = g[y] => x = y},
         n \in 1 .. 3 :
        ActivityFeed({Rows1, Rows2}, at, n) = Newest(Rows1 \cup Rows2, at, n)
=============================================================================
