----------------------------- MODULE ReviewCycle -----------------------------
(***************************************************************************)
(* What the assessment endpoints promise: each of them takes effect at     *)
(* once, on the row as it is at that moment, and only where the status     *)
(* machine allows it.                                                      *)
(***************************************************************************)
EXTENDS Integers

CONSTANTS Assessments, Dimensions, Scores, Scales, NoScore

VARIABLE cycle

Statuses == {"draft", "self_submitted", "mentor_review", "agreed", "completed"}

ScoreMap == [Dimensions -> Scores \cup {NoScore}]

Settled(scores) == \A d \in Dimensions : scores[d] # NoScore

\* `new` is `old` with some scores entered or corrected, none removed.
Revises(new, old) == \A d \in Dimensions : new[d] = NoScore => old[d] = NoScore

Weak(agreed, scaleMax) == {d \in Dimensions : 5 * agreed[d] <= 2 * scaleMax}

TypeOK ==
  cycle \in [Assessments -> [status: Statuses, self: ScoreMap,
                             agreed: ScoreMap, flagged: SUBSET Dimensions]]

Init ==
  cycle = [a \in Assessments |->
            [status |-> "draft", self |-> [d \in Dimensions |-> NoScore],
             agreed |-> [d \in Dimensions |-> NoScore], flagged |-> {}]]

Becomes(a, status, self, agreed, flagged) ==
  cycle' = [cycle EXCEPT ![a] =
             [status |-> status, self |-> self, agreed |-> agreed, flagged |-> flagged]]

ScoreSelf(a) ==
  LET c == cycle[a]
  IN  /\ c.status = "draft"
      /\ \E s \in ScoreMap : /\ Revises(s, c.self)
                             /\ Becomes(a, "draft", s, c.agreed, c.flagged)

Submit(a) ==
  LET c == cycle[a]
  IN  /\ c.status = "draft"
      /\ Settled(c.self)
      /\ Becomes(a, "self_submitted", c.self, c.agreed, c.flagged)

\* Agreement, once reached, survives a further edit.
Review(a) ==
  LET c == cycle[a]
  IN  /\ c.status \in {"self_submitted", "mentor_review", "agreed"}
      /\ \E s \in ScoreMap :
           /\ Revises(s, c.agreed)
           /\ Becomes(a, IF c.status = "agreed" THEN "agreed" ELSE "mentor_review",
                      c.self, s, c.flagged)

Agree(a) ==
  LET c == cycle[a]
  IN  /\ c.status \in {"self_submitted", "mentor_review", "agreed"}
      /\ \E s \in ScoreMap :
           /\ Revises(s, c.agreed)
           /\ Settled(s)
           /\ Becomes(a, "agreed", c.self, s, c.flagged)

\* No weak dimension is left unflagged when the cycle closes.
Close(a) ==
  LET c == cycle[a]
  IN  /\ c.status = "agreed"
      /\ Settled(c.agreed)
      /\ \E f \in SUBSET Dimensions, m \in Scales :
           /\ Weak(c.agreed, m) \subseteq f
           /\ Becomes(a, "completed", c.self, c.agreed, f)

Next ==
  \E a \in Assessments :
    ScoreSelf(a) \/ Submit(a) \/ Review(a) \/ Agree(a) \/ Close(a)

Spec == Init /\ [][Next]_cycle
=============================================================================
