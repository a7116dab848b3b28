------------------------------- MODULE SeedProofs -------------------------------
(***************************************************************************)
(* Starting, stopping and restarting the seed, for every script that       *)
(* satisfies ScriptAssumption: not only for the rows that prisma/seed.ts   *)
(* writes today, but for whatever it comes to write in an order like that. *)
(* The order in which the tables are wiped is the one of the code.         *)
(***************************************************************************)
EXTENDS Seed, SumTheorems, SequenceTheorems

N == Len(Script)

Users == Of("user", db)

-----------------------------------------------------------------------------
(* The order of the wipe. *)

LEMMA UsersGoLast ==
  /\ DOMAIN RESET_ORDER = 1 .. 17 /\ Len(RESET_ORDER) = 17
  /\ \A i \in 1 .. 17 : RESET_ORDER[i] = "user" <=> i = 17
BY DEF RESET_ORDER

\* A table is wiped before those its rows refer to.
LEMMA ParentsGoLater ==
  ASSUME NEW r, NEW q \in References(r), NEW i \in 1 .. 17, NEW j \in 1 .. 17,
         RESET_ORDER[i] = r[1], RESET_ORDER[j] = q[1]
  PROVE  i < j
BY DEF RESET_ORDER, References

-----------------------------------------------------------------------------
(* The script. *)

LEMMA WrittenGrows ==
  ASSUME NEW n \in 1 .. N
  PROVE  /\ Written(n) = Written(n - 1) \cup Script[n]
         /\ n - 1 \in Nat /\ Written(0) = {}
<1>1. N \in Nat /\ n \in Nat /\ n - 1 \in Nat
  BY ScriptAssumption DEF ScriptAssumption, N
<1>2. \A m : m \in 1 .. n <=> m \in 1 .. (n - 1) \/ m = n
  BY <1>1
<1>3. Written(n) = Written(n - 1) \cup Script[n]
  BY <1>2, Zenon DEF Written
<1>4. Written(0) = {}
  BY DEF Written
<1> QED BY <1>1, <1>3, <1>4

LEMMA WrittenWithin ==
  ASSUME NEW n \in 0 .. N
  PROVE  Written(n) \subseteq Whole
<1>1. N \in Nat
  BY ScriptAssumption DEF ScriptAssumption, N
<1>2. \A m \in 1 .. n : m \in 1 .. N
  BY <1>1
<1> QED BY <1>2, Zenon DEF Written, Whole, N

\* A part of the script refers to nothing outside it.
LEMMA WrittenIsClosed ==
  ASSUME NEW n \in 0 .. N, NEW r \in Written(n)
  PROVE  References(r) \subseteq Written(n)
<1>1. PICK m \in 1 .. n : r \in Script[m]
  BY DEF Written
<1>2. N \in Nat /\ m \in 1 .. N
  BY ScriptAssumption DEF ScriptAssumption, N
<1>3. References(r) \subseteq Written(m)
  BY <1>1, <1>2, ScriptAssumption DEF ScriptAssumption, N
<1>4. Written(m) \subseteq Written(n)
  <2>1. \A k \in 1 .. m : k \in 1 .. n
    BY <1>2
  <2> QED BY <2>1, Zenon DEF Written
<1> QED BY <1>3, <1>4

\* As soon as anything is written there is a user.
LEMMA UsersComeFirst ==
  ASSUME NEW n \in 1 .. N
  PROVE  Of("user", Written(n)) # {}
<1>1. N \in Nat \ {0}
  BY ScriptAssumption DEF ScriptAssumption, N
<1>2. Script[1] \subseteq Written(n)
  <2>1. 1 \in 1 .. n
    BY <1>1
  <2> QED BY <2>1, Zenon DEF Written
<1>3. PICK r \in Script[1] : r[1] = "user"
  BY ScriptAssumption DEF ScriptAssumption, Of
<1> QED BY <1>2, <1>3 DEF Of

-----------------------------------------------------------------------------
(* The invariant. *)

\* The tables before number k are empty.
Wiped(k) == \A i \in 1 .. (k - 1) : Of(RESET_ORDER[i], db) = {}

Runs == {Idle} \cup [stage: {"reset"}, at: 1 .. 17] \cup [stage: {"write"}, at: 1 .. N]

\* While a reset is on, the tables before the one it is at are empty and there
\* still are users; while the script is written, there is what it wrote so far
\* and nothing else; in between, a database without users is an empty one.
Progress ==
  /\ run.stage = "reset" => Users # {} /\ Wiped(run.at)
  /\ run.stage = "write" => db = Written(run.at - 1)
  /\ run = Idle => Users # {} \/ db = {}
  /\ outcome = "seeded" => run = Idle /\ db = Whole

SeedInv ==
  /\ run \in Runs
  /\ RowsHaveParents
  /\ outcome # "refused"
  /\ Progress

LEMMA SeedStarts == Init => SeedInv
<1> SUFFICES ASSUME Init PROVE SeedInv
  OBVIOUS
<1>1. run.stage = "idle"
  BY DEF Init, Idle
<1> QED BY <1>1 DEF Init, SeedInv, RowsHaveParents, Progress, Runs

LEMMA StartKeeps ==
  ASSUME SeedInv, NEW reset \in BOOLEAN, Start(reset)
  PROVE  SeedInv'
<1>1. run = Idle /\ db' = db
  BY DEF Start
<1>2. N \in Nat \ {0}
  BY ScriptAssumption DEF ScriptAssumption, N
<1>3. RowsHaveParents'
  BY <1>1 DEF SeedInv, RowsHaveParents
<1>4. CASE Users # {} /\ ~ reset
  <2>1. run' = run /\ outcome' = "skipped"
    BY <1>4 DEF Start, Users
  <2> QED BY <1>1, <1>3, <2>1 DEF SeedInv, Progress, Users, Idle, Of
<1>5. CASE Users # {} /\ reset
  <2>1. run' = [stage |-> "reset", at |-> 1] /\ outcome' = "none"
    BY <1>5 DEF Start, Users
  <2>2. run' \in Runs /\ run'.stage = "reset" /\ run'.at = 1 /\ run' # Idle
    BY <2>1 DEF Runs, Idle
  <2>3. Wiped(1)'
    BY DEF Wiped
  <2> QED BY <1>1, <1>3, <1>5, <2>1, <2>2, <2>3 DEF SeedInv, Progress, Users, Of
<1>6. CASE Users = {}
  <2>1. run' = [stage |-> "write", at |-> 1] /\ outcome' = "none"
    BY <1>6 DEF Start, Users
  <2>2. run' \in Runs /\ run'.stage = "write" /\ run'.at = 1 /\ run' # Idle
    BY <1>2, <2>1 DEF Runs, Idle
  <2>3. db' = {}
    BY <1>1, <1>6 DEF SeedInv, Progress
  <2>4. Written(1 - 1) = {}
    BY <1>2, WrittenGrows
  <2> QED BY <1>3, <2>1, <2>2, <2>3, <2>4 DEF SeedInv, Progress
<1> QED BY <1>4, <1>5, <1>6

LEMMA WipeKeeps ==
  ASSUME SeedInv, Wipe
  PROVE  SeedInv'
<1> DEFINE k == run.at
           gone == Of(RESET_ORDER[k], db)
<1>1. /\ run.stage = "reset" /\ db' = db \ gone /\ outcome' = outcome
      /\ run' = IF k < 17 THEN [run EXCEPT !.at = k + 1] ELSE [stage |-> "write", at |-> 1]
  BY UsersGoLast DEF Wipe
<1>2. k \in 1 .. 17 /\ run = [stage |-> "reset", at |-> k]
  BY <1>1 DEF SeedInv, Runs, Idle
<1>3. N \in Nat \ {0}
  BY ScriptAssumption DEF ScriptAssumption, N
<1>4. db' \subseteq db
  BY <1>1
<1>5. \A r \in db' : /\ r \in db /\ References(r) \subseteq db
                     /\ \E i \in 1 .. 17 : RESET_ORDER[i] = r[1] /\ i > k
  <2>1. SUFFICES ASSUME NEW r \in db'
                 PROVE  /\ r \in db /\ References(r) \subseteq db
                        /\ \E i \in 1 .. 17 : RESET_ORDER[i] = r[1] /\ i > k
    OBVIOUS
  <2>2. r \in db /\ r \in Whole /\ References(r) \subseteq db
    BY <1>4 DEF SeedInv, RowsHaveParents
  <2>3. PICK i \in 1 .. 17 : RESET_ORDER[i] = r[1]
    <3>1. PICK m \in 1 .. N : r \in Script[m]
      BY <2>2 DEF Whole, Written, N
    <3> QED BY <3>1, ScriptAssumption, UsersGoLast DEF ScriptAssumption, N
  <2>4. i # k
    BY <1>1, <2>2, <2>3 DEF Of
  <2>5. ~ (i < k)
    <3>1. Wiped(k)
      BY <1>1 DEF SeedInv, Progress
    <3> QED BY <1>2, <2>2, <2>3, <3>1 DEF Wiped, Of
  <2> QED BY <1>2, <2>2, <2>3, <2>4, <2>5
<1>6. RowsHaveParents'
  <2>1. ASSUME NEW r \in db', NEW q \in References(r)
        PROVE  q \in db'
    <3>1. PICK i \in 1 .. 17 : RESET_ORDER[i] = r[1] /\ i > k
      BY <1>5
    <3>2. q \in db
      BY <1>5
    <3>3. q[1] # RESET_ORDER[k]
      BY <1>2, <3>1, ParentsGoLater
    <3> QED BY <1>1, <3>2, <3>3 DEF Of
  <2> QED BY <1>4, <2>1 DEF SeedInv, RowsHaveParents
<1>7. outcome' # "seeded" /\ outcome' # "refused"
  BY <1>1, <1>2 DEF SeedInv, Progress, Idle
<1>8. CASE k < 17
  <2>1. run' = [stage |-> "reset", at |-> k + 1]
    BY <1>1, <1>2, <1>8
  <2>2. run' \in Runs /\ run'.stage = "reset" /\ run'.at = k + 1 /\ run' # Idle
    BY <1>2, <1>8, <2>1 DEF Runs, Idle
  <2>3. Users' # {}
    <3>1. PICK u \in db : u[1] = "user"
      BY <1>1 DEF SeedInv, Progress, Users, Of
    <3>2. RESET_ORDER[k] # "user"
      BY <1>2, <1>8, UsersGoLast
    <3> QED BY <1>1, <3>1, <3>2 DEF Users, Of
  <2>4. ASSUME NEW i \in 1 .. k
        PROVE  Of(RESET_ORDER[i], db') = {}
    <3>1. CASE i = k
      BY <1>1, <3>1 DEF Of
    <3>2. CASE i # k
      <4>1. Wiped(k) /\ i \in 1 .. (k - 1)
        BY <1>1, <1>2, <3>2 DEF SeedInv, Progress
      <4> QED BY <1>4, <4>1 DEF Wiped, Of
    <3> QED BY <3>1, <3>2
  <2>5. Wiped(run.at)'
    <3>1. run'.at - 1 = k
      BY <1>2, <2>2
    <3> QED BY <2>4, <3>1 DEF Wiped
  <2> QED BY <1>6, <1>7, <2>2, <2>3, <2>5 DEF SeedInv, Progress
<1>9. CASE ~ (k < 17)
  <2>1. run' = [stage |-> "write", at |-> 1]
    BY <1>1, <1>9
  <2>2. run' \in Runs /\ run'.stage = "write" /\ run'.at = 1 /\ run' # Idle
    BY <1>3, <2>1 DEF Runs, Idle
  <2>3. db' = {}
    BY <1>2, <1>5, <1>9
  <2>4. Written(1 - 1) = {}
    BY <1>3, WrittenGrows
  <2> QED BY <1>6, <1>7, <2>2, <2>3, <2>4 DEF SeedInv, Progress
<1> QED BY <1>8, <1>9

LEMMA WriteKeeps ==
  ASSUME SeedInv, Write
  PROVE  SeedInv'
<1> DEFINE n == run.at
           rows == Script[n]
<1>1. run.stage = "write" /\ db = Written(n - 1)
  BY DEF Write, SeedInv, Progress
<1>2. N \in Nat \ {0} /\ n \in 1 .. N /\ run = [stage |-> "write", at |-> n]
  BY <1>1, ScriptAssumption DEF ScriptAssumption, N, SeedInv, Runs, Idle
<1>3. rows \cap db = {}
  BY <1>1, <1>2, ScriptAssumption DEF ScriptAssumption, N
<1>4. /\ db' = db \cup rows
      /\ run' = IF n = N THEN Idle ELSE [run EXCEPT !.at = n + 1]
      /\ outcome' = IF n = N THEN "seeded" ELSE outcome
  BY <1>3 DEF Write, N
<1>5. db' = Written(n) /\ n \in 0 .. N
  BY <1>1, <1>2, <1>4, WrittenGrows
<1>6. RowsHaveParents'
  BY <1>5, WrittenWithin, WrittenIsClosed DEF RowsHaveParents
<1>7. Users' # {}
  BY <1>2, <1>5, UsersComeFirst DEF Users
<1>8. CASE n = N
  BY <1>4, <1>5, <1>6, <1>7, <1>8 DEF SeedInv, Progress, Runs, Idle, Whole, N
<1>9. CASE n # N
  <2>1. run' = [stage |-> "write", at |-> n + 1] /\ outcome' = outcome
    BY <1>2, <1>4, <1>9
  <2>2. run' \in Runs /\ run'.stage = "write" /\ run'.at = n + 1 /\ run' # Idle
    BY <1>2, <1>9, <2>1 DEF Runs, Idle
  <2>3. run'.at - 1 = n
    BY <1>2, <2>2
  <2>4. outcome # "seeded"
    BY <1>2 DEF SeedInv, Progress, Idle
  <2> QED BY <1>5, <1>6, <2>1, <2>2, <2>3, <2>4 DEF SeedInv, Progress
<1> QED BY <1>8, <1>9

LEMMA CrashKeeps ==
  ASSUME SeedInv, Crash
  PROVE  SeedInv'
<1>1. run' = Idle /\ outcome' = "failed" /\ db' = db /\ run # Idle
  BY DEF Crash
<1>2. Users # {} \/ db = {}
  <2>1. CASE run.stage = "reset"
    BY <2>1 DEF SeedInv, Progress
  <2>2. CASE run.stage = "write"
    <3>1. N \in Nat \ {0} /\ run.at \in 1 .. N /\ db = Written(run.at - 1)
      BY <2>2, ScriptAssumption DEF ScriptAssumption, N, SeedInv, Runs, Idle, Progress
    <3>2. CASE run.at = 1
      BY <3>1, <3>2, WrittenGrows
    <3>3. CASE run.at # 1
      <4>1. run.at - 1 \in 1 .. N
        BY <3>1, <3>3
      <4> QED BY <3>1, <4>1, UsersComeFirst DEF Users
    <3> QED BY <3>2, <3>3
  <2>3. run.stage \in {"reset", "write"}
    BY <1>1 DEF SeedInv, Runs
  <2> QED BY <2>1, <2>2, <2>3
<1>3. run'.stage = "idle"
  BY <1>1 DEF Idle
<1> QED BY <1>1, <1>2, <1>3 DEF SeedInv, Runs, RowsHaveParents, Progress, Users

LEMMA SeedInvHolds == Spec => []SeedInv
<1>1. Init => SeedInv
  BY SeedStarts
<1>2. SeedInv /\ [Next]_vars => SeedInv'
  <2> SUFFICES ASSUME SeedInv, [Next]_vars PROVE SeedInv'
    OBVIOUS
  <2>1. CASE Next
    BY <2>1, StartKeeps, WipeKeeps, WriteKeeps, CrashKeeps DEF Next
  <2>2. CASE UNCHANGED vars
    BY <2>2 DEF vars, SeedInv, RowsHaveParents, Progress, Users, Wiped
  <2> QED BY <2>1, <2>2
<1> QED BY <1>1, <1>2, PTL DEF Spec

\* The order of the wipe respects the foreign keys of the schema, and the order
\* of the writes does: at no moment, whatever stopped where, does a row refer to
\* one that is not there (seed.ts:327).
THEOREM ParentsAlwaysThere == Spec => []RowsHaveParents
<1>1. SeedInv => RowsHaveParents
  BY DEF SeedInv
<1> QED BY <1>1, SeedInvHolds, PTL

\* However often the seed was started and stopped, a run that is not skipped
\* meets no row in its way and ends with all of the data (seed.ts:493).
THEOREM SeededAlwaysWhole == Spec => []SeededIsWhole
<1>1. SeedInv => SeededIsWhole
  BY DEF SeedInv, Progress, SeededIsWhole, Users
<1> QED BY <1>1, SeedInvHolds, PTL

-----------------------------------------------------------------------------
(* The seed's arithmetic, for every scale from 2 on, every number of cycles  *)
(* and every offset of at most one.                                          *)

LEMMA MaxOfTwo ==
  ASSUME NEW a \in Int, NEW b \in Int
  PROVE  Max({a, b}) = IF a >= b THEN a ELSE b
BY DEF Max

LEMMA MinOfTwo ==
  ASSUME NEW a \in Int, NEW b \in Int
  PROVE  Min({a, b}) = IF a <= b THEN a ELSE b
BY DEF Min

LEMMA MaxOfThree ==
  ASSUME NEW a \in Int, NEW b \in Int, NEW c \in Int
  PROVE  /\ Max({a, b, c}) \in {a, b, c}
         /\ Max({a, b, c}) >= a /\ Max({a, b, c}) >= b /\ Max({a, b, c}) >= c
<1>1. \E x \in {a, b, c} : \A y \in {a, b, c} : x >= y
  OBVIOUS
<1>2. Max({a, b, c}) \in {a, b, c} /\ \A y \in {a, b, c} : Max({a, b, c}) >= y
  BY <1>1, Zenon DEF Max
<1>3. QED
  BY <1>2

\* A ramp has its ends, never leaves them, moves by one at a time and only at
\* the end of the run.
LEMMA RampShape ==
  ASSUME NEW start \in Int, NEW end \in Int, NEW cycles \in Nat \ {0},
         NEW i \in 1 .. cycles
  PROVE  LET r == Ramp(start, end, cycles)
             span == IF end >= start THEN end - start ELSE start - end
         IN  /\ DOMAIN r = 1 .. cycles
             /\ r[i] \in Int
             /\ start <= end => start <= r[i] /\ r[i] <= end
             /\ end <= start => end <= r[i] /\ r[i] <= start
             /\ cycles - 1 >= span /\ i = cycles => r[i] = end
             /\ i > 1 /\ cycles - i < span =>
                  r[i] = r[i - 1] + Towards(start, end)
             /\ i > 1 => r[i] = r[i - 1] \/ r[i] = r[i - 1] + Towards(start, end)
<1> DEFINE r == Ramp(start, end, cycles)
           span == IF end >= start THEN end - start ELSE start - end
           changing == IF span <= cycles - 1 THEN span ELSE cycles - 1
           flat == cycles - 1 - changing
           Moves(j) == IF j - 1 - flat > 0 THEN j - 1 - flat ELSE 0
<1>1. span \in Nat /\ Max({end - start, start - end}) = span
  <2>1. end - start \in Int /\ start - end \in Int
    OBVIOUS
  <2>2. QED
    BY <2>1, MaxOfTwo
<1>2. Min({Max({end - start, start - end}), cycles - 1}) = changing
  BY <1>1, MinOfTwo
<1>3. changing \in Nat /\ flat \in Nat /\ changing <= cycles - 1
  BY <1>1
<1>4. \A j \in 1 .. cycles : Max({0, j - 1 - flat}) = Moves(j)
  <2>1. SUFFICES ASSUME NEW j \in 1 .. cycles
                 PROVE  Max({0, j - 1 - flat}) = Moves(j)
    OBVIOUS
  <2>2. 0 \in Int /\ j - 1 - flat \in Int
    BY <1>3
  <2> HIDE DEF flat
  <2>3. QED
    BY <2>2, MaxOfTwo
<1>5. r = [j \in 1 .. cycles |-> start + Towards(start, end) * Moves(j)]
  BY <1>2, <1>4 DEF Ramp
<1>6. \A j \in 1 .. cycles : /\ Moves(j) \in Nat /\ Moves(j) <= changing
                             /\ r[j] = start + Towards(start, end) * Moves(j)
  BY <1>3, <1>5
<1>7. Moves(cycles) = changing
  BY <1>3
<1>8. i > 1 => /\ i - 1 \in 1 .. cycles
               /\ Moves(i) = Moves(i - 1) \/ Moves(i) = Moves(i - 1) + 1
               /\ cycles - i < span => Moves(i) = Moves(i - 1) + 1
  BY <1>1, <1>3
<1> HIDE DEF Moves, changing, flat, r
<1>9. changing <= span /\ (cycles - 1 >= span => changing = span)
  BY <1>1 DEF changing
<1>10. DOMAIN r = 1 .. cycles
  BY <1>5
<1>11. /\ DOMAIN r = 1 .. cycles /\ Moves(i) \in Nat /\ Moves(i) <= span
       /\ r[i] = start + Towards(start, end) * Moves(i)
       /\ i > 1 => r[i - 1] = start + Towards(start, end) * Moves(i - 1)
       /\ i > 1 => Moves(i - 1) \in Nat
       /\ cycles - 1 >= span /\ i = cycles => Moves(i) = span
  BY <1>3, <1>6, <1>7, <1>8, <1>9, <1>10
<1>12. CASE start < end
  <2>1. Towards(start, end) = 1 /\ span = end - start
    BY <1>12 DEF Towards
  <2>2. r[i] = start + Moves(i) /\ (i > 1 => r[i - 1] = start + Moves(i - 1))
    BY <1>11, <2>1
  <2>3. QED
    BY <1>8, <1>11, <1>12, <2>1, <2>2 DEF r
<1>13. CASE start > end
  <2>1. Towards(start, end) = -1 /\ span = start - end
    BY <1>13 DEF Towards
  <2>2. r[i] = start - Moves(i) /\ (i > 1 => r[i - 1] = start - Moves(i - 1))
    BY <1>11, <2>1
  <2>3. QED
    BY <1>8, <1>11, <1>13, <2>1, <2>2 DEF r
<1>14. CASE start = end
  <2>1. Towards(start, end) = 0 /\ span = 0
    BY <1>14 DEF Towards
  <2>2. r[i] = start /\ (i > 1 => r[i - 1] = start)
    BY <1>11, <2>1
  <2>3. QED
    BY <1>11, <1>14, <2>1, <2>2 DEF r
<1>15. QED
  BY <1>12, <1>13, <1>14

\* The two ends of an archetype, before they are shifted: their distance is less
\* than the scale, and on a scale of five or more those who move, move by two.
LEMMA EndsOfArchetypes ==
  ASSUME NEW archetype \in DOMAIN ARCHETYPES, NEW scaleMax \in Nat, scaleMax >= 2
  PROVE  LET e(i) == Rounded(ARCHETYPES[archetype][i] * scaleMax, 100)
         IN  /\ e(1) \in 0 .. scaleMax /\ e(2) \in 0 .. scaleMax
             /\ e(1) - e(2) < scaleMax /\ e(2) - e(1) < scaleMax
             /\ archetype = "improving" => e(1) <= e(2)
             /\ archetype = "improving" /\ scaleMax >= 5 =>
                  e(1) + 2 <= e(2) /\ 5 * e(1) > 2 * scaleMax
             /\ archetype = "regressing" /\ scaleMax >= 5 => e(2) + 2 <= e(1)
             /\ archetype = "stagnant" => e(1) = e(2)
<1>1. CASE archetype = "improving"
  <2>1. ARCHETYPES[archetype] = <<52, 98>>
    BY <1>1 DEF ARCHETYPES
  <2>2. QED
    BY <1>1, <2>1 DEF Rounded
<1>2. CASE archetype = "steady"
  <2>1. ARCHETYPES[archetype] = <<62, 82>>
    BY <1>2 DEF ARCHETYPES
  <2>2. QED
    BY <1>2, <2>1 DEF Rounded
<1>3. CASE archetype = "stagnant"
  <2>1. ARCHETYPES[archetype] = <<60, 60>>
    BY <1>3 DEF ARCHETYPES
  <2>2. QED
    BY <1>3, <2>1 DEF Rounded
<1>4. CASE archetype = "regressing"
  <2>1. ARCHETYPES[archetype] = <<86, 44>>
    BY <1>4 DEF ARCHETYPES
  <2>2. QED
    BY <1>4, <2>1 DEF Rounded
<1>5. DOMAIN ARCHETYPES = {"improving", "steady", "stagnant", "regressing"}
  BY DEF ARCHETYPES
<1>6. QED
  BY <1>1, <1>2, <1>3, <1>4, <1>5

\* Shifted, both ends are on the scale and as far apart as before.
LEMMA ShiftFits ==
  ASSUME NEW scaleMax \in Nat, scaleMax >= 2, NEW first \in Int, NEW last \in Int,
         first - last < scaleMax, last - first < scaleMax
  PROVE  LET over == Overflow(first, last, scaleMax)
             shift == Underflow(first - over, last - over) - over
         IN  /\ shift \in Int
             /\ first + shift \in 1 .. scaleMax /\ last + shift \in 1 .. scaleMax
             /\ first <= scaleMax /\ last <= scaleMax => shift >= 0
             /\ first <= scaleMax + 1 /\ last <= scaleMax + 1 => shift >= -1
<1> DEFINE over == Overflow(first, last, scaleMax)
           under == Underflow(first - over, last - over)
<1>1. /\ over \in {0, first - scaleMax, last - scaleMax}
      /\ over >= 0 /\ over >= first - scaleMax /\ over >= last - scaleMax
  <2>1. 0 \in Int /\ first - scaleMax \in Int /\ last - scaleMax \in Int
    OBVIOUS
  <2>2. QED
    BY <2>1, MaxOfThree DEF Overflow
<1>2. over \in Int
  BY <1>1
<1> HIDE DEF over
<1>3. /\ under \in {0, 1 - (first - over), 1 - (last - over)}
      /\ under >= 0 /\ under >= 1 - (first - over) /\ under >= 1 - (last - over)
  <2>1. 0 \in Int /\ 1 - (first - over) \in Int /\ 1 - (last - over) \in Int
    BY <1>2
  <2>2. QED
    BY <2>1, MaxOfThree DEF Underflow
<1>4. under \in Int
  BY <1>2, <1>3
<1> HIDE DEF under
<1>5. /\ under - over \in Int
      /\ first + (under - over) \in 1 .. scaleMax /\ last + (under - over) \in 1 .. scaleMax
      /\ first <= scaleMax /\ last <= scaleMax => under - over >= 0
      /\ first <= scaleMax + 1 /\ last <= scaleMax + 1 => under - over >= -1
  BY <1>1, <1>2, <1>3, <1>4
<1>6. QED
  BY <1>5 DEF over, under

\* scoreSeries: every score is on the scale, the clamp has nothing to do
\* (seed.ts:462).  On a scale of five or more the last two cycles of somebody
\* who improves or regresses are changes, of one, and nobody who improves is
\* within the 40% there.
LEMMA SeriesShape ==
  ASSUME NEW archetype \in DOMAIN ARCHETYPES, NEW scaleMax \in Nat, scaleMax >= 2,
         NEW cycles \in Nat \ {0}, NEW offset \in -1 .. 1, NEW i \in 1 .. cycles
  PROVE  LET r == ScoreSeries(archetype, scaleMax, cycles, offset)
         IN  /\ DOMAIN r = 1 .. cycles /\ r[i] \in 1 .. scaleMax
             /\ i > 1 => r[i - 1] \in 1 .. scaleMax /\ r[i] - r[i - 1] \in -1 .. 1
             /\ i > 1 /\ archetype = "stagnant" => r[i] = r[i - 1]
             /\ i > 1 /\ cycles - i < 2 /\ scaleMax >= 5 =>
                  /\ archetype = "improving" => r[i - 1] < r[i] /\ 5 * r[i] > 2 * scaleMax
                  /\ archetype = "regressing" => r[i] < r[i - 1]
<1> DEFINE e(k) == Rounded(ARCHETYPES[archetype][k] * scaleMax, 100)
           End(k) == e(k) + offset
           over == Overflow(End(1), End(2), scaleMax)
           shift == Underflow(End(1) - over, End(2) - over) - over
           r == ScoreSeries(archetype, scaleMax, cycles, offset)
<1>1. /\ e(1) \in 0 .. scaleMax /\ e(2) \in 0 .. scaleMax
      /\ e(1) - e(2) < scaleMax /\ e(2) - e(1) < scaleMax
      /\ archetype = "improving" => e(1) <= e(2)
      /\ archetype = "improving" /\ scaleMax >= 5 =>
           e(1) + 2 <= e(2) /\ 5 * e(1) > 2 * scaleMax
      /\ archetype = "regressing" /\ scaleMax >= 5 => e(2) + 2 <= e(1)
      /\ archetype = "stagnant" => e(1) = e(2)
  BY EndsOfArchetypes
<1>2. PICK e1, e2 : e1 = e(1) /\ e2 = e(2)
  OBVIOUS
<1>3. /\ End(1) = e1 + offset /\ End(2) = e2 + offset
      /\ e1 \in Int /\ e2 \in Int
  BY <1>1, <1>2
<1>4. /\ shift \in Int
      /\ e1 + offset + shift \in 1 .. scaleMax /\ e2 + offset + shift \in 1 .. scaleMax
      /\ e1 + offset <= scaleMax /\ e2 + offset <= scaleMax => shift >= 0
      /\ e1 + offset <= scaleMax + 1 /\ e2 + offset <= scaleMax + 1 => shift >= -1
  <2>1. /\ End(1) \in Int /\ End(2) \in Int
        /\ End(1) - End(2) < scaleMax /\ End(2) - End(1) < scaleMax
    BY <1>1, <1>2, <1>3
  <2> HIDE DEF End
  <2>2. QED
    BY <1>3, <2>1, ShiftFits
<1>5. r = Ramp(End(1) + shift, End(2) + shift, cycles)
  BY DEF ScoreSeries
<1> HIDE DEF shift
<1>6. PICK a \in 1 .. scaleMax, b \in 1 .. scaleMax :
        a = e1 + offset + shift /\ b = e2 + offset + shift
  BY <1>4
<1>7. r = Ramp(a, b, cycles)
  BY <1>3, <1>5, <1>6
<1> HIDE DEF r, End, e
<1>8. archetype = "improving" /\ scaleMax >= 5 => a + 2 <= b /\ 5 * (a + 1) > 2 * scaleMax
  BY <1>1, <1>2, <1>3, <1>4, <1>6
<1>9. archetype = "regressing" /\ scaleMax >= 5 => b + 2 <= a
  BY <1>1, <1>2, <1>3, <1>4, <1>6
<1>10. archetype = "stagnant" => a = b
  BY <1>1, <1>2, <1>6
<1> DEFINE span == IF b >= a THEN b - a ELSE a - b
           Shape(j) == /\ DOMAIN r = 1 .. cycles
                       /\ r[j] \in Int
                       /\ a <= b => a <= r[j] /\ r[j] <= b
                       /\ b <= a => b <= r[j] /\ r[j] <= a
                       /\ j > 1 /\ cycles - j < span => r[j] = r[j - 1] + Towards(a, b)
                       /\ j > 1 => r[j] = r[j - 1] \/ r[j] = r[j - 1] + Towards(a, b)
<1>11. \A j \in 1 .. cycles : Shape(j)
  <2>1. SUFFICES ASSUME NEW j \in 1 .. cycles PROVE Shape(j)
    OBVIOUS
  <2>2. a \in Int /\ b \in Int
    OBVIOUS
  <2>3. LET R == Ramp(a, b, cycles)
        IN  /\ DOMAIN R = 1 .. cycles
            /\ R[j] \in Int
            /\ a <= b => a <= R[j] /\ R[j] <= b
            /\ b <= a => b <= R[j] /\ R[j] <= a
            /\ j > 1 /\ cycles - j < span => R[j] = R[j - 1] + Towards(a, b)
            /\ j > 1 => R[j] = R[j - 1] \/ R[j] = R[j - 1] + Towards(a, b)
    BY <2>2, RampShape
  <2>4. QED
    BY <1>7, <2>3, Zenon
<1>12. Shape(i) /\ (i > 1 => Shape(i - 1))
  BY <1>11
<1>13. Towards(a, b) = IF a < b THEN 1 ELSE IF a > b THEN -1 ELSE 0
  BY DEF Towards
<1>14. DOMAIN r = 1 .. cycles /\ r[i] \in 1 .. scaleMax
  BY <1>12
<1>15. i > 1 => r[i - 1] \in 1 .. scaleMax /\ r[i] - r[i - 1] \in -1 .. 1
  BY <1>12, <1>13
<1>16. i > 1 /\ archetype = "stagnant" => r[i] = r[i - 1]
  BY <1>10, <1>12
<1>17. i > 1 /\ cycles - i < 2 /\ scaleMax >= 5 /\ archetype = "improving" =>
         r[i - 1] < r[i] /\ 5 * r[i] > 2 * scaleMax
  <2>1. SUFFICES ASSUME i > 1, cycles - i < 2, scaleMax >= 5, archetype = "improving"
                 PROVE  r[i - 1] < r[i] /\ 5 * r[i] > 2 * scaleMax
    OBVIOUS
  <2>2. r[i] = r[i - 1] + 1 /\ a <= r[i - 1] /\ r[i - 1] \in Int
    BY <1>8, <1>12, <1>13, <2>1
  <2>3. QED
    BY <1>8, <2>1, <2>2
<1>18. i > 1 /\ cycles - i < 2 /\ scaleMax >= 5 /\ archetype = "regressing" => r[i] < r[i - 1]
  <2>1. SUFFICES ASSUME i > 1, cycles - i < 2, scaleMax >= 5, archetype = "regressing"
                 PROVE  r[i] < r[i - 1]
    OBVIOUS
  <2>2. r[i] = r[i - 1] + (-1) /\ r[i - 1] \in Int
    BY <1>9, <1>12, <1>13, <2>1
  <2>3. QED
    BY <2>2
<1>19. QED
  BY <1>14, <1>15, <1>16, <1>17, <1>18 DEF r

-----------------------------------------------------------------------------
(* The tables of the seed. *)

LEMMA Batches ==
  ASSUME NEW c \in DOMAIN COHORTS
  PROVE  /\ COHORTS[c].scale \in {5, 10}
         /\ COHORTS[c].closed \in Nat /\ COHORTS[c].closed >= 2
         /\ COHORTS[c].open \in BOOLEAN
         /\ COHORTS[c].students \in Nat
         /\ c \in 1 .. 5
<1>1. DOMAIN COHORTS = 1 .. 5
  BY DEF COHORTS
<1>2. c \in {1, 2, 3, 4, 5}
  BY <1>1
<1> DEFINE Fine(b) == /\ b.scale \in {5, 10}
                       /\ b.closed \in Nat /\ b.closed >= 2
                       /\ b.open \in BOOLEAN
                       /\ b.students \in Nat
<1>4. /\ COHORTS[1] = Batch(5, 8, FALSE, 12) /\ COHORTS[2] = Batch(10, 8, FALSE, 12)
      /\ COHORTS[3] = Batch(5, 8, FALSE, 12) /\ COHORTS[4] = Batch(5, 6, TRUE, 14)
      /\ COHORTS[5] = Batch(10, 2, TRUE, 14)
  BY DEF COHORTS
<1>5. /\ Fine(Batch(5, 8, FALSE, 12)) /\ Fine(Batch(10, 8, FALSE, 12))
      /\ Fine(Batch(5, 6, TRUE, 14)) /\ Fine(Batch(10, 2, TRUE, 14))
  BY DEF Batch
<1> HIDE DEF Fine
<1>6. Fine(COHORTS[c])
  BY <1>2, <1>4, <1>5
<1>7. QED
  BY <1>1, <1>6 DEF Fine

LEMMA CyclesAre ==
  ASSUME NEW c \in DOMAIN COHORTS
  PROVE  LET n == COHORTS[c].closed + (IF COHORTS[c].open THEN 1 ELSE 0)
         IN  /\ Cycles(c) = 1 .. n /\ n \in Nat \ {0}
             /\ Cardinality(Cycles(c)) = n
             /\ n - COHORTS[c].closed \in {0, 1}
<1> DEFINE n == COHORTS[c].closed + (IF COHORTS[c].open THEN 1 ELSE 0)
<1>1. Cycles(c) = 1 .. n
  BY DEF Cycles
<1>2. n \in Nat \ {0} /\ n - COHORTS[c].closed \in {0, 1}
  BY Batches
<1> HIDE DEF n
<1>3. Cardinality(1 .. n) = n
  <2>1. 1 \in Int /\ n \in Int
    BY <1>2
  <2>2. Cardinality(1 .. n) = IF 1 > n THEN 0 ELSE n - 1 + 1
    BY <2>1, FS_Interval
  <2>3. QED
    BY <1>2, <2>2
<1>4. QED
  BY <1>1, <1>2, <1>3 DEF n

LEMMA ArchetypeType ==
  ASSUME NEW s \in Nat
  PROVE  Archetype(s) \in DOMAIN ARCHETYPES
<1>1. DOMAIN ARCHETYPES = {"improving", "steady", "stagnant", "regressing"}
  BY DEF ARCHETYPES
<1>2. Len(ARCHETYPE_CYCLE) = 8 /\ \A k \in 1 .. 8 :
        ARCHETYPE_CYCLE[k] \in {"improving", "steady", "stagnant", "regressing"}
  BY DEF ARCHETYPE_CYCLE
<1>3. (s % 8) + 1 \in 1 .. 8
  OBVIOUS
<1>4. QED
  BY <1>1, <1>2, <1>3 DEF Archetype, Cyclic

LEMMA OffsetType ==
  ASSUME NEW k \in Nat
  PROVE  Cyclic(OFFSET_PATTERN, k) \in -1 .. 1
<1>1. Len(OFFSET_PATTERN) = 8 /\ \A j \in 1 .. 8 : OFFSET_PATTERN[j] \in -1 .. 1
  BY DEF OFFSET_PATTERN
<1>2. (k % 8) + 1 \in 1 .. 8
  OBVIOUS
<1>3. QED
  BY <1>1, <1>2 DEF Cyclic

SeedStatuses == {"draft", "self_submitted", "mentor_review", "agreed", "completed"}

LEMMA StatusType ==
  ASSUME NEW c \in DOMAIN COHORTS, NEW s \in Pupils(c), NEW p \in Cycles(c)
  PROVE  /\ StatusOf(c, s, p) \in SeedStatuses
         /\ p <= COHORTS[c].closed => StatusOf(c, s, p) = "completed"
<1>1. p \in Int /\ s \in Nat /\ c \in 1 .. 5 /\ COHORTS[c].closed \in Nat
  BY CyclesAre, Batches DEF Pupils
<1>2. PICK closed \in Nat : closed = COHORTS[c].closed
  BY <1>1
<1>3. p <= COHORTS[c].closed => StatusOf(c, s, p) = "completed"
  <2>1. SUFFICES ASSUME p <= closed PROVE StatusOf(c, s, p) = "completed"
    BY <1>2
  <2>2. ~ (p > closed)
    BY <1>1, <2>1
  <2>3. QED
    BY <1>2, <2>1, <2>2, Zenon DEF StatusOf
<1>4. ASSUME ~ (p <= COHORTS[c].closed), Pinned(c, s)
      PROVE  StatusOf(c, s, p) \in SeedStatuses
  <2>1. Len(DEMO_ROSTER_STATUSES) = 5 /\ \A k \in 1 .. 5 : DEMO_ROSTER_STATUSES[k] \in SeedStatuses
    BY DEF DEMO_ROSTER_STATUSES, SeedStatuses
  <2>2. s + 1 \in 1 .. 5
    BY <1>1, <1>4, <2>1 DEF Pinned
  <2>3. StatusOf(c, s, p) = DEMO_ROSTER_STATUSES[s + 1]
    BY <1>1, <1>4 DEF StatusOf
  <2>4. QED
    BY <2>1, <2>2, <2>3
<1>5. ASSUME ~ (p <= COHORTS[c].closed), ~ Pinned(c, s)
      PROVE  StatusOf(c, s, p) \in SeedStatuses
  <2>1. Len(OPEN_CYCLE_SPREAD) = 14 /\ \A k \in 1 .. 14 : OPEN_CYCLE_SPREAD[k] \in SeedStatuses
    BY DEF OPEN_CYCLE_SPREAD, SeedStatuses
  <2>2. StatusOf(c, s, p) = Cyclic(OPEN_CYCLE_SPREAD, s + 3 * (c - 1))
    BY <1>1, <1>5 DEF StatusOf
  <2>3. ((s + 3 * (c - 1)) % 14) + 1 \in 1 .. 14
    BY <1>1
  <2>4. QED
    BY <2>1, <2>2, <2>3 DEF Cyclic
<1>6. QED
  BY <1>3, <1>4, <1>5 DEF SeedStatuses

\* The series of a student in a dimension has a score on the scale per cycle.
LEMMA SeriesType ==
  ASSUME NEW c \in DOMAIN COHORTS, NEW s \in Pupils(c), NEW d \in Dims, NEW p \in Cycles(c)
  PROVE  LET r == Series(c, s, d)
             scaleMax == COHORTS[c].scale
         IN  /\ r[p] \in 1 .. scaleMax
             /\ p > 1 => p - 1 \in Cycles(c) /\ r[p - 1] \in 1 .. scaleMax
             /\ p > 1 /\ Archetype(s) = "stagnant" => r[p] = r[p - 1]
             /\ p > 1 /\ p >= COHORTS[c].closed =>
                  /\ Archetype(s) = "improving" => r[p - 1] < r[p] /\ 5 * r[p] > 2 * scaleMax
                  /\ Archetype(s) = "regressing" => r[p] < r[p - 1]
<1> DEFINE n == COHORTS[c].closed + (IF COHORTS[c].open THEN 1 ELSE 0)
<1>1. /\ Cycles(c) = 1 .. n /\ n \in Nat \ {0} /\ Cardinality(Cycles(c)) = n
      /\ n - COHORTS[c].closed \in {0, 1} /\ COHORTS[c].closed \in Nat
      /\ COHORTS[c].scale \in {5, 10}
  BY CyclesAre, Batches
<1> HIDE DEF n
<1>2. s \in Nat /\ d + 3 * s \in Nat
  BY Batches DEF Pupils, Dims
<1>3. Archetype(s) \in DOMAIN ARCHETYPES /\ Cyclic(OFFSET_PATTERN, d + 3 * s) \in -1 .. 1
  BY <1>2, ArchetypeType, OffsetType
<1>4. Series(c, s, d) = ScoreSeries(Archetype(s), COHORTS[c].scale, n,
                                    Cyclic(OFFSET_PATTERN, d + 3 * s))
  BY <1>1 DEF Series
<1>5. p \in 1 .. n /\ COHORTS[c].scale \in Nat /\ COHORTS[c].scale >= 5
      /\ (p >= COHORTS[c].closed => n - p < 2)
  BY <1>1
<1>6. LET r == ScoreSeries(Archetype(s), COHORTS[c].scale, n, Cyclic(OFFSET_PATTERN, d + 3 * s))
      IN  /\ r[p] \in 1 .. COHORTS[c].scale
          /\ p > 1 => r[p - 1] \in 1 .. COHORTS[c].scale
          /\ p > 1 /\ Archetype(s) = "stagnant" => r[p] = r[p - 1]
          /\ p > 1 /\ n - p < 2 =>
               /\ Archetype(s) = "improving" =>
                    r[p - 1] < r[p] /\ 5 * r[p] > 2 * COHORTS[c].scale
               /\ Archetype(s) = "regressing" => r[p] < r[p - 1]
  <2>1. PICK arch, sc, off, pp :
          arch = Archetype(s) /\ sc = COHORTS[c].scale /\ pp = p
          /\ off = Cyclic(OFFSET_PATTERN, d + 3 * s)
    OBVIOUS
  <2>2. /\ arch \in DOMAIN ARCHETYPES /\ sc \in Nat /\ sc >= 2 /\ off \in -1 .. 1
        /\ n \in Nat \ {0} /\ pp \in 1 .. n
    BY <1>1, <1>3, <1>5, <2>1
  <2>3. LET r == ScoreSeries(arch, sc, n, off)
        IN  /\ DOMAIN r = 1 .. n /\ r[pp] \in 1 .. sc
            /\ pp > 1 => r[pp - 1] \in 1 .. sc /\ r[pp] - r[pp - 1] \in -1 .. 1
            /\ pp > 1 /\ arch = "stagnant" => r[pp] = r[pp - 1]
            /\ pp > 1 /\ n - pp < 2 /\ sc >= 5 =>
                 /\ arch = "improving" => r[pp - 1] < r[pp] /\ 5 * r[pp] > 2 * sc
                 /\ arch = "regressing" => r[pp] < r[pp - 1]
    BY <2>2, SeriesShape
  <2>4. sc >= 5
    BY <1>5, <2>1
  <2>5. LET r == ScoreSeries(arch, sc, n, off)
        IN  /\ r[pp] \in 1 .. sc
            /\ pp > 1 => r[pp - 1] \in 1 .. sc
            /\ pp > 1 /\ arch = "stagnant" => r[pp] = r[pp - 1]
            /\ pp > 1 /\ n - pp < 2 =>
                 /\ arch = "improving" => r[pp - 1] < r[pp] /\ 5 * r[pp] > 2 * sc
                 /\ arch = "regressing" => r[pp] < r[pp - 1]
    BY <2>3, <2>4, Zenon
  <2>6. QED
    BY <2>1, <2>5, Zenon
<1>7. p > 1 => p - 1 \in Cycles(c)
  BY <1>1, <1>5
<1>8. QED
  BY <1>4, <1>5, <1>6, <1>7

-----------------------------------------------------------------------------
(* The rows of the seed. *)

LEMMA SeededRowsAre ==
  ASSUME NEW c \in DOMAIN COHORTS, NEW s \in Pupils(c)
  PROVE  /\ SeededRows[c][s] = [p \in Cycles(c) |-> Seeded(c, s, p)]
         /\ \A p \in Cycles(c) : SeededRows[c][s][p] = Seeded(c, s, p)
<1>1. SeededRows[c] = [t \in Pupils(c) |-> [p \in Cycles(c) |-> Seeded(c, t, p)]]
  BY Zenon DEF SeededRows
<1>2. SeededRows[c][s] = [p \in Cycles(c) |-> Seeded(c, s, p)]
  BY <1>1, Zenon
<1>3. QED
  BY <1>2, Zenon

LEMMA SeededFields ==
  ASSUME NEW c \in DOMAIN COHORTS, NEW s \in Pupils(c), NEW p \in Cycles(c)
  PROVE  \E st, sm, se, ag, fl :
           /\ Seeded(c, s, p) = [status |-> st, stamps |-> sm, self |-> se,
                                 agreed |-> ag, flagged |-> fl]
           /\ st = Seeded(c, s, p).status /\ sm = Seeded(c, s, p).stamps
           /\ se = Seeded(c, s, p).self /\ ag = Seeded(c, s, p).agreed
           /\ fl = Seeded(c, s, p).flagged
           /\ st = StatusOf(c, s, p)
           /\ sm = (IF st # "draft" THEN {"submittedAt"} ELSE {})
                   \cup (IF st \in {"agreed", "completed"}
                         THEN {"mentorSubmittedAt"} ELSE {})
                   \cup (IF st = "completed" THEN {"completedAt"} ELSE {})
           /\ se = [d \in Dims |-> IF st # "draft" THEN SomeScore ELSE NoScore]
           /\ ag = [d \in Dims |-> IF st \in {"agreed", "completed"}
                                   THEN Series(c, s, d)[p] ELSE NoScore]
           /\ fl = {d \in Dims : Flagged(c, s, p, d)}
BY Zenon DEF Seeded

\* Every row is one the service could have stored, and tells its own story.
LEMMA SeededRowIsLawful ==
  ASSUME NEW c \in DOMAIN COHORTS, NEW s \in Pupils(c), NEW p \in Cycles(c)
  PROVE  LET a == Seeded(c, s, p)
             scores == (1 .. COHORTS[c].scale) \cup {NoScore}
         IN  /\ a.status \in SeedStatuses
             /\ a.self \in [Dims -> scores] /\ a.agreed \in [Dims -> scores]
             /\ a.flagged \subseteq Dims
             /\ a.status # "completed" => a.flagged = {}
             /\ a.status # "draft" => \A d \in Dims : a.self[d] # NoScore
             /\ a.status \in {"agreed", "completed"} => \A d \in Dims : a.agreed[d] # NoScore
<1> DEFINE scores == (1 .. COHORTS[c].scale) \cup {NoScore}
<1>1. StatusOf(c, s, p) \in SeedStatuses
  BY StatusType
<1>2. \A d \in Dims : Series(c, s, d)[p] \in 1 .. COHORTS[c].scale
  BY SeriesType
<1>3. COHORTS[c].scale \in Nat /\ COHORTS[c].scale >= 5 /\ NoScore \notin Int
  BY Batches, NoScoreAssumption
<1>4. PICK status, stamps, self, agreed, flagged :
        /\ status = Seeded(c, s, p).status /\ stamps = Seeded(c, s, p).stamps
        /\ self = Seeded(c, s, p).self /\ agreed = Seeded(c, s, p).agreed
        /\ flagged = Seeded(c, s, p).flagged
        /\ status = StatusOf(c, s, p)
        /\ self = [d \in Dims |-> IF status # "draft" THEN SomeScore ELSE NoScore]
        /\ agreed = [d \in Dims |-> IF status \in {"agreed", "completed"}
                                    THEN Series(c, s, d)[p] ELSE NoScore]
        /\ flagged = {d \in Dims : Flagged(c, s, p, d)}
  BY SeededFields
<1>5. /\ self \in [Dims -> scores]
      /\ status # "draft" => \A d \in Dims : self[d] # NoScore
  BY <1>3, <1>4 DEF SomeScore
<1>6. agreed \in [Dims -> scores]
  BY <1>2, <1>4
<1>7. status \in {"agreed", "completed"} => \A d \in Dims : agreed[d] # NoScore
  BY <1>2, <1>3, <1>4
<1>8. flagged \subseteq Dims /\ (status # "completed" => flagged = {})
  BY <1>4 DEF Flagged
<1>9. QED
  BY <1>1, <1>4, <1>5, <1>6, <1>7, <1>8, Zenon

LEMMA SeededTyped ==
  ASSUME NEW c \in DOMAIN COHORTS, NEW s \in Pupils(c)
  PROVE  Lifecycle(c, s)!TypeOK
<1> DEFINE scale == COHORTS[c].scale
           scores == (1 .. scale) \cup {NoScore}
           Row == [status: SeedStatuses,
                   stamps: SUBSET {"submittedAt", "mentorSubmittedAt", "completedAt"},
                   self: [Dims -> scores], agreed: [Dims -> scores],
                   flagged: SUBSET Dims]
<1>1. \A p \in Cycles(c) : Seeded(c, s, p) \in Row
  <2> SUFFICES ASSUME NEW p \in Cycles(c) PROVE Seeded(c, s, p) \in Row
    OBVIOUS
  <2>1. PICK st, sm, se, ag, fl :
          /\ Seeded(c, s, p) = [status |-> st, stamps |-> sm, self |-> se,
                                agreed |-> ag, flagged |-> fl]
          /\ st = Seeded(c, s, p).status /\ se = Seeded(c, s, p).self
          /\ ag = Seeded(c, s, p).agreed /\ fl = Seeded(c, s, p).flagged
          /\ sm = (IF st # "draft" THEN {"submittedAt"} ELSE {})
                  \cup (IF st \in {"agreed", "completed"}
                        THEN {"mentorSubmittedAt"} ELSE {})
                  \cup (IF st = "completed" THEN {"completedAt"} ELSE {})
    BY SeededFields
  <2>3. /\ st \in SeedStatuses /\ fl \subseteq Dims
        /\ se \in [Dims -> scores] /\ ag \in [Dims -> scores]
    BY <2>1, SeededRowIsLawful, Zenon
  <2>5. sm \subseteq {"submittedAt", "mentorSubmittedAt", "completedAt"}
    BY <2>1
  <2> HIDE DEF scores
  <2>6. [status |-> st, stamps |-> sm, self |-> se, agreed |-> ag, flagged |-> fl] \in Row
    BY <2>3, <2>5
  <2>7. QED
    BY <2>1, <2>6, Zenon
<1> HIDE DEF Row
<1>2. SeededRows[c][s] \in [Cycles(c) -> Row]
  <2>1. [p \in Cycles(c) |-> Seeded(c, s, p)] \in [Cycles(c) -> Row]
    BY <1>1
  <2>2. QED
    BY <2>1, SeededRowsAre, Zenon
<1>3. [p \in Cycles(c) |-> 0] \in [Cycles(c) -> Nat]
  OBVIOUS
<1>4. \A R : <<>> \in [{} -> R]
  OBVIOUS
<1>5. QED
  BY <1>2, <1>3, <1>4, Zenon
     DEF Row, Lifecycle!TypeOK, Lifecycle!Row, Lifecycle!Statuses, Lifecycle!Stamps,
         Lifecycle!ScoreMap, SeedStatuses

LEMMA SeededTold ==
  ASSUME NEW c \in DOMAIN COHORTS, NEW s \in Pupils(c)
  PROVE  /\ Lifecycle(c, s)!AgreedIsComplete
         /\ Lifecycle(c, s)!SubmittedIsScored
         /\ Lifecycle(c, s)!StampsInOrder
<1> DEFINE Tells(a) ==
             /\ a.status # "draft" => \A d \in Dims : a.self[d] # NoScore
             /\ a.status \in {"agreed", "completed"} => \A d \in Dims : a.agreed[d] # NoScore
             /\ "submittedAt" \in a.stamps <=> a.status # "draft"
             /\ a.status \in {"agreed", "completed"} => "mentorSubmittedAt" \in a.stamps
             /\ a.status = "completed" => "completedAt" \in a.stamps
             /\ "completedAt" \in a.stamps => "mentorSubmittedAt" \in a.stamps
<1>1. ASSUME NEW p \in Cycles(c) PROVE Tells(Seeded(c, s, p))
  <2>1. PICK st, sm :
          /\ st = Seeded(c, s, p).status /\ sm = Seeded(c, s, p).stamps
          /\ sm = (IF st # "draft" THEN {"submittedAt"} ELSE {})
                  \cup (IF st \in {"agreed", "completed"}
                        THEN {"mentorSubmittedAt"} ELSE {})
                  \cup (IF st = "completed" THEN {"completedAt"} ELSE {})
    BY SeededFields
  <2>2. /\ "submittedAt" \in sm <=> st # "draft"
        /\ st \in {"agreed", "completed"} => "mentorSubmittedAt" \in sm
        /\ st = "completed" => "completedAt" \in sm
        /\ "completedAt" \in sm => "mentorSubmittedAt" \in sm
    BY <2>1
  <2>3. QED
    BY <2>1, <2>2, SeededRowIsLawful, Zenon
<1> HIDE DEF Tells
<1>2. \A p \in Cycles(c) : Tells(SeededRows[c][s][p])
  BY <1>1, SeededRowsAre, Zenon
<1>3. QED
  BY <1>2, Zenon
     DEF Tells, Lifecycle!AgreedIsComplete, Lifecycle!SubmittedIsScored,
         Lifecycle!StampsInOrder, Lifecycle!Complete

\* All the cycles before a completed one are completed.
LEMMA CompletedInOrder ==
  ASSUME NEW c \in DOMAIN COHORTS, NEW s \in Pupils(c), NEW p \in Cycles(c), NEW q \in Cycles(c),
         q < p
  PROVE  StatusOf(c, s, q) = "completed"
<1>1. PICK n, closed : /\ Cycles(c) = 1 .. n /\ n \in Nat /\ closed = COHORTS[c].closed
                       /\ closed \in Nat /\ n - closed \in {0, 1}
  BY CyclesAre, Batches
<1>2. q <= closed
  BY <1>1
<1>3. QED
  BY <1>1, <1>2, StatusType

\* The row the service would compare with is that of the cycle before.
LEMMA PreviousIsBefore ==
  ASSUME NEW c \in DOMAIN COHORTS, NEW s \in Pupils(c), NEW p \in Cycles(c)
  PROVE  Lifecycle(c, s)!PreviousRows(p) = IF p = 1 THEN {} ELSE {p - 1}
<1> DEFINE earlier == {b \in Cycles(c) : /\ [x \in Cycles(c) |-> s][b] = [x \in Cycles(c) |-> s][p]
                                         /\ SeededRows[c][s][b].status = "completed"
                                         /\ [x \in Cycles(c) |-> x][b] < [x \in Cycles(c) |-> x][p]}
<1>1. \A b \in Cycles(c) : b < p => SeededRows[c][s][b].status = "completed"
  <2> SUFFICES ASSUME NEW b \in Cycles(c), b < p
               PROVE  SeededRows[c][s][b].status = "completed"
    OBVIOUS
  <2>1. StatusOf(c, s, b) = "completed"
    BY CompletedInOrder
  <2>2. Seeded(c, s, b).status = StatusOf(c, s, b)
    BY SeededFields
  <2>3. QED
    BY <2>1, <2>2, SeededRowsAre, Zenon
<1>2. earlier = {b \in Cycles(c) : b < p}
  BY <1>1
<1>3. PICK n : n \in Nat /\ Cycles(c) = 1 .. n /\ p \in 1 .. n
  BY CyclesAre
<1>4. {b \in earlier : \A k \in earlier :
         [x \in Cycles(c) |-> x][k] <= [x \in Cycles(c) |-> x][b]}
      = IF p = 1 THEN {} ELSE {p - 1}
  <2> HIDE DEF earlier
  <2>1. earlier = 1 .. p - 1
    BY <1>2, <1>3
  <2>2. \A b \in earlier : [x \in Cycles(c) |-> x][b] = b
    BY <1>3, <2>1
  <2>3. {b \in earlier : \A k \in earlier :
           [x \in Cycles(c) |-> x][k] <= [x \in Cycles(c) |-> x][b]}
        = {b \in 1 .. p - 1 : \A k \in 1 .. p - 1 : k <= b}
    BY <2>1, <2>2
  <2>4. {b \in 1 .. p - 1 : \A k \in 1 .. p - 1 : k <= b} = IF p = 1 THEN {} ELSE {p - 1}
    BY <1>3
  <2>5. QED
    BY <2>3, <2>4, Zenon
<1>5. QED
  BY <1>4, Zenon DEF Lifecycle!PreviousRows

\* A completed row is flagged by the service's rule, against the row before.
LEMMA SeededFlags ==
  ASSUME NEW c \in DOMAIN COHORTS, NEW s \in Pupils(c), NEW p \in Cycles(c)
  PROVE  LET a == SeededRows[c][s][p]
         IN  IF a.status # "completed" THEN a.flagged = {}
             ELSE \E q \in Lifecycle(c, s)!PreviousAgreedScores(p) :
                    a.flagged = Lifecycle(c, s)!Recommended(a.agreed, COHORTS[c].scale, q)
<1>1. PICK status, agreed, flagged :
        /\ status = Seeded(c, s, p).status /\ agreed = Seeded(c, s, p).agreed
        /\ flagged = Seeded(c, s, p).flagged
        /\ status = StatusOf(c, s, p)
        /\ agreed = [d \in Dims |-> IF status \in {"agreed", "completed"}
                                    THEN Series(c, s, d)[p] ELSE NoScore]
        /\ flagged = {d \in Dims : Flagged(c, s, p, d)}
  BY SeededFields
<1>2. status # "completed" => flagged = {}
  BY <1>1, SeededRowIsLawful, Zenon
<1>3. ASSUME status = "completed"
      PROVE  \E q \in Lifecycle(c, s)!PreviousAgreedScores(p) :
               flagged = Lifecycle(c, s)!Recommended(agreed, COHORTS[c].scale, q)
  <2> DEFINE before(d) == IF p = 1 THEN NoScore ELSE Series(c, s, d)[p - 1]
             Rec(x, y) == \/ 5 * x <= 2 * COHORTS[c].scale
                          \/ y # NoScore /\ x <= y
  <2>1. flagged = {d \in Dims : Rec(Series(c, s, d)[p], before(d))}
    BY <1>1, <1>3, Zenon DEF Flagged, Rule!IsCoachingRecommended
  <2>2. \A d \in Dims : agreed[d] = Series(c, s, d)[p]
    BY <1>1, <1>3
  <2>3. PICK q \in Lifecycle(c, s)!PreviousAgreedScores(p) : \A d \in Dims : q[d] = before(d)
    <3>1. CASE p = 1
      <4>1. Lifecycle(c, s)!PreviousAgreedScores(p) = {[d \in Dims |-> NoScore]}
        BY <3>1, PreviousIsBefore, Zenon
           DEF Lifecycle!PreviousAgreedScores, Lifecycle!NoScores
      <4>2. QED
        BY <3>1, <4>1
    <3>2. CASE p # 1
      <4>1. Lifecycle(c, s)!PreviousAgreedScores(p)
              = {SeededRows[c][s][b].agreed : b \in {p - 1}}
        <5>1. Lifecycle(c, s)!PreviousRows(p) = {p - 1} /\ {p - 1} # {}
          BY <3>2, PreviousIsBefore
        <5>2. QED
          BY <5>1, Zenon DEF Lifecycle!PreviousAgreedScores
      <4>2. p - 1 \in Cycles(c) /\ p - 1 < p
        <5>1. PICK n : n \in Nat /\ Cycles(c) = 1 .. n
          BY CyclesAre
        <5>2. QED
          BY <3>2, <5>1
      <4>3. StatusOf(c, s, p - 1) = "completed"
        BY <4>2, CompletedInOrder
      <4>4. PICK st, ag :
              /\ st = StatusOf(c, s, p - 1) /\ ag = Seeded(c, s, p - 1).agreed
              /\ ag = [d \in Dims |-> IF st \in {"agreed", "completed"}
                                      THEN Series(c, s, d)[p - 1] ELSE NoScore]
        BY <4>2, SeededFields
      <4>5. ag \in Lifecycle(c, s)!PreviousAgreedScores(p)
        <5>1. SeededRows[c][s][p - 1] = Seeded(c, s, p - 1)
          BY <4>2, SeededRowsAre
        <5>2. SeededRows[c][s][p - 1].agreed = ag
          BY <4>4, <5>1, Zenon
        <5>3. ag \in {SeededRows[c][s][b].agreed : b \in {p - 1}}
          BY <5>2, Zenon
        <5>4. QED
          BY <4>1, <5>3, Zenon
      <4>6. \A d \in Dims : ag[d] = before(d)
        BY <3>2, <4>3, <4>4
      <4>7. QED
        BY <4>5, <4>6, Zenon
    <3>3. QED
      BY <3>1, <3>2
  <2> HIDE DEF before, Rec
  <2>4. flagged = {d \in Dims : Rec(agreed[d], q[d])}
    BY <2>1, <2>2, <2>3
  <2>5. QED
    BY <2>4, Zenon DEF Rec, Lifecycle!Recommended, Lifecycle!IsCoachingRecommended
<1>4. QED
  BY <1>1, <1>2, <1>3, SeededRowsAre, Zenon

LEMMA LawfulSeed == SeedIsLawful
<1> SUFFICES ASSUME NEW c \in DOMAIN COHORTS, NEW s \in Pupils(c)
             PROVE  /\ Lifecycle(c, s)!TypeOK
                    /\ Lifecycle(c, s)!AgreedIsComplete
                    /\ Lifecycle(c, s)!SubmittedIsScored
                    /\ Lifecycle(c, s)!StampsInOrder
                    /\ \A p \in Cycles(c) :
                         LET a == SeededRows[c][s][p]
                         IN  IF a.status # "completed" THEN a.flagged = {}
                             ELSE \E q \in Lifecycle(c, s)!PreviousAgreedScores(p) :
                                    a.flagged = Lifecycle(c, s)!Recommended(
                                                  a.agreed, COHORTS[c].scale, q)
  BY Zenon DEF SeedIsLawful
<1>1. QED
  BY SeededTyped, SeededTold, SeededFlags, Zenon

\* Whatever the seed leaves behind when it has run to its end, the service could
\* have written: its rows bypass every check of AssessmentsService, and pass them
\* (seed.ts:796, :873).
THEOREM SeededAlwaysLawful == Spec => []SeededIsLawful
<1>1. SeededIsLawful
  BY LawfulSeed DEF SeededIsLawful
<1>2. QED
  BY <1>1, PTL

-----------------------------------------------------------------------------
(* What the dashboards make of the seed. *)

LEMMA LastIsCompleted ==
  ASSUME NEW c \in DOMAIN COHORTS, NEW s \in Pupils(c)
  PROVE  /\ LastCompleted(c, s) \in Cycles(c)
         /\ StatusOf(c, s, LastCompleted(c, s)) = "completed"
         /\ LastCompleted(c, s) >= COHORTS[c].closed
<1> DEFINE S == {p \in Cycles(c) : StatusOf(c, s, p) = "completed"}
<1>1. PICK n, closed : /\ Cycles(c) = 1 .. n /\ n \in Nat /\ closed = COHORTS[c].closed
                       /\ closed \in Nat /\ n - closed \in {0, 1} /\ closed >= 2
  BY CyclesAre, Batches
<1>2. closed \in S
  BY <1>1, StatusType
<1>3. \E x \in S : \A y \in S : x >= y
  <2> DEFINE top == IF n \in S THEN n ELSE closed
  <2>1. top \in S /\ \A y \in S : top >= y
    BY <1>1, <1>2
  <2>2. QED
    BY <2>1, Zenon
<1> HIDE DEF S
<1>4. Max(S) \in S /\ \A y \in S : Max(S) >= y
  BY <1>3, Zenon DEF Max
<1>5. LastCompleted(c, s) = Max(S)
  BY Zenon DEF LastCompleted, S
<1>6. QED
  BY <1>1, <1>2, <1>4, <1>5 DEF S

\* What the most recent completed row holds: every dimension flagged for those
\* who regress or stagnate, none for those who improve, and these above the 40%.
LEMMA LastRow ==
  ASSUME NEW c \in DOMAIN COHORTS, NEW s \in Pupils(c)
  PROVE  /\ Archetype(s) = "improving" =>
              /\ FlagsOf(c, s) = {}
              /\ \A d \in Dims :
                   LET x == SeededRows[c][s][LastCompleted(c, s)].agreed[d]
                   IN  x \in 0 .. COHORTS[c].scale /\ 5 * x > 2 * COHORTS[c].scale
         /\ Archetype(s) \in {"regressing", "stagnant"} => FlagsOf(c, s) = Dims
<1> DEFINE p == LastCompleted(c, s)
           scale == COHORTS[c].scale
<1>1. p \in Cycles(c) /\ StatusOf(c, s, p) = "completed" /\ p >= COHORTS[c].closed
  BY LastIsCompleted
<1>2. p \in Int /\ p > 1 /\ p # 1 /\ scale \in Nat /\ NoScore \notin Int
  BY <1>1, CyclesAre, Batches, NoScoreAssumption
<1> HIDE DEF p
<1>3. \A d \in Dims :
        LET r == Series(c, s, d)
        IN  /\ r[p] \in 1 .. scale /\ r[p - 1] \in 1 .. scale
            /\ Archetype(s) = "stagnant" => r[p] = r[p - 1]
            /\ Archetype(s) = "improving" => r[p - 1] < r[p] /\ 5 * r[p] > 2 * scale
            /\ Archetype(s) = "regressing" => r[p] < r[p - 1]
  BY <1>1, <1>2, SeriesType
<1>4. PICK agreed, flagged :
        /\ agreed = Seeded(c, s, p).agreed /\ flagged = Seeded(c, s, p).flagged
        /\ agreed = [d \in Dims |-> IF StatusOf(c, s, p) \in {"agreed", "completed"}
                                    THEN Series(c, s, d)[p] ELSE NoScore]
        /\ flagged = {d \in Dims : Flagged(c, s, p, d)}
  BY <1>1, SeededFields
<1>5. \A d \in Dims : agreed[d] = Series(c, s, d)[p]
  BY <1>1, <1>4
<1>6. \A d \in Dims : Flagged(c, s, p, d) <=>
        \/ 5 * Series(c, s, d)[p] <= 2 * scale
        \/ Series(c, s, d)[p - 1] # NoScore /\ Series(c, s, d)[p] <= Series(c, s, d)[p - 1]
  BY <1>1, <1>2, Zenon DEF Flagged, Rule!IsCoachingRecommended
<1>7. FlagsOf(c, s) = flagged /\ SeededRows[c][s][LastCompleted(c, s)].agreed = agreed
  BY <1>1, <1>4, SeededRowsAre, Zenon DEF FlagsOf, p
<1>8. Archetype(s) = "improving" =>
        /\ flagged = {}
        /\ \A d \in Dims : agreed[d] \in 0 .. scale /\ 5 * agreed[d] > 2 * scale
  BY <1>2, <1>3, <1>4, <1>5, <1>6
<1>9. Archetype(s) \in {"regressing", "stagnant"} => flagged = Dims
  BY <1>2, <1>3, <1>4, <1>6
<1>10. QED
  BY <1>7, <1>8, <1>9, Zenon

LEMMA DimsAreEight == IsFiniteSet(Dims) /\ Cardinality(Dims) = 8 /\ Dims # {}
<1>1. 0 \in Int /\ 7 \in Int
  OBVIOUS
<1>2. IsFiniteSet(0 .. 7) /\ Cardinality(0 .. 7) = IF 0 > 7 THEN 0 ELSE 7 - 0 + 1
  BY <1>1, FS_Interval
<1>3. QED
  BY <1>2 DEF Dims

\* Somebody all of whose scores are above the 40% is above it on average.
LEMMA AboveOnAverage ==
  ASSUME NEW scale \in Nat, NEW x, \A d \in Dims : x[d] \in 0 .. scale /\ 5 * x[d] > 2 * scale
  PROVE  Average([d \in Dims |-> 100 * x[d]]) > 40 * scale
<1> DEFINE f == [d \in Dims |-> 100 * x[d]]
<1>1. IsFiniteSet(Dims) /\ Cardinality(Dims) = 8
  BY DimsAreEight
<1> DEFINE hi == 100 * scale
<1>2. hi \in Int /\ \A d \in Dims : f[d] <= hi
  OBVIOUS
<1>3. \A d \in Dims : f[d] \in Int /\ 40 * scale + 20 <= f[d] /\ f[d] <= hi
  BY <1>2
<1>4. DOMAIN f = Dims /\ Dims # {}
  BY DEF Dims
<1> HIDE DEF f, hi
<1>5. 40 * scale + 20 \in Int
  OBVIOUS
<1>6. /\ (40 * scale + 20) * Cardinality(Dims) <= SumFunctionOnSet(f, Dims)
      /\ SumFunctionOnSet(f, Dims) \in Int
  BY <1>1, <1>2, <1>3, <1>5, SumIsBetween, SumIsInteger, Zenon
<1>7. Average(f) = Rounded(SumFunctionOnSet(f, Dims), 8)
  BY <1>1, <1>4, SumIsOnDomain, Zenon DEF Average
<1>8. QED
  <2>1. PICK sum \in Int : sum = SumFunctionOnSet(f, Dims) /\ (40 * scale + 20) * 8 <= sum
    BY <1>1, <1>6
  <2>2. Average(f) = (2 * sum + 8) \div 16
    BY <1>7, <2>1 DEF Rounded
  <2>3. QED
    BY <2>1, <2>2 DEF f

LEMMA SeedShows == ArchetypesShow
<1> SUFFICES ASSUME NEW c \in DOMAIN COHORTS, NEW s \in Pupils(c)
             PROVE  /\ Archetype(s) = "improving" => FlagsOf(c, s) = {} /\ ~ SeededAtRisk(c, s)
                    /\ Archetype(s) = "regressing" => FlagsOf(c, s) = Dims
                    /\ Archetype(s) \in {"regressing", "stagnant"} => SeededAtRisk(c, s)
  BY Zenon DEF ArchetypesShow
<1>1. PICK agreed, average, scale, flags :
        /\ agreed = SeededRows[c][s][LastCompleted(c, s)].agreed
        /\ average = Average([d \in Dims |-> 100 * agreed[d]])
        /\ scale = COHORTS[c].scale /\ flags = FlagsOf(c, s)
  BY Zenon
<1>2. SeededAtRisk(c, s) = IsAtRisk(average, scale, Cardinality(flags))
  BY <1>1, Zenon DEF SeededAtRisk
<1>3. scale \in Nat /\ scale > 0
  BY <1>1, Batches
<1>4. ASSUME Archetype(s) = "improving"
      PROVE  flags = {} /\ ~ SeededAtRisk(c, s)
  <2>1. flags = {} /\ \A d \in Dims : agreed[d] \in 0 .. scale /\ 5 * agreed[d] > 2 * scale
    BY <1>1, <1>4, LastRow, Zenon
  <2>2. Average([d \in Dims |-> 100 * agreed[d]]) > 40 * scale
    BY <1>3, <2>1, AboveOnAverage
  <2>3. average > 40 * scale
    BY <1>1, <2>2, Zenon
  <2>4. average \in Int
    <3>1. /\ \A d \in Dims : [e \in Dims |-> 100 * agreed[e]][d] \in Int
          /\ DOMAIN [e \in Dims |-> 100 * agreed[e]] = Dims
      BY <2>1
    <3>2. PICK f : f = [e \in Dims |-> 100 * agreed[e]]
      OBVIOUS
    <3>3. IsFiniteSet(Dims) /\ Cardinality(Dims) = 8 /\ Dims # {}
      BY DimsAreEight
    <3>4. SumFunctionOnSet(f, Dims) \in Int
      BY <3>1, <3>2, <3>3, SumIsInteger
    <3>5. average = Rounded(SumFunctionOnSet(f, Dims), 8)
      BY <1>1, <3>1, <3>2, <3>3, SumIsOnDomain, Zenon DEF Average
    <3>6. QED
      BY <3>4, <3>5 DEF Rounded
  <2>5. Cardinality(flags) = 0
    BY <2>1, FS_EmptySet
  <2>6. ~ IsAtRisk(average, scale, Cardinality(flags))
    BY <1>3, <2>3, <2>4, <2>5 DEF IsAtRisk
  <2>7. QED
    BY <1>2, <2>1, <2>6, Zenon
<1>5. ASSUME Archetype(s) \in {"regressing", "stagnant"}
      PROVE  flags = Dims /\ SeededAtRisk(c, s)
  <2>1. flags = Dims
    BY <1>1, <1>5, LastRow, Zenon
  <2>2. Cardinality(flags) = 8
    BY <2>1, DimsAreEight
  <2>3. IsAtRisk(average, scale, Cardinality(flags))
    BY <2>2 DEF IsAtRisk
  <2>4. QED
    BY <1>2, <2>1, <2>3, Zenon
<1>6. QED
  BY <1>1, <1>4, <1>5, Zenon

\* Two facilitators who are there, and perhaps a third.
LEMMA TeamOf ==
  ASSUME NEW f \in 0 .. 6, NEW g \in 0 .. 6, NEW h \in 0 .. 7
  PROVE  LET team == IfActive(f) \o IfActive(g) \o IfActive(h)
         IN  /\ Len(team) \in {2, 3} /\ team[1] = f
             /\ \A i \in 1 .. Len(team) : team[i] \in 0 .. 6
<1>1. IfActive(f) = <<f>> /\ IfActive(g) = <<g>>
  BY DEF IfActive, IsActive, FACILITATOR_COUNT
<1>2. \A k \in 0 .. 6 : <<k>> \in Seq(0 .. 6) /\ Len(<<k>>) = 1 /\ <<k>>[1] = k
  OBVIOUS
<1>3. <<>> \in Seq(0 .. 6) /\ Len(<<>>) = 0
  OBVIOUS
<1>4. PICK rest : rest = IfActive(h)
  OBVIOUS
<1>5. rest \in Seq(0 .. 6) /\ Len(rest) \in {0, 1}
  <2>1. rest = IF h # 7 THEN <<h>> ELSE <<>>
    <3>1. 8 - 1 = 7
      OBVIOUS
    <3>2. QED
      BY <1>4, <3>1, Zenon DEF IfActive, IsActive, FACILITATOR_COUNT
  <2>2. CASE h = 7
    <3>1. rest = <<>>
      BY <2>1, <2>2, Zenon
    <3>2. QED
      BY <1>3, <3>1
  <2>3. CASE h # 7
    <3>1. h \in 0 .. 6
      BY <2>3
    <3>2. rest = <<h>>
      BY <2>1, <2>3, Zenon
    <3>3. rest \in Seq(0 .. 6) /\ Len(rest) = 1
      BY <1>2, <3>1, <3>2, Zenon
    <3>4. QED
      BY <3>3
  <2>4. QED
    BY <2>2, <2>3
<1>6. PICK both : both = <<f>> \o <<g>>
  OBVIOUS
<1>7. both \in Seq(0 .. 6) /\ Len(both) = 2 /\ both[1] = f
  <2>1. PICK x, y : /\ x = <<f>> /\ y = <<g>> /\ x \in Seq(0 .. 6) /\ y \in Seq(0 .. 6)
                    /\ Len(x) = 1 /\ Len(y) = 1 /\ x[1] = f
    BY <1>2, Zenon
  <2>2. /\ x \o y \in Seq(0 .. 6) /\ Len(x \o y) = Len(x) + Len(y)
        /\ \A i \in 1 .. Len(x) + Len(y) :
             (x \o y)[i] = IF i <= Len(x) THEN x[i] ELSE y[i - Len(x)]
    BY <2>1, ConcatProperties
  <2>3. Len(x \o y) = 2 /\ (x \o y)[1] = f
    BY <2>1, <2>2
  <2>4. QED
    BY <1>6, <2>1, <2>2, <2>3, Zenon
<1>8. /\ both \o rest \in Seq(0 .. 6) /\ Len(both \o rest) \in {2, 3}
      /\ (both \o rest)[1] = f
  <2>1. /\ both \o rest \in Seq(0 .. 6) /\ Len(both \o rest) = Len(both) + Len(rest)
        /\ \A i \in 1 .. Len(both) + Len(rest) :
             (both \o rest)[i] = IF i <= Len(both) THEN both[i] ELSE rest[i - Len(both)]
    BY <1>5, <1>7, ConcatProperties
  <2>2. QED
    BY <1>5, <1>7, <2>1
<1>9. PICK team : team = both \o rest
  OBVIOUS
<1>10. \A i \in 1 .. Len(team) : team[i] \in 0 .. 6
  BY <1>8, <1>9
<1>11. IfActive(f) \o IfActive(g) \o IfActive(h) = team
  BY <1>1, <1>4, <1>6, <1>9, Zenon
<1>12. QED
  BY <1>8, <1>9, <1>10, <1>11, Zenon

\* The facilitators of a batch, without the one who left.
LEMMA TeamsAre ==
  ASSUME NEW c \in 1 .. 5
  PROVE  \E team : /\ team = CohortFacilitators(c) /\ Len(team) \in {2, 3}
                   /\ \A i \in 1 .. Len(team) : team[i] \in 0 .. 6
                   /\ c = 4 => team[1] = 0
<1> DEFINE f == IF c = 4 THEN 0 ELSE (c - 1) % 8
           g == (c - 1 + 1) % 8
           h == (c - 1 + 4) % 8
<1>1. f \in 0 .. 6 /\ g \in 0 .. 6 /\ h \in 0 .. 7 /\ (c = 4 => f = 0)
  OBVIOUS
<1>2. CohortFacilitators(c) = IfActive(f) \o IfActive(g) \o IfActive(h)
  BY Zenon DEF CohortFacilitators, DEMO_COHORT, FACILITATOR_COUNT
<1> HIDE DEF f, g, h
<1>3. LET team == IfActive(f) \o IfActive(g) \o IfActive(h)
      IN  /\ Len(team) \in {2, 3} /\ team[1] = f
          /\ \A i \in 1 .. Len(team) : team[i] \in 0 .. 6
  BY <1>1, TeamOf
<1>4. QED
  BY <1>1, <1>2, <1>3, Zenon

LEMMA NobodyIsLeftBehind ==
  ASSUME NEW c \in DOMAIN COHORTS, NEW s \in Pupils(c)
  PROVE  IsActive(FacilitatorOf(c, s))
<1>1. c \in {1, 2, 3, 4, 5} /\ s \in Nat
  BY Batches DEF Pupils
<1>2. PICK team : /\ team = CohortFacilitators(c)
                  /\ Len(team) \in {2, 3}
                  /\ \A i \in 1 .. Len(team) : team[i] \in 0 .. 6
  <2>1. c \in 1 .. 5
    BY <1>1
  <2>2. QED
    BY <2>1, TeamsAre
<1>3. (s % Len(team)) + 1 \in 1 .. Len(team)
  <2>1. PICK n : n = Len(team) /\ n \in {2, 3}
    BY <1>2
  <2>2. (s % 2) + 1 \in 1 .. 2 /\ (s % 3) + 1 \in 1 .. 3
    BY <1>1
  <2>3. QED
    BY <2>1, <2>2
<1>4. FacilitatorOf(c, s) \in {team[1], team[(s % Len(team)) + 1]}
  BY <1>2, Zenon DEF FacilitatorOf, Cyclic
<1>5. FacilitatorOf(c, s) \in 0 .. 6
  BY <1>2, <1>3, <1>4
<1>6. QED
  BY <1>5 DEF IsActive, FACILITATOR_COUNT

LEMMA RosterIsFull == DemoRosterIsFull
<1> DEFINE mine == {t \in Pupils(4) : FacilitatorOf(4, t) = 0}
<1>1. /\ 4 \in DOMAIN COHORTS /\ COHORTS[4] = Batch(5, 6, TRUE, 14)
      /\ COHORTS[4].closed = 6 /\ COHORTS[4].students = 14 /\ COHORTS[4].open = TRUE
  <2>1. 4 \in DOMAIN COHORTS /\ COHORTS[4] = Batch(5, 6, TRUE, 14)
    BY DEF COHORTS
  <2>2. QED
    BY <2>1 DEF Batch
<1>2. Cycles(4) = 1 .. 7 /\ Pupils(4) = 0 .. 13
  <2>1. (IF COHORTS[4].open THEN 1 ELSE 0) = 1
    BY <1>1, Zenon
  <2>2. PICK closed, more, students :
          /\ closed = COHORTS[4].closed /\ students = COHORTS[4].students
          /\ more = IF COHORTS[4].open THEN 1 ELSE 0
    OBVIOUS
  <2>3. Cycles(4) = 1 .. closed + more /\ Pupils(4) = 0 .. students - 1
    BY <2>2, Zenon DEF Cycles, Pupils
  <2>4. closed = 6 /\ more = 1 /\ students = 14
    BY <1>1, <2>1, <2>2, Zenon
  <2>5. QED
    BY <2>3, <2>4
<1>3. Max(Cycles(4)) = 7
  <2>1. \E x \in 1 .. 7 : \A y \in 1 .. 7 : x >= y
    <3>1. 7 \in 1 .. 7 /\ \A y \in 1 .. 7 : 7 >= y
      OBVIOUS
    <3>2. QED
      BY <3>1, Zenon
  <2>2. Max(1 .. 7) \in 1 .. 7 /\ \A y \in 1 .. 7 : Max(1 .. 7) >= y
    BY <2>1, Zenon DEF Max
  <2>3. QED
    BY <1>2, <2>2
<1>4. Len(DEMO_ROSTER_STATUSES) = 5
  BY DEF DEMO_ROSTER_STATUSES
<1>5. ASSUME NEW t \in 0 .. 4
      PROVE  t \in mine /\ StatusOf(4, t, 7) = DEMO_ROSTER_STATUSES[t + 1]
  <2>1. Pinned(4, t)
    BY <1>4 DEF Pinned, DEMO_COHORT
  <2>2. FacilitatorOf(4, t) = 0
    <3>1. CohortFacilitators(4)[1] = 0
      <4>1. 4 \in 1 .. 5
        OBVIOUS
      <4>2. QED
        BY <4>1, TeamsAre
    <3>2. QED
      BY <2>1, <3>1, Zenon DEF FacilitatorOf
  <2>3. ~ (7 <= COHORTS[4].closed) /\ 7 > COHORTS[4].closed
    <3>1. ~ (7 <= 6) /\ 7 > 6
      OBVIOUS
    <3>2. COHORTS[4].closed = 6
      BY <1>1
    <3>3. QED
      BY <3>1, <3>2, Zenon
  <2>4. StatusOf(4, t, 7) = DEMO_ROSTER_STATUSES[t + 1]
    BY <2>1, <2>3, Zenon DEF StatusOf
  <2>5. QED
    BY <1>2, <2>2, <2>4
<1>6. /\ StatusOf(4, 0, 7) = "draft" /\ StatusOf(4, 1, 7) = "self_submitted"
      /\ StatusOf(4, 2, 7) = "mentor_review" /\ StatusOf(4, 3, 7) = "agreed"
      /\ StatusOf(4, 4, 7) = "completed"
  BY <1>5 DEF DEMO_ROSTER_STATUSES
<1>7. 0 \in mine /\ 1 \in mine /\ 2 \in mine /\ 3 \in mine /\ 4 \in mine
  BY <1>5
<1>8. \A t \in mine : StatusOf(4, t, 7) \in SeedStatuses
  BY <1>1, <1>2, StatusType
<1> HIDE DEF mine
<1>9. {StatusOf(4, t, 7) : t \in mine}
        = {"draft", "self_submitted", "mentor_review", "agreed", "completed"}
  BY <1>6, <1>7, <1>8 DEF SeedStatuses
<1>10. {StatusOf(DEMO_COHORT, s, Max(Cycles(DEMO_COHORT))) :
          s \in {t \in Pupils(DEMO_COHORT) : FacilitatorOf(DEMO_COHORT, t) = 0}}
         = {"draft", "self_submitted", "mentor_review", "agreed", "completed"}
  BY <1>3, <1>9, Zenon DEF DEMO_COHORT, mine
<1>11. QED
  BY <1>10, NobodyIsLeftBehind, Zenon DEF DemoRosterIsFull

\* The calendar of the demo facilitator has sessions behind it and to come.
LEMMA CalendarIsBoth ==
  {IsPast(i) : i \in {j \in 0 .. 47 : SessionKey(j) = <<DEMO_COHORT, 0, j>>}} = BOOLEAN
<1>1. \A i \in 0 .. 47 : IsPast(i) \in BOOLEAN
  BY DEF IsPast
<1>2. SessionKey(0) = <<DEMO_COHORT, 0, 0>> /\ SessionKey(3) = <<DEMO_COHORT, 0, 3>>
  BY DEF SessionKey, SessionBatch, SessionFacilitator
<1>3. IsPast(0) = TRUE /\ IsPast(3) = FALSE
  BY DEF IsPast
<1> DEFINE his == {j \in 0 .. 47 : SessionKey(j) = <<DEMO_COHORT, 0, j>>}
<1>4. 0 \in his /\ 3 \in his /\ his \subseteq 0 .. 47
  BY <1>2
<1> HIDE DEF his
<1>5. {IsPast(i) : i \in his} = BOOLEAN
  BY <1>1, <1>3, <1>4
<1>6. QED
  BY <1>5 DEF his

\* Whatever the random draws are, the seed tells the story its author meant: in
\* every batch, on either scale, those who improve are never flagged or listed
\* as at risk and those who regress always are, the demo facilitator has one of
\* every state to review, and sessions behind him and to come.
THEOREM SeededAlwaysTellsItsStory == Spec => []SeededTellsItsStory
<1>1. SeededTellsItsStory
  BY SeedShows, RosterIsFull, CalendarIsBoth DEF SeededTellsItsStory
<1>2. QED
  BY <1>1, PTL
=============================================================================
