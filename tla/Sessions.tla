------------------------------- MODULE Sessions -------------------------------
(***************************************************************************)
(* Signing in and passwords: AuthService over the refresh_tokens and       *)
(* otp_codes tables, on top of the accounts that other requests edit and   *)
(* remove meanwhile.                                                       *)
(*                                                                         *)
(*   login:           issue            changePassword:  change             *)
(*   forgotPassword:  invalidate -> newCode                                *)
(*   resetPassword:   consume -> setPassword -> revoke                     *)
(*                                                                         *)
(* Abstractions.  A session is a refresh token that is neither revoked nor *)
(* expired: the user and the password he signed in with.  Spent tokens are *)
(* nothing here, so neither is pruning them.  refresh changes nothing: the *)
(* token stays.  Mail always arrives.                                      *)
(***************************************************************************)
EXTENDS Accounts

CONSTANTS
  Codes,         \* otp_codes.id; a code is issued once
  Visitors,      \* slots for authentication requests in flight
  MaxPassword    \* how often a user sets his password: a bound

ASSUME SessionsAssumption == MaxPassword \in Nat

VARIABLES
  session,   \* the valid refresh tokens: <<user, password>>
  otp,       \* the otp_codes table: owner, state, and what was done with it
  visit      \* the request each visitor is making

auth == <<session, otp, visit>>

vars == <<users, env, auth>>

-----------------------------------------------------------------------------
Unissued == [user |-> None, state |-> "none", wrote |-> {}]

Visit == [stage: {"idle"}]
  \cup [stage: {"issue"}, user: Ids, password: Nat]
  \cup [stage: {"invalidate", "newCode", "change"}, user: Ids]
  \cup [stage: {"consume", "setPassword", "revoke"}, user: Ids, code: Codes]

Turns(w, r) == visit' = [visit EXCEPT ![w] = r]

OnlyVisit == UNCHANGED <<users, session, otp>>

Calls(w) ==
  /\ env.visits
  /\ visit[w] = Idle
  /\ env.overlap \/ \A v \in Visitors : visit[v] = Idle

Password(u) == account[u].password

\* users.update with a new hash.
SetsPassword(u) == account' = [account EXCEPT ![u].password = @ + 1]

Pending(u, stages) == {w \in Visitors : visit[w].stage \in stages /\ visit[w].user = u}

\* The bound, on the requests that will set a password.
MaySet(u) ==
  Password(u) + Cardinality(Pending(u, {"consume", "setPassword", "change"})) < MaxPassword

\* The bound on codes, likewise.
MayIssue ==
  Cardinality({k \in Codes : otp[k] = Unissued})
    > Cardinality({w \in Visitors : visit[w].stage \in {"invalidate", "newCode"}})

Revoked(u) == {t \in session : t[1] # u}

-----------------------------------------------------------------------------
(* Sessions. *)

\* login, the right password given.
Login(w, u) ==
  /\ Calls(w)
  /\ u \in Live /\ account[u].isActive
  /\ Turns(w, [stage |-> "issue", user |-> u, password |-> Password(u)])
  /\ OnlyVisit

\* issueTokens; the foreign key refuses a user who was removed.
Issue(w) ==
  LET r == visit[w]
  IN  /\ r.stage = "issue"
      /\ session' = IF r.user \in Live THEN session \cup {<<r.user, r.password>>} ELSE session
      /\ Turns(w, Idle)
      /\ UNCHANGED <<users, otp>>

Logout(w, u) ==
  /\ Calls(w)
  /\ u \in Live /\ account[u].isActive
  /\ session' = Revoked(u)
  /\ UNCHANGED <<users, otp, visit>>

-----------------------------------------------------------------------------
(* Reset codes. *)

Forgot(w, u) ==
  /\ Calls(w)
  /\ u \in Live /\ MayIssue
  /\ Turns(w, [stage |-> "invalidate", user |-> u])
  /\ OnlyVisit

\* invalidateAll.
Invalidate(w) ==
  LET r == visit[w]
  IN  /\ r.stage = "invalidate"
      /\ otp' = [k \in Codes |-> IF otp[k].user = r.user /\ otp[k].state = "active"
                                 THEN [otp[k] EXCEPT !.state = "consumed"] ELSE otp[k]]
      /\ Turns(w, [r EXCEPT !.stage = "newCode"])
      /\ UNCHANGED <<users, session>>

NewCode(w) ==
  LET r == visit[w]
  IN  /\ r.stage = "newCode"
      /\ \/ /\ r.user \in Live
            /\ \E k \in Codes :
                 /\ otp[k] = Unissued
                 /\ otp' = [otp EXCEPT ![k] = [user |-> r.user, state |-> "active", wrote |-> {}]]
         \/ r.user \notin Live /\ otp' = otp
      /\ Turns(w, Idle)
      /\ UNCHANGED <<users, session>>

\* Fault: a code that was used is still good.
MatchesUsed(k) == otp[k].state \in {"active", "consumed"}

\* findActive.
Matches(k) == otp[k].state = "active"

Reset(w, k) ==
  /\ Calls(w)
  /\ Matches(k) /\ MaySet(otp[k].user)
  /\ Turns(w, [stage |-> "consume", user |-> otp[k].user, code |-> k])
  /\ OnlyVisit

\* consume goes by the id of the code: it does not look at its state again.
Consume(w) ==
  LET r == visit[w]
  IN  /\ r.stage = "consume"
      /\ IF r.user \in Live
         THEN /\ otp' = [otp EXCEPT ![r.code].state = "consumed"]
              /\ Turns(w, [r EXCEPT !.stage = "setPassword"])
         ELSE otp' = otp /\ Turns(w, Idle)
      /\ UNCHANGED <<users, session>>

\* Fault: only changing the password ends no session.
AfterResetIdle(r) == Idle

AfterReset(r) == [r EXCEPT !.stage = "revoke"]

ResetPassword(w) ==
  LET r == visit[w]
  IN  /\ r.stage = "setPassword"
      /\ IF r.user \in Live
         THEN /\ SetsPassword(r.user)
              /\ otp' = [otp EXCEPT ![r.code].wrote = @ \cup {Password(r.user) + 1}]
              /\ Turns(w, AfterReset(r))
         ELSE UNCHANGED <<account, otp>> /\ Turns(w, Idle)
      /\ UNCHANGED <<member, granted, req, session>>

Revoke(w) ==
  /\ visit[w].stage = "revoke"
  /\ session' = Revoked(visit[w].user)
  /\ Turns(w, Idle)
  /\ UNCHANGED <<users, otp>>

\* changePassword, the current password given.  It ends no session.
Change(w, u) ==
  /\ Calls(w)
  /\ u \in Live /\ account[u].isActive /\ MaySet(u)
  /\ Turns(w, [stage |-> "change", user |-> u])
  /\ OnlyVisit

ChangePassword(w) ==
  LET r == visit[w]
  IN  /\ r.stage = "change"
      /\ IF r.user \in Live
         THEN SetsPassword(r.user)
         ELSE account' = account
      /\ Turns(w, Idle)
      /\ UNCHANGED <<member, granted, req, session, otp>>

-----------------------------------------------------------------------------
(* Time, failures, and the other requests. *)

ExpireCode(k) ==
  /\ otp[k].state = "active"
  /\ otp' = [otp EXCEPT ![k].state = "expired"]
  /\ UNCHANGED <<users, session, visit>>

ExpireSession(t) ==
  /\ session' = session \ {t}
  /\ UNCHANGED <<users, otp, visit>>

Abort(w) ==
  /\ env.fails /\ visit[w] # Idle
  /\ Turns(w, Idle)
  /\ OnlyVisit

\* Fault: the tokens of a removed user stay.
CascadeCodes ==
  /\ session' = session
  /\ otp' = [k \in Codes |-> IF otp[k].user \in Live' \cup {None} THEN otp[k]
                             ELSE [otp[k] EXCEPT !.state = "gone"]]
  /\ visit' = visit

\* The tokens and codes of a removed user cascade.
Cascade ==
  /\ session' = {t \in session : t[1] \in Live'}
  /\ otp' = [k \in Codes |-> IF otp[k].user \in Live' \cup {None} THEN otp[k]
                             ELSE [otp[k] EXCEPT !.state = "gone"]]
  /\ visit' = visit

-----------------------------------------------------------------------------

SessionsInit ==
  /\ Init
  /\ session = {}
  /\ otp = [k \in Codes |-> Unissued]
  /\ visit = [w \in Visitors |-> Idle]

\* The routes of AuthController.
Enter(w) ==
  \/ \E u \in Live : Login(w, u) \/ Logout(w, u) \/ Forgot(w, u) \/ Change(w, u)
  \/ \E k \in Codes : Reset(w, k)

Continue(w) ==
  \/ Issue(w) \/ Invalidate(w) \/ NewCode(w)
  \/ Consume(w) \/ ResetPassword(w) \/ Revoke(w) \/ ChangePassword(w)

AuthNext ==
  /\ \/ \E w \in Visitors : Enter(w) \/ Continue(w) \/ Abort(w)
     \/ \E k \in Codes : ExpireCode(k)
     \/ \E t \in session : ExpireSession(t)
  /\ env' = env

Next == (UsersNext /\ Cascade) \/ AuthNext

\* A request in flight is carried on with; nobody has to make one.
Fairness ==
  /\ \A w \in Workers : WF_vars(Proceed(w) /\ env' = env /\ Cascade)
  /\ \A w \in Visitors : WF_vars(Continue(w) /\ env' = env)

Spec == SessionsInit /\ [][Next]_vars /\ Fairness

-----------------------------------------------------------------------------
(* Properties. *)

\* The tables hold what their columns admit; a session and an open code have an
\* owner.
TypeOK ==
  /\ UsersTypeOK
  /\ session \subseteq Live \X Nat
  /\ otp \in [Codes -> [user: Ids \cup {None}, wrote: SUBSET Nat,
                        state: {"none", "active", "consumed", "expired", "gone"}]]
  /\ \A k \in Codes : otp[k].state = "active" => otp[k].user \in Live
  /\ visit \in [Visitors -> Visit]

\* "Password-reset one-time code: ... single-use" and "any previously issued
\* codes for the account are invalidated first" (auth.service.ts:28, :97): as
\* long as requests do not overlap a code sets a password at most once and a
\* user has at most one open code, also when a request fails half-way.
CodesAreSingleUse ==
  ~ env.overlap =>
    /\ \A k \in Codes : Cardinality(otp[k].wrote) <= 1
    /\ \A k, l \in Codes :
         (otp[k].state = "active" /\ otp[l].state = "active" /\ otp[k].user = otp[l].user)
           => k = l

\* "Force re-authentication everywhere after a password change"
\* (auth.service.ts:151): once a reset is done no session is left that was
\* opened with a password of before, whatever was changed in between.
ResetEndsSessions ==
  (~ env.overlap /\ ~ env.fails) =>
    \A t \in session, k \in Codes :
      (otp[k].user = t[1] /\ Pending(t[1], {"revoke"}) = {}) =>
        \A n \in otp[k].wrote : t[2] >= n
=============================================================================
