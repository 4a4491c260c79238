------------------------------ MODULE Sessions ------------------------------
(***************************************************************************)
(* Refresh sessions of one user (routes/auth.ts, routes/me.ts, auth-tokens *)
(* .ts).  The handlers run their statements one by one on the pool, with   *)
(* no transaction around them: one action per statement that matters.      *)
(* Which password or code is current is not modelled, only that the        *)
(* caller has proved it; access tokens are stateless and not modelled.     *)
(***************************************************************************)
EXTENDS Naturals, FiniteSets

CONSTANTS
  Sid,       \* session ids (the jti of refresh tokens)
  Handler,   \* requests handled at the same time
  MaxBulk    \* bound: revocations of all sessions

ASSUME SessionsAssumption == "none" \notin Sid /\ MaxBulk \in Nat

VARIABLES
  session,   \* the sessions table; with history: chain, era, late (below)
  expired,   \* sessions past expiresAt
  token,     \* the user's password_reset token
  req,       \* each handler's statement to come and what it has read
  era,       \* revocations of all sessions so far (history)
  signedOut  \* chains whose rotated session was logged out (history)

sessionsVars == <<session, expired, token, req, era, signedOut>>

\* chain is the first session of the sign-in, era the revocations before its
\* proof, late whether its request was overtaken by a revocation.
NoSession == [state |-> "none", chain |-> "none", era |-> 0, late |-> FALSE]
Quiet == [at |-> "idle", sid |-> "none", chain |-> "none", era |-> 0, late |-> FALSE]
Minting == {"verified", "checked", "rotated"}
Live == {s \in Sid : session[s].state = "live"}

SessionsTypeOK ==
  /\ \A s \in Sid : /\ session[s].state \in {"none", "live", "revoked"}
                    /\ session[s].chain \in Sid \cup {"none"}
                    /\ session[s].state # "none" => session[session[s].chain].state # "none"
  /\ expired \subseteq {s \in Sid : session[s].state # "none"}
  /\ token \in {"none", "issued", "used"}
  /\ \A r \in Handler : req[r].at \in Minting \cup {"idle", "replayed", "found", "revoking"}
  /\ era \in 0 .. MaxBulk

SessionsInit ==
  /\ session = [s \in Sid |-> NoSession]
  /\ expired = {} /\ token = "none" /\ era = 0 /\ signedOut = {}
  /\ req = [r \in Handler |-> Quiet]

Goto(r, step) == req' = [req EXCEPT ![r].at = step]
Finish(r) == req' = [req EXCEPT ![r] = Quiet]

\* The other requests that rest on a session just revoked.
Overtake(r, Rests(_), next) ==
  req' = [q \in Handler |-> IF q = r THEN next
                            ELSE [req[q] EXCEPT !.late = @ \/ (req[q].at \in Minting /\ Rests(q))]]

----------------------------------------------------------------------------
\* POST /login with no second factor, /mfa/verify or /me/switch-org: the caller's
\* proof holds now, its session is inserted later.
SignIn(r) ==
  /\ req[r].at = "idle"
  /\ req' = [req EXCEPT ![r] = [Quiet EXCEPT !.at = "verified", !.era = era]]
  /\ UNCHANGED <<session, expired, token, era, signedOut>>

\* Mutant: a revoked session is not noticed.
RefreshChecksExpiry(r, s) ==
  /\ req[r].at = "idle" /\ session[s].state # "none" /\ s \notin expired
  /\ req' = [req EXCEPT ![r] = [at |-> "checked", sid |-> s, chain |-> session[s].chain,
                                era |-> session[s].era, late |-> session[s].late]]
  /\ UNCHANGED <<session, expired, token, era, signedOut>>

\* POST /refresh, the select: an unknown or expired session is refused.
RefreshChecks(r, s) ==
  /\ req[r].at = "idle" /\ session[s].state # "none" /\ s \notin expired
  /\ req' = [req EXCEPT ![r] = [at |-> IF session[s].state = "live" THEN "checked" ELSE "replayed",
                                sid |-> s, chain |-> session[s].chain,
                                era |-> session[s].era, late |-> session[s].late]]
  /\ UNCHANGED <<session, expired, token, era, signedOut>>

\* Mutant: the presented session stays valid.
RefreshKeeps(r) ==
  /\ req[r].at = "checked"
  /\ Goto(r, "rotated")
  /\ UNCHANGED <<session, expired, token, era, signedOut>>

\* The presented session is revoked by its id, whatever has happened to it since.
RefreshRotates(r) ==
  /\ req[r].at = "checked"
  /\ session' = [session EXCEPT ![req[r].sid].state = "revoked"]
  /\ Overtake(r, LAMBDA q : req[q].sid = req[r].sid, [req[r] EXCEPT !.at = "rotated"])
  /\ UNCHANGED <<expired, token, era, signedOut>>

\* recordSession
RecordSession(r, s) ==
  /\ req[r].at \in {"verified", "rotated"} /\ session[s].state = "none"
  /\ session' = [session EXCEPT ![s] =
                   [state |-> "live", chain |-> IF req[r].at = "verified" THEN s ELSE req[r].chain,
                    era |-> req[r].era, late |-> req[r].late]]
  /\ Finish(r)
  /\ UNCHANGED <<expired, token, era, signedOut>>

\* POST /logout: one statement, silent on a session that is gone or revoked.
Logout(r, s) ==
  /\ req[r].at = "idle" /\ session[s].state # "none"
  /\ session' = [session EXCEPT ![s].state = "revoked"]
  /\ signedOut' = IF s \in Live /\ ~session[s].late THEN signedOut \cup {session[s].chain} ELSE signedOut
  /\ Overtake(r, LAMBDA q : req[q].sid = s, Quiet)
  /\ UNCHANGED <<expired, token, era>>

\* POST /password/forgot
ForgotPassword ==
  /\ token # "issued"
  /\ token' = "issued"
  /\ UNCHANGED <<session, expired, req, era, signedOut>>

\* findValidToken of consumeAuthToken
ResetFindsToken(r) ==
  /\ req[r].at = "idle" /\ token = "issued"
  /\ Goto(r, "found")
  /\ UNCHANGED <<session, expired, token, era, signedOut>>

\* The token is marked, the password is set.
ResetMarksToken(r) ==
  /\ req[r].at = "found"
  /\ token' = "used"
  /\ Goto(r, "revoking")
  /\ UNCHANGED <<session, expired, era, signedOut>>

\* POST /me/password, whose password is set, or /me/sessions/revoke-all.
ChangePassword(r) ==
  /\ req[r].at = "idle"
  /\ Goto(r, "revoking")
  /\ UNCHANGED <<session, expired, token, era, signedOut>>

\* UPDATE sessions ... WHERE user_id = .. AND revoked_at IS NULL, also after a replay.
RevokeAll(r) ==
  /\ req[r].at \in {"revoking", "replayed"} /\ era < MaxBulk
  /\ session' = [s \in Sid |-> IF s \in Live THEN [session[s] EXCEPT !.state = "revoked"] ELSE session[s]]
  /\ era' = era + 1
  /\ Overtake(r, LAMBDA q : TRUE, Quiet)
  /\ UNCHANGED <<expired, token, signedOut>>

\* The request fails between two statements; what is written stays.
Dies(r) ==
  /\ req[r].at # "idle"
  /\ Finish(r)
  /\ UNCHANGED <<session, expired, token, era, signedOut>>

Expire(s) ==
  /\ session[s].state # "none" /\ s \notin expired
  /\ expired' = expired \cup {s}
  /\ UNCHANGED <<session, token, req, era, signedOut>>

SessionsNext ==
  \/ ForgotPassword
  \/ \E r \in Handler :
       \/ SignIn(r) \/ RefreshRotates(r) \/ ResetFindsToken(r) \/ ResetMarksToken(r)
       \/ ChangePassword(r) \/ RevokeAll(r) \/ Dies(r)
       \/ \E s \in Sid : RefreshChecks(r, s) \/ RecordSession(r, s) \/ Logout(r, s)
  \/ \E s \in Sid : Expire(s)

SessionsSpec == SessionsInit /\ [][SessionsNext]_sessionsVars

----------------------------------------------------------------------------
\* A logout ends its sign-in and a replay, a password change or a sign-out
\* everywhere ends all that came before: what lives on was minted by a request
\* under way at that moment, or descends from such a session.
SignOutHolds ==
  \A s \in Live : session[s].late \/ (session[s].era = era /\ session[s].chain \notin signedOut)

\* Rotation leaves one live session of a sign-in, unless two refreshes of one
\* session overlapped.
RotationKeepsOne ==
  \A s, t \in Live : session[s].chain = session[t].chain => s = t \/ session[s].late \/ session[t].late
=============================================================================
