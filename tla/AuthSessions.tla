---------------------------- MODULE AuthSessions ----------------------------
(***************************************************************************)
(* One account's way in (app/modules/auth): password and Google sign-in,   *)
(* accepting an invitation, sessions whose refresh token rotates, one-time *)
(* tokens sent by e-mail, and all that signs the account out.              *)
(*                                                                         *)
(* A step is the part of a transaction up to a row lock or a commit.  The  *)
(* hashing of a password runs in a thread, between two steps.  Who holds   *)
(* a lock follows from how far each request is: see Holders of rows.       *)
(*                                                                         *)
(* Definitions whose name ends in _Mutant are plausible bugs of the one    *)
(* that follows them; the runs' properties are shown to reject them.       *)
(***************************************************************************)
EXTENDS Naturals, FiniteSets

CONSTANTS
  Requests, Sessions, Tokens, Devices,
  Nonces,       \* Google credentials, each with its nonce
  None,         \* Python's None
  MaxArrivals   \* bound: requests in a behaviour

ASSUME ConstantsAssumption ==
  /\ None \notin Requests \cup Sessions \cup Tokens \cup Devices \cup Nonces
  /\ MaxArrivals \in Nat

VARIABLES
  \* User: registered, email_verified_at is set, the version of password_hash
  \* (0 while the account has none)
  registered, verified, password,
  \* AuthToken: state and purpose
  token, purpose,
  \* a verification mail was queued less than five minutes ago
  recent,
  \* AuthSession: state, device, how often its refresh token was replaced
  session, device, rotation,
  \* nonces in google_nonces
  spent,
  \* running requests: operation, next step, what was read or locked
  op, pc, seen, tok, ses, cred, dev, doomed, consumed,
  \* history: refreshes answered per session, resets done with a token, mails
  \* since the cooldown began, the password and credential behind a session,
  \* sessions committed while a reset was signing the account out or after it
  \* had changed the password they were opened with
  trades, uses, mails, proof, via, crossed,
  arrivals

userVars == <<registered, verified, password>>
tokenVars == <<token, purpose, recent>>
sessionVars == <<session, device, rotation>>
requestVars == <<op, pc, seen, tok, ses, cred, dev, doomed, consumed>>
sessionHistory == <<trades, proof, via, crossed>>
vars == <<userVars, tokenVars, sessionVars, spent, requestVars, sessionHistory, uses, mails,
          arrivals>>

Operations == {"register", "resend", "verify", "login", "google", "signup", "refresh", "forgot", "reset"}

-----------------------------------------------------------------------------
(* Holders of rows.  The user row is locked FOR UPDATE by whoever queues a  *)
(* mail, and as written by a reset; a new session or token only needs it    *)
(* not to be locked FOR UPDATE.                                             *)

LocksUser(r) == pc[r] \in {"user", "made"}   \* FOR UPDATE
HoldsUser(r) == LocksUser(r) \/ pc[r] \in {"written", "revoked"}
HoldsToken(r, t) == tok[r] = t \/ t \in consumed[r]
HoldsSession(r, s) == ses[r] = s \/ (pc[r] = "revoked" /\ s \in doomed[r])

UserFree == \A r \in Requests : ~HoldsUser(r)
MayReferToUser == \A r \in Requests : ~LocksUser(r)
TokenFree(t) == \A r \in Requests : ~HoldsToken(r, t)
SessionFree(s) == \A r \in Requests : ~HoldsSession(r, s)

OpenResets_Mutant == {t \in Tokens : token[t] = "open"}  \* of any purpose, verification too
OpenResets == {t \in Tokens : token[t] = "open" /\ purpose[t] = "reset_password"}
Live == {s \in Sessions : session[s] = "live"}

-----------------------------------------------------------------------------
\* Nobody yet; registered, with a verification mail; or signed in on a device.
Init ==
  /\ \/ /\ registered = FALSE /\ verified = FALSE
        /\ token = [t \in Tokens |-> "none"]
        /\ session = [s \in Sessions |-> "none"]
     \/ /\ registered = TRUE /\ verified = FALSE
        /\ \E v \in Tokens : token = [t \in Tokens |-> IF t = v THEN "open" ELSE "none"]
        /\ session = [s \in Sessions |-> "none"]
     \/ /\ registered = TRUE /\ verified = TRUE
        /\ token = [t \in Tokens |-> "none"]
        /\ \E l \in Sessions : session = [s \in Sessions |-> IF s = l THEN "live" ELSE "none"]
  /\ password = IF registered THEN 1 ELSE 0
  /\ purpose = [t \in Tokens |-> "verify_email"]
  /\ recent = FALSE
  /\ device \in [Sessions -> Devices]
  /\ rotation = [s \in Sessions |-> 0]
  /\ spent = {}
  /\ op = [r \in Requests |-> "none"]
  /\ pc = [r \in Requests |-> "idle"]
  /\ seen = [r \in Requests |-> 0]
  /\ tok = [r \in Requests |-> None]
  /\ ses = [r \in Requests |-> None]
  /\ cred = [r \in Requests |-> None]
  /\ dev = [r \in Requests |-> None]
  /\ doomed = [r \in Requests |-> {}]
  /\ consumed = [r \in Requests |-> {}]
  /\ trades = [s \in Sessions |-> 0]
  /\ proof = [s \in Sessions |-> password]
  /\ via = [s \in Sessions |-> None]
  /\ crossed = {}
  /\ uses = [t \in Tokens |-> 0]
  /\ mails = 0
  /\ arrivals = 0

\* A request begins an operation and gets to the given step.
Arrive(r, operation, step) ==
  /\ pc[r] = "idle" /\ arrivals < MaxArrivals
  /\ op' = [op EXCEPT ![r] = operation]
  /\ pc' = [pc EXCEPT ![r] = step]
  /\ arrivals' = arrivals + 1
  /\ UNCHANGED <<userVars, tokenVars, sessionVars, spent, sessionHistory, uses, mails>>

Goto(r, step) ==
  /\ pc' = [pc EXCEPT ![r] = step]
  /\ UNCHANGED <<op, seen, tok, ses, cred, dev>>
  /\ UNCHANGED <<userVars, tokenVars, sessionVars, spent, sessionHistory, uses, mails, arrivals>>

End(r) ==
  /\ op' = [op EXCEPT ![r] = "none"]
  /\ pc' = [pc EXCEPT ![r] = "idle"]
  /\ seen' = [seen EXCEPT ![r] = 0]
  /\ tok' = [tok EXCEPT ![r] = None]
  /\ ses' = [ses EXCEPT ![r] = None]
  /\ cred' = [cred EXCEPT ![r] = None]
  /\ dev' = [dev EXCEPT ![r] = None]
  /\ doomed' = [doomed EXCEPT ![r] = {}]
  /\ consumed' = [consumed EXCEPT ![r] = {}]
  /\ UNCHANGED arrivals

\* Refused, timed out, abandoned by its client, or a deadlock's victim.
Rollback(r) ==
  /\ pc[r] # "idle"
  /\ End(r)
  /\ UNCHANGED <<userVars, tokenVars, sessionVars, spent, sessionHistory, uses, mails>>

-----------------------------------------------------------------------------
(* E-mailed tokens.                                                         *)

NewToken(t, p) ==
  /\ token[t] = "none"
  /\ token' = [token EXCEPT ![t] = "open"]
  /\ purpose' = [purpose EXCEPT ![t] = p]

\* create_verification_token
QueueVerification ==
  /\ \E t \in Tokens : NewToken(t, "verify_email")
  /\ recent' = TRUE
  /\ mails' = mails + 1
  /\ UNCHANGED uses

BeginRegister(r) ==
  /\ ~registered
  /\ Arrive(r, "register", "begun")
  /\ UNCHANGED <<seen, tok, ses, cred, dev, doomed, consumed>>

\* The e-mail address is unique.
CommitRegister(r) ==
  /\ pc[r] = "begun" /\ op[r] = "register"
  /\ ~registered
  /\ registered' = TRUE /\ password' = 1
  /\ QueueVerification
  /\ End(r)
  /\ UNCHANGED <<verified, sessionVars, spent, sessionHistory>>

Unlocked_Mutant(r, operation) ==  \* the user is read without a lock
  /\ registered
  /\ operation = "resend" => ~verified /\ ~recent
  /\ Arrive(r, operation, "user")
  /\ UNCHANGED <<seen, tok, ses, cred, dev, doomed, consumed>>

\* A resend, also one asked for by registering again, or a forgotten password.
LockUser(r, operation) ==
  /\ registered /\ UserFree
  /\ operation = "resend" => ~verified /\ ~recent
  /\ Arrive(r, operation, "user")
  /\ UNCHANGED <<seen, tok, ses, cred, dev, doomed, consumed>>

CommitResend(r) ==
  /\ pc[r] = "user" /\ op[r] = "resend"
  /\ QueueVerification
  /\ End(r)
  /\ UNCHANGED <<userVars, sessionVars, spent, sessionHistory>>

\* request_password_reset: open resets are consumed, a row a reset has locked is
\* waited for, and a new one is made.
StaleResets(r) ==
  /\ pc[r] = "user" /\ op[r] = "forgot"
  /\ \A t \in OpenResets : TokenFree(t)
  /\ consumed' = [consumed EXCEPT ![r] = OpenResets]
  /\ Goto(r, "made")
  /\ UNCHANGED doomed

CommitForgot(r) ==
  /\ pc[r] = "made"
  /\ \E n \in Tokens :
       /\ token[n] = "none"
       /\ token' = [t \in Tokens |-> IF t = n THEN "open"
                                     ELSE IF t \in consumed[r] THEN "consumed" ELSE token[t]]
       /\ purpose' = [purpose EXCEPT ![n] = "reset_password"]
  /\ End(r)
  /\ UNCHANGED <<userVars, recent, sessionVars, spent, sessionHistory, uses, mails>>

LockToken_Mutant(r, t) ==  \* the token is read without a lock
  /\ token[t] = "open"
  /\ Arrive(r, IF purpose[t] = "verify_email" THEN "verify" ELSE "reset", "token")
  /\ tok' = [tok EXCEPT ![r] = t]
  /\ UNCHANGED <<seen, ses, cred, dev, doomed, consumed>>

\* verify_auth_token
LockToken(r, t) ==
  /\ token[t] = "open" /\ TokenFree(t)
  /\ Arrive(r, IF purpose[t] = "verify_email" THEN "verify" ELSE "reset", "token")
  /\ tok' = [tok EXCEPT ![r] = t]
  /\ UNCHANGED <<seen, ses, cred, dev, doomed, consumed>>

CommitVerify(r) ==
  /\ pc[r] = "token" /\ op[r] = "verify"
  /\ UserFree
  /\ verified' = TRUE
  /\ token' = [token EXCEPT ![tok[r]] = "consumed"]
  /\ End(r)
  /\ UNCHANGED <<registered, password, purpose, recent, sessionVars, spent, sessionHistory,
                 uses, mails>>

\* reset_password consumes the user's other open resets, then hashes.
ConsumeOthers(r) ==
  /\ pc[r] = "token" /\ op[r] = "reset"
  /\ \A t \in OpenResets \ {tok[r]} : TokenFree(t)
  /\ consumed' = [consumed EXCEPT ![r] = OpenResets]
  /\ Goto(r, "hashing")
  /\ UNCHANGED doomed

\* The new hash is written, and the statement that revokes the sessions begins:
\* it finds the sessions of its snapshot, not those committed later.
WritePassword(r) ==
  /\ pc[r] = "hashing"
  /\ UserFree
  /\ doomed' = [doomed EXCEPT ![r] = Live]
  /\ Goto(r, "written")
  /\ UNCHANGED consumed

RevokeSessions_Mutant(r) ==  \* rows locked by a refresh are skipped
  /\ pc[r] = "written"
  /\ doomed' = [doomed EXCEPT ![r] = {s \in @ \cap Live : SessionFree(s)}]
  /\ Goto(r, "revoked")
  /\ UNCHANGED consumed

RevokeSessions(r) ==
  /\ pc[r] = "written"
  /\ \A s \in doomed[r] : SessionFree(s)
  /\ doomed' = [doomed EXCEPT ![r] = @ \cap Live]
  /\ Goto(r, "revoked")
  /\ UNCHANGED consumed

CommitReset(r) ==
  /\ pc[r] = "revoked"
  /\ password' = password + 1
  /\ token' = [t \in Tokens |-> IF t \in consumed[r] \cup {tok[r]} THEN "consumed" ELSE token[t]]
  /\ uses' = [uses EXCEPT ![tok[r]] = @ + 1]
  /\ session' = [s \in Sessions |-> IF s \in doomed[r] THEN "revoked" ELSE session[s]]
  /\ End(r)
  /\ UNCHANGED <<registered, verified, purpose, recent, device, rotation, spent,
                 sessionHistory, mails>>

-----------------------------------------------------------------------------
(* Signing in.                                                              *)

BeginLogin_Mutant(r, d) ==  \* the device is not registered
  /\ password > 0
  /\ Arrive(r, "login", "begun")
  /\ seen' = [seen EXCEPT ![r] = password]
  /\ UNCHANGED <<tok, ses, cred, dev, doomed, consumed>>

\* authenticate_user, or an invitation accepted with the password, which asks
\* for no verified address: the password matches the hash that was read.
BeginLogin(r, d) ==
  /\ password > 0
  /\ Arrive(r, "login", "begun")
  /\ seen' = [seen EXCEPT ![r] = password]
  /\ dev' = [dev EXCEPT ![r] = d]
  /\ UNCHANGED <<tok, ses, cred, doomed, consumed>>

\* google_auth: the credential is good and its nonce is not yet stored.
BeginGoogle(r, d, n) ==
  /\ n \notin spent
  /\ Arrive(r, IF registered THEN "google" ELSE "signup", "begun")
  /\ seen' = [seen EXCEPT ![r] = password]
  /\ dev' = [dev EXCEPT ![r] = d]
  /\ cred' = [cred EXCEPT ![r] = n]
  /\ UNCHANGED <<tok, ses, doomed, consumed>>

\* accept_invitation of somebody without an account.
BeginJoin(r, d) ==
  /\ ~registered
  /\ Arrive(r, "signup", "begun")
  /\ seen' = [seen EXCEPT ![r] = 1]
  /\ dev' = [dev EXCEPT ![r] = d]
  /\ UNCHANGED <<tok, ses, cred, doomed, consumed>>

\* issue_session
Issue(r) ==
  /\ MayReferToUser
  /\ \E s \in Sessions :
       /\ session[s] = "none"
       /\ session' = [session EXCEPT ![s] = "live"]
       /\ device' = [device EXCEPT ![s] = dev[r]]
       /\ rotation' = [rotation EXCEPT ![s] = 0]
       /\ trades' = [trades EXCEPT ![s] = 0]
       /\ proof' = [proof EXCEPT ![s] = seen[r]]
       /\ via' = [via EXCEPT ![s] = cred[r]]
       /\ crossed' = IF seen[r] < password \/ \E q \in Requests : pc[q] \in {"written", "revoked"}
                     THEN crossed \cup {s} ELSE crossed \ {s}

CommitLogin(r) ==
  /\ pc[r] = "begun" /\ op[r] = "login"
  /\ Issue(r)
  /\ End(r)
  /\ UNCHANGED <<userVars, tokenVars, spent, uses, mails>>

CommitGoogle_Mutant(r) ==  \* the nonce is stored if it is not there
  /\ pc[r] = "begun" /\ op[r] = "google"
  /\ spent' = spent \cup {cred[r]}
  /\ verified' = TRUE
  /\ verified \/ UserFree
  /\ Issue(r)
  /\ End(r)
  /\ UNCHANGED <<registered, password, tokenVars, uses, mails>>

\* The nonce is a primary key; the first Google sign-in verifies the address.
CommitGoogle(r) ==
  /\ pc[r] = "begun" /\ op[r] = "google"
  /\ cred[r] \notin spent
  /\ spent' = spent \cup {cred[r]}
  /\ verified' = TRUE
  /\ verified \/ UserFree
  /\ Issue(r)
  /\ End(r)
  /\ UNCHANGED <<registered, password, tokenVars, uses, mails>>

\* An account made by Google or by an invitation needs no verification.
CommitSignUp(r) ==
  /\ pc[r] = "begun" /\ op[r] = "signup"
  /\ ~registered /\ cred[r] \notin spent
  /\ registered' = TRUE /\ verified' = TRUE /\ password' = seen[r]
  /\ spent' = spent \cup ({cred[r]} \ {None})
  /\ Issue(r)
  /\ End(r)
  /\ UNCHANGED <<tokenVars, uses, mails>>

-----------------------------------------------------------------------------
(* Sessions.                                                                *)

LockSession_Mutant(r, s) ==  \* the session is read without a lock
  /\ session[s] = "live"
  /\ Arrive(r, "refresh", "session")
  /\ ses' = [ses EXCEPT ![r] = s]
  /\ seen' = [seen EXCEPT ![r] = rotation[s]]
  /\ UNCHANGED <<tok, cred, dev, doomed, consumed>>

\* refresh_access_token finds the row by the hash of the token presented.
LockSession(r, s) ==
  /\ session[s] = "live" /\ SessionFree(s)
  /\ Arrive(r, "refresh", "session")
  /\ ses' = [ses EXCEPT ![r] = s]
  /\ seen' = [seen EXCEPT ![r] = rotation[s]]
  /\ UNCHANGED <<tok, cred, dev, doomed, consumed>>

CommitRefresh(r) ==
  /\ pc[r] = "session"
  /\ rotation' = [rotation EXCEPT ![ses[r]] = seen[r] + 1]
  /\ trades' = [trades EXCEPT ![ses[r]] = @ + 1]
  /\ End(r)
  /\ UNCHANGED <<userVars, tokenVars, session, device, spent, proof, via, crossed, uses, mails>>

\* A logout; a device disabled by an administrator; a deletion confirmed.
SignOut(gone) ==
  /\ \A s \in gone : SessionFree(s)
  /\ session' = [s \in Sessions |-> IF s \in gone THEN "revoked" ELSE session[s]]
  /\ UNCHANGED <<userVars, tokenVars, device, rotation, spent, requestVars, sessionHistory,
                 uses, mails, arrivals>>

Logout(s) == s \in Live /\ SignOut({s})
DisableDevice(d) == SignOut({s \in Live : device[s] = d})
ConfirmDeletion == SignOut(Live)

-----------------------------------------------------------------------------
(* Time and retention.                                                      *)

CooldownElapses ==
  /\ recent
  /\ recent' = FALSE /\ mails' = 0
  /\ UNCHANGED <<userVars, token, purpose, sessionVars, spent, requestVars, sessionHistory,
                 uses, arrivals>>

\* An unused token expires, and rows long dead are deleted.
RetireToken(t) ==
  /\ TokenFree(t)
  /\ \/ token[t] = "open" /\ token' = [token EXCEPT ![t] = "consumed"] /\ UNCHANGED uses
     \/ /\ token[t] = "consumed" /\ token' = [token EXCEPT ![t] = "none"]
        /\ uses' = [uses EXCEPT ![t] = 0]
  /\ UNCHANGED <<userVars, purpose, recent, sessionVars, spent, requestVars, sessionHistory,
                 mails, arrivals>>

RetireSession(s) ==
  /\ SessionFree(s) /\ session[s] = "revoked"
  /\ session' = [session EXCEPT ![s] = "none"]
  /\ UNCHANGED <<userVars, tokenVars, device, rotation, spent, requestVars, sessionHistory,
                 uses, mails, arrivals>>

-----------------------------------------------------------------------------
Arrival(r) ==
  \/ BeginRegister(r) \/ LockUser(r, "resend") \/ LockUser(r, "forgot")
  \/ \E t \in Tokens : LockToken(r, t)
  \/ \E d \in Devices : BeginLogin(r, d) \/ BeginJoin(r, d) \/ \E n \in Nonces : BeginGoogle(r, d, n)
  \/ \E s \in Sessions : LockSession(r, s)

Progress(r) ==
  \/ CommitRegister(r) \/ CommitResend(r) \/ StaleResets(r) \/ CommitForgot(r) \/ CommitVerify(r)
  \/ ConsumeOthers(r) \/ WritePassword(r) \/ RevokeSessions(r) \/ CommitReset(r)
  \/ CommitLogin(r) \/ CommitGoogle(r) \/ CommitSignUp(r) \/ CommitRefresh(r)

Next ==
  \/ \E r \in Requests : Arrival(r) \/ Progress(r) \/ Rollback(r)
  \/ \E s \in Sessions : Logout(s) \/ RetireSession(s)
  \/ \E d \in Devices : DisableDevice(d)
  \/ \E t \in Tokens : RetireToken(t)
  \/ ConfirmDeletion \/ CooldownElapses

Spec == Init /\ [][Next]_vars

\* q holds a row that r waits for.
WaitsFor(r, q) ==
  \/ pc[r] = "user" /\ op[r] = "forgot" /\ \E t \in OpenResets : HoldsToken(q, t)
  \/ pc[r] = "token" /\ op[r] = "reset" /\ \E t \in OpenResets \ {tok[r]} : HoldsToken(q, t)
  \/ pc[r] = "token" /\ op[r] = "verify" /\ HoldsUser(q)
  \/ pc[r] = "hashing" /\ HoldsUser(q)
  \/ pc[r] = "written" /\ \E s \in doomed[r] : HoldsSession(q, s)
  \/ pc[r] = "begun" /\ op[r] \in {"login", "google"} /\ LocksUser(q)

Deadlocked(r) == \E q \in Requests \ {r} : WaitsFor(r, q) /\ WaitsFor(q, r)

\* Another request was faster, or the instance has no row left to create.
Refused(r) ==
  \/ pc[r] = "begun" /\ op[r] \in {"register", "signup"} /\ registered
  \/ pc[r] = "begun" /\ op[r] \in {"google", "signup"} /\ cred[r] \in spent
  \/ /\ pc[r] = "begun" /\ op[r] \in {"login", "google", "signup"}
     /\ \A s \in Sessions : session[s] # "none"
  \/ /\ op[r] = "register" \/ LocksUser(r)
     /\ \A t \in Tokens : token[t] # "none"

\* A request runs on, is granted its locks, or is refused; the database ends a
\* lock cycle.
Fairness ==
  \A r \in Requests :
    WF_vars(Progress(r) \/ ((Refused(r) \/ Deadlocked(r)) /\ Rollback(r)))

FairSpec == Spec /\ Fairness

-----------------------------------------------------------------------------
TypeOK ==
  /\ registered \in BOOLEAN /\ verified \in BOOLEAN /\ password \in Nat
  /\ token \in [Tokens -> {"none", "open", "consumed"}]
  /\ purpose \in [Tokens -> {"verify_email", "reset_password"}]
  /\ recent \in BOOLEAN
  /\ session \in [Sessions -> {"none", "live", "revoked"}]
  /\ device \in [Sessions -> Devices]
  /\ rotation \in [Sessions -> Nat]
  /\ spent \subseteq Nonces
  /\ op \in [Requests -> Operations \cup {"none"}]
  /\ pc \in [Requests -> {"idle", "begun", "user", "made", "token", "hashing", "written", "revoked",
                          "session"}]
  /\ seen \in [Requests -> Nat]
  /\ tok \in [Requests -> Tokens \cup {None}]
  /\ ses \in [Requests -> Sessions \cup {None}]
  /\ cred \in [Requests -> Nonces \cup {None}]
  /\ dev \in [Requests -> Devices \cup {None}]
  /\ doomed \in [Requests -> SUBSET Sessions]
  /\ consumed \in [Requests -> SUBSET Tokens]
  /\ trades \in [Sessions -> Nat] /\ proof \in [Sessions -> Nat]
  /\ via \in [Sessions -> Nonces \cup {None}]
  /\ crossed \subseteq Sessions
  /\ uses \in [Tokens -> Nat] /\ mails \in Nat
  /\ arrivals \in 0..MaxArrivals

\* Every refresh token is traded for a new one at most once: of two tabs that
\* present the same one, only the first is answered.
RefreshTokenTradedOnce ==
  \A s \in Sessions : trades[s] = rotation[s]

\* A changed password signs the account out: a session that is still live was
\* opened with the current password, or by a sign-in that the reset overlapped.
ResetSignsOut ==
  \A s \in Live : proof[s] = password \/ s \in crossed

\* Only the last reset link works, however requests and resets interleave.
OneOpenReset == Cardinality(OpenResets) <= 1

\* A reset link changes the password once.
ResetLinkUsedOnce == \A t \in Tokens : uses[t] <= 1

\* A Google credential opens one session.
CredentialUsedOnce ==
  \A s, t \in Sessions :
    session[s] # "none" /\ session[t] # "none" /\ via[s] = via[t] /\ via[s] # None => s = t

\* No two verification mails within the cooldown, whoever asks for them and how.
VerificationsPaced == mails <= 1

\* The only requests that can block each other are a reset and the request for a
\* new reset link, which lock the user and the token in opposite orders.
OnlyResetsDeadlock ==
  \A r \in Requests : Deadlocked(r) => op[r] \in {"reset", "forgot"}

\* Every request ends.
RequestsEnd == \A r \in Requests : pc[r] # "idle" ~> pc[r] = "idle"
-----------------------------------------------------------------------------
(* The properties as the run checks them.                                   *)

\* A refresh token, a reset link and a Google credential each do their work once, and a
\* new password ends what the old one opened.
SecretsAreSpent ==
  /\ TypeOK
  /\ RefreshTokenTradedOnce /\ ResetLinkUsedOnce /\ CredentialUsedOnce
  /\ ResetSignsOut

\* One reset link that works, one verification mail within the cooldown.
MailsPaced == OneOpenReset /\ VerificationsPaced

\* Requests end, and never is there a circle of locks to break but one of resets.
NobodyWaits == RequestsEnd /\ ~<>~OnlyResetsDeadlock
=============================================================================
