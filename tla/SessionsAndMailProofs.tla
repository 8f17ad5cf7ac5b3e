------------------------ MODULE SessionsAndMailProofs ------------------------
(***************************************************************************)
(* Proofs about AuthSessions - types, secrets that do their work once, a   *)
(* reset that signs out, one open reset link, mails that keep their pace,  *)
(* which requests can block each other - and about EmailOutbox, which      *)
(* delivers the mails: types and the retry bound, that a row tells the     *)
(* truth about its message, that no text is lost before it is sent, and    *)
(* that every copy beyond the first has a cause.                           *)
(***************************************************************************)
EXTENDS AuthSessions, EmailOutbox, Integers, FiniteSetTheorems, TLAPS

Resetting(r) == pc[r] \in {"written", "revoked"}

\* What a request has with it at each of its steps.
ShapeOK(r) ==
  /\ pc[r] = "idle" <=> op[r] = "none"
  /\ pc[r] = "user" => op[r] \in {"resend", "forgot"}
  /\ pc[r] = "made" => op[r] = "forgot"
  /\ pc[r] = "token" => op[r] \in {"verify", "reset"}
  /\ pc[r] \in {"hashing", "written", "revoked"} => op[r] = "reset"
  /\ tok[r] # None <=> pc[r] \in {"token", "hashing", "written", "revoked"}
  /\ ses[r] # None <=> pc[r] = "session"
  /\ cred[r] # None => op[r] \in {"google", "signup"}
  /\ op[r] = "google" => cred[r] # None
  /\ pc[r] \notin {"made", "hashing", "written", "revoked"} => consumed[r] = {}
  /\ pc[r] = "begun" => op[r] \in {"register", "login", "google", "signup"}
  /\ pc[r] = "begun" /\ op[r] # "register" => dev[r] # None

ShapesOK == \A r \in Requests : ShapeOK(r)

\* Nobody shares a lock.
LocksOK ==
  \A r, q \in Requests : r # q =>
    /\ ~(HoldsUser(r) /\ HoldsUser(q))
    /\ \A t \in Tokens : ~(HoldsToken(r, t) /\ HoldsToken(q, t))
    /\ \A s \in Sessions : ~(HoldsSession(r, s) /\ HoldsSession(q, s))

\* A token that a request has locked is open, and of the purpose it is used for.
HeldTokenOK(r) ==
  /\ tok[r] # None =>
       token[tok[r]] = "open" /\ (purpose[tok[r]] = "verify_email" <=> op[r] = "verify")
  /\ consumed[r] \subseteq OpenResets

HeldTokensOK == \A r \in Requests : HeldTokenOK(r)

\* A token that is open, or is not there, has not changed the password.
UsesOK ==
  \A t \in Tokens : uses[t] <= 1 /\ (token[t] # "consumed" => uses[t] = 0)

\* There is one reset link, and who makes the next one has it locked.
ResetsOK ==
  /\ \A t, u \in OpenResets : t = u
  /\ \A r \in Requests : pc[r] = "made" => OpenResets \subseteq consumed[r]

\* A mail is only sent when none was within the cooldown.
MailsOK ==
  /\ mails <= 1 /\ (~recent => mails = 0)
  /\ ~registered => ~recent
  /\ \A r \in Requests :
       LocksUser(r) => registered /\ (op[r] = "resend" => ~recent)

\* A refresh has its session locked: it is live, and has the token that was presented.
RefreshOK ==
  /\ RefreshTokenTradedOnce
  /\ \A r \in Requests :
       ses[r] # None => session[ses[r]] = "live" /\ rotation[ses[r]] = seen[r]

\* The sessions a reset has locked are live until it revokes them.
DoomedOK == \A r \in Requests : pc[r] = "revoked" => doomed[r] \subseteq Live

\* The credential of a session is spent.
CredentialsOK ==
  /\ CredentialUsedOnce
  /\ \A s \in Sessions : session[s] # "none" /\ via[s] # None => via[s] \in spent

\* While a reset signs out, every session is one it found or one it crossed.
SignOutOK ==
  /\ ResetSignsOut
  /\ ~registered => password = 0 /\ Live = {} /\ OpenResets = {}
  /\ \A r \in Requests :
       /\ Resetting(r) => Live \subseteq doomed[r] \cup crossed
       /\ pc[r] = "begun" /\ op[r] \in {"login", "google"} =>
            registered /\ seen[r] <= password

IInv ==
  /\ TypeOK /\ ShapesOK /\ LocksOK
  /\ HeldTokensOK /\ UsesOK /\ ResetsOK /\ MailsOK
  /\ RefreshOK /\ DoomedOK /\ CredentialsOK /\ SignOutOK














-----------------------------------------------------------------------------
\* What a request is at is as it was.
SameRequest(q) ==
  /\ op'[q] = op[q] /\ pc'[q] = pc[q] /\ seen'[q] = seen[q]
  /\ tok'[q] = tok[q] /\ ses'[q] = ses[q] /\ cred'[q] = cred[q] /\ dev'[q] = dev[q]
  /\ doomed'[q] = doomed[q] /\ consumed'[q] = consumed[q]

Others(r) == \A q \in Requests \ {r} : SameRequest(q)

Ended(r) ==
  /\ op'[r] = "none" /\ pc'[r] = "idle"
  /\ tok'[r] = None /\ ses'[r] = None /\ cred'[r] = None
  /\ doomed'[r] = {} /\ consumed'[r] = {}

\* A request begins that locks nothing.
Asked(r) ==
  /\ pc[r] = "idle" /\ pc'[r] = "begun"
  /\ op'[r] \in {"register", "login", "google", "signup"}
  /\ tok'[r] = tok[r] /\ ses'[r] = ses[r]
  /\ doomed'[r] = doomed[r] /\ consumed'[r] = consumed[r]
  /\ op'[r] # "register" => dev'[r] # None
  /\ op'[r] \in {"login", "google"} => seen'[r] = password
  /\ op'[r] = "login" => password > 0
  /\ op'[r] = "google" => registered
  /\ op'[r] \in {"register", "login"} => cred'[r] = cred[r]
  /\ op'[r] = "google" => cred'[r] # None

Locking(r) ==
  \/ \E operation \in {"resend", "forgot"} : LockUser(r, operation)
  \/ \E t \in Tokens : LockToken(r, t)
  \/ \E s \in Sessions : LockSession(r, s)
  \/ StaleResets(r) \/ ConsumeOthers(r) \/ WritePassword(r) \/ RevokeSessions(r)

\* The requests take one of four kinds of step.
RequestMoved ==
  \/ UNCHANGED requestVars
  \/ \E r \in Requests : Others(r) /\ (Ended(r) \/ Asked(r) \/ Locking(r))

LEMMA EndFacts ==
  ASSUME TypeOK, NEW r \in Requests, End(r)
  PROVE  Others(r) /\ Ended(r)
BY DEF End, TypeOK, Others, SameRequest, Ended

LEMMA RequestMoves ==
  ASSUME TypeOK, [Next]_vars
  PROVE  RequestMoved
<1>i. TypeOK
  OBVIOUS
<1>1. ASSUME NEW r \in Requests, BeginRegister(r)
      PROVE  RequestMoved
  <2>1. Others(r) /\ Asked(r)
    BY <1>i, <1>1, ConstantsAssumption
    DEF BeginRegister, Arrive, TypeOK, Others, SameRequest, Asked
  <2> QED
    BY <2>1 DEF RequestMoved
<1>2. ASSUME NEW r \in Requests, NEW operation \in {"resend", "forgot"}, LockUser(r, operation)
      PROVE  RequestMoved
  <2>1. Others(r)
    BY <1>i, <1>2 DEF LockUser, Arrive, TypeOK, Others, SameRequest
  <2> QED
    BY <1>2, <2>1 DEF RequestMoved, Locking
<1>3. ASSUME NEW r \in Requests, NEW t \in Tokens, LockToken(r, t)
      PROVE  RequestMoved
  <2>1. Others(r)
    BY <1>i, <1>3 DEF LockToken, Arrive, TypeOK, Others, SameRequest
  <2> QED
    BY <1>3, <2>1 DEF RequestMoved, Locking
<1>4. ASSUME NEW r \in Requests, NEW d \in Devices, BeginLogin(r, d)
      PROVE  RequestMoved
  <2>1. Others(r) /\ Asked(r)
    BY <1>i, <1>4, ConstantsAssumption
    DEF BeginLogin, Arrive, TypeOK, Others, SameRequest, Asked
  <2> QED
    BY <2>1 DEF RequestMoved
<1>5. ASSUME NEW r \in Requests, NEW d \in Devices, BeginJoin(r, d)
      PROVE  RequestMoved
  <2>1. Others(r) /\ Asked(r)
    BY <1>i, <1>5, ConstantsAssumption
    DEF BeginJoin, Arrive, TypeOK, Others, SameRequest, Asked
  <2> QED
    BY <2>1 DEF RequestMoved
<1>6. ASSUME NEW r \in Requests, NEW d \in Devices, NEW n \in Nonces, BeginGoogle(r, d, n)
      PROVE  RequestMoved
  <2>1. Others(r) /\ Asked(r)
    BY <1>i, <1>6, ConstantsAssumption
    DEF BeginGoogle, Arrive, TypeOK, Others, SameRequest, Asked
  <2> QED
    BY <2>1 DEF RequestMoved
<1>7. ASSUME NEW r \in Requests, NEW s \in Sessions, LockSession(r, s)
      PROVE  RequestMoved
  <2>1. Others(r)
    BY <1>i, <1>7 DEF LockSession, Arrive, TypeOK, Others, SameRequest
  <2> QED
    BY <1>7, <2>1 DEF RequestMoved, Locking
<1>8. ASSUME NEW r \in Requests, CommitRegister(r)
      PROVE  RequestMoved
  <2>1. End(r)
    BY <1>8 DEF CommitRegister
  <2> QED
    BY <1>i, <2>1, EndFacts DEF RequestMoved
<1>9. ASSUME NEW r \in Requests, CommitResend(r)
      PROVE  RequestMoved
  <2>1. End(r)
    BY <1>9 DEF CommitResend
  <2> QED
    BY <1>i, <2>1, EndFacts DEF RequestMoved
<1>10. ASSUME NEW r \in Requests, StaleResets(r)
      PROVE  RequestMoved
  <2>1. Others(r)
    BY <1>i, <1>10 DEF StaleResets, Goto, TypeOK, Others, SameRequest
  <2> QED
    BY <1>10, <2>1 DEF RequestMoved, Locking
<1>11. ASSUME NEW r \in Requests, CommitForgot(r)
      PROVE  RequestMoved
  <2>1. End(r)
    BY <1>11 DEF CommitForgot
  <2> QED
    BY <1>i, <2>1, EndFacts DEF RequestMoved
<1>12. ASSUME NEW r \in Requests, CommitVerify(r)
      PROVE  RequestMoved
  <2>1. End(r)
    BY <1>12 DEF CommitVerify
  <2> QED
    BY <1>i, <2>1, EndFacts DEF RequestMoved
<1>13. ASSUME NEW r \in Requests, ConsumeOthers(r)
      PROVE  RequestMoved
  <2>1. Others(r)
    BY <1>i, <1>13 DEF ConsumeOthers, Goto, TypeOK, Others, SameRequest
  <2> QED
    BY <1>13, <2>1 DEF RequestMoved, Locking
<1>14. ASSUME NEW r \in Requests, WritePassword(r)
      PROVE  RequestMoved
  <2>1. Others(r)
    BY <1>i, <1>14 DEF WritePassword, Goto, TypeOK, Others, SameRequest
  <2> QED
    BY <1>14, <2>1 DEF RequestMoved, Locking
<1>15. ASSUME NEW r \in Requests, RevokeSessions(r)
      PROVE  RequestMoved
  <2>1. Others(r)
    BY <1>i, <1>15 DEF RevokeSessions, Goto, TypeOK, Others, SameRequest
  <2> QED
    BY <1>15, <2>1 DEF RequestMoved, Locking
<1>16. ASSUME NEW r \in Requests, CommitReset(r)
      PROVE  RequestMoved
  <2>1. End(r)
    BY <1>16 DEF CommitReset
  <2> QED
    BY <1>i, <2>1, EndFacts DEF RequestMoved
<1>17. ASSUME NEW r \in Requests, CommitLogin(r)
      PROVE  RequestMoved
  <2>1. End(r)
    BY <1>17 DEF CommitLogin
  <2> QED
    BY <1>i, <2>1, EndFacts DEF RequestMoved
<1>18. ASSUME NEW r \in Requests, CommitGoogle(r)
      PROVE  RequestMoved
  <2>1. End(r)
    BY <1>18 DEF CommitGoogle
  <2> QED
    BY <1>i, <2>1, EndFacts DEF RequestMoved
<1>19. ASSUME NEW r \in Requests, CommitSignUp(r)
      PROVE  RequestMoved
  <2>1. End(r)
    BY <1>19 DEF CommitSignUp
  <2> QED
    BY <1>i, <2>1, EndFacts DEF RequestMoved
<1>20. ASSUME NEW r \in Requests, CommitRefresh(r)
      PROVE  RequestMoved
  <2>1. End(r)
    BY <1>20 DEF CommitRefresh
  <2> QED
    BY <1>i, <2>1, EndFacts DEF RequestMoved
<1>21. ASSUME NEW r \in Requests, Rollback(r)
      PROVE  RequestMoved
  <2>1. End(r)
    BY <1>21 DEF Rollback
  <2> QED
    BY <1>i, <2>1, EndFacts DEF RequestMoved
<1>22. ASSUME NEW s \in Sessions, Logout(s)
      PROVE  RequestMoved
  BY <1>22 DEF Logout, SignOut, RequestMoved
<1>23. ASSUME NEW s \in Sessions, RetireSession(s)
      PROVE  RequestMoved
  BY <1>23 DEF RetireSession, RequestMoved
<1>24. ASSUME NEW d \in Devices, DisableDevice(d)
      PROVE  RequestMoved
  BY <1>24 DEF DisableDevice, SignOut, RequestMoved
<1>25. ASSUME NEW t \in Tokens, RetireToken(t)
      PROVE  RequestMoved
  BY <1>25 DEF RetireToken, RequestMoved
<1>26. ASSUME ConfirmDeletion
      PROVE  RequestMoved
  BY <1>26 DEF ConfirmDeletion, SignOut, RequestMoved
<1>27. ASSUME CooldownElapses
      PROVE  RequestMoved
  BY <1>27 DEF CooldownElapses, RequestMoved
<1>28. ASSUME UNCHANGED vars
      PROVE  RequestMoved
  BY <1>28 DEF vars, RequestMoved
<1> QED
  BY <1>1, <1>2, <1>3, <1>4, <1>5, <1>6, <1>7, <1>8, <1>9, <1>10, <1>11, <1>12, <1>13, <1>14,
     <1>15, <1>16, <1>17, <1>18, <1>19, <1>20, <1>21, <1>22, <1>23, <1>24, <1>25, <1>26,
     <1>27, <1>28 DEF Next, Arrival, Progress

\* Who changes the e-mailed tokens.
TokenMoved ==
  \/ UNCHANGED <<token, purpose, uses>>
  \/ \E r \in Requests : CommitForgot(r) \/ CommitVerify(r) \/ CommitReset(r)
  \/ /\ uses' = uses
     /\ \E t \in Tokens : NewToken(t, "verify_email")
  \/ \E t \in Tokens : RetireToken(t)

LEMMA TokenMoves ==
  ASSUME [Next]_vars
  PROVE  TokenMoved
<1> USE DEF userVars, tokenVars, sessionVars, requestVars, sessionHistory
<1>1. ASSUME NEW r \in Requests, BeginRegister(r)
      PROVE  TokenMoved
  BY <1>1 DEF BeginRegister, Arrive, TokenMoved
<1>2. ASSUME NEW r \in Requests, NEW operation \in {"resend", "forgot"}, LockUser(r, operation)
      PROVE  TokenMoved
  BY <1>2 DEF LockUser, Arrive, TokenMoved
<1>3. ASSUME NEW r \in Requests, NEW t \in Tokens, LockToken(r, t)
      PROVE  TokenMoved
  BY <1>3 DEF LockToken, Arrive, TokenMoved
<1>4. ASSUME NEW r \in Requests, NEW d \in Devices, BeginLogin(r, d)
      PROVE  TokenMoved
  BY <1>4 DEF BeginLogin, Arrive, TokenMoved
<1>5. ASSUME NEW r \in Requests, NEW d \in Devices, BeginJoin(r, d)
      PROVE  TokenMoved
  BY <1>5 DEF BeginJoin, Arrive, TokenMoved
<1>6. ASSUME NEW r \in Requests, NEW d \in Devices, NEW n \in Nonces, BeginGoogle(r, d, n)
      PROVE  TokenMoved
  BY <1>6 DEF BeginGoogle, Arrive, TokenMoved
<1>7. ASSUME NEW r \in Requests, NEW s \in Sessions, LockSession(r, s)
      PROVE  TokenMoved
  BY <1>7 DEF LockSession, Arrive, TokenMoved
<1>8. ASSUME NEW r \in Requests, CommitRegister(r)
      PROVE  TokenMoved
  BY <1>8 DEF CommitRegister, QueueVerification, NewToken, End, TokenMoved
<1>9. ASSUME NEW r \in Requests, CommitResend(r)
      PROVE  TokenMoved
  BY <1>9 DEF CommitResend, QueueVerification, NewToken, End, TokenMoved
<1>10. ASSUME NEW r \in Requests, StaleResets(r)
      PROVE  TokenMoved
  BY <1>10 DEF StaleResets, Goto, OpenResets, TokenMoved
<1>11. ASSUME NEW r \in Requests, CommitForgot(r)
      PROVE  TokenMoved
  BY <1>11 DEF CommitForgot, End, TokenMoved
<1>12. ASSUME NEW r \in Requests, CommitVerify(r)
      PROVE  TokenMoved
  BY <1>12 DEF CommitVerify, End, TokenMoved
<1>13. ASSUME NEW r \in Requests, ConsumeOthers(r)
      PROVE  TokenMoved
  BY <1>13 DEF ConsumeOthers, Goto, OpenResets, TokenMoved
<1>14. ASSUME NEW r \in Requests, WritePassword(r)
      PROVE  TokenMoved
  BY <1>14 DEF WritePassword, Goto, Live, TokenMoved
<1>15. ASSUME NEW r \in Requests, RevokeSessions(r)
      PROVE  TokenMoved
  BY <1>15 DEF RevokeSessions, Goto, Live, TokenMoved
<1>16. ASSUME NEW r \in Requests, CommitReset(r)
      PROVE  TokenMoved
  BY <1>16 DEF CommitReset, End, TokenMoved
<1>17. ASSUME NEW r \in Requests, CommitLogin(r)
      PROVE  TokenMoved
  BY <1>17 DEF CommitLogin, TokenMoved
<1>18. ASSUME NEW r \in Requests, CommitGoogle(r)
      PROVE  TokenMoved
  BY <1>18 DEF CommitGoogle, TokenMoved
<1>19. ASSUME NEW r \in Requests, CommitSignUp(r)
      PROVE  TokenMoved
  BY <1>19 DEF CommitSignUp, TokenMoved
<1>20. ASSUME NEW r \in Requests, CommitRefresh(r)
      PROVE  TokenMoved
  BY <1>20 DEF CommitRefresh, End, TokenMoved
<1>21. ASSUME NEW r \in Requests, Rollback(r)
      PROVE  TokenMoved
  BY <1>21 DEF Rollback, End, TokenMoved
<1>22. ASSUME NEW s \in Sessions, Logout(s)
      PROVE  TokenMoved
  BY <1>22 DEF Logout, SignOut, TokenMoved
<1>23. ASSUME NEW s \in Sessions, RetireSession(s)
      PROVE  TokenMoved
  BY <1>23 DEF RetireSession, TokenMoved
<1>24. ASSUME NEW d \in Devices, DisableDevice(d)
      PROVE  TokenMoved
  BY <1>24 DEF DisableDevice, SignOut, TokenMoved
<1>25. ASSUME NEW t \in Tokens, RetireToken(t)
      PROVE  TokenMoved
  BY <1>25 DEF RetireToken, TokenMoved
<1>26. ASSUME ConfirmDeletion
      PROVE  TokenMoved
  BY <1>26 DEF ConfirmDeletion, SignOut, TokenMoved
<1>27. ASSUME CooldownElapses
      PROVE  TokenMoved
  BY <1>27 DEF CooldownElapses, TokenMoved
<1>28. ASSUME UNCHANGED vars
      PROVE  TokenMoved
  BY <1>28 DEF vars, TokenMoved
<1> QED
  BY <1>1, <1>2, <1>3, <1>4, <1>5, <1>6, <1>7, <1>8, <1>9, <1>10, <1>11, <1>12, <1>13, <1>14,
     <1>15, <1>16, <1>17, <1>18, <1>19, <1>20, <1>21, <1>22, <1>23, <1>24, <1>25, <1>26,
     <1>27, <1>28 DEF Next, Arrival, Progress

\* Who changes the sessions.
sessionRows == <<session, rotation, trades, proof, via, crossed>>
Issuing(r) == CommitLogin(r) \/ CommitGoogle(r) \/ CommitSignUp(r)

\* Sessions that nobody has locked are revoked, or deleted.
Left(s) == session'[s] = session[s] \/ (session'[s] = "revoked" /\ session[s] = "live")
                                    \/ (session'[s] = "none" /\ session[s] = "revoked")
SessionsLeft ==
  /\ UNCHANGED <<rotation, trades, proof, via, crossed>>
  /\ \A s \in Sessions : Left(s) /\ (session'[s] # session[s] => SessionFree(s))

SessionMoved ==
  \/ UNCHANGED sessionRows
  \/ \E r \in Requests : Issuing(r) \/ CommitRefresh(r) \/ CommitReset(r)
  \/ SessionsLeft

LEMMA SessionMoves ==
  ASSUME TypeOK, [Next]_vars
  PROVE  SessionMoved
<1>i. TypeOK
  OBVIOUS
<1> USE DEF sessionRows, userVars, tokenVars, sessionVars, requestVars, sessionHistory
<1>1. ASSUME NEW r \in Requests, BeginRegister(r)
      PROVE  SessionMoved
  BY <1>1 DEF BeginRegister, Arrive, SessionMoved
<1>2. ASSUME NEW r \in Requests, NEW operation \in {"resend", "forgot"}, LockUser(r, operation)
      PROVE  SessionMoved
  BY <1>2 DEF LockUser, Arrive, SessionMoved
<1>3. ASSUME NEW r \in Requests, NEW t \in Tokens, LockToken(r, t)
      PROVE  SessionMoved
  BY <1>3 DEF LockToken, Arrive, SessionMoved
<1>4. ASSUME NEW r \in Requests, NEW d \in Devices, BeginLogin(r, d)
      PROVE  SessionMoved
  BY <1>4 DEF BeginLogin, Arrive, SessionMoved
<1>5. ASSUME NEW r \in Requests, NEW d \in Devices, BeginJoin(r, d)
      PROVE  SessionMoved
  BY <1>5 DEF BeginJoin, Arrive, SessionMoved
<1>6. ASSUME NEW r \in Requests, NEW d \in Devices, NEW n \in Nonces, BeginGoogle(r, d, n)
      PROVE  SessionMoved
  BY <1>6 DEF BeginGoogle, Arrive, SessionMoved
<1>7. ASSUME NEW r \in Requests, NEW s \in Sessions, LockSession(r, s)
      PROVE  SessionMoved
  BY <1>7 DEF LockSession, Arrive, SessionMoved
<1>8. ASSUME NEW r \in Requests, CommitRegister(r)
      PROVE  SessionMoved
  BY <1>8 DEF CommitRegister, QueueVerification, NewToken, End, SessionMoved
<1>9. ASSUME NEW r \in Requests, CommitResend(r)
      PROVE  SessionMoved
  BY <1>9 DEF CommitResend, QueueVerification, NewToken, End, SessionMoved
<1>10. ASSUME NEW r \in Requests, StaleResets(r)
      PROVE  SessionMoved
  BY <1>10 DEF StaleResets, Goto, OpenResets, SessionMoved
<1>11. ASSUME NEW r \in Requests, CommitForgot(r)
      PROVE  SessionMoved
  BY <1>11 DEF CommitForgot, End, SessionMoved
<1>12. ASSUME NEW r \in Requests, CommitVerify(r)
      PROVE  SessionMoved
  BY <1>12 DEF CommitVerify, End, SessionMoved
<1>13. ASSUME NEW r \in Requests, ConsumeOthers(r)
      PROVE  SessionMoved
  BY <1>13 DEF ConsumeOthers, Goto, OpenResets, SessionMoved
<1>14. ASSUME NEW r \in Requests, WritePassword(r)
      PROVE  SessionMoved
  BY <1>14 DEF WritePassword, Goto, Live, SessionMoved
<1>15. ASSUME NEW r \in Requests, RevokeSessions(r)
      PROVE  SessionMoved
  BY <1>15 DEF RevokeSessions, Goto, Live, SessionMoved
<1>16. ASSUME NEW r \in Requests, CommitReset(r)
      PROVE  SessionMoved
  BY <1>16 DEF SessionMoved, Issuing
<1>17. ASSUME NEW r \in Requests, CommitLogin(r)
      PROVE  SessionMoved
  BY <1>17 DEF SessionMoved, Issuing
<1>18. ASSUME NEW r \in Requests, CommitGoogle(r)
      PROVE  SessionMoved
  BY <1>18 DEF SessionMoved, Issuing
<1>19. ASSUME NEW r \in Requests, CommitSignUp(r)
      PROVE  SessionMoved
  BY <1>19 DEF SessionMoved, Issuing
<1>20. ASSUME NEW r \in Requests, CommitRefresh(r)
      PROVE  SessionMoved
  BY <1>20 DEF SessionMoved, Issuing
<1>21. ASSUME NEW r \in Requests, Rollback(r)
      PROVE  SessionMoved
  BY <1>21 DEF Rollback, End, SessionMoved
<1>22. ASSUME NEW s \in Sessions, Logout(s)
      PROVE  SessionMoved
  <2>1. SessionsLeft
    BY <1>i, <1>22 DEF SessionsLeft, Left, Logout, SignOut, Live, TypeOK
  <2> QED
    BY <2>1 DEF SessionMoved
<1>23. ASSUME NEW s \in Sessions, RetireSession(s)
      PROVE  SessionMoved
  <2>1. SessionsLeft
    BY <1>i, <1>23 DEF SessionsLeft, Left, RetireSession, SignOut, Live, TypeOK
  <2> QED
    BY <2>1 DEF SessionMoved
<1>24. ASSUME NEW d \in Devices, DisableDevice(d)
      PROVE  SessionMoved
  <2>1. SessionsLeft
    BY <1>i, <1>24 DEF SessionsLeft, Left, DisableDevice, SignOut, Live, TypeOK
  <2> QED
    BY <2>1 DEF SessionMoved
<1>25. ASSUME NEW t \in Tokens, RetireToken(t)
      PROVE  SessionMoved
  BY <1>25 DEF RetireToken, SessionMoved
<1>26. ASSUME ConfirmDeletion
      PROVE  SessionMoved
  <2>1. SessionsLeft
    BY <1>i, <1>26 DEF SessionsLeft, Left, ConfirmDeletion, SignOut, Live, TypeOK
  <2> QED
    BY <2>1 DEF SessionMoved
<1>27. ASSUME CooldownElapses
      PROVE  SessionMoved
  BY <1>27 DEF CooldownElapses, SessionMoved
<1>28. ASSUME UNCHANGED vars
      PROVE  SessionMoved
  BY <1>28 DEF vars, SessionMoved
<1> QED
  BY <1>1, <1>2, <1>3, <1>4, <1>5, <1>6, <1>7, <1>8, <1>9, <1>10, <1>11, <1>12, <1>13, <1>14,
     <1>15, <1>16, <1>17, <1>18, <1>19, <1>20, <1>21, <1>22, <1>23, <1>24, <1>25, <1>26,
     <1>27, <1>28 DEF Next, Arrival, Progress

\* A new session takes a row that is free.
Issued(r, s) ==
  /\ session[s] = "none" /\ MayReferToUser
  /\ session' = [session EXCEPT ![s] = "live"]
  /\ device' = [device EXCEPT ![s] = dev[r]]
  /\ rotation' = [rotation EXCEPT ![s] = 0]
  /\ trades' = [trades EXCEPT ![s] = 0]
  /\ proof' = [proof EXCEPT ![s] = seen[r]]
  /\ via' = [via EXCEPT ![s] = cred[r]]
  /\ crossed' = IF seen[r] < password \/ \E q \in Requests : Resetting(q)
                THEN crossed \cup {s} ELSE crossed \ {s}

LEMMA IssueFacts ==
  ASSUME NEW r \in Requests, Issue(r)
  PROVE  \E s \in Sessions : Issued(r, s)
BY DEF Issue, Issued, Resetting

LEMMA TypeStep == IInv /\ [Next]_vars => TypeOK'
<1> SUFFICES ASSUME TypeOK, ShapesOK, [Next]_vars PROVE TypeOK'
  BY DEF IInv
<1> USE ConstantsAssumption
    DEF TypeOK, Operations, userVars, tokenVars, sessionVars, requestVars, sessionHistory
<1>1. ASSUME NEW r \in Requests, BeginRegister(r)
      PROVE  TypeOK'
  BY <1>1 DEF BeginRegister, Arrive
<1>2. ASSUME NEW r \in Requests, NEW operation \in {"resend", "forgot"}, LockUser(r, operation)
      PROVE  TypeOK'
  BY <1>2 DEF LockUser, Arrive
<1>3. ASSUME NEW r \in Requests, NEW t \in Tokens, LockToken(r, t)
      PROVE  TypeOK'
  BY <1>3 DEF LockToken, Arrive
<1>4. ASSUME NEW r \in Requests, NEW d \in Devices, BeginLogin(r, d)
      PROVE  TypeOK'
  BY <1>4 DEF BeginLogin, Arrive
<1>5. ASSUME NEW r \in Requests, NEW d \in Devices, BeginJoin(r, d)
      PROVE  TypeOK'
  BY <1>5 DEF BeginJoin, Arrive
<1>6. ASSUME NEW r \in Requests, NEW d \in Devices, NEW n \in Nonces, BeginGoogle(r, d, n)
      PROVE  TypeOK'
  BY <1>6 DEF BeginGoogle, Arrive
<1>7. ASSUME NEW r \in Requests, NEW s \in Sessions, LockSession(r, s)
      PROVE  TypeOK'
  BY <1>7 DEF LockSession, Arrive
<1>8. ASSUME NEW r \in Requests, CommitRegister(r)
      PROVE  TypeOK'
  BY <1>8 DEF CommitRegister, QueueVerification, NewToken, End
<1>9. ASSUME NEW r \in Requests, CommitResend(r)
      PROVE  TypeOK'
  BY <1>9 DEF CommitResend, QueueVerification, NewToken, End
<1>10. ASSUME NEW r \in Requests, StaleResets(r)
      PROVE  TypeOK'
  BY <1>10 DEF StaleResets, Goto, OpenResets
<1>11. ASSUME NEW r \in Requests, CommitForgot(r)
      PROVE  TypeOK'
  BY <1>11 DEF CommitForgot, End
<1>12. ASSUME NEW r \in Requests, CommitVerify(r)
      PROVE  TypeOK'
  BY <1>12 DEF CommitVerify, End, ShapesOK, ShapeOK
<1>13. ASSUME NEW r \in Requests, ConsumeOthers(r)
      PROVE  TypeOK'
  BY <1>13 DEF ConsumeOthers, Goto, OpenResets
<1>14. ASSUME NEW r \in Requests, WritePassword(r)
      PROVE  TypeOK'
  BY <1>14 DEF WritePassword, Goto, Live
<1>15. ASSUME NEW r \in Requests, RevokeSessions(r)
      PROVE  TypeOK'
  BY <1>15 DEF RevokeSessions, Goto, Live
<1>16. ASSUME NEW r \in Requests, CommitReset(r)
      PROVE  TypeOK'
  BY <1>16 DEF CommitReset, End, ShapesOK, ShapeOK
<1>17. ASSUME NEW r \in Requests, CommitLogin(r)
      PROVE  TypeOK'
  <2>1. dev[r] \in Devices /\ cred[r] \in Nonces \cup {None} /\ seen[r] \in Nat
    BY <1>17 DEF CommitLogin, ShapesOK, ShapeOK
  <2>2. /\ session' \in [Sessions -> {"none", "live", "revoked"}]
        /\ device' \in [Sessions -> Devices] /\ rotation' \in [Sessions -> Nat]
        /\ trades' \in [Sessions -> Nat] /\ proof' \in [Sessions -> Nat]
        /\ via' \in [Sessions -> Nonces \cup {None}] /\ crossed' \subseteq Sessions
    <3>1. PICK s \in Sessions : Issued(r, s)
      BY <1>17, IssueFacts DEF CommitLogin
    <3> QED
      BY <2>1, <3>1 DEF Issued
  <2> QED
    BY <1>17, <2>1, <2>2 DEF CommitLogin, End
<1>18. ASSUME NEW r \in Requests, CommitGoogle(r)
      PROVE  TypeOK'
  <2>1. dev[r] \in Devices /\ cred[r] \in Nonces \cup {None} /\ seen[r] \in Nat
    BY <1>18 DEF CommitGoogle, ShapesOK, ShapeOK
  <2>2. /\ session' \in [Sessions -> {"none", "live", "revoked"}]
        /\ device' \in [Sessions -> Devices] /\ rotation' \in [Sessions -> Nat]
        /\ trades' \in [Sessions -> Nat] /\ proof' \in [Sessions -> Nat]
        /\ via' \in [Sessions -> Nonces \cup {None}] /\ crossed' \subseteq Sessions
    <3>1. PICK s \in Sessions : Issued(r, s)
      BY <1>18, IssueFacts DEF CommitGoogle
    <3> QED
      BY <2>1, <3>1 DEF Issued
  <2> QED
    BY <1>18, <2>1, <2>2 DEF CommitGoogle, End, ShapesOK, ShapeOK
<1>19. ASSUME NEW r \in Requests, CommitSignUp(r)
      PROVE  TypeOK'
  <2>1. dev[r] \in Devices /\ cred[r] \in Nonces \cup {None} /\ seen[r] \in Nat
    BY <1>19 DEF CommitSignUp, ShapesOK, ShapeOK
  <2>2. /\ session' \in [Sessions -> {"none", "live", "revoked"}]
        /\ device' \in [Sessions -> Devices] /\ rotation' \in [Sessions -> Nat]
        /\ trades' \in [Sessions -> Nat] /\ proof' \in [Sessions -> Nat]
        /\ via' \in [Sessions -> Nonces \cup {None}] /\ crossed' \subseteq Sessions
    <3>1. PICK s \in Sessions : Issued(r, s)
      BY <1>19, IssueFacts DEF CommitSignUp
    <3> QED
      BY <2>1, <3>1 DEF Issued
  <2> QED
    BY <1>19, <2>1, <2>2 DEF CommitSignUp, End, ShapesOK, ShapeOK
<1>20. ASSUME NEW r \in Requests, CommitRefresh(r)
      PROVE  TypeOK'
  BY <1>20 DEF CommitRefresh, End, ShapesOK, ShapeOK
<1>21. ASSUME NEW r \in Requests, Rollback(r)
      PROVE  TypeOK'
  BY <1>21 DEF Rollback, End
<1>22. ASSUME NEW s \in Sessions, Logout(s)
      PROVE  TypeOK'
  BY <1>22 DEF Logout, SignOut
<1>23. ASSUME NEW s \in Sessions, RetireSession(s)
      PROVE  TypeOK'
  BY <1>23 DEF RetireSession
<1>24. ASSUME NEW d \in Devices, DisableDevice(d)
      PROVE  TypeOK'
  BY <1>24 DEF DisableDevice, SignOut
<1>25. ASSUME NEW t \in Tokens, RetireToken(t)
      PROVE  TypeOK'
  BY <1>25 DEF RetireToken
<1>26. ASSUME ConfirmDeletion
      PROVE  TypeOK'
  BY <1>26 DEF ConfirmDeletion, SignOut
<1>27. ASSUME CooldownElapses
      PROVE  TypeOK'
  BY <1>27 DEF CooldownElapses
<1>28. ASSUME UNCHANGED vars
      PROVE  TypeOK'
  BY <1>28 DEF vars
<1> QED
  BY <1>1, <1>2, <1>3, <1>4, <1>5, <1>6, <1>7, <1>8, <1>9, <1>10, <1>11, <1>12, <1>13, <1>14,
     <1>15, <1>16, <1>17, <1>18, <1>19, <1>20, <1>21, <1>22, <1>23, <1>24, <1>25, <1>26,
     <1>27, <1>28 DEF Next, Arrival, Progress

LEMMA ShapesStep == IInv /\ [Next]_vars => ShapesOK'
<1> SUFFICES ASSUME IInv, [Next]_vars, NEW q \in Requests
             PROVE  ShapeOK(q)'
  BY DEF ShapesOK
<1>i. TypeOK /\ ShapeOK(q)
  BY DEF IInv, ShapesOK
<1>m. RequestMoved
  BY <1>i, RequestMoves
<1>a. None \notin Requests \cup Sessions \cup Tokens \cup Devices \cup Nonces
  BY ConstantsAssumption
<1>1. CASE UNCHANGED requestVars
  BY <1>i, <1>a, <1>1 DEF requestVars, ShapeOK, TypeOK
<1>2. ASSUME NEW r \in Requests, Others(r), Ended(r)
      PROVE  ShapeOK(q)'
  BY <1>i, <1>a, <1>2 DEF Others, SameRequest, Ended, ShapeOK, TypeOK
<1>3. ASSUME NEW r \in Requests, Others(r), Asked(r)
      PROVE  ShapeOK(q)'
  BY <1>i, <1>a, <1>3 DEF Others, SameRequest, Asked, ShapeOK, TypeOK
<1>4. ASSUME NEW r \in Requests, NEW operation \in {"resend", "forgot"}, LockUser(r, operation)
      PROVE  ShapeOK(q)'
  BY <1>i, <1>a, <1>4 DEF LockUser, Arrive, ShapeOK, TypeOK
<1>5. ASSUME NEW r \in Requests, NEW t \in Tokens, LockToken(r, t)
      PROVE  ShapeOK(q)'
  BY <1>i, <1>a, <1>5 DEF LockToken, Arrive, ShapeOK, TypeOK
<1>6. ASSUME NEW r \in Requests, NEW s \in Sessions, LockSession(r, s)
      PROVE  ShapeOK(q)'
  BY <1>i, <1>a, <1>6 DEF LockSession, Arrive, ShapeOK, TypeOK
<1>7. ASSUME NEW r \in Requests, StaleResets(r)
      PROVE  ShapeOK(q)'
  BY <1>i, <1>a, <1>7 DEF StaleResets, Goto, ShapeOK, TypeOK
<1>8. ASSUME NEW r \in Requests, ConsumeOthers(r)
      PROVE  ShapeOK(q)'
  BY <1>i, <1>a, <1>8 DEF ConsumeOthers, Goto, ShapeOK, TypeOK
<1>9. ASSUME NEW r \in Requests, WritePassword(r)
      PROVE  ShapeOK(q)'
  BY <1>i, <1>a, <1>9 DEF WritePassword, Goto, ShapeOK, TypeOK
<1>10. ASSUME NEW r \in Requests, RevokeSessions(r)
      PROVE  ShapeOK(q)'
  BY <1>i, <1>a, <1>10 DEF RevokeSessions, Goto, ShapeOK, TypeOK
<1> QED
  BY <1>1, <1>2, <1>3, <1>4, <1>5, <1>6, <1>7, <1>8, <1>9, <1>10, <1>m DEF RequestMoved,
     Locking

LEMMA LocksStep == IInv /\ [Next]_vars => LocksOK'
<1> DEFINE Apart(a, b) ==
      /\ ~(HoldsUser(a) /\ HoldsUser(b))
      /\ \A t \in Tokens : ~(HoldsToken(a, t) /\ HoldsToken(b, t))
      /\ \A s \in Sessions : ~(HoldsSession(a, s) /\ HoldsSession(b, s))
<1> SUFFICES ASSUME IInv, [Next]_vars, NEW a \in Requests, NEW b \in Requests, a # b
             PROVE  Apart(a, b)'
  BY DEF LocksOK
<1>i. TypeOK /\ ShapeOK(a) /\ ShapeOK(b) /\ Apart(a, b)
  BY DEF IInv, ShapesOK, LocksOK
<1>m. RequestMoved
  BY <1>i, RequestMoves
<1>a. None \notin Requests \cup Sessions \cup Tokens \cup Devices \cup Nonces
  BY ConstantsAssumption
<1>1. CASE UNCHANGED requestVars
  BY <1>i, <1>a, <1>1 DEF requestVars, HoldsUser, LocksUser, HoldsToken, HoldsSession,
     ShapeOK, TypeOK, UserFree, TokenFree, SessionFree, OpenResets
<1>2. ASSUME NEW r \in Requests, Others(r), Ended(r)
      PROVE  Apart(a, b)'
  BY <1>i, <1>a, <1>2 DEF Others, SameRequest, Ended, HoldsUser, LocksUser, HoldsToken,
     HoldsSession, ShapeOK, TypeOK, UserFree, TokenFree, SessionFree, OpenResets
<1>3. ASSUME NEW r \in Requests, Others(r), Asked(r)
      PROVE  Apart(a, b)'
  BY <1>i, <1>a, <1>3 DEF Others, SameRequest, Asked, HoldsUser, LocksUser, HoldsToken,
     HoldsSession, ShapeOK, TypeOK, UserFree, TokenFree, SessionFree, OpenResets
<1>4. ASSUME NEW r \in Requests, NEW operation \in {"resend", "forgot"}, LockUser(r, operation)
      PROVE  Apart(a, b)'
  BY <1>i, <1>a, <1>4 DEF LockUser, Arrive, HoldsUser, LocksUser, HoldsToken, HoldsSession,
     ShapeOK, TypeOK, UserFree, TokenFree, SessionFree, OpenResets
<1>5. ASSUME NEW r \in Requests, NEW t \in Tokens, LockToken(r, t)
      PROVE  Apart(a, b)'
  BY <1>i, <1>a, <1>5 DEF LockToken, Arrive, HoldsUser, LocksUser, HoldsToken, HoldsSession,
     ShapeOK, TypeOK, UserFree, TokenFree, SessionFree, OpenResets
<1>6. ASSUME NEW r \in Requests, NEW s \in Sessions, LockSession(r, s)
      PROVE  Apart(a, b)'
  BY <1>i, <1>a, <1>6 DEF LockSession, Arrive, HoldsUser, LocksUser, HoldsToken, HoldsSession,
     ShapeOK, TypeOK, UserFree, TokenFree, SessionFree, OpenResets
<1>7. ASSUME NEW r \in Requests, StaleResets(r)
      PROVE  Apart(a, b)'
  BY <1>i, <1>a, <1>7 DEF StaleResets, Goto, HoldsUser, LocksUser, HoldsToken, HoldsSession,
     ShapeOK, TypeOK, UserFree, TokenFree, SessionFree, OpenResets
<1>8. ASSUME NEW r \in Requests, ConsumeOthers(r)
      PROVE  Apart(a, b)'
  BY <1>i, <1>a, <1>8 DEF ConsumeOthers, Goto, HoldsUser, LocksUser, HoldsToken, HoldsSession,
     ShapeOK, TypeOK, UserFree, TokenFree, SessionFree, OpenResets
<1>9. ASSUME NEW r \in Requests, WritePassword(r)
      PROVE  Apart(a, b)'
  BY <1>i, <1>a, <1>9 DEF WritePassword, Goto, HoldsUser, LocksUser, HoldsToken, HoldsSession,
     ShapeOK, TypeOK, UserFree, TokenFree, SessionFree, OpenResets
<1>10. ASSUME NEW r \in Requests, RevokeSessions(r)
      PROVE  Apart(a, b)'
  BY <1>i, <1>a, <1>10 DEF RevokeSessions, Goto, HoldsUser, LocksUser, HoldsToken,
     HoldsSession, ShapeOK, TypeOK, UserFree, TokenFree, SessionFree, OpenResets
<1> QED
  BY <1>1, <1>2, <1>3, <1>4, <1>5, <1>6, <1>7, <1>8, <1>9, <1>10, <1>m DEF RequestMoved,
     Locking

\* What a request has locked it keeps until it ends; these are its steps that lock.
LEMMA Locked ==
  ASSUME TypeOK, ShapesOK, [Next]_vars, NEW q \in Requests
  PROVE  /\ \/ tok'[q] = None
            \/ tok'[q] = tok[q] /\ op'[q] = op[q]
            \/ \E t \in Tokens : LockToken(q, t)
         /\ \/ consumed'[q] = {}
            \/ consumed'[q] = consumed[q]
            \/ StaleResets(q) \/ ConsumeOthers(q)
         /\ \/ ses'[q] = None
            \/ ses'[q] = ses[q] /\ seen'[q] = seen[q]
            \/ \E s \in Sessions : LockSession(q, s)
<1>i. TypeOK /\ ShapeOK(q)
  BY DEF ShapesOK
<1>m. RequestMoved
  BY <1>i, RequestMoves
<1> DEFINE Goal == 
      /\ \/ tok'[q] = None
         \/ tok'[q] = tok[q] /\ op'[q] = op[q]
         \/ \E t \in Tokens : LockToken(q, t)
      /\ \/ consumed'[q] = {}
         \/ consumed'[q] = consumed[q]
         \/ StaleResets(q) \/ ConsumeOthers(q)
      /\ \/ ses'[q] = None
         \/ ses'[q] = ses[q] /\ seen'[q] = seen[q]
         \/ \E s \in Sessions : LockSession(q, s)
<1>1. CASE UNCHANGED requestVars
  BY <1>i, <1>1 DEF requestVars, ShapeOK, TypeOK
<1>2. ASSUME NEW r \in Requests, Others(r), Ended(r)
      PROVE  Goal
  BY <1>i, <1>2 DEF Others, SameRequest, Ended, ShapeOK, TypeOK
<1>3. ASSUME NEW r \in Requests, Others(r), Asked(r)
      PROVE  Goal
  BY <1>i, <1>3 DEF Others, SameRequest, Asked, ShapeOK, TypeOK
<1>4. ASSUME NEW r \in Requests, NEW operation \in {"resend", "forgot"}, LockUser(r, operation)
      PROVE  Goal
  BY <1>i, <1>4 DEF LockUser, Arrive, ShapeOK, TypeOK
<1>5. ASSUME NEW r \in Requests, NEW t \in Tokens, LockToken(r, t)
      PROVE  Goal
  BY <1>i, <1>5 DEF LockToken, Arrive, ShapeOK, TypeOK
<1>6. ASSUME NEW r \in Requests, NEW s \in Sessions, LockSession(r, s)
      PROVE  Goal
  BY <1>i, <1>6 DEF LockSession, Arrive, ShapeOK, TypeOK
<1>7. ASSUME NEW r \in Requests, StaleResets(r)
      PROVE  Goal
  BY <1>i, <1>7 DEF StaleResets, Goto, ShapeOK, TypeOK
<1>8. ASSUME NEW r \in Requests, ConsumeOthers(r)
      PROVE  Goal
  BY <1>i, <1>8 DEF ConsumeOthers, Goto, ShapeOK, TypeOK
<1>9. ASSUME NEW r \in Requests, WritePassword(r)
      PROVE  Goal
  BY <1>i, <1>9 DEF WritePassword, Goto, ShapeOK, TypeOK
<1>10. ASSUME NEW r \in Requests, RevokeSessions(r)
      PROVE  Goal
  BY <1>i, <1>10 DEF RevokeSessions, Goto, ShapeOK, TypeOK
<1> QED
  BY <1>1, <1>2, <1>3, <1>4, <1>5, <1>6, <1>7, <1>8, <1>9, <1>10, <1>m DEF RequestMoved,
     Locking

\* Tokens that stay locked stay as they are.
LEMMA HeldTokensStay ==
  ASSUME IInv, [Next]_vars, NEW q \in Requests, NEW t \in Tokens,
         HoldsToken(q, t), HoldsToken(q, t)'
  PROVE  token'[t] = token[t] /\ purpose'[t] = purpose[t]
<1>i. TypeOK /\ HeldTokenOK(q) /\ ShapesOK
  BY DEF IInv, HeldTokensOK
<1>1. token[t] = "open"
  BY <1>i, ConstantsAssumption DEF HoldsToken, HeldTokenOK, OpenResets
<1>2. \A r \in Requests : HoldsToken(r, t) => r = q
  BY DEF IInv, LocksOK
<1>3. \A r \in Requests : End(r) => r # q
  <2> SUFFICES ASSUME End(q) PROVE FALSE
    OBVIOUS
  <2>1. tok'[q] = None /\ consumed'[q] = {}
    BY <1>i DEF End, TypeOK
  <2> QED
    BY <2>1, ConstantsAssumption DEF HoldsToken
<1>4. CASE UNCHANGED <<token, purpose, uses>>
  BY <1>4
<1>5. ASSUME NEW r \in Requests, CommitForgot(r)
      PROVE  token'[t] = token[t] /\ purpose'[t] = purpose[t]
  <2>1. t \notin consumed[r]
    BY <1>2, <1>3, <1>5 DEF CommitForgot, HoldsToken
  <2> QED
    BY <1>i, <1>1, <1>5, <2>1 DEF CommitForgot, TypeOK
<1>6. ASSUME NEW r \in Requests, CommitVerify(r) \/ CommitReset(r)
      PROVE  token'[t] = token[t] /\ purpose'[t] = purpose[t]
  <2>1. t \notin consumed[r] /\ t # tok[r]
    BY <1>2, <1>3, <1>6 DEF CommitVerify, CommitReset, HoldsToken
  <2> QED
    BY <1>i, <1>6, <2>1 DEF CommitVerify, CommitReset, TypeOK
<1>7. ASSUME NEW n \in Tokens, NewToken(n, "verify_email")
      PROVE  token'[t] = token[t] /\ purpose'[t] = purpose[t]
  BY <1>i, <1>1, <1>7 DEF NewToken, TypeOK
<1>8. ASSUME NEW n \in Tokens, RetireToken(n)
      PROVE  token'[t] = token[t] /\ purpose'[t] = purpose[t]
  BY <1>i, <1>8 DEF RetireToken, TokenFree, TypeOK
<1> QED
  BY <1>4, <1>5, <1>6, <1>7, <1>8, TokenMoves DEF TokenMoved

LEMMA HeldTokensStep == IInv /\ [Next]_vars => HeldTokensOK'
<1> SUFFICES ASSUME IInv, [Next]_vars, NEW q \in Requests
             PROVE  HeldTokenOK(q)'
  BY DEF HeldTokensOK
<1>i. TypeOK /\ ShapesOK /\ ShapeOK(q) /\ HeldTokenOK(q)
  BY DEF IInv, ShapesOK, HeldTokensOK
<1>t. TypeOK'
  BY TypeStep
<1>s. \A t \in Tokens : HoldsToken(q, t) /\ HoldsToken(q, t)' =>
        token'[t] = token[t] /\ purpose'[t] = purpose[t]
  BY HeldTokensStay
<1>1. tok'[q] # None => /\ token'[tok'[q]] = "open"
                        /\ purpose'[tok'[q]] = "verify_email" <=> op'[q] = "verify"
  <2>1. CASE tok'[q] = None
    BY <2>1
  <2>2. CASE tok'[q] = tok[q] /\ op'[q] = op[q] /\ tok'[q] # None
    BY <1>i, <1>s, <2>2 DEF HeldTokenOK, HoldsToken, TypeOK
  <2>3. ASSUME NEW t \in Tokens, LockToken(q, t)
        PROVE  /\ token'[tok'[q]] = "open"
               /\ purpose'[tok'[q]] = "verify_email" <=> op'[q] = "verify"
    BY <1>i, <2>3 DEF LockToken, Arrive, tokenVars, TypeOK
  <2> QED
    BY <1>i, <2>1, <2>2, <2>3, Locked
<1>2. consumed'[q] \subseteq OpenResets'
  <2>1. CASE consumed'[q] = {}
    BY <2>1
  <2>2. CASE consumed'[q] = consumed[q]
    BY <1>i, <1>s, <2>2 DEF HeldTokenOK, HoldsToken, OpenResets
  <2>3. CASE StaleResets(q) \/ ConsumeOthers(q)
    BY <1>i, <2>3 DEF StaleResets, ConsumeOthers, Goto, tokenVars, OpenResets, TypeOK
  <2> QED
    BY <1>i, <2>1, <2>2, <2>3, Locked
<1> QED
  BY <1>1, <1>2 DEF HeldTokenOK

LEMMA UsesStep == IInv /\ [Next]_vars => UsesOK'
<1> SUFFICES ASSUME IInv, [Next]_vars
             PROVE  UsesOK'
  OBVIOUS
<1>i. TypeOK /\ ShapesOK /\ HeldTokensOK /\ UsesOK
  BY DEF IInv
<1>1. CASE UNCHANGED <<token, purpose, uses>>
  BY <1>i, <1>1 DEF UsesOK
<1>2. ASSUME NEW r \in Requests, CommitForgot(r) PROVE UsesOK'
  BY <1>i, <1>2 DEF CommitForgot, UsesOK, TypeOK
<1>3. ASSUME NEW r \in Requests, CommitVerify(r) PROVE UsesOK'
  <2>1. tok[r] \in Tokens
    BY <1>i, <1>3 DEF CommitVerify, ShapesOK, ShapeOK, TypeOK
  <2> QED
    BY <1>i, <1>3, <2>1 DEF CommitVerify, UsesOK, TypeOK
<1>4. ASSUME NEW r \in Requests, CommitReset(r) PROVE UsesOK'
  <2>1. tok[r] \in Tokens /\ token[tok[r]] = "open"
    BY <1>i, <1>4 DEF CommitReset, ShapesOK, ShapeOK, HeldTokensOK, HeldTokenOK, TypeOK
  <2>2. uses[tok[r]] = 0
    BY <1>i, <2>1 DEF UsesOK
  <2> QED
    BY <1>i, <1>4, <2>1, <2>2 DEF CommitReset, UsesOK, TypeOK
<1>5. ASSUME NEW t \in Tokens, NewToken(t, "verify_email"), uses' = uses PROVE UsesOK'
  BY <1>i, <1>5 DEF NewToken, UsesOK, TypeOK
<1>6. ASSUME NEW t \in Tokens, RetireToken(t) PROVE UsesOK'
  BY <1>i, <1>6 DEF RetireToken, UsesOK, TypeOK
<1> QED
  BY <1>1, <1>2, <1>3, <1>4, <1>5, <1>6, TokenMoves DEF TokenMoved

\* Only the commit of a forgotten password makes a reset link.
LEMMA ResetsMove ==
  ASSUME TypeOK, [Next]_vars
  PROVE  OpenResets' \subseteq OpenResets \/ \E r \in Requests : CommitForgot(r)
<1> USE DEF OpenResets, TypeOK
<1>1. CASE UNCHANGED <<token, purpose, uses>>
  BY <1>1
<1>2. ASSUME NEW r \in Requests, CommitVerify(r) \/ CommitReset(r)
      PROVE  OpenResets' \subseteq OpenResets
  BY <1>2 DEF CommitVerify, CommitReset
<1>3. ASSUME NEW t \in Tokens, NewToken(t, "verify_email")
      PROVE  OpenResets' \subseteq OpenResets
  BY <1>3 DEF NewToken
<1>4. ASSUME NEW t \in Tokens, RetireToken(t)
      PROVE  OpenResets' \subseteq OpenResets
  BY <1>4 DEF RetireToken
<1> QED
  BY <1>1, <1>2, <1>3, <1>4, TokenMoves DEF TokenMoved

LEMMA ResetsStep == IInv /\ [Next]_vars => ResetsOK'
<1> SUFFICES ASSUME IInv, [Next]_vars PROVE ResetsOK'
  OBVIOUS
<1>i. TypeOK /\ ShapesOK /\ ResetsOK /\ LocksOK
  BY DEF IInv
<1>1. ASSUME NEW r \in Requests, CommitForgot(r)
      PROVE  ResetsOK'
  <2>1. End(r) /\ pc[r] = "made"
    BY <1>1 DEF CommitForgot
  <2>2. \A q \in Requests \ {r} : pc[q] # "made"
    BY <1>i, <2>1 DEF LocksOK, HoldsUser, LocksUser
  <2>3. \A q \in Requests : pc'[q] # "made"
    BY <1>i, <2>1, <2>2 DEF End, TypeOK
  <2>4. OpenResets \subseteq consumed[r]
    BY <1>i, <2>1 DEF ResetsOK
  <2>5. PICK n \in Tokens :
          /\ token' = [t \in Tokens |-> IF t = n THEN "open"
                                        ELSE IF t \in consumed[r] THEN "consumed" ELSE token[t]]
          /\ purpose' = [purpose EXCEPT ![n] = "reset_password"]
    BY <1>1 DEF CommitForgot
  <2>6. OpenResets' \subseteq {n}
    BY <1>i, <2>4, <2>5 DEF OpenResets, TypeOK
  <2> QED
    BY <2>3, <2>6 DEF ResetsOK
<1>2. CASE OpenResets' \subseteq OpenResets
  <2> SUFFICES ASSUME NEW q \in Requests, pc'[q] = "made"
               PROVE  OpenResets' \subseteq consumed'[q]
    BY <1>i, <1>2 DEF ResetsOK
  <2>1. (pc[q] = "made" /\ consumed'[q] = consumed[q]) \/ StaleResets(q)
    <3>m. RequestMoved
      BY <1>i, RequestMoves
    <3> QED
      BY <1>i, <3>m DEF RequestMoved, requestVars, Others, SameRequest, Ended, Asked, Locking,
         LockUser, LockToken, LockSession, StaleResets, ConsumeOthers, WritePassword,
         RevokeSessions, Arrive, Goto, TypeOK
  <2>2. CASE pc[q] = "made" /\ consumed'[q] = consumed[q]
    BY <1>i, <1>2, <2>2 DEF ResetsOK
  <2>3. CASE StaleResets(q)
    BY <1>i, <1>2, <2>3 DEF StaleResets, TypeOK
  <2> QED
    BY <2>1, <2>2, <2>3
<1> QED
  BY <1>i, <1>1, <1>2, ResetsMove

\* Who registers the account, and who sends a mail.
MailMoved ==
  \/ UNCHANGED <<registered, mails, recent>>
  \/ \E r \in Requests : CommitRegister(r) \/ CommitResend(r) \/ CommitSignUp(r)
  \/ CooldownElapses

LEMMA MailMoves ==
  ASSUME [Next]_vars
  PROVE  MailMoved
<1> USE DEF userVars, tokenVars, sessionVars, requestVars, sessionHistory
<1>1. ASSUME NEW r \in Requests, BeginRegister(r)
      PROVE  MailMoved
  BY <1>1 DEF BeginRegister, Arrive, MailMoved
<1>2. ASSUME NEW r \in Requests, NEW operation \in {"resend", "forgot"}, LockUser(r, operation)
      PROVE  MailMoved
  BY <1>2 DEF LockUser, Arrive, MailMoved
<1>3. ASSUME NEW r \in Requests, NEW t \in Tokens, LockToken(r, t)
      PROVE  MailMoved
  BY <1>3 DEF LockToken, Arrive, MailMoved
<1>4. ASSUME NEW r \in Requests, NEW d \in Devices, BeginLogin(r, d)
      PROVE  MailMoved
  BY <1>4 DEF BeginLogin, Arrive, MailMoved
<1>5. ASSUME NEW r \in Requests, NEW d \in Devices, BeginJoin(r, d)
      PROVE  MailMoved
  BY <1>5 DEF BeginJoin, Arrive, MailMoved
<1>6. ASSUME NEW r \in Requests, NEW d \in Devices, NEW n \in Nonces, BeginGoogle(r, d, n)
      PROVE  MailMoved
  BY <1>6 DEF BeginGoogle, Arrive, MailMoved
<1>7. ASSUME NEW r \in Requests, NEW s \in Sessions, LockSession(r, s)
      PROVE  MailMoved
  BY <1>7 DEF LockSession, Arrive, MailMoved
<1>8. ASSUME NEW r \in Requests, CommitRegister(r)
      PROVE  MailMoved
  BY <1>8 DEF CommitRegister, MailMoved
<1>9. ASSUME NEW r \in Requests, CommitResend(r)
      PROVE  MailMoved
  BY <1>9 DEF CommitResend, MailMoved
<1>10. ASSUME NEW r \in Requests, StaleResets(r)
      PROVE  MailMoved
  BY <1>10 DEF StaleResets, Goto, OpenResets, MailMoved
<1>11. ASSUME NEW r \in Requests, CommitForgot(r)
      PROVE  MailMoved
  BY <1>11 DEF CommitForgot, End, MailMoved
<1>12. ASSUME NEW r \in Requests, CommitVerify(r)
      PROVE  MailMoved
  BY <1>12 DEF CommitVerify, End, MailMoved
<1>13. ASSUME NEW r \in Requests, ConsumeOthers(r)
      PROVE  MailMoved
  BY <1>13 DEF ConsumeOthers, Goto, OpenResets, MailMoved
<1>14. ASSUME NEW r \in Requests, WritePassword(r)
      PROVE  MailMoved
  BY <1>14 DEF WritePassword, Goto, Live, MailMoved
<1>15. ASSUME NEW r \in Requests, RevokeSessions(r)
      PROVE  MailMoved
  BY <1>15 DEF RevokeSessions, Goto, Live, MailMoved
<1>16. ASSUME NEW r \in Requests, CommitReset(r)
      PROVE  MailMoved
  BY <1>16 DEF CommitReset, End, MailMoved
<1>17. ASSUME NEW r \in Requests, CommitLogin(r)
      PROVE  MailMoved
  BY <1>17 DEF CommitLogin, MailMoved
<1>18. ASSUME NEW r \in Requests, CommitGoogle(r)
      PROVE  MailMoved
  BY <1>18 DEF CommitGoogle, MailMoved
<1>19. ASSUME NEW r \in Requests, CommitSignUp(r)
      PROVE  MailMoved
  BY <1>19 DEF CommitSignUp, MailMoved
<1>20. ASSUME NEW r \in Requests, CommitRefresh(r)
      PROVE  MailMoved
  BY <1>20 DEF CommitRefresh, End, MailMoved
<1>21. ASSUME NEW r \in Requests, Rollback(r)
      PROVE  MailMoved
  BY <1>21 DEF Rollback, End, MailMoved
<1>22. ASSUME NEW s \in Sessions, Logout(s)
      PROVE  MailMoved
  BY <1>22 DEF Logout, SignOut, MailMoved
<1>23. ASSUME NEW s \in Sessions, RetireSession(s)
      PROVE  MailMoved
  BY <1>23 DEF RetireSession, MailMoved
<1>24. ASSUME NEW d \in Devices, DisableDevice(d)
      PROVE  MailMoved
  BY <1>24 DEF DisableDevice, SignOut, MailMoved
<1>25. ASSUME NEW t \in Tokens, RetireToken(t)
      PROVE  MailMoved
  BY <1>25 DEF RetireToken, MailMoved
<1>26. ASSUME ConfirmDeletion
      PROVE  MailMoved
  BY <1>26 DEF ConfirmDeletion, SignOut, MailMoved
<1>27. ASSUME CooldownElapses
      PROVE  MailMoved
  BY <1>27 DEF CooldownElapses, MailMoved
<1>28. ASSUME UNCHANGED vars
      PROVE  MailMoved
  BY <1>28 DEF vars, MailMoved
<1> QED
  BY <1>1, <1>2, <1>3, <1>4, <1>5, <1>6, <1>7, <1>8, <1>9, <1>10, <1>11, <1>12, <1>13, <1>14,
     <1>15, <1>16, <1>17, <1>18, <1>19, <1>20, <1>21, <1>22, <1>23, <1>24, <1>25, <1>26,
     <1>27, <1>28 DEF Next, Arrival, Progress

LEMMA MailsStep == IInv /\ [Next]_vars => MailsOK'
<1> SUFFICES ASSUME IInv, [Next]_vars PROVE MailsOK'
  OBVIOUS
<1>i. TypeOK /\ ShapesOK /\ MailsOK /\ LocksOK
  BY DEF IInv
<1>k. ASSUME NEW q \in Requests, LocksUser(q)'
      PROVE  \/ LocksUser(q) /\ op'[q] = op[q]
             \/ /\ registered /\ (op'[q] = "resend" => ~recent)
                /\ UNCHANGED <<registered, mails, recent>>
  <2>m. RequestMoved
    BY <1>i, RequestMoves
  <2> QED
    BY <1>i, <1>k, <2>m DEF RequestMoved, requestVars, Others, SameRequest, Ended, Asked,
       Locking, LockUser, LockToken, LockSession, StaleResets, ConsumeOthers, WritePassword,
       RevokeSessions, Arrive, Goto, LocksUser, userVars, tokenVars, TypeOK
<1>n. ASSUME NEW r \in Requests, End(r), LocksUser(r)
      PROVE  \A q \in Requests : ~LocksUser(q)'
  <2>1. \A q \in Requests \ {r} : ~LocksUser(q) /\ SameRequest(q)
    BY <1>i, <1>n, EndFacts DEF LocksOK, HoldsUser, Others
  <2>2. pc'[r] = "idle"
    BY <1>i, <1>n, EndFacts DEF Ended
  <2> QED
    BY <2>1, <2>2 DEF LocksUser, SameRequest
<1>1. CASE UNCHANGED <<registered, mails, recent>>
  BY <1>i, <1>k, <1>1 DEF MailsOK
<1>2. ASSUME NEW r \in Requests, CommitRegister(r) PROVE MailsOK'
  <2>1. \A q \in Requests : ~LocksUser(q) /\ ~recent /\ mails = 0
    BY <1>i, <1>2 DEF CommitRegister, MailsOK
  <2>2. \A q \in Requests : ~LocksUser(q)'
    BY <1>2, <1>k, <2>1 DEF CommitRegister
  <2>3. registered' /\ recent' /\ mails' = 1
    BY <1>i, <1>2, <2>1 DEF CommitRegister, QueueVerification, TypeOK
  <2> QED
    BY <2>2, <2>3 DEF MailsOK
<1>3. ASSUME NEW r \in Requests, CommitResend(r) PROVE MailsOK'
  <2>1. LocksUser(r) /\ op[r] = "resend" /\ End(r)
    BY <1>3 DEF CommitResend, LocksUser
  <2>2. \A q \in Requests : ~LocksUser(q)'
    BY <1>n, <2>1
  <2>3. registered' /\ recent' /\ mails' = 1
    BY <1>i, <1>3, <2>1 DEF CommitResend, QueueVerification, MailsOK, TypeOK, userVars
  <2> QED
    BY <2>2, <2>3 DEF MailsOK
<1>4. ASSUME NEW r \in Requests, CommitSignUp(r) PROVE MailsOK'
  <2>1. ~registered /\ registered' /\ UNCHANGED <<mails, recent>>
    BY <1>4 DEF CommitSignUp, tokenVars
  <2>2. \A q \in Requests : ~LocksUser(q)
    BY <1>i, <2>1 DEF MailsOK
  <2>3. \A q \in Requests : ~LocksUser(q)'
    BY <1>k, <2>1, <2>2
  <2> QED
    BY <1>i, <2>1, <2>3 DEF MailsOK
<1>5. CASE CooldownElapses
  BY <1>i, <1>5 DEF CooldownElapses, MailsOK, LocksUser, userVars, requestVars
<1> QED
  BY <1>1, <1>2, <1>3, <1>4, <1>5, MailMoves DEF MailMoved

LEMMA RefreshStep == IInv /\ [Next]_vars => RefreshOK'
<1> SUFFICES ASSUME IInv, [Next]_vars PROVE RefreshOK'
  OBVIOUS
<1>i. TypeOK /\ ShapesOK /\ RefreshOK /\ LocksOK
  BY DEF IInv
<1>t. TypeOK'
  BY TypeStep
<1>k. ASSUME NEW q \in Requests, ses'[q] # None
      PROVE  \/ /\ ses[q] # None /\ ses'[q] = ses[q] /\ seen'[q] = seen[q]
                /\ session[ses[q]] = "live" /\ rotation[ses[q]] = seen[q]
             \/ \E s \in Sessions : LockSession(q, s)
  BY <1>i, <1>k, Locked DEF RefreshOK
<1>l. ASSUME NEW q \in Requests, NEW s \in Sessions, LockSession(q, s)
      PROVE  /\ UNCHANGED <<session, rotation, trades>>
             /\ session[ses'[q]] = "live" /\ rotation[ses'[q]] = seen'[q]
  BY <1>i, <1>l DEF LockSession, Arrive, sessionVars, sessionHistory, TypeOK
<1>h. \A q \in Requests : ses'[q] # None =>
        \/ /\ ses[q] # None /\ ses'[q] = ses[q] /\ seen'[q] = seen[q]
           /\ session[ses[q]] = "live" /\ rotation[ses[q]] = seen[q]
        \/ /\ UNCHANGED <<session, rotation, trades>>
           /\ session[ses'[q]] = "live" /\ rotation[ses'[q]] = seen'[q]
  BY <1>k, <1>l
<1>o. \A q, r \in Requests, s \in Sessions : HoldsSession(r, s) /\ ses[q] = s => q = r
  BY <1>i DEF LocksOK, HoldsSession
<1>1. CASE UNCHANGED <<session, rotation, trades>>
  BY <1>i, <1>k, <1>l, <1>1 DEF RefreshOK, RefreshTokenTradedOnce
<1>2. ASSUME NEW r \in Requests, NEW s \in Sessions, Issued(r, s) PROVE RefreshOK'
  <2>1. \A q \in Requests : ses'[q] # None =>
          /\ ses'[q] \in Sessions \ {s}
          /\ session[ses'[q]] = "live" /\ rotation[ses'[q]] = seen'[q]
    BY <1>i, <1>k, <1>l, <1>2 DEF Issued, TypeOK
  <2> QED
    BY <1>i, <1>2, <2>1 DEF Issued, RefreshOK, RefreshTokenTradedOnce, TypeOK
<1>3. ASSUME NEW r \in Requests, CommitRefresh(r) PROVE RefreshOK'
  <2>1. ses[r] \in Sessions /\ rotation[ses[r]] = seen[r] /\ ses'[r] = None
    BY <1>i, <1>3 DEF CommitRefresh, End, ShapesOK, ShapeOK, RefreshOK, TypeOK
  <2>2. \A q \in Requests : ses'[q] # None =>
          /\ ses'[q] \in Sessions \ {ses[r]}
          /\ session[ses'[q]] = "live" /\ rotation[ses'[q]] = seen'[q]
    <3>1. trades'[ses[r]] # trades[ses[r]] /\ HoldsSession(r, ses[r])
      BY <1>i, <1>3, <2>1 DEF CommitRefresh, HoldsSession, TypeOK
    <3> QED
      BY <1>h, <1>o, <1>t, <2>1, <3>1 DEF TypeOK
  <2> QED
    BY <1>i, <1>3, <2>1, <2>2 DEF CommitRefresh, RefreshOK, RefreshTokenTradedOnce, TypeOK
<1>4. ASSUME NEW r \in Requests, CommitReset(r) PROVE RefreshOK'
  <2>1. \A q \in Requests : ses'[q] # None =>
          /\ ses'[q] \in Sessions \ doomed[r]
          /\ session[ses'[q]] = "live" /\ rotation[ses'[q]] = seen'[q]
    <3>1. \A s \in doomed[r] : s \in Sessions /\ HoldsSession(r, s)
      BY <1>i, <1>4 DEF CommitReset, HoldsSession, TypeOK
    <3>2. ses[r] = None /\ ses'[r] = None
      BY <1>i, <1>4 DEF CommitReset, End, ShapesOK, ShapeOK, TypeOK
    <3> QED
      <4>1. \A s \in doomed[r] : session'[s] = "revoked"
        BY <1>4, <3>1 DEF CommitReset
      <4>2. \A q \in Requests : ses'[q] # None => ses'[q] \notin doomed[r]
        BY <1>h, <1>o, <3>1, <3>2, <4>1
      <4> QED
        BY <1>h, <1>t, <4>2 DEF TypeOK
  <2> QED
    BY <1>i, <1>4, <2>1
    DEF CommitReset, RefreshOK, RefreshTokenTradedOnce, TypeOK, sessionHistory
<1>5. CASE SessionsLeft
  <2>1. \A q \in Requests, s \in Sessions : ses[q] = s => session'[s] = session[s]
    BY <1>5 DEF SessionsLeft, SessionFree, HoldsSession
  <2> QED
    BY <1>i, <1>k, <1>l, <1>5, <2>1 DEF SessionsLeft, RefreshOK, RefreshTokenTradedOnce, TypeOK
<1>6. ASSUME NEW r \in Requests, Issuing(r) PROVE \E s \in Sessions : Issued(r, s)
  BY <1>6, IssueFacts DEF Issuing, CommitLogin, CommitGoogle, CommitSignUp
<1> QED
  BY <1>i, <1>1, <1>2, <1>3, <1>4, <1>5, <1>6, SessionMoves DEF SessionMoved, sessionRows

LEMMA CredentialsStep == IInv /\ [Next]_vars => CredentialsOK'
<1> SUFFICES ASSUME IInv, [Next]_vars PROVE CredentialsOK'
  OBVIOUS
<1>i. TypeOK /\ ShapesOK /\ CredentialsOK
  BY DEF IInv
<1>s. spent \subseteq spent'
  <2>1. spent' = spent \/ \E r \in Requests : Issuing(r)
    BY DEF Next, Arrival, Progress, BeginRegister, LockUser, LockToken, BeginLogin, BeginJoin,
       BeginGoogle, LockSession, Arrive, CommitRegister, CommitResend, StaleResets,
       CommitForgot, CommitVerify, ConsumeOthers, WritePassword, RevokeSessions, CommitReset,
       CommitRefresh, Goto, Rollback, Logout, RetireSession, DisableDevice, RetireToken,
       ConfirmDeletion, SignOut, CooldownElapses, Issuing, vars
  <2> QED
    BY <2>1 DEF Issuing, CommitLogin, CommitGoogle, CommitSignUp
<1>1. CASE UNCHANGED <<session, via>>
  BY <1>i, <1>s, <1>1 DEF CredentialsOK, CredentialUsedOnce
<1>2. ASSUME NEW r \in Requests, Issuing(r) PROVE CredentialsOK'
  <2>1. PICK s \in Sessions : Issued(r, s)
    BY <1>2, IssueFacts DEF Issuing, CommitLogin, CommitGoogle, CommitSignUp
  <2>2. cred[r] # None => cred[r] \in spent' \ spent
    BY <1>i, <1>2 DEF Issuing, CommitLogin, CommitGoogle, CommitSignUp, ShapesOK, ShapeOK, TypeOK
  <2>3. /\ via' = [via EXCEPT ![s] = cred[r]] /\ session' = [session EXCEPT ![s] = "live"]
    BY <2>1 DEF Issued
  <2>4. \A a \in Sessions \ {s} : session'[a] = session[a] /\ via'[a] = via[a]
    BY <1>i, <2>3 DEF TypeOK
  <2>5. via'[s] = cred[r]
    BY <1>i, <2>3 DEF TypeOK
  <2> QED
    BY <1>i, <1>s, <2>2, <2>4, <2>5 DEF CredentialsOK, CredentialUsedOnce
<1>3. ASSUME NEW r \in Requests, CommitRefresh(r) PROVE CredentialsOK'
  BY <1>i, <1>s, <1>3 DEF CommitRefresh, CredentialsOK, CredentialUsedOnce
<1>4. ASSUME NEW r \in Requests, CommitReset(r) PROVE CredentialsOK'
  <2>1. \A s \in Sessions : session[s] = "none" => session'[s] = "none" /\ via' = via
    <3>1. \A s \in doomed[r] : session[s] # "none"
      BY <1>4 DEF IInv, CommitReset, DoomedOK, Live
    <3> QED
      BY <1>4, <3>1 DEF CommitReset, sessionHistory
  <2> QED
    BY <1>i, <1>s, <1>4, <2>1 DEF CommitReset, sessionHistory, CredentialsOK, CredentialUsedOnce
<1>5. CASE SessionsLeft
  BY <1>i, <1>s, <1>5 DEF SessionsLeft, Left, CredentialsOK, CredentialUsedOnce
<1> QED
  BY <1>i, <1>1, <1>2, <1>3, <1>4, <1>5, SessionMoves DEF SessionMoved, sessionRows

LEMMA DoomedStep == IInv /\ [Next]_vars => DoomedOK'
<1> SUFFICES ASSUME IInv, [Next]_vars, NEW q \in Requests, pc'[q] = "revoked"
             PROVE  doomed'[q] \subseteq Live'
  BY DEF DoomedOK
<1>i. TypeOK /\ LocksOK /\ DoomedOK
  BY DEF IInv
<1>t. TypeOK'
  BY TypeStep
<1>1. CASE RevokeSessions(q)
  BY <1>i, <1>1 DEF RevokeSessions, Goto, Live, sessionVars, TypeOK
<1>2. CASE ~RevokeSessions(q)
  <2>1. pc[q] = "revoked" /\ doomed'[q] = doomed[q]
    <3>m. RequestMoved
      BY <1>i, RequestMoves
    <3> QED
      BY <1>i, <1>2, <3>m DEF RequestMoved, requestVars, Others, SameRequest, Ended, Asked,
         Locking, LockUser, LockToken, LockSession, StaleResets, ConsumeOthers, WritePassword,
         RevokeSessions, Arrive, Goto, TypeOK
  <2>2. \A s \in doomed[q] : HoldsSession(q, s) /\ session[s] = "live" /\ s \in Sessions
    BY <1>i, <2>1 DEF HoldsSession, DoomedOK, Live
  <2> SUFFICES ASSUME NEW s \in doomed[q] PROVE session'[s] = "live"
    BY <2>1, <2>2 DEF Live
  <2>3. CASE UNCHANGED session
    BY <2>2, <2>3
  <2>4. ASSUME NEW r \in Requests, NEW n \in Sessions, Issued(r, n)
        PROVE  session'[s] = "live"
    BY <1>i, <2>2, <2>4 DEF Issued, TypeOK
  <2>5. ASSUME NEW r \in Requests, CommitReset(r)
        PROVE  session'[s] = "live"
    <3>1. r # q
      BY <1>i, <2>1, <2>5 DEF CommitReset, End, TypeOK
    <3>2. s \notin doomed[r]
      BY <1>i, <2>2, <2>5, <3>1 DEF LocksOK, HoldsSession, CommitReset
    <3> QED
      BY <2>2, <2>5, <3>2 DEF CommitReset
  <2>6. CASE SessionsLeft
    BY <2>2, <2>6 DEF SessionsLeft, SessionFree
  <2>7. ASSUME NEW r \in Requests, Issuing(r) PROVE \E n \in Sessions : Issued(r, n)
    BY <2>7, IssueFacts DEF Issuing, CommitLogin, CommitGoogle, CommitSignUp
  <2> QED
    BY <1>i, <2>3, <2>4, <2>5, <2>6, <2>7, SessionMoves
    DEF SessionMoved, sessionRows, CommitRefresh
<1> QED
  BY <1>1, <1>2

\* While a reset signs out, every session is one it found or one it crossed.
LEMMA SignOutStep == IInv /\ [Next]_vars => SignOutOK'
<1> SUFFICES ASSUME IInv, [Next]_vars PROVE SignOutOK'
  OBVIOUS
<1>i. TypeOK /\ ShapesOK /\ LocksOK /\ SignOutOK /\ DoomedOK
  BY DEF IInv
<1>t. TypeOK'
  BY TypeStep
<1>p. \/ UNCHANGED <<registered, password>>
      \/ \E r \in Requests : CommitRegister(r) \/ CommitSignUp(r) \/ CommitReset(r)
  BY DEF Next, Arrival, Progress, BeginRegister, LockUser, LockToken, BeginLogin, BeginJoin,
     BeginGoogle, LockSession, Arrive, CommitResend, StaleResets, CommitForgot, CommitVerify,
     ConsumeOthers, WritePassword, RevokeSessions, CommitLogin, CommitGoogle, CommitRefresh,
     Goto, Rollback, Logout, RetireSession, DisableDevice, RetireToken, ConfirmDeletion,
     SignOut, CooldownElapses, vars, userVars
<1>g. (registered => registered') /\ password <= password'
  <2>1. ASSUME NEW r \in Requests, CommitRegister(r) \/ CommitSignUp(r)
        PROVE  (registered => registered') /\ password <= password'
    BY <1>i, <1>t, <2>1 DEF CommitRegister, CommitSignUp, SignOutOK, TypeOK
  <2>2. ASSUME NEW r \in Requests, CommitReset(r)
        PROVE  (registered => registered') /\ password <= password'
    BY <1>i, <2>2 DEF CommitReset, TypeOK
  <2> QED
    BY <1>i, <1>p, <2>1, <2>2 DEF TypeOK
\* What a request has read of the password.
<1>1. \A q \in Requests :
        pc'[q] = "begun" /\ op'[q] \in {"login", "google"} =>
          registered' /\ seen'[q] <= password'
  <2> SUFFICES ASSUME NEW q \in Requests, pc'[q] = "begun", op'[q] \in {"login", "google"}
               PROVE  registered' /\ seen'[q] <= password'
    OBVIOUS
  <2>1. \/ pc[q] = "begun" /\ op'[q] = op[q] /\ seen'[q] = seen[q]
        \/ seen'[q] = password /\ registered
    <3>m. RequestMoved
      BY <1>i, RequestMoves
    <3>p. password > 0 => registered
      BY <1>i DEF SignOutOK, TypeOK
    <3> QED
      BY <1>i, <3>m, <3>p DEF RequestMoved, requestVars, Others, SameRequest, Ended, Asked, Locking,
         LockUser, LockToken, LockSession, StaleResets, ConsumeOthers, WritePassword,
         RevokeSessions, Arrive, Goto, TypeOK
  <2>2. registered /\ seen'[q] <= password
    BY <1>i, <2>1 DEF SignOutOK, TypeOK
  <2> QED
    BY <1>g, <1>i, <1>t, <2>2 DEF TypeOK
\* What a reset has found of the sessions.
<1>2. \A q \in Requests :
        Resetting(q)' => \/ Resetting(q) /\ doomed'[q] = doomed[q]
                         \/ /\ UNCHANGED <<session, crossed>>
                            /\ Live \subseteq doomed'[q] \cup crossed
  <2> SUFFICES ASSUME NEW q \in Requests, Resetting(q)'
               PROVE  \/ Resetting(q) /\ doomed'[q] = doomed[q]
                      \/ /\ UNCHANGED <<session, crossed>>
                         /\ Live \subseteq doomed'[q] \cup crossed
    OBVIOUS
  <2>1. CASE WritePassword(q)
    BY <1>i, <2>1 DEF WritePassword, Goto, sessionVars, sessionHistory, TypeOK
  <2>2. CASE RevokeSessions(q)
    <3>1. Resetting(q) /\ doomed'[q] = doomed[q] \cap Live /\ UNCHANGED <<session, crossed>>
      BY <1>i, <2>2 DEF RevokeSessions, Resetting, Goto, sessionVars, sessionHistory, TypeOK
    <3> QED
      BY <1>i, <3>1 DEF SignOutOK
  <2>3. CASE ~WritePassword(q) /\ ~RevokeSessions(q)
    <3>m. RequestMoved
      BY <1>i, RequestMoves
    <3> QED
      BY <1>i, <2>3, <3>m DEF RequestMoved, requestVars, Others, SameRequest, Ended, Asked,
         Locking, LockUser, LockToken, LockSession, StaleResets, ConsumeOthers, WritePassword,
         RevokeSessions, Arrive, Goto, Resetting, TypeOK
  <2> QED
    BY <2>1, <2>2, <2>3
<1>3. OpenResets' \subseteq OpenResets \/ registered
  <2>1. ASSUME NEW r \in Requests, CommitForgot(r) PROVE registered
    BY <2>1 DEF IInv, CommitForgot, MailsOK, LocksUser
  <2> QED
    BY <1>i, <2>1, ResetsMove
<1> DEFINE Out == /\ ResetSignsOut
                  /\ ~registered => password = 0 /\ Live = {} /\ OpenResets = {}
                  /\ \A q \in Requests : Resetting(q) => Live \subseteq doomed[q] \cup crossed
<1>4. ASSUME NEW r \in Requests, CommitReset(r) PROVE Out'
  <2>1. Resetting(r) /\ Resetting(r)' = FALSE
    BY <1>i, <1>4 DEF CommitReset, End, Resetting, TypeOK
  <2>2. Live' = Live \ doomed[r] /\ UNCHANGED <<proof, crossed>> /\ registered' = registered
    BY <1>i, <1>4 DEF CommitReset, Live, sessionHistory, TypeOK
  <2>3. ResetSignsOut'
    BY <1>i, <2>1, <2>2 DEF ResetSignsOut, SignOutOK
  <2>4. registered
    <3>1. tok[r] \in OpenResets
      BY <1>i, <1>4 DEF IInv, CommitReset, ShapesOK, ShapeOK, HeldTokensOK, HeldTokenOK,
         OpenResets, TypeOK
    <3> QED
      BY <1>i, <3>1 DEF SignOutOK
  <2>5. ASSUME NEW q \in Requests, Resetting(q)'
        PROVE  Live' \subseteq doomed'[q] \cup crossed'
    BY <1>i, <1>2, <2>2, <2>5 DEF SignOutOK
  <2> QED
    BY <2>2, <2>3, <2>4, <2>5
<1>5. ASSUME NEW r \in Requests, NEW s \in Sessions, Issuing(r), Issued(r, s)
      PROVE  Out'
  <2>1. /\ Live' = Live \cup {s} /\ s \notin Live
        /\ proof'[s] = seen[r] /\ \A x \in Sessions \ {s} : proof'[x] = proof[x]
        /\ session' # session /\ crossed \ {s} \subseteq crossed'
        /\ (seen[r] < password \/ \E q \in Requests : Resetting(q)) => s \in crossed'
    BY <1>i, <1>5 DEF Issued, Live, TypeOK
  <2>2. registered'
    BY <1>i, <1>5 DEF Issuing, CommitLogin, CommitGoogle, CommitSignUp, SignOutOK, userVars
  <2>3. ASSUME NEW q \in Requests, Resetting(q)'
        PROVE  Live' \subseteq doomed'[q] \cup crossed'
    <3>1. Resetting(q) /\ doomed'[q] = doomed[q]
      BY <1>2, <2>1, <2>3
    <3> QED
      BY <1>i, <2>1, <3>1 DEF SignOutOK
  <2>4. ResetSignsOut'
    <3>1. CASE CommitSignUp(r)
      <4>1. Live = {} /\ password' = seen[r]
        BY <1>i, <3>1 DEF CommitSignUp, SignOutOK
      <4> QED
        BY <2>1, <4>1 DEF ResetSignsOut
    <3>2. CASE CommitLogin(r) \/ CommitGoogle(r)
      <4>1. seen[r] <= password /\ password' = password
        BY <1>i, <3>2 DEF CommitLogin, CommitGoogle, SignOutOK, userVars
      <4>2. proof'[s] = password' \/ s \in crossed'
        <5>1. seen[r] \in Nat /\ password \in Nat
          BY <1>i DEF TypeOK
        <5>2. seen[r] = password \/ seen[r] < password
          BY <4>1, <5>1
        <5> QED
          BY <2>1, <4>1, <5>2
      <4>3. \A x \in Live : proof'[x] = password' \/ x \in crossed'
        BY <1>i, <2>1, <4>1 DEF SignOutOK, ResetSignsOut, Live
      <4> QED
        BY <2>1, <4>2, <4>3 DEF ResetSignsOut
    <3> QED
      BY <1>5, <3>1, <3>2 DEF Issuing
  <2> QED
    BY <2>2, <2>3, <2>4
<1>6. ASSUME \A r \in Requests : ~Issuing(r) /\ ~CommitReset(r) PROVE Out'
  <2>1. Live' \subseteq Live /\ UNCHANGED <<proof, crossed>>
    BY <1>i, <1>6, SessionMoves
    DEF SessionMoved, sessionRows, SessionsLeft, Left, CommitRefresh, Live
  <2>2. ResetSignsOut'
    <3>1. ASSUME NEW r \in Requests, CommitRegister(r) PROVE Live' = {}
      BY <1>i, <2>1, <3>1 DEF CommitRegister, SignOutOK
    <3>2. CASE UNCHANGED password
      BY <1>i, <2>1, <3>2 DEF SignOutOK, ResetSignsOut
    <3> QED
      BY <1>6, <1>p, <3>1, <3>2 DEF Issuing, ResetSignsOut
  <2>3. ~registered' => password' = 0 /\ Live' = {} /\ OpenResets' = {}
    <3>1. UNCHANGED <<registered, password>> \/ registered'
      BY <1>6, <1>p DEF Issuing, CommitRegister
    <3> QED
      BY <1>i, <1>3, <2>1, <3>1 DEF SignOutOK
  <2>4. ASSUME NEW q \in Requests, Resetting(q)'
        PROVE  Live' \subseteq doomed'[q] \cup crossed'
    BY <1>i, <1>2, <2>1, <2>4 DEF SignOutOK
  <2> QED
    BY <2>2, <2>3, <2>4
<1>7. ASSUME NEW r \in Requests, Issuing(r) PROVE \E s \in Sessions : Issued(r, s)
  BY <1>7, IssueFacts DEF Issuing, CommitLogin, CommitGoogle, CommitSignUp
<1>8. Out'
  BY <1>4, <1>5, <1>6, <1>7
<1> QED
  BY <1>1, <1>8 DEF SignOutOK

LEMMA InitIInv == Init => IInv
<1> SUFFICES ASSUME Init PROVE IInv
  OBVIOUS
<1>a. MaxArrivals \in Nat /\ None \notin Requests \cup Sessions \cup Tokens \cup Devices \cup Nonces
  BY ConstantsAssumption
<1>0. \A r \in Requests : /\ op[r] = "none" /\ pc[r] = "idle"
                          /\ tok[r] = None /\ ses[r] = None /\ cred[r] = None
                          /\ doomed[r] = {} /\ consumed[r] = {}
  BY DEF Init
<1>1. TypeOK
  <2>1. /\ registered \in BOOLEAN /\ verified \in BOOLEAN /\ password \in Nat
        /\ token \in [Tokens -> {"none", "open", "consumed"}]
        /\ session \in [Sessions -> {"none", "live", "revoked"}]
    BY DEF Init
  <2>5. /\ purpose \in [Tokens -> {"verify_email", "reset_password"}]
        /\ uses \in [Tokens -> Nat]
    BY DEF Init
  <2>2. /\ recent \in BOOLEAN /\ device \in [Sessions -> Devices]
        /\ rotation \in [Sessions -> Nat] /\ spent \subseteq Nonces
        /\ mails \in Nat /\ arrivals \in 0..MaxArrivals
    <3>1. /\ recent = FALSE /\ device \in [Sessions -> Devices]
          /\ spent = {} /\ mails = 0 /\ arrivals = 0
      BY DEF Init
    <3>2. rotation \in [Sessions -> Nat]
      BY DEF Init
    <3>3. mails \in Nat /\ arrivals \in 0..MaxArrivals
      BY <1>a, <3>1
    <3> QED
      BY <3>1, <3>2, <3>3
  <2>4. /\ trades \in [Sessions -> Nat] /\ proof \in [Sessions -> Nat]
        /\ via \in [Sessions -> Nonces \cup {None}] /\ crossed \subseteq Sessions
    BY <2>1 DEF Init
  <2>3. /\ op \in [Requests -> Operations \cup {"none"}]
        /\ pc \in [Requests -> {"idle", "begun", "user", "made", "token", "hashing", "written",
                                "revoked", "session"}]
        /\ seen \in [Requests -> Nat] /\ tok \in [Requests -> Tokens \cup {None}]
        /\ ses \in [Requests -> Sessions \cup {None}]
        /\ cred \in [Requests -> Nonces \cup {None}]
        /\ dev \in [Requests -> Devices \cup {None}]
        /\ doomed \in [Requests -> SUBSET Sessions]
        /\ consumed \in [Requests -> SUBSET Tokens]
    BY DEF Init
  <2> QED
    BY <2>1, <2>2, <2>3, <2>4, <2>5 DEF TypeOK
<1>2. ShapesOK /\ LocksOK
  BY <1>0, <1>a DEF ShapesOK, ShapeOK, LocksOK, HoldsUser, LocksUser, HoldsToken, HoldsSession
<1>3. HeldTokensOK /\ DoomedOK
  BY <1>0 DEF HeldTokensOK, HeldTokenOK, DoomedOK
<1>4. UsesOK
  BY DEF Init, UsesOK
<1>5. OpenResets = {}
  BY DEF Init, OpenResets
<1>6. ResetsOK
  BY <1>0, <1>5 DEF ResetsOK
<1>7. MailsOK
  BY <1>0 DEF Init, MailsOK, LocksUser
<1>8. RefreshOK
  BY <1>0 DEF Init, RefreshOK, RefreshTokenTradedOnce
<1>9. CredentialsOK
  BY DEF Init, CredentialsOK, CredentialUsedOnce
<1>10. SignOutOK
  <2>1. ~registered => Live = {}
    BY DEF Init, Live
  <2>2. ResetSignsOut
    BY DEF Init, ResetSignsOut, Live
  <2> QED
    BY <1>0, <1>5, <2>1, <2>2 DEF Init, SignOutOK, Resetting
<1> QED
  BY <1>1, <1>2, <1>3, <1>4, <1>6, <1>7, <1>8, <1>9, <1>10 DEF IInv

LEMMA IInvHolds == Spec => []IInv
<1>1. IInv /\ [Next]_vars => IInv'
  BY TypeStep, ShapesStep, LocksStep, HeldTokensStep, UsesStep, ResetsStep, MailsStep,
     RefreshStep, DoomedStep, CredentialsStep, SignOutStep
  DEF IInv
<1> QED
  BY <1>1, InitIInv, PTL DEF Spec

-----------------------------------------------------------------------------
\* For any numbers of requests, sessions, devices, tokens and Google credentials: a
\* refresh token is traded once, a reset link changes the password once, a credential
\* opens one session, and a session that is still live has the current password behind
\* it or was opened across the reset.
THEOREM SecretsHold == Spec => []SecretsAreSpent
<1>1. IInv => SecretsAreSpent
  BY DEF IInv, SecretsAreSpent, RefreshOK, UsesOK, ResetLinkUsedOnce, CredentialsOK, SignOutOK
<1> QED
  BY <1>1, IInvHolds, PTL

\* There is never more than one open reset link, nor a second verification mail within
\* the cooldown.
THEOREM MailsHold == Spec => []MailsPaced
<1>1. IInv => MailsPaced
  <2> SUFFICES ASSUME IInv PROVE MailsPaced
    OBVIOUS
  <2>1. VerificationsPaced
    BY DEF IInv, MailsOK, VerificationsPaced
  <2>2. OneOpenReset
    <3>1. CASE OpenResets = {}
      <4>1. Cardinality(OpenResets) = 0
        BY <3>1, FS_EmptySet
      <4> QED
        BY <4>1 DEF OneOpenReset
    <3>2. CASE OpenResets # {}
      <4>1. PICK t \in OpenResets : OpenResets = {t}
        BY <3>2 DEF IInv, ResetsOK
      <4>2. Cardinality(OpenResets) = 1
        BY <4>1, FS_Singleton
      <4> QED
        BY <4>2 DEF OneOpenReset
    <3> QED
      BY <3>1, <3>2
  <2> QED
    BY <2>1, <2>2 DEF MailsPaced
<1> QED
  BY <1>1, IInvHolds, PTL

\* Of two requests that wait for each other, each is a reset or asks for a reset link: no
\* sign-in, refresh, registration or verification is ever the victim of a deadlock.
THEOREM DeadlocksAreResets == Spec => []OnlyResetsDeadlock
<1>1. IInv => OnlyResetsDeadlock
  <2> SUFFICES ASSUME IInv, NEW r \in Requests, NEW q \in Requests \ {r},
                      WaitsFor(r, q), WaitsFor(q, r)
               PROVE  op[r] \in {"reset", "forgot"}
    BY DEF OnlyResetsDeadlock, Deadlocked
  <2>1. /\ ShapeOK(r) /\ ShapeOK(q) /\ TypeOK /\ HeldTokenOK(r)
        /\ None \notin Tokens \cup Sessions
    BY ConstantsAssumption DEF IInv, ShapesOK, HeldTokensOK
  <2>2. CASE pc[r] = "begun" /\ op[r] \in {"login", "google"} /\ LocksUser(q)
    BY <2>1, <2>2
    DEF WaitsFor, HoldsToken, HoldsUser, HoldsSession, LocksUser, ShapeOK, OpenResets
  <2>3. CASE pc[r] = "token" /\ op[r] = "verify" /\ HoldsUser(q)
    <3>1. \A t \in OpenResets : ~HoldsToken(r, t)
      BY <2>1, <2>3 DEF HoldsToken, ShapeOK, HeldTokenOK, OpenResets
    <3>2. \A s \in Sessions : ~HoldsSession(r, s)
      BY <2>1, <2>3 DEF HoldsSession, ShapeOK
    <3>3. ~HoldsUser(r) /\ ~LocksUser(r) /\ doomed[q] \subseteq Sessions
      BY <2>1, <2>3 DEF HoldsUser, LocksUser, TypeOK
    <3> QED
      BY <3>1, <3>2, <3>3 DEF WaitsFor
  <2> QED
    BY <2>1, <2>2, <2>3 DEF WaitsFor, ShapeOK
<1> QED
  BY <1>1, IInvHolds, PTL

-----------------------------------------------------------------------------
(* The e-mail outbox.                                                       *)

\* Only a row that is being processed has a token, the latest one; a delivery
\* under way carries one that no other delivery of the message carries.
TokensOK ==
  \A m \in Messages :
    /\ claim[m] = IF status[m] = "processing" THEN claims[m] ELSE 0
    /\ status[m] = "processing" => claims[m] # 0
    /\ \A w \in Workers :
         /\ held[w][m] \in 0..claims[m]
         /\ stage[w][m] = "none" <=> held[w][m] = 0
         /\ \A v \in Workers : held[w][m] = held[v][m] /\ held[w][m] # 0 => w = v

\* A message that is not settled has an attempt left, one given up has none.
BudgetOK ==
  \A m \in Messages :
    /\ status[m] \in {"none", "pending", "processing"} => attempts[m] < MaxAttempts
    /\ status[m] = "failed" => attempts[m] = MaxAttempts

\* Success means a copy was taken.
TakenOK ==
  \A m \in Messages :
    /\ \A w \in Workers : stage[w][m] = "accepted" => copies[m] > 0
    /\ status[m] = "sent" => copies[m] > 0

\* The text is there as long as it may be sent.
TextOK ==
  \A m \in Messages :
    /\ body[m] # "text" => status[m] \in Settled \cup {"deleted"}
    /\ \A w \in Workers : stage[w][m] # "blank"

\* Deliveries that may still send, under a token the row no longer has.
Unsent == {"claimed", "loaded", "blank"}
Late(m) == {w \in Workers : stage[w][m] \in Unsent /\ held[w][m] # claim[m]}

\* The delivery under the row's token has not sent anything, or an error came back.
AtHand(m) ==
  /\ status[m] = "processing"
  /\ \E w \in Workers : held[w][m] = claim[m] /\ stage[w][m] \in Unsent \cup {"error"}

\* Copies, with those still to come from late deliveries, over and above the causes
\* there are for them.
Excess(m) == copies[m] + Cardinality(Late(m)) - lost[m] - reclaimed[m]

\* One copy needs no cause, that of a delivery that succeeded or died; while there has
\* been none such, every copy has its cause.
Balanced(m) ==
  /\ Excess(m) <= 1
  /\ status[m] \in {"none", "pending", "failed"} \/ AtHand(m) => Excess(m) <= 0

CopiesOK == \A m \in Messages : Balanced(m)

OutboxInv == OutboxTypeOK /\ TokensOK /\ BudgetOK /\ TakenOK /\ TextOK /\ NoBlankMail /\ CopiesOK

-----------------------------------------------------------------------------
LEMMA OutboxInvInit == OutboxInit => OutboxInv
<1> SUFFICES ASSUME OutboxInit PROVE OutboxInv
  OBVIOUS
<1> USE OutboxAssumption DEF OutboxInit, Messages
<1>1. OutboxTypeOK
  BY DEF OutboxTypeOK, Statuses
<1>2. TokensOK /\ BudgetOK /\ TakenOK /\ TextOK /\ NoBlankMail
  <2>1. TokensOK
    <3>1. \A m \in Messages :
            claim[m] = 0 /\ claims[m] = 0 /\ status[m] # "processing"
      OBVIOUS
    <3>2. \A m \in Messages, w \in Workers : held[w][m] = 0 /\ stage[w][m] = "none"
      OBVIOUS
    <3> QED
      BY <3>1, <3>2 DEF TokensOK
  <2>2. BudgetOK
    <3>1. MaxAttempts \in Nat /\ 0 < MaxAttempts
      OBVIOUS
    <3>2. \A m \in Messages : attempts[m] = 0 /\ status[m] # "failed"
      OBVIOUS
    <3> QED
      BY <3>1, <3>2 DEF BudgetOK
  <2>3. TakenOK
    BY DEF TakenOK
  <2>4. TextOK /\ NoBlankMail
    BY DEF TextOK, NoBlankMail
  <2> QED
    BY <2>1, <2>2, <2>3, <2>4
<1>3. \A m \in Messages : Late(m) = {}
  BY DEF Late, Unsent
<1>4. CopiesOK
  <2>1. \A m \in Messages : Cardinality(Late(m)) = 0
    BY <1>3, FS_EmptySet
  <2>2. \A m \in Messages : copies[m] = 0 /\ lost[m] = 0 /\ reclaimed[m] = 0
    OBVIOUS
  <2> QED
    BY <2>1, <2>2 DEF CopiesOK, Balanced, Excess
<1> QED
  BY <1>1, <1>2, <1>4 DEF OutboxInv

\* Every step keeps the types; the attempts do not pass their bound.
LEMMA OutboxTypeStep == OutboxInv /\ [OutboxNext]_outboxVars => OutboxTypeOK'
<1> SUFFICES ASSUME OutboxInv, [OutboxNext]_outboxVars PROVE OutboxTypeOK'
  OBVIOUS
<1> USE OutboxAssumption
    DEF OutboxInv, OutboxTypeOK, BudgetOK, TextOK, Statuses, rowVars, deliveryVars, history
<1>1. ASSUME NEW m \in Messages, QueueEmail(m)
      PROVE  OutboxTypeOK'
  BY <1>1 DEF QueueEmail
<1>2. ASSUME NEW w \in Workers, ClaimBatch(w)
      PROVE  OutboxTypeOK'
  BY <1>2 DEF ClaimBatch, Idle, Oldest, Claimable
<1>3. ASSUME NEW w \in Workers, NEW m \in Messages, Load(w, m)
      PROVE  OutboxTypeOK'
  <2>1. CASE Owned(w, m)
    <3>1. CASE body[m] = "text"
      <4>1. stage' = [stage EXCEPT ![w][m] = "loaded"] /\ held' = held
        BY <1>3, <2>1, <3>1 DEF Load, Reached
      <4> QED
        BY <1>3, <4>1 DEF Load
    <3>2. CASE body[m] # "text"
      <4>1. stage' = [stage EXCEPT ![w][m] = "blank"] /\ held' = held
        BY <1>3, <2>1, <3>2 DEF Load, Reached
      <4> QED
        BY <1>3, <2>1, <3>2, <4>1 DEF Load, Owned
    <3> QED
      BY <3>1, <3>2
  <2>2. CASE ~Owned(w, m)
    <3>1. /\ stage' = [stage EXCEPT ![w][m] = "none"]
          /\ held' = [held EXCEPT ![w][m] = 0]
      BY <1>3, <2>2 DEF Load, EndDelivery
    <3>2. UNCHANGED <<rowVars, history, faults>>
      BY <1>3 DEF Load
    <3> QED
      BY <3>1, <3>2
  <2> QED
    BY <2>1, <2>2
<1>4. ASSUME NEW w \in Workers, NEW m \in Messages, Send(w, m)
      PROVE  OutboxTypeOK'
  <2>1. CASE Reached(w, m, "accepted") /\ copies' = [copies EXCEPT ![m] = @ + 1]
    BY <1>4, <2>1 DEF Send, Reached
  <2>2. CASE Reached(w, m, "error") /\ UNCHANGED copies
    BY <1>4, <2>2 DEF Send, Reached
  <2> QED
    BY <1>4, <2>1, <2>2 DEF Send
<1>5. ASSUME NEW w \in Workers, NEW m \in Messages, SendUnanswered(w, m)
      PROVE  OutboxTypeOK'
  BY <1>5 DEF SendUnanswered, Fault, Reached
<1>6. ASSUME NEW w \in Workers, NEW m \in Messages, FinishEmail(w, m)
      PROVE  OutboxTypeOK'
  <2>1. CASE Owned(w, m)
    <3>. /\ stage' = [stage EXCEPT ![w][m] = "none"]
         /\ held' = [held EXCEPT ![w][m] = 0]
         /\ claim' = [claim EXCEPT ![m] = 0]
         /\ overdue' = [overdue EXCEPT ![m] = FALSE]
         /\ UNCHANGED <<body, history, faults>>
      BY <1>6, <2>1 DEF FinishEmail, EndDelivery
    <3>1. CASE stage[w][m] = "accepted"
      <4>1. /\ status' = [status EXCEPT ![m] = "sent"]
            /\ UNCHANGED <<attempts, due>>
        BY <1>6, <2>1, <3>1 DEF FinishEmail, Outcome
      <4> QED
        BY <4>1
    <3>2. CASE stage[w][m] = "error"
      <4>1. /\ attempts' = [attempts EXCEPT ![m] = @ + 1]
            /\ status' = [status EXCEPT ![m] = IF Exhausted(m) THEN "failed" ELSE "pending"]
            /\ due' = [due EXCEPT ![m] = FALSE]
        BY <1>6, <2>1, <3>2 DEF FinishEmail, Outcome
      <4>2. MaxAttempts \in Nat /\ attempts[m] + 1 \in 0..MaxAttempts
        BY <2>1 DEF Owned
      <4> QED
        BY <4>1, <4>2
    <3> QED
      BY <1>6, <3>1, <3>2 DEF FinishEmail
  <2>2. CASE ~Owned(w, m)
    BY <1>6, <2>2 DEF FinishEmail, EndDelivery
  <2> QED
    BY <2>1, <2>2
<1>7. ASSUME NEW w \in Workers, Die(w)
      PROVE  OutboxTypeOK'
  BY <1>7 DEF Die, Fault
<1>8. ASSUME NEW m \in Messages, BackoffElapses(m)
      PROVE  OutboxTypeOK'
  BY <1>8 DEF BackoffElapses
<1>9. ASSUME NEW m \in Messages, LeaseExpires(m)
      PROVE  OutboxTypeOK'
  BY <1>9 DEF LeaseExpires, Abandoned, Fault
<1>10. ASSUME NEW m \in Messages, Redact(m)
      PROVE  OutboxTypeOK'
  BY <1>10 DEF Redact, Redactable, Settled
<1>11. ASSUME NEW m \in Messages, Delete(m)
      PROVE  OutboxTypeOK'
  BY <1>11 DEF Delete, Settled
<1>12. ASSUME UNCHANGED outboxVars
      PROVE  OutboxTypeOK'
  BY <1>12 DEF outboxVars
<1> QED
  BY <1>1, <1>2, <1>3, <1>4, <1>5, <1>6, <1>7, <1>8, <1>9, <1>10, <1>11, <1>12
     DEF OutboxNext, Deliver

\* Every step keeps a token with one delivery at most.
LEMMA TokensStep == OutboxInv /\ [OutboxNext]_outboxVars => TokensOK'
<1> SUFFICES ASSUME OutboxInv, [OutboxNext]_outboxVars PROVE TokensOK'
  OBVIOUS
<1> USE OutboxAssumption
    DEF OutboxInv, OutboxTypeOK, TokensOK, Statuses, rowVars, deliveryVars, history
<1>1. ASSUME NEW m \in Messages, QueueEmail(m)
      PROVE  TokensOK'
  BY <1>1 DEF QueueEmail
<1>2. ASSUME NEW w \in Workers, ClaimBatch(w)
      PROVE  TokensOK'
  BY <1>2 DEF ClaimBatch, Idle, Oldest, Claimable
<1>3. ASSUME NEW w \in Workers, NEW m \in Messages, Load(w, m)
      PROVE  TokensOK'
  <2>1. CASE Owned(w, m)
    <3>1. CASE body[m] = "text"
      <4>1. stage' = [stage EXCEPT ![w][m] = "loaded"] /\ held' = held
        BY <1>3, <2>1, <3>1 DEF Load, Reached
      <4> QED
        BY <1>3, <4>1 DEF Load
    <3>2. CASE body[m] # "text"
      <4>1. stage' = [stage EXCEPT ![w][m] = "blank"] /\ held' = held
        BY <1>3, <2>1, <3>2 DEF Load, Reached
      <4> QED
        BY <1>3, <2>1, <3>2, <4>1 DEF Load, Owned
    <3> QED
      BY <3>1, <3>2
  <2>2. CASE ~Owned(w, m)
    <3>1. /\ stage' = [stage EXCEPT ![w][m] = "none"]
          /\ held' = [held EXCEPT ![w][m] = 0]
      BY <1>3, <2>2 DEF Load, EndDelivery
    <3>2. UNCHANGED <<rowVars, history, faults>>
      BY <1>3 DEF Load
    <3> QED
      BY <3>1, <3>2
  <2> QED
    BY <2>1, <2>2
<1>4. ASSUME NEW w \in Workers, NEW m \in Messages, Send(w, m)
      PROVE  TokensOK'
  <2>1. CASE Reached(w, m, "accepted") /\ copies' = [copies EXCEPT ![m] = @ + 1]
    BY <1>4, <2>1 DEF Send, Reached
  <2>2. CASE Reached(w, m, "error") /\ UNCHANGED copies
    BY <1>4, <2>2 DEF Send, Reached
  <2> QED
    BY <1>4, <2>1, <2>2 DEF Send
<1>5. ASSUME NEW w \in Workers, NEW m \in Messages, SendUnanswered(w, m)
      PROVE  TokensOK'
  BY <1>5 DEF SendUnanswered, Fault, Reached
<1>6. ASSUME NEW w \in Workers, NEW m \in Messages, FinishEmail(w, m)
      PROVE  TokensOK'
  BY <1>6 DEF FinishEmail, EndDelivery, Owned, Outcome, Exhausted
<1>7. ASSUME NEW w \in Workers, Die(w)
      PROVE  TokensOK'
  BY <1>7 DEF Die, Fault
<1>8. ASSUME NEW m \in Messages, BackoffElapses(m)
      PROVE  TokensOK'
  BY <1>8 DEF BackoffElapses
<1>9. ASSUME NEW m \in Messages, LeaseExpires(m)
      PROVE  TokensOK'
  BY <1>9 DEF LeaseExpires, Abandoned, Fault
<1>10. ASSUME NEW m \in Messages, Redact(m)
      PROVE  TokensOK'
  BY <1>10 DEF Redact, Redactable, Settled
<1>11. ASSUME NEW m \in Messages, Delete(m)
      PROVE  TokensOK'
  BY <1>11 DEF Delete, Settled
<1>12. ASSUME UNCHANGED outboxVars
      PROVE  TokensOK'
  BY <1>12 DEF outboxVars
<1> QED
  BY <1>1, <1>2, <1>3, <1>4, <1>5, <1>6, <1>7, <1>8, <1>9, <1>10, <1>11, <1>12
     DEF OutboxNext, Deliver

\* Every step leaves an open row an attempt.
LEMMA BudgetStep == OutboxInv /\ [OutboxNext]_outboxVars => BudgetOK'
<1> SUFFICES ASSUME OutboxInv, [OutboxNext]_outboxVars PROVE BudgetOK'
  OBVIOUS
<1> USE OutboxAssumption
    DEF OutboxInv, OutboxTypeOK, BudgetOK, Statuses, rowVars, deliveryVars, history
<1>1. ASSUME NEW m \in Messages, QueueEmail(m)
      PROVE  BudgetOK'
  BY <1>1 DEF QueueEmail
<1>2. ASSUME NEW w \in Workers, ClaimBatch(w)
      PROVE  BudgetOK'
  BY <1>2 DEF ClaimBatch, Idle, Oldest, Claimable
<1>3. ASSUME NEW w \in Workers, NEW m \in Messages, Load(w, m)
      PROVE  BudgetOK'
  BY <1>3 DEF Load, Reached, EndDelivery, Owned
<1>4. ASSUME NEW w \in Workers, NEW m \in Messages, Send(w, m)
      PROVE  BudgetOK'
  BY <1>4 DEF Send, Reached
<1>5. ASSUME NEW w \in Workers, NEW m \in Messages, SendUnanswered(w, m)
      PROVE  BudgetOK'
  BY <1>5 DEF SendUnanswered, Fault, Reached
<1>6. ASSUME NEW w \in Workers, NEW m \in Messages, FinishEmail(w, m)
      PROVE  BudgetOK'
  BY <1>6 DEF FinishEmail, EndDelivery, Owned, Outcome, Exhausted
<1>7. ASSUME NEW w \in Workers, Die(w)
      PROVE  BudgetOK'
  BY <1>7 DEF Die, Fault
<1>8. ASSUME NEW m \in Messages, BackoffElapses(m)
      PROVE  BudgetOK'
  BY <1>8 DEF BackoffElapses
<1>9. ASSUME NEW m \in Messages, LeaseExpires(m)
      PROVE  BudgetOK'
  BY <1>9 DEF LeaseExpires, Abandoned, Fault
<1>10. ASSUME NEW m \in Messages, Redact(m)
      PROVE  BudgetOK'
  BY <1>10 DEF Redact, Redactable, Settled
<1>11. ASSUME NEW m \in Messages, Delete(m)
      PROVE  BudgetOK'
  BY <1>11 DEF Delete, Settled
<1>12. ASSUME UNCHANGED outboxVars
      PROVE  BudgetOK'
  BY <1>12 DEF outboxVars
<1> QED
  BY <1>1, <1>2, <1>3, <1>4, <1>5, <1>6, <1>7, <1>8, <1>9, <1>10, <1>11, <1>12
     DEF OutboxNext, Deliver

\* Every step keeps success to messages that were taken.
LEMMA TakenStep == OutboxInv /\ [OutboxNext]_outboxVars => TakenOK'
<1> SUFFICES ASSUME OutboxInv, [OutboxNext]_outboxVars PROVE TakenOK'
  OBVIOUS
<1> USE OutboxAssumption
    DEF OutboxInv, OutboxTypeOK, TakenOK, Statuses, rowVars, deliveryVars, history
<1>1. ASSUME NEW m \in Messages, QueueEmail(m)
      PROVE  TakenOK'
  BY <1>1 DEF QueueEmail
<1>2. ASSUME NEW w \in Workers, ClaimBatch(w)
      PROVE  TakenOK'
  BY <1>2 DEF ClaimBatch, Idle, Oldest, Claimable
<1>3. ASSUME NEW w \in Workers, NEW m \in Messages, Load(w, m)
      PROVE  TakenOK'
  <2>1. UNCHANGED <<rowVars, history>>
    BY <1>3 DEF Load
  <2>2. PICK step \in {"loaded", "blank", "none"} : stage' = [stage EXCEPT ![w][m] = step]
    BY <1>3 DEF Load, Reached, EndDelivery
  <2> QED
    BY <2>1, <2>2
<1>4. ASSUME NEW w \in Workers, NEW m \in Messages, Send(w, m)
      PROVE  TakenOK'
  <2>1. CASE Reached(w, m, "accepted") /\ copies' = [copies EXCEPT ![m] = @ + 1]
    BY <1>4, <2>1 DEF Send, Reached
  <2>2. CASE Reached(w, m, "error") /\ UNCHANGED copies
    BY <1>4, <2>2 DEF Send, Reached
  <2> QED
    BY <1>4, <2>1, <2>2 DEF Send
<1>5. ASSUME NEW w \in Workers, NEW m \in Messages, SendUnanswered(w, m)
      PROVE  TakenOK'
  BY <1>5 DEF SendUnanswered, Fault, Reached
<1>6. ASSUME NEW w \in Workers, NEW m \in Messages, FinishEmail(w, m)
      PROVE  TakenOK'
  BY <1>6 DEF FinishEmail, EndDelivery, Owned, Outcome, Exhausted
<1>7. ASSUME NEW w \in Workers, Die(w)
      PROVE  TakenOK'
  BY <1>7 DEF Die, Fault
<1>8. ASSUME NEW m \in Messages, BackoffElapses(m)
      PROVE  TakenOK'
  BY <1>8 DEF BackoffElapses
<1>9. ASSUME NEW m \in Messages, LeaseExpires(m)
      PROVE  TakenOK'
  BY <1>9 DEF LeaseExpires, Abandoned, Fault
<1>10. ASSUME NEW m \in Messages, Redact(m)
      PROVE  TakenOK'
  BY <1>10 DEF Redact, Redactable, Settled
<1>11. ASSUME NEW m \in Messages, Delete(m)
      PROVE  TakenOK'
  BY <1>11 DEF Delete, Settled
<1>12. ASSUME UNCHANGED outboxVars
      PROVE  TakenOK'
  BY <1>12 DEF outboxVars
<1> QED
  BY <1>1, <1>2, <1>3, <1>4, <1>5, <1>6, <1>7, <1>8, <1>9, <1>10, <1>11, <1>12
     DEF OutboxNext, Deliver

\* Every step keeps the text that may still be sent.
LEMMA TextStep == OutboxInv /\ [OutboxNext]_outboxVars => (TextOK /\ NoBlankMail)'
<1> SUFFICES ASSUME OutboxInv, [OutboxNext]_outboxVars PROVE (TextOK /\ NoBlankMail)'
  OBVIOUS
<1> USE OutboxAssumption
    DEF OutboxInv, OutboxTypeOK, TokensOK, TextOK, NoBlankMail, Statuses, Settled, rowVars,
        deliveryVars,
        history
<1>1. ASSUME NEW m \in Messages, QueueEmail(m)
      PROVE  (TextOK /\ NoBlankMail)'
  BY <1>1 DEF QueueEmail
<1>2. ASSUME NEW w \in Workers, ClaimBatch(w)
      PROVE  (TextOK /\ NoBlankMail)'
  BY <1>2 DEF ClaimBatch, Idle, Oldest, Claimable
<1>3. ASSUME NEW w \in Workers, NEW m \in Messages, Load(w, m)
      PROVE  (TextOK /\ NoBlankMail)'
  <2>1. CASE Owned(w, m)
    <3>1. CASE body[m] = "text"
      <4>1. stage' = [stage EXCEPT ![w][m] = "loaded"] /\ held' = held
        BY <1>3, <2>1, <3>1 DEF Load, Reached
      <4> QED
        BY <1>3, <4>1 DEF Load
    <3>2. CASE body[m] # "text"
      <4>1. stage' = [stage EXCEPT ![w][m] = "blank"] /\ held' = held
        BY <1>3, <2>1, <3>2 DEF Load, Reached
      <4> QED
        BY <1>3, <2>1, <3>2, <4>1 DEF Load, Owned
    <3> QED
      BY <3>1, <3>2
  <2>2. CASE ~Owned(w, m)
    <3>1. /\ stage' = [stage EXCEPT ![w][m] = "none"]
          /\ held' = [held EXCEPT ![w][m] = 0]
      BY <1>3, <2>2 DEF Load, EndDelivery
    <3>2. UNCHANGED <<rowVars, history, faults>>
      BY <1>3 DEF Load
    <3> QED
      BY <3>1, <3>2
  <2> QED
    BY <2>1, <2>2
<1>4. ASSUME NEW w \in Workers, NEW m \in Messages, Send(w, m)
      PROVE  (TextOK /\ NoBlankMail)'
  <2>1. blank' = {} /\ UNCHANGED rowVars
    BY <1>4 DEF Send
  <2>2. PICK step \in {"accepted", "error"} : stage' = [stage EXCEPT ![w][m] = step]
    BY <1>4 DEF Send, Reached
  <2> QED
    BY <2>1, <2>2
<1>5. ASSUME NEW w \in Workers, NEW m \in Messages, SendUnanswered(w, m)
      PROVE  (TextOK /\ NoBlankMail)'
  BY <1>5 DEF SendUnanswered, Fault, Reached
<1>6. ASSUME NEW w \in Workers, NEW m \in Messages, FinishEmail(w, m)
      PROVE  (TextOK /\ NoBlankMail)'
  BY <1>6 DEF FinishEmail, EndDelivery, Owned, Outcome, Exhausted
<1>7. ASSUME NEW w \in Workers, Die(w)
      PROVE  (TextOK /\ NoBlankMail)'
  BY <1>7 DEF Die, Fault
<1>8. ASSUME NEW m \in Messages, BackoffElapses(m)
      PROVE  (TextOK /\ NoBlankMail)'
  BY <1>8 DEF BackoffElapses
<1>9. ASSUME NEW m \in Messages, LeaseExpires(m)
      PROVE  (TextOK /\ NoBlankMail)'
  BY <1>9 DEF LeaseExpires, Abandoned, Fault
<1>10. ASSUME NEW m \in Messages, Redact(m)
      PROVE  (TextOK /\ NoBlankMail)'
  BY <1>10 DEF Redact, Redactable, Settled
<1>11. ASSUME NEW m \in Messages, Delete(m)
      PROVE  (TextOK /\ NoBlankMail)'
  BY <1>11 DEF Delete, Settled
<1>12. ASSUME UNCHANGED outboxVars
      PROVE  (TextOK /\ NoBlankMail)'
  BY <1>12 DEF outboxVars
<1> QED
  BY <1>1, <1>2, <1>3, <1>4, <1>5, <1>6, <1>7, <1>8, <1>9, <1>10, <1>11, <1>12
     DEF OutboxNext, Deliver

-----------------------------------------------------------------------------
\* Sets of workers are finite, and may be counted.
LEMMA Counting ==
  ASSUME NEW S \in SUBSET Workers
  PROVE  /\ IsFiniteSet(S)
         /\ Cardinality(S) \in Nat
         /\ \A T \in SUBSET S : Cardinality(T) \in Nat /\ Cardinality(T) <= Cardinality(S)
         /\ \A w \in S : Cardinality(S \ {w}) = Cardinality(S) - 1
         /\ \A w \in Workers \ S : Cardinality(S \cup {w}) = Cardinality(S) + 1
<1>1. IsFiniteSet(S)
  BY OutboxAssumption, FS_Subset DEF OutboxAssumption
<1>2. Cardinality(S) \in Nat
  BY <1>1, FS_CardinalityType
<1>3. ASSUME NEW T \in SUBSET S
      PROVE  Cardinality(T) \in Nat /\ Cardinality(T) <= Cardinality(S)
  BY <1>1, FS_Subset, FS_CardinalityType
<1>4. ASSUME NEW w \in S
      PROVE  Cardinality(S \ {w}) = Cardinality(S) - 1
  BY <1>1, FS_RemoveElement
<1>5. ASSUME NEW w \in Workers \ S
      PROVE  Cardinality(S \cup {w}) = Cardinality(S) + 1
  BY <1>1, FS_AddElement
<1> QED
  BY <1>1, <1>2, <1>3, <1>4, <1>5

LEMMA ExcessType ==
  ASSUME NEW m \in Messages, OutboxTypeOK
  PROVE  Excess(m) \in Int
<1>1. Late(m) \in SUBSET Workers
  BY DEF Late
<1>2. Cardinality(Late(m)) \in Nat
  BY <1>1, Counting
<1> QED
  BY <1>2 DEF Excess, OutboxTypeOK

\* A step that sends nothing and makes no delivery late keeps the balance, unless it
\* brings back the need for a cause.
LEMMA NoNewCopy ==
  ASSUME NEW m \in Messages, OutboxTypeOK, OutboxTypeOK', Balanced(m),
         Late(m)' \subseteq Late(m),
         copies'[m] = copies[m], lost'[m] = lost[m], reclaimed'[m] = reclaimed[m],
         status'[m] \in {"none", "pending", "failed"} \/ AtHand(m)' =>
           status[m] \in {"none", "pending", "failed"} \/ AtHand(m)
  PROVE  Balanced(m)'
<1>1. Late(m) \in SUBSET Workers
  BY DEF Late
<1>2. /\ Cardinality(Late(m)) \in Nat /\ Cardinality(Late(m)') \in Nat
      /\ Cardinality(Late(m)') <= Cardinality(Late(m))
  BY <1>1, Counting
<1>3. Excess(m)' <= Excess(m) /\ Excess(m)' \in Int /\ Excess(m) \in Int
  BY <1>2 DEF Excess, OutboxTypeOK
<1> QED
  BY <1>3 DEF Balanced

\* A message the step leaves alone keeps its balance.
LEMMA Untouched ==
  ASSUME NEW m \in Messages, OutboxTypeOK, OutboxTypeOK', Balanced(m),
         status'[m] = status[m], claim'[m] = claim[m],
         copies'[m] = copies[m], lost'[m] = lost[m], reclaimed'[m] = reclaimed[m],
         \A w \in Workers : stage'[w][m] = stage[w][m] /\ held'[w][m] = held[w][m]
  PROVE  Balanced(m)'
<1>1. Late(m)' = Late(m)
  BY DEF Late
<1>2. AtHand(m)' => AtHand(m)
  BY DEF AtHand
<1> QED
  BY <1>1, <1>2, NoNewCopy

\* Every step keeps the balance of copies and causes.
LEMMA CopiesStep == OutboxInv /\ [OutboxNext]_outboxVars => CopiesOK'
<1> SUFFICES ASSUME OutboxInv, [OutboxNext]_outboxVars PROVE CopiesOK'
  OBVIOUS
<1>a. OutboxTypeOK' /\ TokensOK'
  BY OutboxTypeStep, TokensStep
<1>b. \A n \in Messages : Balanced(n)
  BY DEF OutboxInv, CopiesOK
<1>c. OutboxTypeOK /\ TokensOK
  BY DEF OutboxInv
<1> USE <1>a, <1>b, <1>c DEF rowVars, deliveryVars, history
<1>d. ASSUME NEW n \in Messages, NEW w \in Workers, stage[w][n] # "none"
      PROVE  /\ held[w][n] # 0
             /\ held[w][n] = claim[n] => status[n] = "processing"
             /\ \A v \in Workers : held[v][n] = held[w][n] => v = w
  BY <1>d DEF TokensOK
<1>e. ASSUME NEW n \in Messages, NEW w \in Workers, held'[w][n] = 0, AtHand(n)'
      PROVE  \E v \in Workers \ {w} :
               held'[v][n] = claim'[n] /\ stage'[v][n] \in Unsent \cup {"error"}
  BY <1>e DEF AtHand, TokensOK
<1>f. ASSUME NEW m \in Messages, NEW w \in Workers, EndDelivery(w, m),
             UNCHANGED <<rowVars, history>>
      PROVE  CopiesOK'
  <2>1. stage' = [stage EXCEPT ![w][m] = "none"] /\ held' = [held EXCEPT ![w][m] = 0]
    BY <1>f DEF EndDelivery
  <2>2. ASSUME NEW n \in Messages \ {m}
        PROVE  Balanced(n)'
    BY <1>f, <2>1, Untouched DEF OutboxTypeOK
  <2>3. Late(m)' \subseteq Late(m)
    BY <1>f, <2>1 DEF Late, OutboxTypeOK, Unsent
  <2>4. AtHand(m)' => AtHand(m)
    <3> SUFFICES ASSUME AtHand(m)' PROVE AtHand(m)
      OBVIOUS
    <3>1. held'[w][m] = 0
      BY <2>1 DEF OutboxTypeOK
    <3>2. PICK v \in Workers \ {w} :
            held'[v][m] = claim'[m] /\ stage'[v][m] \in Unsent \cup {"error"}
      BY <1>e, <3>1
    <3>3. held'[v][m] = held[v][m] /\ stage'[v][m] = stage[v][m]
      BY <2>1 DEF OutboxTypeOK
    <3> QED
      BY <1>f, <3>2, <3>3 DEF AtHand
  <2> QED
    BY <1>f, <2>2, <2>3, <2>4, NoNewCopy DEF CopiesOK
<1>1. ASSUME NEW m \in Messages, QueueEmail(m)
      PROVE  CopiesOK'
  <2>1. ASSUME NEW n \in Messages \ {m}
        PROVE  Balanced(n)'
    BY <1>1, Untouched DEF QueueEmail, OutboxTypeOK
  <2>2. Late(m)' = Late(m)
    BY <1>1 DEF QueueEmail, Late
  <2>3. Balanced(m)'
    BY <1>1, <2>2, NoNewCopy DEF QueueEmail
  <2> QED
    BY <2>1, <2>3 DEF CopiesOK
<1>2. ASSUME NEW w \in Workers, ClaimBatch(w)
      PROVE  CopiesOK'
  <2> SUFFICES ASSUME NEW n \in Messages PROVE Balanced(n)'
    BY DEF CopiesOK
  <2>1. stage[w][n] = "none" /\ held[w][n] = 0
    BY <1>2 DEF ClaimBatch, Idle, TokensOK
  <2>2. /\ copies' = copies /\ lost' = lost
        /\ \A v \in Workers \ {w} : stage'[v][n] = stage[v][n] /\ held'[v][n] = held[v][n]
    BY <1>2 DEF ClaimBatch, OutboxTypeOK
  <2>3. CASE n \notin Oldest
    BY <1>2, <2>1, <2>2, <2>3, Untouched DEF ClaimBatch, OutboxTypeOK
  <2>4. CASE n \in Oldest
    <3>1. /\ claim'[n] = claims[n] + 1 /\ held'[w][n] = claims[n] + 1
          /\ stage'[w][n] = "claimed" /\ status'[n] = "processing"
          /\ reclaimed'[n] = IF overdue[n] THEN reclaimed[n] + 1 ELSE reclaimed[n]
      BY <1>2, <2>4 DEF ClaimBatch, OutboxTypeOK
    <3>2. Late(n)' = {v \in Workers : stage[v][n] \in Unsent}
      <4>1. w \notin Late(n)'
        BY <3>1 DEF Late
      <4>2. \A v \in Workers \ {w} : held'[v][n] # claim'[n]
        BY <2>2, <3>1 DEF TokensOK, OutboxTypeOK
      <4>3. w \notin {v \in Workers : stage[v][n] \in Unsent}
        BY <2>1 DEF Unsent
      <4> QED
        BY <2>2, <4>1, <4>2, <4>3 DEF Late
    <3>3. Late(n) \in SUBSET Workers
      BY DEF Late
    <3>4. Cardinality(Late(n)) \in Nat
      BY <3>3, Counting
    <3>5. CASE status[n] = "pending"
      <4>1. Late(n)' = Late(n)
        BY <3>2, <3>5, <1>d DEF Late, Unsent
      <4>2. Excess(n) <= 0 /\ Excess(n) \in Int
        BY <3>5, ExcessType DEF Balanced
      <4>3. Excess(n)' <= Excess(n) /\ Excess(n)' \in Int
        BY <2>2, <3>1, <3>4, <4>1 DEF Excess, OutboxTypeOK
      <4> QED
        BY <4>2, <4>3 DEF Balanced
    <3>6. CASE status[n] = "processing" /\ overdue[n]
      <4>1. CASE \E h \in Workers : held[h][n] = claim[n] /\ stage[h][n] \in Unsent
        <5>1. PICK h \in Workers : held[h][n] = claim[n] /\ stage[h][n] \in Unsent
          BY <4>1
        <5>2. Excess(n) <= 0
          BY <3>6, <5>1 DEF AtHand, Balanced
        <5>3. h \in Workers \ Late(n) /\ Late(n)' = Late(n) \cup {h}
          BY <3>2, <5>1, <1>d DEF Late, Unsent
        <5>4. Cardinality(Late(n)') = Cardinality(Late(n)) + 1
          BY <3>3, <5>3, Counting
        <5>5. reclaimed'[n] = reclaimed[n] + 1 /\ copies'[n] = copies[n] /\ lost'[n] = lost[n]
          BY <2>2, <3>1, <3>6
        <5>6. Excess(n)' = Excess(n) /\ Excess(n) \in Int
          <6>1. copies[n] \in Nat /\ lost[n] \in Nat /\ reclaimed[n] \in Nat
            BY DEF OutboxTypeOK
          <6>2. Excess(n)' = copies'[n] + Cardinality(Late(n)') - lost'[n] - reclaimed'[n]
            BY DEF Excess
          <6> QED
            BY <3>4, <5>4, <5>5, <6>1, <6>2 DEF Excess
        <5> QED
          BY <5>2, <5>6 DEF Balanced
      <4>2. CASE ~ \E h \in Workers : held[h][n] = claim[n] /\ stage[h][n] \in Unsent
        <5>1. Late(n)' = Late(n)
          BY <3>2, <4>2 DEF Late
        <5>2. Excess(n)' = Excess(n) - 1 /\ Excess(n) \in Int
          BY <2>2, <3>1, <3>4, <3>6, <5>1 DEF Excess, OutboxTypeOK
        <5> QED
          BY <5>2 DEF Balanced
      <4> QED
        BY <4>1, <4>2
    <3> QED
      BY <2>4, <3>5, <3>6 DEF Oldest, Claimable
  <2> QED
    BY <2>3, <2>4
<1>3. ASSUME NEW w \in Workers, NEW m \in Messages, Load(w, m)
      PROVE  CopiesOK'
  <2>1. /\ stage[w][m] = "claimed"
        /\ UNCHANGED <<rowVars, history, faults>>
    BY <1>3 DEF Load
  <2>2. CASE Owned(w, m)
    <3>1. PICK step \in {"loaded", "blank"} :
            stage' = [stage EXCEPT ![w][m] = step] /\ held' = held
      BY <1>3, <2>2 DEF Load, Reached
    <3>2. ASSUME NEW n \in Messages \ {m}
          PROVE  Balanced(n)'
      BY <2>1, <3>1, Untouched DEF OutboxTypeOK
    <3>3. Late(m)' = Late(m)
      BY <2>1, <3>1 DEF Late, OutboxTypeOK, Unsent
    <3>4. AtHand(m)' => AtHand(m)
      BY <2>1, <3>1 DEF AtHand, OutboxTypeOK, Unsent
    <3> QED
      BY <2>1, <3>2, <3>3, <3>4, NoNewCopy DEF CopiesOK
  <2>3. CASE ~Owned(w, m)
    <3>1. EndDelivery(w, m)
      BY <1>3, <2>3 DEF Load
    <3> QED
      BY <2>1, <3>1, <1>f
  <2> QED
    BY <2>2, <2>3
<1>4. ASSUME NEW w \in Workers, NEW m \in Messages, Send(w, m)
      PROVE  CopiesOK'
  <2>1. /\ stage[w][m] \in {"loaded", "blank"}
        /\ UNCHANGED <<status, claim, lost, reclaimed, held>>
    BY <1>4 DEF Send, Reached
  <2>2. CASE Reached(w, m, "accepted") /\ copies' = [copies EXCEPT ![m] = @ + 1]
    <3>1. /\ stage' = [stage EXCEPT ![w][m] = "accepted"]
          /\ copies'[m] = copies[m] + 1
          /\ \A n \in Messages \ {m} : copies'[n] = copies[n]
      BY <2>2 DEF Reached, OutboxTypeOK
    <3>2. Balanced(m)'
      <4>1. CASE held[w][m] = claim[m]
        <5>1. AtHand(m)
          BY <2>1, <4>1, <1>d DEF AtHand, Unsent
        <5>2. Excess(m) <= 0
          BY <5>1 DEF Balanced
        <5>3. Late(m)' = Late(m)
          BY <2>1, <3>1, <4>1 DEF Late, OutboxTypeOK, Unsent
        <5>4. Excess(m)' = Excess(m) + 1 /\ Excess(m) \in Int
          <6>1. Late(m) \in SUBSET Workers
            BY DEF Late
          <6>2. Cardinality(Late(m)) \in Nat
            BY <6>1, Counting
          <6> QED
            BY <2>1, <3>1, <5>3, <6>2 DEF Excess, OutboxTypeOK
        <5>5. ~AtHand(m)'
          <6>1. \A v \in Workers : held[v][m] = claim[m] => v = w
            BY <2>1, <4>1, <1>d
          <6>2. stage'[w][m] = "accepted"
            BY <3>1 DEF OutboxTypeOK
          <6> QED
            BY <2>1, <6>1, <6>2 DEF AtHand, Unsent
        <5>6. status'[m] = "processing"
          BY <2>1, <4>1, <1>d
        <5> QED
          BY <5>2, <5>4, <5>5, <5>6 DEF Balanced
      <4>2. CASE held[w][m] # claim[m]
        <5>1. w \in Late(m) /\ Late(m)' = Late(m) \ {w}
          BY <2>1, <3>1, <4>2 DEF Late, OutboxTypeOK, Unsent
        <5>2. AtHand(m)' => AtHand(m)
          BY <2>1, <3>1, <4>2 DEF AtHand, OutboxTypeOK
        <5>3. Excess(m)' = Excess(m) /\ Excess(m) \in Int
          <6>1. Late(m) \in SUBSET Workers
            BY DEF Late
          <6>2. /\ Cardinality(Late(m)) \in Nat
                /\ Cardinality(Late(m)') = Cardinality(Late(m)) - 1
            BY <5>1, <6>1, Counting
          <6> QED
            BY <2>1, <3>1, <6>2 DEF Excess, OutboxTypeOK
        <5> QED
          BY <2>1, <5>2, <5>3 DEF Balanced
      <4> QED
        BY <4>1, <4>2
    <3>3. ASSUME NEW n \in Messages \ {m}
          PROVE  Balanced(n)'
      BY <2>1, <3>1, Untouched DEF OutboxTypeOK
    <3> QED
      BY <3>2, <3>3 DEF CopiesOK
  <2>3. CASE Reached(w, m, "error") /\ UNCHANGED copies
    <3>1. stage' = [stage EXCEPT ![w][m] = "error"] /\ copies' = copies
      BY <2>3 DEF Reached
    <3>2. Balanced(m)'
      <4>1. Late(m)' \subseteq Late(m)
        BY <2>1, <3>1 DEF Late, OutboxTypeOK, Unsent
      <4>2. AtHand(m)' => AtHand(m)
        BY <2>1, <3>1 DEF AtHand, OutboxTypeOK, Unsent
      <4> QED
        BY <2>1, <3>1, <4>1, <4>2, NoNewCopy
    <3>3. ASSUME NEW n \in Messages \ {m}
          PROVE  Balanced(n)'
      BY <2>1, <3>1, Untouched DEF OutboxTypeOK
    <3> QED
      BY <3>2, <3>3 DEF CopiesOK
  <2> QED
    BY <1>4, <2>2, <2>3 DEF Send
<1>5. ASSUME NEW w \in Workers, NEW m \in Messages, SendUnanswered(w, m)
      PROVE  CopiesOK'
  <2>1. /\ stage[w][m] \in {"loaded", "blank"}
        /\ stage' = [stage EXCEPT ![w][m] = "error"]
        /\ UNCHANGED <<status, claim, reclaimed, held>>
        /\ copies' = [copies EXCEPT ![m] = @ + 1]
        /\ lost' = [lost EXCEPT ![m] = @ + 1]
    BY <1>5 DEF SendUnanswered, Reached
  <2>2. ASSUME NEW n \in Messages \ {m}
        PROVE  Balanced(n)'
    BY <2>1, Untouched DEF OutboxTypeOK
  <2>3. Balanced(m)'
    <3>1. Late(m)' \subseteq Late(m)
      BY <2>1 DEF Late, OutboxTypeOK, Unsent
    <3>2. AtHand(m)' => AtHand(m)
      BY <2>1 DEF AtHand, OutboxTypeOK, Unsent
    <3>3. Late(m) \in SUBSET Workers
      BY DEF Late
    <3>4. /\ Cardinality(Late(m)) \in Nat /\ Cardinality(Late(m)') \in Nat
          /\ Cardinality(Late(m)') <= Cardinality(Late(m))
      BY <3>1, <3>3, Counting
    <3>5. copies'[m] = copies[m] + 1 /\ lost'[m] = lost[m] + 1
      BY <2>1 DEF OutboxTypeOK
    <3>6. Excess(m)' <= Excess(m) /\ Excess(m)' \in Int /\ Excess(m) \in Int
      BY <2>1, <3>4, <3>5 DEF Excess, OutboxTypeOK
    <3> QED
      BY <2>1, <3>2, <3>6 DEF Balanced
  <2> QED
    BY <2>2, <2>3 DEF CopiesOK
<1>6. ASSUME NEW w \in Workers, NEW m \in Messages, FinishEmail(w, m)
      PROVE  CopiesOK'
  <2>1. /\ stage[w][m] \in {"accepted", "error"}
        /\ EndDelivery(w, m) /\ UNCHANGED <<body, history, faults>>
    BY <1>6 DEF FinishEmail
  <2>2. CASE Owned(w, m)
    <3>1. /\ Outcome(w, m)
          /\ claim' = [claim EXCEPT ![m] = 0]
      BY <1>6, <2>2 DEF FinishEmail
    <3>2. /\ stage' = [stage EXCEPT ![w][m] = "none"]
          /\ held' = [held EXCEPT ![w][m] = 0]
      BY <2>1 DEF EndDelivery
    <3>3. status' = [status EXCEPT ![m] = "sent"]
          \/ status' = [status EXCEPT ![m] = IF Exhausted(m) THEN "failed" ELSE "pending"]
      BY <3>1 DEF Outcome
    <3>4. ASSUME NEW n \in Messages \ {m}
          PROVE  Balanced(n)'
      <4>1. status'[n] = status[n] /\ claim'[n] = claim[n]
        BY <3>1, <3>3 DEF OutboxTypeOK
      <4>2. \A v \in Workers : stage'[v][n] = stage[v][n] /\ held'[v][n] = held[v][n]
        BY <3>2 DEF OutboxTypeOK
      <4> QED
        BY <2>1, <4>1, <4>2, Untouched
    <3>5. Late(m)' \subseteq Late(m)
      <4>1. held[w][m] = claim[m] /\ stage[w][m] # "none"
        BY <2>1, <2>2 DEF Owned
      <4>2. \A v \in Workers \ {w} : held[v][m] # claim[m]
        BY <4>1, <1>d
      <4>3. w \notin Late(m)'
        BY <3>2 DEF Late, OutboxTypeOK, Unsent
      <4>4. \A v \in Workers \ {w} : stage'[v] = stage[v]
        BY <3>2 DEF OutboxTypeOK
      <4> QED
        BY <4>2, <4>3, <4>4 DEF Late
    <3>6. status'[m] \in {"sent", "pending", "failed"}
      BY <3>3 DEF OutboxTypeOK
    <3>7. ~AtHand(m)'
      BY <3>6 DEF AtHand
    <3>8. status'[m] # "sent" => AtHand(m)
      <4>1. stage[w][m] = "accepted" => status'[m] = "sent"
        BY <3>1 DEF Outcome, OutboxTypeOK
      <4>2. stage[w][m] = "error" => AtHand(m)
        BY <2>2 DEF AtHand, Owned
      <4> QED
        BY <2>1, <4>1, <4>2
    <3> QED
      BY <2>1, <3>4, <3>5, <3>6, <3>7, <3>8, NoNewCopy DEF CopiesOK
  <2>3. CASE ~Owned(w, m)
    <3>1. UNCHANGED <<rowVars, history>>
      BY <1>6, <2>3 DEF FinishEmail
    <3> QED
      BY <2>1, <3>1, <1>f
  <2> QED
    BY <2>2, <2>3
<1>7. ASSUME NEW w \in Workers, Die(w)
      PROVE  CopiesOK'
  <2> SUFFICES ASSUME NEW n \in Messages PROVE Balanced(n)'
    BY DEF CopiesOK
  <2>1. /\ held'[w][n] = 0 /\ stage'[w][n] = "none"
        /\ \A v \in Workers \ {w} : stage'[v][n] = stage[v][n] /\ held'[v][n] = held[v][n]
        /\ UNCHANGED <<rowVars, history>>
    BY <1>7 DEF Die, OutboxTypeOK
  <2>2. Late(n)' \subseteq Late(n)
    BY <2>1 DEF Late, Unsent
  <2>3. AtHand(n)' => AtHand(n)
    BY <2>1, <1>e DEF AtHand
  <2> QED
    BY <2>1, <2>2, <2>3, NoNewCopy
<1>8. ASSUME NEW m \in Messages, BackoffElapses(m)
      PROVE  CopiesOK'
  <2> SUFFICES ASSUME NEW n \in Messages PROVE Balanced(n)'
    BY DEF CopiesOK
  <2> QED
    BY <1>8, Untouched DEF BackoffElapses
<1>9. ASSUME NEW m \in Messages, LeaseExpires(m)
      PROVE  CopiesOK'
  <2> SUFFICES ASSUME NEW n \in Messages PROVE Balanced(n)'
    BY DEF CopiesOK
  <2> QED
    BY <1>9, Untouched DEF LeaseExpires
<1>10. ASSUME NEW m \in Messages, Redact(m)
      PROVE  CopiesOK'
  <2> SUFFICES ASSUME NEW n \in Messages PROVE Balanced(n)'
    BY DEF CopiesOK
  <2> QED
    BY <1>10, Untouched DEF Redact
<1>11. ASSUME NEW m \in Messages, Delete(m)
      PROVE  CopiesOK'
  <2>1. ASSUME NEW n \in Messages \ {m}
        PROVE  Balanced(n)'
    BY <1>11, Untouched DEF Delete, OutboxTypeOK
  <2>2. Late(m)' = Late(m)
    BY <1>11 DEF Delete, Late
  <2>3. status'[m] = "deleted"
    BY <1>11 DEF Delete, OutboxTypeOK
  <2>4. Balanced(m)'
    BY <1>11, <2>2, <2>3, NoNewCopy DEF Delete, AtHand
  <2> QED
    BY <2>1, <2>4 DEF CopiesOK
<1>12. ASSUME UNCHANGED outboxVars
      PROVE  CopiesOK'
  <2> SUFFICES ASSUME NEW n \in Messages PROVE Balanced(n)'
    BY DEF CopiesOK
  <2> QED
    BY <1>12, Untouched DEF outboxVars
<1> QED
  BY <1>1, <1>2, <1>3, <1>4, <1>5, <1>6, <1>7, <1>8, <1>9, <1>10, <1>11, <1>12
     DEF OutboxNext, Deliver
LEMMA IInvStep == OutboxInv /\ [OutboxNext]_outboxVars => OutboxInv'
  BY OutboxTypeStep, TokensStep, BudgetStep, TakenStep, TextStep, CopiesStep DEF OutboxInv

LEMMA OutboxInvariance == OutboxSpec => []OutboxInv
<1>1. OutboxInit => OutboxInv
  BY OutboxInvInit
<1>2. OutboxInv /\ [OutboxNext]_outboxVars => OutboxInv'
  BY IInvStep
<1> QED
  BY <1>1, <1>2, PTL DEF OutboxSpec

\* An outbox row tells the truth: sent means the mail service took the message, failed
\* that every attempt was used and that a copy taken all the same has a cause; and no
\* message is handed over after its text was redacted.
THEOREM RowsTellTheTruth == OutboxSpec => []OutcomesAreTrue
<1>1. OutboxInv => OutcomesAreTrue
  <2> SUFFICES ASSUME OutboxInv PROVE OutcomesAreTrue
    OBVIOUS
  <2>1. OutboxTypeOK /\ NoBlankMail
    BY DEF OutboxInv
  <2>2. SentWasTaken
    BY DEF OutboxInv, TakenOK, SentWasTaken
  <2>3. ASSUME NEW m \in Messages, status[m] = "failed"
        PROVE  attempts[m] = MaxAttempts /\ copies[m] <= lost[m] + reclaimed[m]
    <3>1. Excess(m) <= 0
      BY <2>3 DEF OutboxInv, CopiesOK, Balanced
    <3>2. Late(m) \in SUBSET Workers
      BY DEF Late
    <3>3. Cardinality(Late(m)) \in Nat
      BY <3>2, Counting
    <3>4. copies[m] <= lost[m] + reclaimed[m]
      BY <2>1, <3>1, <3>3 DEF Excess, OutboxTypeOK
    <3> QED
      BY <2>3, <3>4 DEF OutboxInv, BudgetOK
  <2> QED
    BY <2>1, <2>2, <2>3 DEF OutcomesAreTrue, FailedWasRefused
<1> QED
  BY <1>1, OutboxInvariance, PTL

\* The mail service takes a message more than once only for an answer that was lost or
\* a lease that was taken over, one copy for each.
THEOREM CopiesHaveCauses == OutboxSpec => []CopiesExplained
<1>1. OutboxInv => CopiesExplained
  <2> SUFFICES ASSUME OutboxInv, NEW m \in Messages
               PROVE  copies[m] <= 1 + lost[m] + reclaimed[m]
    BY DEF CopiesExplained
  <2>1. Excess(m) <= 1 /\ OutboxTypeOK
    BY DEF OutboxInv, CopiesOK, Balanced
  <2>2. Late(m) \in SUBSET Workers
    BY DEF Late
  <2>3. Cardinality(Late(m)) \in Nat
    BY <2>2, Counting
  <2> QED
    BY <2>1, <2>3 DEF Excess, OutboxTypeOK
<1> QED
  BY <1>1, OutboxInvariance, PTL
=============================================================================
