------------------------------ MODULE Sessions ------------------------------
(***************************************************************************)
(* The sessions of one user account (internal/auth).  A session is a token *)
(* that carries the session version of the account; a request is admitted  *)
(* while the account is ACTIVE and has that version, so raising it revokes *)
(* every session at once.  Login reads the account in one statement and    *)
(* issues the token several steps later, and counts failures in Redis with *)
(* a check and an increment that are not one step.  The counter is that of *)
(* one email and address: all clients share it.                            *)
(***************************************************************************)
EXTENDS Naturals, FiniteSets

CONSTANTS
  Clients,
  Passwords,
  Captchas,
  MaxFailures,  \* LoginRateLimitMaxFailures
  MaxVersion    \* bound on the session version

ASSUME SessionsAssumption ==
  /\ IsFiniteSet(Clients) /\ Clients # {}
  /\ MaxFailures \in Nat \ {0} /\ MaxVersion \in Nat \ {0}

VARIABLES
  password, version, active,  \* the row of the account
  admin,      \* the account is an administrator: no captcha is asked
  failures,   \* the counter of failed logins of the current window
  compared,   \* history: passwords compared since the counter was last zero
  missed,     \* history: did a login end between its comparison and the counter?
  captcha,    \* whether each captcha is new, stored or gone
  tried,      \* how many codes were compared with each
  step,       \* where the request of each client is
  seen,       \* the password and version it has read
  token,      \* the session each client has
  issued      \* all that were ever issued

accountVars == <<password, version, active, admin>>
counterVars == <<failures, compared, missed>>
loginVars == <<counterVars, captcha, tried>>
clientVars == <<step, seen, token, issued>>
vars == <<accountVars, loginVars, clientVars>>

Session == [password : Passwords, version : 1 .. MaxVersion]
NoSession == [password |-> CHOOSE p \in Passwords : TRUE, version |-> 0]

ComparedSteps == {"failing", "verified", "solved"}
LoginSteps == {"admitted", "reset"} \cup ComparedSteps
OtherSteps == {"changing", "rehashed", "leaving"}

Init ==
  /\ password \in Passwords
  /\ version = 1
  /\ active = TRUE
  /\ admin \in BOOLEAN
  /\ failures = 0 /\ compared = 0 /\ missed = FALSE
  /\ captcha = [k \in Captchas |-> "new"]
  /\ tried = [k \in Captchas |-> 0]
  /\ step = [c \in Clients |-> "idle"]
  /\ seen = [c \in Clients |-> NoSession]
  /\ token = [c \in Clients |-> NoSession]
  /\ issued = {}

Goto(c, s) == step' = [step EXCEPT ![c] = s]

\* The response sets the cookie.
Respond(c, s) ==
  /\ Goto(c, "idle")
  /\ token' = [token EXCEPT ![c] = s]
  /\ issued' = issued \cup {s}

CountComparison == compared' = IF missed THEN 0 ELSE compared + 1

\* Nothing is claimed of the window once a comparison went uncounted.
ComparisonMissed == compared' = 0 /\ missed' = TRUE

\* The counter starts anew.
Restart == failures' = 0 /\ compared' = 0 /\ missed' = FALSE

Revoke == version < MaxVersion /\ version' = version + 1

-----------------------------------------------------------------------------
\* login

\* Check of the rate limiter; above the limit the request is refused.
Check(c) ==
  /\ step[c] = "idle"
  /\ failures < MaxFailures
  /\ Goto(c, "admitted")
  /\ UNCHANGED <<accountVars, loginVars, seen, token, issued>>

\* The ACTIVE account is read, and the given password compared with it.
CheckPassword(c) ==
  /\ step[c] = "admitted"
  /\ \E given \in Passwords :
       IF active /\ given = password
         THEN /\ Goto(c, "verified")
              /\ seen' = [seen EXCEPT ![c] = [password |-> given, version |-> version]]
         ELSE /\ Goto(c, "failing")
              /\ UNCHANGED seen
  /\ CountComparison
  /\ UNCHANGED <<accountVars, failures, missed, captcha, tried, token, issued>>

RecordFailure(c) ==
  /\ step[c] = "failing"
  /\ failures' = failures + 1
  /\ Goto(c, "idle")
  /\ UNCHANGED <<accountVars, compared, missed, captcha, tried, seen, token, issued>>

AdminNeedsNoCaptcha(c) ==
  /\ step[c] = "verified"
  /\ admin
  /\ Goto(c, "solved")
  /\ UNCHANGED <<accountVars, loginVars, seen, token, issued>>

\* Mutant: a wrong code is not counted as a failure of the login.
CompareUncounted(c, k) ==
  /\ tried' = [tried EXCEPT ![k] = @ + 1]
  /\ Goto(c, "solved") \/ Goto(c, "idle")

\* The code that was given is right, or wrong.
Compare(c, k) ==
  /\ tried' = [tried EXCEPT ![k] = @ + 1]
  /\ Goto(c, "solved") \/ Goto(c, "failing")

\* ConsumeDigest takes the captcha out before its code is compared.
ConsumeDigest(k) ==
  /\ captcha[k] = "stored"
  /\ captcha' = [captcha EXCEPT ![k] = "gone"]

\* One that is not given, unknown or taken is a failure.
VerifyCaptcha(c) ==
  /\ step[c] = "verified"
  /\ ~ admin
  /\ \/ \E k \in Captchas : ConsumeDigest(k) /\ Compare(c, k)
     \/ /\ Goto(c, "failing")
        /\ UNCHANGED <<captcha, tried>>
  /\ UNCHANGED <<accountVars, counterVars, seen, token, issued>>

Reset(c) ==
  /\ step[c] = "solved"
  /\ Restart
  /\ Goto(c, "reset")
  /\ UNCHANGED <<accountVars, captcha, tried, seen, token, issued>>

\* Mutant: the session carries the version of the moment it is issued.
IssueCurrent(c) ==
  /\ step[c] = "reset"
  /\ Respond(c, [seen[c] EXCEPT !.version = version])
  /\ UNCHANGED <<accountVars, loginVars, seen>>

\* The session carries the version that was read with the password.
IssueSession(c) ==
  /\ step[c] = "reset"
  /\ Respond(c, seen[c])
  /\ UNCHANGED <<accountVars, loginVars, seen>>

CreateCaptcha(k) ==
  /\ captcha[k] = "new"
  /\ captcha' = [captcha EXCEPT ![k] = "stored"]
  /\ UNCHANGED <<accountVars, counterVars, tried, clientVars>>

CaptchaExpires(k) ==
  /\ captcha[k] = "stored"
  /\ captcha' = [captcha EXCEPT ![k] = "gone"]
  /\ UNCHANGED <<accountVars, counterVars, tried, clientVars>>

\* The counter expires a window after the failure that created it.
WindowEnds ==
  /\ failures > 0
  /\ Restart
  /\ UNCHANGED <<accountVars, captcha, tried, clientVars>>

-----------------------------------------------------------------------------
\* Requests with a session

\* RequireAuth
Accepted(s) == active /\ s.version = version

Authenticated(c, s) ==
  /\ step[c] = "idle"
  /\ Accepted(token[c])
  /\ Goto(c, s)
  /\ UNCHANGED <<accountVars, loginVars, seen, token, issued>>

RequireAuth(c) == \E s \in {"changing", "leaving"} : Authenticated(c, s)

\* changePassword compares the given password with a row it has not locked.
CheckCurrentPassword(c) ==
  /\ step[c] = "changing"
  /\ active
  /\ \E given \in Passwords :
       Goto(c, IF given = password THEN "rehashed" ELSE "idle")
  /\ UNCHANGED <<accountVars, loginVars, seen, token, issued>>

\* The update goes by the key, and the new session carries the version that
\* the transaction reads back.
ChangePassword(c) ==
  /\ step[c] = "rehashed"
  /\ Revoke
  /\ \E new \in Passwords :
       /\ password' = new
       /\ Respond(c, [password |-> new, version |-> version'])
  /\ UNCHANGED <<active, admin, loginVars, seen>>

Logout(c) ==
  /\ step[c] = "leaving"
  /\ active
  /\ Revoke
  /\ Goto(c, "idle")
  /\ token' = [token EXCEPT ![c] = NoSession]
  /\ UNCHANGED <<password, active, admin, loginVars, seen, issued>>

\* A request ends with an error at any point.  Between the comparison of the
\* password and the counter, the comparison is not counted.
Fail(c) ==
  /\ step[c] # "idle"
  /\ Goto(c, "idle")
  /\ IF step[c] \in ComparedSteps
       THEN ComparisonMissed
       ELSE UNCHANGED <<compared, missed>>
  /\ UNCHANGED <<accountVars, failures, captcha, tried, seen, token, issued>>

-----------------------------------------------------------------------------
\* An administrator disables and enables the account.

DisableUser ==
  /\ active
  /\ Revoke
  /\ active' = FALSE
  /\ UNCHANGED <<password, admin, loginVars, clientVars>>

\* Mutant: only disabling revokes the sessions.
EnableOnly ==
  /\ ~ active
  /\ active' = TRUE
  /\ UNCHANGED <<password, version, admin, loginVars, clientVars>>

EnableUser ==
  /\ ~ active
  /\ Revoke
  /\ active' = TRUE
  /\ UNCHANGED <<password, admin, loginVars, clientVars>>

-----------------------------------------------------------------------------
LoginStep(c) ==
  \/ Check(c)
  \/ CheckPassword(c)
  \/ RecordFailure(c)
  \/ AdminNeedsNoCaptcha(c)
  \/ VerifyCaptcha(c)
  \/ Reset(c)
  \/ IssueSession(c)

SessionStep(c) ==
  \/ RequireAuth(c)
  \/ CheckCurrentPassword(c)
  \/ ChangePassword(c)
  \/ Logout(c)
  \/ Fail(c)

Next ==
  \/ \E c \in Clients : LoginStep(c) \/ SessionStep(c)
  \/ \E k \in Captchas : CreateCaptcha(k) \/ CaptchaExpires(k)
  \/ WindowEnds
  \/ DisableUser
  \/ EnableUser

Spec == Init /\ [][Next]_vars

-----------------------------------------------------------------------------
\* Properties

SessionsTypeOK ==
  /\ password \in Passwords
  /\ version \in 1 .. MaxVersion
  /\ active \in BOOLEAN /\ admin \in BOOLEAN
  /\ failures \in Nat /\ compared \in Nat /\ missed \in BOOLEAN
  /\ captcha \in [Captchas -> {"new", "stored", "gone"}]
  /\ tried \in [Captchas -> Nat]
  /\ step \in [Clients -> LoginSteps \cup OtherSteps \cup {"idle"}]
  /\ seen \in [Clients -> Session \cup {NoSession}]
  /\ token \in [Clients -> Session \cup {NoSession}]
  /\ issued \subseteq Session

\* A session that is admitted was opened with, or has set, the password that
\* is in force, although login reads it some steps before it answers and two
\* changes of it may overlap.
SessionsKnowPassword == \A s \in issued : Accepted(s) => s.password = password

\* A session that is not admitted is not admitted ever again: not one that
\* a disabled user obtains from a change that was under way, either.
RevokedStaysRevoked ==
  [][\A s \in issued : ~ Accepted(s) => ~ Accepted(s)']_vars

\* The limit is checked before the password is compared and counted after it,
\* so logins under way may overshoot it, but nothing else: until the counter
\* starts anew, by a successful login or the end of the window, no more
\* passwords are compared than the limit and the other clients allow, right
\* ones with a wrong captcha included.  A login that ends with an error between
\* the two escapes the counter; only the counter is bounded then.  A captcha is
\* good for one code, even if two logins present it at once
\* (docs/api-contract.md:84).
GuessesAreBounded ==
  LET most == MaxFailures + Cardinality(Clients) - 1
  IN  /\ failures <= most
      /\ ~ missed => compared <= most
      /\ \A k \in Captchas : tried[k] <= 1

=============================================================================
