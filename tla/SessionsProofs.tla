--------------------------- MODULE SessionsProofs ---------------------------
(***************************************************************************)
(* Theorems about Sessions for any number of clients, passwords, captchas, *)
(* revocations and any limit of failures.                                  *)
(***************************************************************************)
EXTENDS Sessions, FiniteSetTheorems, TLAPS

-----------------------------------------------------------------------------
(* Types *)

\* A login that has compared the password has read the row of the account.
LoginsHaveRead ==
  \A c \in Clients : step[c] \in {"verified", "solved", "reset"} => seen[c] \in Session

TypeInvariant == SessionsTypeOK /\ LoginsHaveRead

LEMMA TypeInit == Init => TypeInvariant
<1> SUFFICES ASSUME Init PROVE TypeInvariant
  OBVIOUS
<1>1. missed \in BOOLEAN
  BY DEF Init
<1>2. QED
  BY <1>1, SessionsAssumption DEF Init, TypeInvariant, SessionsTypeOK, LoginsHaveRead, Session

\* The steps of a login that lie before its answer leave the account alone.
LEMMA LoginTyped ==
  ASSUME TypeInvariant, NEW c \in Clients, LoginStep(c)
  PROVE  TypeInvariant'
<1> USE DEF TypeInvariant, SessionsTypeOK, LoginsHaveRead, Goto, LoginSteps, ComparedSteps,
            OtherSteps, accountVars, loginVars, counterVars
<1>1. CASE Check(c) \/ RecordFailure(c) \/ AdminNeedsNoCaptcha(c) \/ Reset(c)
  <2>1. missed' \in BOOLEAN
    BY <1>1 DEF Check, RecordFailure, AdminNeedsNoCaptcha, Reset, Restart
  <2>2. QED
    BY <1>1, <2>1 DEF Check, RecordFailure, AdminNeedsNoCaptcha, Reset, Restart
<1>2. CASE CheckPassword(c)
  BY <1>2 DEF CheckPassword, CountComparison, Session
<1>3. CASE VerifyCaptcha(c)
  BY <1>3 DEF VerifyCaptcha, ConsumeDigest, Compare
<1>4. CASE IssueSession(c)
  BY <1>4 DEF IssueSession, Respond
<1>5. QED
  BY <1>1, <1>2, <1>3, <1>4 DEF LoginStep

LEMMA RequestTyped ==
  ASSUME TypeInvariant, NEW c \in Clients, SessionStep(c)
  PROVE  TypeInvariant'
<1> USE SessionsAssumption
    DEF TypeInvariant, SessionsTypeOK, LoginsHaveRead, Goto, LoginSteps, ComparedSteps,
        OtherSteps, accountVars, loginVars, counterVars
<1>1. CASE RequireAuth(c) \/ CheckCurrentPassword(c) \/ Fail(c)
  <2>1. missed' \in BOOLEAN
    BY <1>1 DEF RequireAuth, Authenticated, CheckCurrentPassword, Fail, ComparisonMissed
  <2>2. QED
    BY <1>1, <2>1
       DEF RequireAuth, Authenticated, CheckCurrentPassword, Fail, ComparisonMissed
<1>2. CASE ChangePassword(c)
  BY <1>2 DEF ChangePassword, Revoke, Respond, Session
<1>3. CASE Logout(c)
  BY <1>3 DEF Logout, Revoke
<1>4. QED
  BY <1>1, <1>2, <1>3 DEF SessionStep

LEMMA TypeStep == TypeInvariant /\ [Next]_vars => TypeInvariant'
<1> SUFFICES ASSUME TypeInvariant, [Next]_vars PROVE TypeInvariant'
  OBVIOUS
<1>1. ASSUME NEW c \in Clients, LoginStep(c) \/ SessionStep(c) PROVE TypeInvariant'
  BY <1>1, LoginTyped, RequestTyped
<1>2. ASSUME NEW k \in Captchas, CreateCaptcha(k) \/ CaptchaExpires(k) PROVE TypeInvariant'
  BY <1>2 DEF CreateCaptcha, CaptchaExpires, TypeInvariant, SessionsTypeOK, LoginsHaveRead,
              accountVars, counterVars, clientVars
<1>3. CASE WindowEnds \/ UNCHANGED vars
  <2>1. missed' \in BOOLEAN
    BY <1>3 DEF WindowEnds, Restart, TypeInvariant, SessionsTypeOK, vars, loginVars, counterVars
  <2>2. QED
    BY <1>3, <2>1 DEF WindowEnds, Restart, TypeInvariant, SessionsTypeOK, LoginsHaveRead, vars,
                      accountVars, loginVars, counterVars, clientVars
<1>4. CASE DisableUser \/ EnableUser
  <2>1. /\ version' \in 1 .. MaxVersion
        /\ UNCHANGED <<password, admin, loginVars, clientVars>>
    BY <1>4, SessionsAssumption DEF DisableUser, EnableUser, Revoke, TypeInvariant, SessionsTypeOK
  <2>2. active' \in BOOLEAN
    BY <1>4 DEF DisableUser, EnableUser
  <2>3. QED
    BY <2>1, <2>2 DEF TypeInvariant, SessionsTypeOK, LoginsHaveRead, loginVars, counterVars,
                       clientVars
<1>5. QED
  BY <1>1, <1>2, <1>3, <1>4 DEF Next

\* The row, the counters and the clients keep their types, and every session that
\* is issued has a version the account has had: login does not answer with the
\* session of nobody.
THEOREM SessionsTypeCorrect == Spec => []SessionsTypeOK
<1>1. TypeInvariant => SessionsTypeOK
  BY DEF TypeInvariant
<1>2. QED
  BY <1>1, TypeInit, TypeStep, PTL DEF Spec

-----------------------------------------------------------------------------
(* Versions only grow *)

\* A session of the version in force goes with the password in force.
Knows(s) ==
  /\ s.version <= version
  /\ s.version = version => s.password = password

KnowledgeInvariant ==
  /\ TypeInvariant
  /\ \A s \in issued : Knows(s)
  /\ \A c \in Clients : Knows(seen[c])

\* How every step treats the account: the password changes with the version only,
\* and nobody is enabled without a new version.
AccountStep ==
  \/ UNCHANGED accountVars
  \/ /\ version' = version + 1
     /\ UNCHANGED admin
     /\ UNCHANGED password \/ UNCHANGED active

LEMMA StepIsAccountStep == [Next]_vars => AccountStep
  BY DEF Next, LoginStep, SessionStep, Check, CheckPassword, RecordFailure, AdminNeedsNoCaptcha,
         VerifyCaptcha, Reset, IssueSession, RequireAuth, Authenticated, CheckCurrentPassword,
         ChangePassword, Logout, Fail, CreateCaptcha, CaptchaExpires, WindowEnds, DisableUser,
         EnableUser, Revoke, AccountStep, vars, accountVars

\* What was known stays known.
LEMMA KnowledgeStays ==
  ASSUME TypeInvariant, AccountStep, NEW s \in Session \cup {NoSession}, Knows(s)
  PROVE  Knows(s)'
<1>1. s.version \in Nat
  BY DEF Session, NoSession
<1>2. QED
  BY <1>1 DEF AccountStep, Knows, TypeInvariant, SessionsTypeOK, accountVars

\* Where new sessions come from: a login has them from what it has read, and a new
\* password comes with the session that knows it.
SessionsOf ==
  /\ \A c \in Clients :
       \/ seen'[c] = seen[c]
       \/ seen'[c] = [password |-> password, version |-> version] /\ UNCHANGED accountVars
  /\ \A s \in issued' :
       \/ s \in issued
       \/ \E c \in Clients : s = seen[c] /\ UNCHANGED accountVars
       \/ s = [password |-> password', version |-> version']

LEMMA StepIssues == TypeInvariant /\ [Next]_vars => SessionsOf
<1> SUFFICES ASSUME TypeInvariant, [Next]_vars PROVE SessionsOf
  OBVIOUS
<1> USE DEF SessionsOf
<1>1. ASSUME NEW c \in Clients, CheckPassword(c) PROVE SessionsOf
  BY <1>1 DEF CheckPassword, TypeInvariant, SessionsTypeOK, accountVars
<1>2. ASSUME NEW c \in Clients, IssueSession(c) PROVE SessionsOf
  BY <1>2 DEF IssueSession, Respond
<1>3. ASSUME NEW c \in Clients, ChangePassword(c) PROVE SessionsOf
  BY <1>3 DEF ChangePassword, Respond
<1>4. CASE UNCHANGED <<seen, issued>>
  BY <1>4
<1>5. ASSUME NEW c \in Clients, LoginStep(c) \/ SessionStep(c) PROVE SessionsOf
  BY <1>1, <1>2, <1>3, <1>4, <1>5
     DEF LoginStep, SessionStep, Check, RecordFailure, AdminNeedsNoCaptcha, VerifyCaptcha, Reset,
         RequireAuth, Authenticated, CheckCurrentPassword, Logout, Fail
<1>6. QED
  BY <1>4, <1>5
     DEF Next, CreateCaptcha, CaptchaExpires, WindowEnds, DisableUser, EnableUser, vars, clientVars

LEMMA KnowledgeStep == KnowledgeInvariant /\ [Next]_vars => KnowledgeInvariant'
<1> SUFFICES ASSUME KnowledgeInvariant, [Next]_vars PROVE KnowledgeInvariant'
  OBVIOUS
<1>1. TypeInvariant /\ TypeInvariant'
  BY TypeStep DEF KnowledgeInvariant
<1>2. AccountStep /\ SessionsOf
  BY <1>1, StepIsAccountStep, StepIssues
<1>3. ASSUME NEW s \in Session \cup {NoSession}, Knows(s) PROVE Knows(s)'
  BY <1>1, <1>2, <1>3, KnowledgeStays
<1>4. \A c \in Clients : seen[c] \in Session \cup {NoSession} /\ Knows(seen[c])
  BY <1>1 DEF KnowledgeInvariant, TypeInvariant, SessionsTypeOK
<1>5. ASSUME NEW s, s = [password |-> password, version |-> version] PROVE Knows(s)
  BY <1>1, <1>5 DEF Knows, TypeInvariant, SessionsTypeOK
<1>6. ASSUME NEW s, s = [password |-> password', version |-> version'] PROVE Knows(s)'
  BY <1>1, <1>6 DEF Knows, TypeInvariant, SessionsTypeOK
<1>7. ASSUME NEW c \in Clients PROVE Knows(seen[c])'
  <2>1. CASE seen'[c] = seen[c]
    BY <1>3, <1>4, <2>1 DEF Knows
  <2>2. CASE seen'[c] = [password |-> password, version |-> version] /\ UNCHANGED accountVars
    BY <1>6, <2>2 DEF accountVars, Knows
  <2>3. QED
    BY <1>2, <2>1, <2>2 DEF SessionsOf
<1>8. ASSUME NEW s \in issued' PROVE Knows(s)'
  <2>1. CASE s \in issued
    BY <1>1, <1>3, <2>1 DEF KnowledgeInvariant, TypeInvariant, SessionsTypeOK
  <2>2. CASE \E c \in Clients : s = seen[c] /\ UNCHANGED accountVars
    BY <1>3, <1>4, <2>2
  <2>3. CASE s = [password |-> password', version |-> version']
    BY <1>6, <2>3
  <2>4. QED
    BY <1>2, <2>1, <2>2, <2>3 DEF SessionsOf
<1>9. QED
  BY <1>1, <1>7, <1>8 DEF KnowledgeInvariant

LEMMA KnowledgeInit == Init => KnowledgeInvariant
  BY TypeInit DEF Init, KnowledgeInvariant, Knows, NoSession

\* Whoever has a session that is admitted knew the password that is in force, or
\* set it, whatever changes overlap.
THEOREM PasswordIsKnown == Spec => []SessionsKnowPassword
<1>1. KnowledgeInvariant => SessionsKnowPassword
  BY DEF KnowledgeInvariant, SessionsKnowPassword, Accepted, Knows
<1>2. QED
  BY <1>1, KnowledgeInit, KnowledgeStep, PTL DEF Spec

\* A session that is not admitted is never admitted again: it is of an earlier
\* version, or waits for an account that comes back with a later one.
THEOREM RevocationIsFinal == Spec => RevokedStaysRevoked
<1>1. ASSUME KnowledgeInvariant, [Next]_vars, NEW s \in issued, ~ Accepted(s)
      PROVE  ~ Accepted(s)'
  <2>1. s.version \in Nat /\ version \in Nat /\ s.version <= version
    BY <1>1 DEF KnowledgeInvariant, TypeInvariant, SessionsTypeOK, Session, Knows
  <2>2. AccountStep
    BY <1>1, StepIsAccountStep
  <2>3. QED
    BY <1>1, <2>1, <2>2 DEF AccountStep, Accepted, accountVars
<1>2. KnowledgeInvariant /\ [Next]_vars =>
        [\A s \in issued : ~ Accepted(s) => ~ Accepted(s)']_vars
  BY <1>1
<1>3. QED
  BY <1>2, KnowledgeInit, KnowledgeStep, PTL DEF Spec, RevokedStaysRevoked

-----------------------------------------------------------------------------
(* Comparisons, failures and those to come *)

\* The logins that may still be counted as failures, and those of them whose
\* password has been compared.
Pending == {c \in Clients : step[c] \in ComparedSteps \cup {"admitted"}}
Compared == {c \in Clients : step[c] \in ComparedSteps}

\* A failure that is counted was pending, and one is let in below the limit only;
\* a password that was compared is counted, or will be.
FailuresInvariant ==
  /\ TypeInvariant
  /\ failures + Cardinality(Pending) < MaxFailures + Cardinality(Clients)
  /\ ~ missed => compared <= failures + Cardinality(Compared)

LEMMA PendingCounts ==
  ASSUME TypeInvariant
  PROVE  /\ IsFiniteSet(Pending) /\ IsFiniteSet(Compared)
         /\ Cardinality(Pending) \in Nat /\ Cardinality(Compared) \in Nat
         /\ Cardinality(Clients) \in Nat
         /\ Cardinality(Compared) <= Cardinality(Pending)
         /\ Cardinality(Pending) <= Cardinality(Clients)
<1>1. /\ IsFiniteSet(Pending)
      /\ Cardinality(Pending) \in Nat /\ Cardinality(Clients) \in Nat
      /\ Cardinality(Pending) <= Cardinality(Clients)
  BY SessionsAssumption, FS_Subset, FS_CardinalityType DEF Pending
<1>2. Compared \subseteq Pending
  BY DEF Compared, Pending
<1>3. QED
  BY <1>1, <1>2, FS_Subset, FS_CardinalityType

LEMMA Numbers ==
  ASSUME TypeInvariant
  PROVE  failures \in Nat /\ compared \in Nat /\ MaxFailures \in Nat
  BY SessionsAssumption DEF TypeInvariant, SessionsTypeOK

\* A step that adds no failure and nobody to the pending.
LEMMA NoneMorePending ==
  ASSUME TypeInvariant, TypeInvariant', Pending' \subseteq Pending, failures' <= failures,
         failures + Cardinality(Pending) < MaxFailures + Cardinality(Clients)
  PROVE  failures' + Cardinality(Pending') < MaxFailures + Cardinality(Clients)
<1>1. Cardinality(Pending') <= Cardinality(Pending) /\ Cardinality(Pending') \in Nat
  BY PendingCounts, FS_Subset, FS_CardinalityType
<1>2. failures' \in Nat
  BY DEF TypeInvariant, SessionsTypeOK
<1>3. QED
  BY <1>1, <1>2, PendingCounts, Numbers

\* A step that leaves the counters alone, and the logins that have compared.
LEMMA NothingCompared ==
  ASSUME FailuresInvariant, TypeInvariant', Pending' \subseteq Pending, Compared' = Compared,
         UNCHANGED counterVars
  PROVE  FailuresInvariant'
<1>1. TypeInvariant /\ failures' <= failures
  BY Numbers DEF FailuresInvariant, counterVars
<1>2. failures' + Cardinality(Pending') < MaxFailures + Cardinality(Clients)
  BY <1>1, NoneMorePending DEF FailuresInvariant
<1>3. ~ missed' => compared' <= failures' + Cardinality(Compared')
  BY DEF FailuresInvariant, counterVars
<1>4. QED
  BY <1>2, <1>3 DEF FailuresInvariant

\* A step that zeroes the counters, or gives up what is claimed of them.
LEMMA NothingClaimed ==
  ASSUME FailuresInvariant, TypeInvariant', Pending' \subseteq Pending,
         failures' \in {failures, 0}, compared' = 0
  PROVE  FailuresInvariant'
<1>1. TypeInvariant /\ failures' <= failures /\ failures' \in Nat
  BY Numbers DEF FailuresInvariant
<1>2. failures' + Cardinality(Pending') < MaxFailures + Cardinality(Clients)
  BY <1>1, NoneMorePending DEF FailuresInvariant
<1>3. Cardinality(Compared') \in Nat
  <2>1. Compared' \subseteq Clients
    BY DEF Compared
  <2>2. QED
    BY <2>1, SessionsAssumption, FS_Subset, FS_CardinalityType
<1>4. QED
  BY <1>1, <1>2, <1>3 DEF FailuresInvariant

LEMMA FailuresStep == FailuresInvariant /\ [Next]_vars => FailuresInvariant'
<1> SUFFICES ASSUME FailuresInvariant, [Next]_vars PROVE FailuresInvariant'
  OBVIOUS
<1>1. TypeInvariant /\ TypeInvariant'
  BY TypeStep DEF FailuresInvariant
<1>2. /\ failures \in Nat /\ compared \in Nat /\ MaxFailures \in Nat
      /\ step \in [Clients -> LoginSteps \cup OtherSteps \cup {"idle"}]
  BY <1>1, Numbers DEF TypeInvariant, SessionsTypeOK
<1>3. ASSUME NEW c \in Clients, Check(c) PROVE FailuresInvariant'
  <2>1. /\ Cardinality(Pending') \in Nat /\ Cardinality(Clients) \in Nat
        /\ Cardinality(Pending') <= Cardinality(Clients)
    BY SessionsAssumption, FS_Subset, FS_CardinalityType DEF Pending
  <2>2. UNCHANGED counterVars /\ failures < MaxFailures
    BY <1>3 DEF Check, loginVars
  <2>3. Compared' = Compared
    BY <1>2, <1>3 DEF Check, Goto, Compared, ComparedSteps
  <2>4. QED
    BY <1>1, <1>2, <2>1, <2>2, <2>3 DEF FailuresInvariant, counterVars
<1>4. ASSUME NEW c \in Clients, CheckPassword(c) PROVE FailuresInvariant'
  <2>1. /\ c \notin Compared /\ Compared' = Compared \cup {c}
        /\ Pending' = Pending
    BY <1>2, <1>4 DEF CheckPassword, Goto, Pending, Compared, ComparedSteps
  <2>2. Cardinality(Compared') = Cardinality(Compared) + 1
    BY <1>1, <2>1, PendingCounts, FS_AddElement
  <2>3. /\ UNCHANGED <<failures, missed>>
        /\ ~ missed => compared' = compared + 1
    BY <1>4 DEF CheckPassword, CountComparison
  <2>4. QED
    BY <1>1, <1>2, <2>1, <2>2, <2>3, PendingCounts DEF FailuresInvariant
<1>5. ASSUME NEW c \in Clients, RecordFailure(c) PROVE FailuresInvariant'
  <2>1. /\ c \in Pending /\ Pending' = Pending \ {c}
        /\ c \in Compared /\ Compared' = Compared \ {c}
    BY <1>2, <1>5 DEF RecordFailure, Goto, Pending, Compared, ComparedSteps
  <2>2. /\ Cardinality(Pending') = Cardinality(Pending) - 1
        /\ Cardinality(Compared') = Cardinality(Compared) - 1
    BY <1>1, <2>1, PendingCounts, FS_RemoveElement
  <2>3. failures' = failures + 1 /\ UNCHANGED <<compared, missed>>
    BY <1>5 DEF RecordFailure
  <2>4. QED
    BY <1>1, <1>2, <2>1, <2>2, <2>3, PendingCounts DEF FailuresInvariant
<1>6. ASSUME NEW c \in Clients,
             IssueSession(c) \/ AdminNeedsNoCaptcha(c) \/ VerifyCaptcha(c)
      PROVE  FailuresInvariant'
  <2>1. UNCHANGED counterVars
    BY <1>6 DEF IssueSession, AdminNeedsNoCaptcha, VerifyCaptcha, loginVars
  <2>2. Pending' \subseteq Pending /\ Compared' = Compared
    BY <1>2, <1>6 DEF IssueSession, AdminNeedsNoCaptcha, VerifyCaptcha, Compare, Respond, Goto,
                      Pending, Compared, ComparedSteps
  <2>3. QED
    BY <1>1, <2>1, <2>2, NothingCompared
<1>7. ASSUME NEW c \in Clients, Reset(c) PROVE FailuresInvariant'
  <2>1. Pending' \subseteq Pending
    BY <1>2, <1>7 DEF Reset, Goto, Pending, ComparedSteps
  <2>2. QED
    BY <1>1, <1>7, <2>1, NothingClaimed DEF Reset, Restart
<1>8. ASSUME NEW c \in Clients,
             RequireAuth(c) \/ CheckCurrentPassword(c) \/ ChangePassword(c) \/ Logout(c)
      PROVE  FailuresInvariant'
  <2>1. UNCHANGED counterVars
    BY <1>8 DEF RequireAuth, Authenticated, CheckCurrentPassword, ChangePassword, Logout,
                loginVars
  <2>2. Pending' \subseteq Pending /\ Compared' = Compared
    BY <1>2, <1>8 DEF RequireAuth, Authenticated, CheckCurrentPassword, ChangePassword, Logout,
                      Respond, Goto, Pending, Compared, ComparedSteps
  <2>3. QED
    BY <1>1, <2>1, <2>2, NothingCompared
<1>9. ASSUME NEW c \in Clients, Fail(c) PROVE FailuresInvariant'
  <2>1. Pending' \subseteq Pending /\ failures' = failures
    BY <1>2, <1>9 DEF Fail, Goto, Pending, ComparedSteps
  <2>2. CASE step[c] \in ComparedSteps
    BY <1>1, <1>9, <2>1, <2>2, NothingClaimed DEF Fail, ComparisonMissed
  <2>3. CASE step[c] \notin ComparedSteps
    <3>1. Compared' = Compared /\ UNCHANGED counterVars
      BY <1>2, <1>9, <2>3 DEF Fail, Goto, Compared, ComparedSteps, counterVars
    <3>2. QED
      BY <1>1, <2>1, <3>1, NothingCompared
  <2>4. QED
    BY <2>2, <2>3
<1>10. CASE WindowEnds
  <2>1. UNCHANGED step
    BY <1>10 DEF WindowEnds, clientVars
  <2>2. Pending' \subseteq Pending
    BY <2>1 DEF Pending
  <2>3. QED
    BY <1>1, <1>10, <2>2, NothingClaimed DEF WindowEnds, Restart
<1>11. CASE UNCHANGED <<step, counterVars>>
  BY <1>1, <1>11, NothingCompared DEF Pending, Compared
<1>12. QED
  BY <1>3, <1>4, <1>5, <1>6, <1>7, <1>8, <1>9, <1>10, <1>11
     DEF Next, LoginStep, SessionStep, CreateCaptcha, CaptchaExpires, DisableUser, EnableUser,
         vars, loginVars, clientVars

\* A captcha whose code has been compared is gone.
CaptchasInvariant ==
  /\ TypeInvariant
  /\ \A k \in Captchas : tried[k] <= 1 /\ (captcha[k] # "gone" => tried[k] = 0)

LEMMA CaptchasStep == CaptchasInvariant /\ [Next]_vars => CaptchasInvariant'
<1> SUFFICES ASSUME CaptchasInvariant, [Next]_vars PROVE CaptchasInvariant'
  OBVIOUS
<1>1. TypeInvariant /\ TypeInvariant'
  BY TypeStep DEF CaptchasInvariant
<1> USE DEF CaptchasInvariant, TypeInvariant, SessionsTypeOK
<1>2. ASSUME NEW c \in Clients, VerifyCaptcha(c) PROVE CaptchasInvariant'
  BY <1>1, <1>2 DEF VerifyCaptcha, ConsumeDigest, Compare
<1>3. ASSUME NEW k \in Captchas, CreateCaptcha(k) \/ CaptchaExpires(k) PROVE CaptchasInvariant'
  BY <1>1, <1>3 DEF CreateCaptcha, CaptchaExpires
<1>4. CASE UNCHANGED <<captcha, tried>>
  BY <1>1, <1>4
<1>5. QED
  BY <1>2, <1>3, <1>4
     DEF Next, LoginStep, SessionStep, Check, CheckPassword, RecordFailure, AdminNeedsNoCaptcha,
         Reset, IssueSession, RequireAuth, Authenticated, CheckCurrentPassword, ChangePassword,
         Logout, Fail, WindowEnds, DisableUser, EnableUser, vars, loginVars

\* The check and the count of failures are apart by the logins under way only:
\* until the counter starts anew, the passwords compared are as few as the failures
\* that may be counted, unless a login ends between the two.  And no code is compared
\* with a captcha that another login has presented.
THEOREM GuessingIsBounded == Spec => []GuessesAreBounded
<1>1. Init => FailuresInvariant /\ CaptchasInvariant
  <2> SUFFICES ASSUME Init PROVE FailuresInvariant /\ CaptchasInvariant
    OBVIOUS
  <2>1. TypeInvariant
    BY TypeInit
  <2>2. Pending = {} /\ Compared = {}
    BY DEF Init, Pending, Compared, ComparedSteps
  <2>3. FailuresInvariant
    BY <2>1, <2>2, PendingCounts, SessionsAssumption, FS_EmptySet DEF Init, FailuresInvariant
  <2>4. CaptchasInvariant
    BY <2>1 DEF Init, CaptchasInvariant
  <2>5. QED
    BY <2>3, <2>4
<1>2. FailuresInvariant /\ CaptchasInvariant => GuessesAreBounded
  BY PendingCounts, Numbers DEF FailuresInvariant, CaptchasInvariant, GuessesAreBounded
<1>3. QED
  BY <1>1, <1>2, FailuresStep, CaptchasStep, PTL DEF Spec

=============================================================================
