\* Two clients of one account, two passwords, two captchas, a limit of one
\* failure and two revocations.
CONSTANTS
  Clients = {c1, c2}
  Passwords = {"old", "new"}
  Captchas = {k1, k2}
  MaxFailures = 1
  MaxVersion = 3
SYMMETRY Symmetry
SPECIFICATION Spec
INVARIANTS
  SessionsKnowPassword
  GuessesAreBounded
PROPERTIES
  RevokedStaysRevoked
CHECK_DEADLOCK FALSE
