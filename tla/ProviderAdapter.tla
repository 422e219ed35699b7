--------------------------- MODULE ProviderAdapter ---------------------------
(***************************************************************************)
(* One call of a provider (internal/provideradapter) and what becomes of   *)
(* the images it returns.  The answer of an OpenAI-like provider is parsed *)
(* while it arrives: every image becomes a temporary file, so a failure    *)
(* may come when some are there.  That of Gemini is read before it is      *)
(* parsed, and its images stay in memory.                                  *)
(*                                                                         *)
(* The time a provider is given ends a call like a broken connection does: *)
(* before the answer it is a TransportFails, afterwards the body fails.    *)
(***************************************************************************)
EXTENDS TaskAdmission, Sequences

CONSTANTS
  GeminiProviders,
  MaxImages  \* in one answer

ASSUME AdapterAssumption ==
  GeminiProviders \subseteq Providers /\ MaxImages \in Nat \ {0}

VARIABLES
  answer,  \* what Execute means to return
  files    \* the temporary files of the images of an execution

adapterVars == <<answer, files>>

Answers == {"success", "retryable", "final"}

AdapterInit ==
  /\ answer = [c \in Connections |-> "none"]
  /\ files = [c \in Connections |-> 0]

Speaks(c, gemini) == step[c] = "attempting" /\ (context[c].provider \in GeminiProviders) = gemini

\* The call is over.  A failure leaves no image behind (removeTemporaryImages).
Called(c, with) ==
  /\ answer' = [answer EXCEPT ![c] = with]
  /\ files' = [files EXCEPT ![c] = IF with = "success" THEN @ ELSE 0]
  /\ Read(c, "called")

\* An edit without pictures and a URL that cannot be extended are errors of no
\* kind, which the executor takes for ones that may go away.
InvalidRequest(c) ==
  /\ step[c] = "attempting"
  /\ Called(c, "retryable")
  /\ UNCHANGED admissionVars

TransportFails(c) ==
  /\ step[c] = "attempting"
  /\ Called(c, "retryable")
  /\ UNCHANGED admissionVars

\* providerHTTPError: a quota that is used up is final whatever the status.
HTTPFails(c) ==
  /\ step[c] = "attempting"
  /\ \E status \in {400, 429, 503}, quota \in BOOLEAN :
       Called(c, IF ~ quota /\ (status = 429 \/ status >= 500) THEN "retryable" ELSE "final")
  /\ UNCHANGED admissionVars

-----------------------------------------------------------------------------
\* executeOpenAI

\* The announced length is above the limit.
ResponseTooLarge(c) ==
  /\ Speaks(c, FALSE)
  /\ Called(c, "final")
  /\ UNCHANGED admissionVars

BeginReading(c) ==
  /\ Speaks(c, FALSE)
  /\ Read(c, "reading")
  /\ UNCHANGED <<admissionVars, adapterVars>>

\* materializeOpenAIImage, from the answer itself or from a URL.
DecodeImage(c) ==
  /\ step[c] = "reading" /\ files[c] < MaxImages
  /\ files' = [files EXCEPT ![c] = @ + 1]
  /\ Read(c, "reading")
  /\ UNCHANGED <<admissionVars, answer>>

\* Mutant: the images that were complete are left where they are.
BodyFailsKeepingFiles(c) ==
  /\ step[c] = "reading"
  /\ \E with \in {"retryable", "final"} : answer' = [answer EXCEPT ![c] = with]
  /\ Read(c, "called")
  /\ UNCHANGED <<admissionVars, files>>

\* A picture cannot be fetched from its URL, or the body breaks off, is too
\* long or is not what it should be.
BodyFails(c) ==
  /\ step[c] = "reading"
  /\ \E with \in {"retryable", "final"} : Called(c, with)
  /\ UNCHANGED admissionVars

\* An answer without images is invalid.
EndOfBody(c) ==
  /\ step[c] = "reading"
  /\ Called(c, IF files[c] > 0 THEN "success" ELSE "final")
  /\ UNCHANGED admissionVars

-----------------------------------------------------------------------------
\* executeGemini

\* The body is read whole first, and what goes wrong there may go away.
GeminiBodyFails(c) ==
  /\ Speaks(c, TRUE)
  /\ Called(c, "retryable")
  /\ UNCHANGED admissionVars

\* parseGeminiResponse: one image that cannot be decoded spoils the answer.
ParseGemini(c) ==
  /\ Speaks(c, TRUE)
  /\ \E with \in {"success", "final"} : Called(c, with)
  /\ UNCHANGED admissionVars

AdapterStep(c) ==
  \/ InvalidRequest(c)
  \/ TransportFails(c)
  \/ HTTPFails(c)
  \/ ResponseTooLarge(c)
  \/ BeginReading(c)
  \/ DecodeImage(c)
  \/ BodyFails(c)
  \/ EndOfBody(c)
  \/ GeminiBodyFails(c)
  \/ ParseGemini(c)

AdapterTypeOK ==
  /\ answer \in [Connections -> Answers \cup {"none"}]
  /\ files \in [Connections -> 0 .. MaxImages]

=============================================================================
