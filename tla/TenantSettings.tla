--------------------------- MODULE TenantSettings ---------------------------
(***************************************************************************)
(* The settings of a tenant (internal/settings) apart from the defaults of *)
(* tasks: groups of numbers, each a row that is absent until it is first   *)
(* changed.  A PATCH goes through its groups one after the other.  For     *)
(* each it reads the values in force outside of any transaction, puts the  *)
(* new ones over them, validates the whole and overwrites the row.         *)
(*                                                                         *)
(* The deployment caps the limits of uploads and of concurrency.  When it  *)
(* comes with lower caps the rows of before are cut down when they are     *)
(* read (uploads) or refused (concurrency).                                *)
(***************************************************************************)
EXTENDS Transactions, Sequences

CONSTANTS
  Clamped,    \* groups whose values are cut down to the cap
  Refused,    \* groups whose row is refused when it exceeds the cap
  Optional,   \* groups whose fields may be unset and have a fixed range
  Fields,
  Caps,
  FirstLimit,  \* the concurrency of a tenant without a row
  MaxOptional

Groups == Clamped \cup Refused \cup Optional
Unset == 0
NoRow == [f \in Fields |-> Unset]
Numbers == 0 .. MaxOptional

ASSUME SettingsAssumption ==
  /\ Clamped \cap Refused = {} /\ (Clamped \cup Refused) \cap Optional = {}
  /\ MaxOptional \in Nat
  /\ Caps # {} /\ Caps \subseteq 1 .. MaxOptional
  /\ FirstLimit \in Nat \ {0}

ASSUME SettingsRequestsAssumption ==
  \A r \in Requests :
    /\ r.kind = "patchSettings" => r.groups \in Seq(Groups)
    /\ r.kind = "applyLimits" => r.group \in Groups

VARIABLES
  setting,   \* the row of each group
  cap,       \* of the processes that are deployed
  base,      \* what the request of a connection has read of a group
  left,      \* the groups its PATCH has still to go through
  inForce    \* the limits that an upload or a worker goes by

settingVars == <<setting, cap, base, left, inForce>>

SettingsInit ==
  /\ setting = [g \in Groups |-> NoRow]
  /\ cap \in Caps
  /\ base = [c \in Connections |-> NoRow]
  /\ left = [c \in Connections |-> <<>>]
  /\ inForce = [g \in Groups |-> NoRow]

-----------------------------------------------------------------------------
\* Reading a group

Least(m, n) == IF m < n THEN m ELSE n

\* The values a group allows to be written.
Valid(g, value) ==
  /\ g \notin Optional => \A f \in Fields : value[f] \in 1 .. cap
  /\ g \in Optional => \A f \in Fields : value[f] \in {Unset} \cup 1 .. MaxOptional

\* EffectiveUploadPolicy and the Load functions fail for the rows they refuse.
Readable(g) ==
  g \in Refused /\ setting[g] # NoRow => Valid(g, setting[g])

\* clampPolicyToHardCap
Clamp(value) == [f \in Fields |-> Least(value[f], cap)]

\* In force as long as there is no row.
Initially(g) ==
  CASE g \in Clamped  -> [f \in Fields |-> cap]
    [] g \in Refused  -> [f \in Fields |-> Least(FirstLimit, cap)]
    [] g \in Optional -> NoRow

\* Mutant: the row is believed as it is.
EffectiveAsStored(g) == IF setting[g] = NoRow THEN Initially(g) ELSE setting[g]

Effective(g) ==
  CASE setting[g] = NoRow -> Initially(g)
    [] setting[g] # NoRow /\ g \in Clamped -> Clamp(setting[g])
    [] OTHER -> setting[g]

-----------------------------------------------------------------------------
\* PatchSystemSettings

Patch(c) == request[c].patch

StartPatch(c) ==
  /\ Kind(c) = "patchSettings" /\ step[c] = "begun"
  /\ left' = [left EXCEPT ![c] = request[c].groups]
  /\ Read(c, "next group")
  /\ UNCHANGED <<setting, cap, base, inForce>>

LoadGroup(c) ==
  /\ step[c] = "next group" /\ left[c] # <<>>
  /\ Readable(Head(left[c]))
  /\ base' = [base EXCEPT ![c] = Effective(Head(left[c]))]
  /\ Read(c, "loaded group")
  /\ UNCHANGED <<setting, cap, left, inForce>>

\* The patch over what was read.
Patched(c, g) ==
  [f \in Fields |-> IF f \in DOMAIN Patch(c)[g] THEN Patch(c)[g][f] ELSE base[c][f]]

\* The Update functions: validation, and the upsert of the whole group.
UpdateGroup(c) ==
  LET g == Head(left[c]) IN
  /\ step[c] = "loaded group"
  /\ Valid(g, Patched(c, g))
  /\ setting' = [setting EXCEPT ![g] = Patched(c, g)]
  /\ left' = [left EXCEPT ![c] = Tail(@)]
  /\ base' = [base EXCEPT ![c] = NoRow]
  /\ Read(c, "next group")
  /\ UNCHANGED <<cap, inForce>>

\* EffectiveSystemSettings answers with all groups, or fails.
AnswerPatch(c) ==
  /\ step[c] = "next group" /\ left[c] = <<>>
  /\ \A g \in Groups : Readable(g)
  /\ End(c)
  /\ UNCHANGED settingVars

\* What a refused or broken PATCH has written so far stays.
ForgetPatch(c) ==
  /\ base' = [base EXCEPT ![c] = NoRow]
  /\ left' = [left EXCEPT ![c] = <<>>]
  /\ UNCHANGED <<setting, cap, inForce>>

-----------------------------------------------------------------------------
\* The limits at work

\* EffectiveUploadConfig for an upload, acquireConcurrency for a task.
ApplyLimits(c) ==
  LET g == request[c].group IN
  /\ Kind(c) = "applyLimits" /\ step[c] = "begun"
  /\ Readable(g)
  /\ inForce' = [inForce EXCEPT ![g] = Effective(g)]
  /\ End(c)
  /\ UNCHANGED <<setting, cap, base, left>>

\* The processes are restarted with other caps.
DeployCaps(n) ==
  /\ cap # n
  /\ \A c \in Connections : step[c] = "idle"
  /\ cap' = n
  /\ inForce' = [g \in Groups |-> NoRow]
  /\ UNCHANGED <<txVars, setting, base, left>>

SettingStep(c) ==
  \/ StartPatch(c)
  \/ LoadGroup(c)
  \/ UpdateGroup(c)
  \/ AnswerPatch(c)
  \/ ApplyLimits(c)

SettingsTypeOK ==
  /\ setting \in [Groups -> [Fields -> Numbers]]
  /\ cap \in Caps
  /\ base \in [Connections -> [Fields -> Numbers]]
  /\ \A c \in Connections : \A i \in DOMAIN left[c] : left[c][i] \in Groups
  /\ inForce \in [Groups -> [Fields -> Numbers]]

=============================================================================
