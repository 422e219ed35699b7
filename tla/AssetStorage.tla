---------------------------- MODULE AssetStorage ----------------------------
(***************************************************************************)
(* The images of one tenant: the objects in MinIO, the rows of             *)
(* image_assets, and the quota counter with its reservations.  Uploads     *)
(* (src/backend/internal/asset/service.go and, for the outputs of a task,  *)
(* task/runtime_persistence.go), the purge of deleted assets               *)
(* (asset/cleanup.go), the orphan cleanup of the administrators            *)
(* (asset/orphan_cleanup.go) and the reconciliation of the counter         *)
(* (settings/quota.go) run side by side.                                   *)
(*                                                                         *)
(* A step is one MySQL transaction, one check of a row, or one call to     *)
(* MinIO.  The transactions that touch the counter lock its row first, or  *)
(* insert an asset and then lock it, so they are atomic here.  An asset    *)
(* has one upload, which stores its image and then its thumbnail.  Only    *)
(* the image counts against the quota.                                     *)
(***************************************************************************)
EXTENDS Naturals, FiniteSets

CONSTANTS Assets,     \* assets of the tenant, each with the upload that makes it
          Size,       \* size_bytes of an asset
          Quota,      \* storageQuota.maxBytes of the tenant
          Purgers,    \* runs of PurgeDeletedAssets
          MaxFaults   \* bound on crashes and on errors of MySQL and MinIO

ASSUME AssetsAssumption == IsFiniteSet(Assets)
ASSUME SizeAssumption == Size \in [Assets -> Nat \ {0}]
ASSUME QuotaAssumption == Quota \in Nat
ASSUME FaultsAssumption == MaxFaults \in Nat

VARIABLES
  upload,        \* where the upload of an asset is, or how it was answered
  row,           \* the row of image_assets; "expired": deleted before the cutoff
  stored,        \* objects in MinIO
  aged,          \* objects older than the grace period of the orphan cleanup
  suspects,      \* objects the orphan cleanup has found without a row
  reservation,   \* status of the reservation of an upload
  overdue,       \* reservations past expires_at
  used,          \* storage_quota_counters.used_bytes
  reserved,      \* storage_quota_counters.reserved_bytes
  listed,        \* purge candidates a purger has yet to take up
  emptied,       \* candidates whose objects it has removed
  faults         \* faults so far

quotaVars == <<reservation, overdue, used, reserved>>
objectVars == <<stored, aged, suspects>>
purgeVars == <<listed, emptied>>
vars == <<upload, row, objectVars, quotaVars, purgeVars, faults>>

ImageOf(a) == <<a, "image">>
ThumbnailOf(a) == <<a, "thumbnail">>
ObjectsOf(a) == {ImageOf(a), ThumbnailOf(a)}
Objects == Assets \X {"image", "thumbnail"}

Uploading == {"reserved", "imaged", "stored", "dropped", "cleaning", "releasing"}

Uploads == {"new", "accepted", "failed"} \cup Uploading

Rows == {"none", "live", "deleted", "expired", "purged"}

Reservations == {"none", "RESERVED", "FINALIZED", "RELEASED"}

BytesOf(a) == {a} \X (1 .. Size[a])

\* SUM(size_bytes): the number of bytes of a set of assets.
Bytes(S) == Cardinality(UNION {BytesOf(a) : a \in S})

\* metadataStorageUsedBytes: a deleted row counts until it is purged.
Counted == {a \in Assets : row[a] \in {"live", "deleted", "expired"}}

Held == {a \in Assets : reservation[a] = "RESERVED"}

StorageTypeOK ==
  /\ upload \in [Assets -> Uploads]
  /\ row \in [Assets -> Rows]
  /\ stored \in SUBSET Objects
  /\ aged \in SUBSET stored
  /\ suspects \in SUBSET Objects
  /\ reservation \in [Assets -> Reservations]
  /\ overdue \in SUBSET Assets
  /\ used \in Nat
  /\ reserved \in Nat
  /\ listed \in [Purgers -> SUBSET Assets]
  /\ emptied \in [Purgers -> SUBSET Assets]
  /\ faults \in 0 .. MaxFaults

Init ==
  /\ upload = [a \in Assets |-> "new"]
  /\ row = [a \in Assets |-> "none"]
  /\ stored = {}
  /\ aged = {}
  /\ suspects = {}
  /\ reservation = [a \in Assets |-> "none"]
  /\ overdue = {}
  /\ used = 0
  /\ reserved = 0
  /\ listed = [p \in Purgers |-> {}]
  /\ emptied = [p \in Purgers |-> {}]
  /\ faults = 0

Fault ==
  /\ faults < MaxFaults
  /\ faults' = faults + 1

-----------------------------------------------------------------------------
(* Quota counter and reservations *)

HasRoom(a) == used + reserved + Size[a] <= Quota

Hold(a) ==
  /\ reservation' = [reservation EXCEPT ![a] = "RESERVED"]
  /\ reserved' = reserved + Size[a]
  /\ UNCHANGED <<overdue, used>>

\* The end of a reservation: its bytes leave reserved_bytes, the finalized
\* ones join used_bytes.
EndHold(a, ending, finalizedBytes) ==
  /\ reservation[a] = "RESERVED"
  /\ reserved >= Size[a]
  /\ reservation' = [reservation EXCEPT ![a] = ending]
  /\ reserved' = reserved - Size[a]
  /\ used' = used + finalizedBytes
  /\ UNCHANGED overdue

\* Mutant: finalizing gives a released reservation a second life.
FinalizeReleased(a) ==
  \/ EndHold(a, "FINALIZED", Size[a])
  \/ /\ reservation[a] = "RELEASED"
     /\ reservation' = [reservation EXCEPT ![a] = "FINALIZED"]
     /\ used' = used + Size[a]
     /\ UNCHANGED <<overdue, reserved>>

\* Only a reservation that is still held can be finalized.
Finalize(a) == EndHold(a, "FINALIZED", Size[a])

\* Giving up a reservation that is not held any more changes nothing.
GiveUpHold(a) ==
  \/ EndHold(a, "RELEASED", 0)
  \/ /\ reservation[a] # "RESERVED"
     /\ UNCHANGED quotaVars

-----------------------------------------------------------------------------
(* Uploads *)

Goto(a, place) == upload' = [upload EXCEPT ![a] = place]

Reserve(a) ==
  /\ upload[a] = "new"
  /\ \/ HasRoom(a) /\ Hold(a) /\ Goto(a, "reserved")
     \/ ~HasRoom(a) /\ Goto(a, "failed") /\ UNCHANGED quotaVars
  /\ UNCHANGED <<row, objectVars, purgeVars, faults>>

\* The transaction reports an error; it may have committed all the same.
ReserveFails(a) ==
  /\ upload[a] = "new"
  /\ \/ HasRoom(a) /\ Hold(a)
     \/ UNCHANGED quotaVars
  /\ Goto(a, "failed")
  /\ Fault
  /\ UNCHANGED <<row, objectVars, purgeVars>>

\* A thumbnail cannot be made of the image.
RejectImage(a) ==
  /\ upload[a] = "reserved"
  /\ Goto(a, "releasing")
  /\ UNCHANGED <<row, objectVars, quotaVars, purgeVars, faults>>

PutImage(a) ==
  /\ upload[a] = "reserved"
  /\ stored' = stored \cup {ImageOf(a)}
  /\ Goto(a, "imaged")
  /\ UNCHANGED <<row, aged, suspects, quotaVars, purgeVars, faults>>

PutThumbnail(a) ==
  /\ upload[a] = "imaged"
  /\ stored' = stored \cup {ThumbnailOf(a)}
  /\ Goto(a, "stored")
  /\ UNCHANGED <<row, aged, suspects, quotaVars, purgeVars, faults>>

\* MinIO reports an error; it may hold the object all the same.  After the
\* first object nothing is cleaned up, after the second both are.
PutFails(a) ==
  /\ \/ /\ upload[a] = "reserved"
        /\ stored' \in {stored, stored \cup {ImageOf(a)}}
        /\ Goto(a, "releasing")
     \/ /\ upload[a] = "imaged"
        /\ stored' \in {stored, stored \cup {ThumbnailOf(a)}}
        /\ Goto(a, "cleaning")
  /\ Fault
  /\ UNCHANGED <<row, aged, suspects, quotaVars, purgeVars>>

CreateAsset(a) == row' = [row EXCEPT ![a] = "live"]

\* The row and the finalized reservation in one transaction, or neither.
Commit(a) ==
  /\ upload[a] = "stored"
  /\ \/ CreateAsset(a) /\ Finalize(a) /\ Goto(a, "accepted")
     \/ reservation[a] # "RESERVED" /\ Goto(a, "cleaning") /\ UNCHANGED <<row, quotaVars>>
  /\ UNCHANGED <<objectVars, purgeVars, faults>>

\* A task that is no longer RUNNING: its reservation is finalized with zero
\* bytes, and no row is made.
CommitNothing(a) ==
  /\ upload[a] = "stored"
  /\ GiveUpHold(a)
  /\ Goto(a, "dropped")
  /\ UNCHANGED <<row, objectVars, purgeVars, faults>>

\* The transaction reports an error; it may have committed all the same.
CommitFails(a) ==
  /\ upload[a] = "stored"
  /\ \/ CreateAsset(a) /\ Finalize(a)
     \/ UNCHANGED <<row, quotaVars>>
  /\ Goto(a, "cleaning")
  /\ Fault
  /\ UNCHANGED <<objectVars, purgeVars>>

AfterCleaning(a) == IF upload[a] = "dropped" THEN "failed" ELSE "releasing"

Erase(S) ==
  /\ stored' = stored \ S
  /\ aged' = aged \ S

Clean(a) ==
  /\ upload[a] \in {"cleaning", "dropped"}
  /\ Erase(ObjectsOf(a))
  /\ Goto(a, AfterCleaning(a))
  /\ UNCHANGED <<row, suspects, quotaVars, purgeVars, faults>>

\* Errors of the removal are logged; one may succeed and the other not.
CleanFails(a) ==
  /\ upload[a] \in {"cleaning", "dropped"}
  /\ \E S \in SUBSET ObjectsOf(a) : Erase(S)
  /\ Goto(a, AfterCleaning(a))
  /\ Fault
  /\ UNCHANGED <<row, suspects, quotaVars, purgeVars>>

\* The deferred release.
Release(a) ==
  /\ upload[a] = "releasing"
  /\ GiveUpHold(a)
  /\ Goto(a, "failed")
  /\ UNCHANGED <<row, objectVars, purgeVars, faults>>

\* The process dies, or the release fails: the upload ends where it is.
UploadDies(a) ==
  /\ upload[a] \in Uploading
  /\ Goto(a, "failed")
  /\ Fault
  /\ UNCHANGED <<row, objectVars, quotaVars, purgeVars>>

-----------------------------------------------------------------------------
(* Deletion and purge *)

DeleteAsset(a) ==
  /\ row[a] = "live"
  /\ row' = [row EXCEPT ![a] = "deleted"]
  /\ UNCHANGED <<upload, objectVars, quotaVars, purgeVars, faults>>

\* deleted_at falls behind the cutoff of the retention.
RetentionPasses(a) ==
  /\ row[a] = "deleted"
  /\ row' = [row EXCEPT ![a] = "expired"]
  /\ UNCHANGED <<upload, objectVars, quotaVars, purgeVars, faults>>

\* ListPurgeCandidates, once the batch before has been worked off.
ListCandidates(p) ==
  /\ listed[p] = {}
  /\ emptied[p] = {}
  /\ listed' = [listed EXCEPT ![p] = {a \in Assets : row[a] = "expired"}]
  /\ UNCHANGED <<upload, row, objectVars, quotaVars, emptied, faults>>

\* Mutant: an object that is missing already counts as an error.
PurgeObjectsStrict(p, a) ==
  /\ a \in listed[p]
  /\ listed' = [listed EXCEPT ![p] = @ \ {a}]
  /\ \/ /\ ObjectsOf(a) \subseteq stored
        /\ Erase(ObjectsOf(a))
        /\ emptied' = [emptied EXCEPT ![p] = @ \cup {a}]
     \/ /\ ~ (ObjectsOf(a) \subseteq stored)
        /\ UNCHANGED <<stored, aged, emptied>>
  /\ UNCHANGED <<upload, row, suspects, quotaVars, faults>>

\* An object that is missing already counts as removed.
PurgeObjects(p, a) ==
  /\ a \in listed[p]
  /\ Erase(ObjectsOf(a))
  /\ listed' = [listed EXCEPT ![p] = @ \ {a}]
  /\ emptied' = [emptied EXCEPT ![p] = @ \cup {a}]
  /\ UNCHANGED <<upload, row, suspects, quotaVars, faults>>

\* An error skips the candidate; its image may be gone by then.
PurgeObjectsFails(p, a) ==
  /\ a \in listed[p]
  /\ \E S \in SUBSET {ImageOf(a)} : Erase(S)
  /\ listed' = [listed EXCEPT ![p] = @ \ {a}]
  /\ Fault
  /\ UNCHANGED <<upload, row, suspects, quotaVars, emptied>>

\* Mutant: the row is marked before the objects are removed.
MarkPurgedFirst(p, a) ==
  /\ a \in emptied[p] \cup listed[p]
  /\ row[a] = "expired" /\ used >= Size[a]
  /\ row' = [row EXCEPT ![a] = "purged"]
  /\ used' = used - Size[a]
  /\ emptied' = [emptied EXCEPT ![p] = @ \ {a}]
  /\ UNCHANGED <<upload, objectVars, reservation, overdue, reserved, listed, faults>>

\* MarkAssetPurged and the counter in one transaction, or neither, when
\* another purger was first.
MarkPurged(p, a) ==
  /\ a \in emptied[p]
  /\ \/ /\ row[a] = "expired" /\ used >= Size[a]
        /\ row' = [row EXCEPT ![a] = "purged"]
        /\ used' = used - Size[a]
     \/ /\ row[a] = "purged" \/ used < Size[a]
        /\ UNCHANGED <<row, used>>
  /\ emptied' = [emptied EXCEPT ![p] = @ \ {a}]
  /\ UNCHANGED <<upload, objectVars, reservation, overdue, reserved, listed, faults>>

\* The process dies, or the transaction fails.
PurgerStops(p) ==
  /\ listed[p] \cup emptied[p] # {}
  /\ listed' = [listed EXCEPT ![p] = {}]
  /\ emptied' = [emptied EXCEPT ![p] = {}]
  /\ Fault
  /\ UNCHANGED <<upload, row, objectVars, quotaVars>>

-----------------------------------------------------------------------------
(* Orphan cleanup *)

\* The grace period has passed.  It is an hour at least, and an upload is
\* over by then.
ObjectAges(o) ==
  /\ o \in stored
  /\ upload[o[1]] \notin Uploading
  /\ aged' = aged \cup {o}
  /\ UNCHANGED <<upload, row, stored, suspects, quotaVars, purgeVars, faults>>

\* Mutant: the grace period is not looked at.
SuspectFresh(o) ==
  /\ o \in stored
  /\ row[o[1]] # "live"
  /\ suspects' = suspects \cup {o}
  /\ UNCHANGED <<upload, row, stored, aged, quotaVars, purgeVars, faults>>

\* ObjectKeyReferenced asks for rows that are not deleted.
Suspect(o) ==
  /\ o \in aged
  /\ row[o[1]] # "live"
  /\ suspects' = suspects \cup {o}
  /\ UNCHANGED <<upload, row, stored, aged, quotaVars, purgeVars, faults>>

RemoveOrphan(o) ==
  /\ o \in suspects
  /\ Erase({o})
  /\ suspects' = suspects \ {o}
  /\ UNCHANGED <<upload, row, quotaVars, purgeVars, faults>>

RemoveOrphanFails(o) ==
  /\ o \in suspects
  /\ suspects' = suspects \ {o}
  /\ Fault
  /\ UNCHANGED <<upload, row, stored, aged, quotaVars, purgeVars>>

-----------------------------------------------------------------------------
(* Reconciliation *)

ReservationExpires(a) ==
  /\ reservation[a] = "RESERVED"
  /\ overdue' = overdue \cup {a}
  /\ UNCHANGED <<upload, row, objectVars, reservation, used, reserved, purgeVars, faults>>

\* Mutant: the counter is recomputed, the overdue reservations stay.
ReconcileCounterOnly ==
  /\ used' = Bytes(Counted)
  /\ reserved' = Bytes(Held \ overdue)
  /\ UNCHANGED <<upload, row, objectVars, reservation, overdue, purgeVars, faults>>

\* Overdue reservations are released and both counts are recomputed.
Reconcile ==
  /\ reservation' = [a \in Assets |->
        IF reservation[a] = "RESERVED" /\ a \in overdue THEN "RELEASED" ELSE reservation[a]]
  /\ used' = Bytes(Counted)
  /\ reserved' = Bytes(Held \ overdue)
  /\ UNCHANGED <<upload, row, objectVars, overdue, purgeVars, faults>>

-----------------------------------------------------------------------------
UploadStep(a) ==
  \/ Reserve(a) \/ RejectImage(a) \/ PutImage(a) \/ PutThumbnail(a)
  \/ Commit(a) \/ CommitNothing(a) \/ Clean(a) \/ Release(a)

PurgeStep(p) ==
  \/ ListCandidates(p)
  \/ \E a \in Assets : PurgeObjects(p, a) \/ MarkPurged(p, a)

OrphanStep(o) == Suspect(o) \/ RemoveOrphan(o)

TimeStep ==
  \/ \E a \in Assets : RetentionPasses(a) \/ ReservationExpires(a)
  \/ \E o \in Objects : ObjectAges(o)

FaultStep ==
  \/ \E a \in Assets :
        \/ ReserveFails(a) \/ PutFails(a) \/ CommitFails(a) \/ CleanFails(a)
        \/ UploadDies(a)
  \/ \E p \in Purgers : PurgerStops(p) \/ \E a \in Assets : PurgeObjectsFails(p, a)
  \/ \E o \in Objects : RemoveOrphanFails(o)

Next ==
  \/ \E a \in Assets : UploadStep(a) \/ DeleteAsset(a)
  \/ \E p \in Purgers : PurgeStep(p)
  \/ \E o \in Objects : OrphanStep(o)
  \/ Reconcile
  \/ TimeStep
  \/ FaultStep

Spec == Init /\ [][Next]_vars

\* The maintenance loop of the worker purges and reconciles round after
\* round, and time passes; uploads, users and administrators owe nothing.
Fairness ==
  /\ \A p \in Purgers : WF_vars(PurgeStep(p))
  /\ \A a \in Assets : WF_vars(RetentionPasses(a)) /\ WF_vars(ReservationExpires(a))
  /\ WF_vars(Reconcile)

FairSpec == Spec /\ Fairness

-----------------------------------------------------------------------------
\* Uploads, purges and reconciliation never lose or double a byte: the counter
\* agrees with the rows and the reservations after every transaction, though
\* a reservation may be released under an upload and two purgers may work on
\* the same asset.
CounterExact ==
  /\ used = Bytes(Counted)
  /\ reserved = Bytes(Held)

\* Concurrent uploads cannot pass the quota together, and a reservation that
\* was released meanwhile does not let its upload in.
QuotaRespected == used + reserved <= Quota

\* An asset whose upload was accepted has its image and its thumbnail until
\* it is deleted, whatever purgers and orphan cleanup do around it.
AcceptedHasObjects ==
  \A a \in Assets :
     row[a] = "live" /\ upload[a] = "accepted" => ObjectsOf(a) \subseteq stored

\* A row says purged only when its objects are gone, also when purgers fail
\* half way and overtake each other.
PurgedIsGone ==
  \A a \in Assets : row[a] = "purged" => ObjectsOf(a) \cap stored = {}

\* No reservation is held for ever, though uploads die with it in hand.
ReservationsEnd ==
  \A a \in Assets : reservation[a] = "RESERVED" ~> reservation[a] # "RESERVED"

\* Every deleted asset is purged in the end, though purgers fail half way.
DeletedIsPurged ==
  \A a \in Assets : row[a] = "deleted" ~> row[a] = "purged"

\* docs/database-schema.md counts deleted assets until they are purged,
\* because their objects still exist: no cleanup takes them before.
DeletedHasObjects ==
  \A a \in Assets :
     row[a] = "deleted" /\ upload[a] = "accepted" => ObjectsOf(a) \subseteq stored

=============================================================================
