------------------------- MODULE AssetStorageProofs -------------------------
(***************************************************************************)
(* Theorems about AssetStorage for any number of assets of any size, any   *)
(* quota, any number of purgers and of faults.                             *)
(***************************************************************************)
EXTENDS AssetStorage, FiniteSetTheorems, TLAPS

-----------------------------------------------------------------------------
(* Sums of sizes *)

Heap(S) == UNION {BytesOf(a) : a \in S}

\* An asset has as many bytes as its size says.
LEMMA BytesOfOne ==
  ASSUME NEW a \in Assets
  PROVE  /\ IsFiniteSet(BytesOf(a))
         /\ Cardinality(BytesOf(a)) = Size[a]
<1>1. Size[a] \in Nat \ {0}
  BY SizeAssumption
<1>2. IsFiniteSet(1 .. Size[a]) /\ Cardinality(1 .. Size[a]) = Size[a]
  BY <1>1, FS_Interval
<1>3. IsFiniteSet({a}) /\ Cardinality({a}) = 1
  BY FS_Singleton
<1>4. /\ IsFiniteSet({a} \X (1 .. Size[a]))
      /\ Cardinality({a} \X (1 .. Size[a])) = Cardinality({a}) * Cardinality(1 .. Size[a])
  BY <1>2, <1>3, FS_Product
<1>5. QED
  BY <1>1, <1>2, <1>3, <1>4 DEF BytesOf

\* All bytes together are finitely many.
LEMMA HeapFinite ==
  ASSUME NEW S \in SUBSET Assets
  PROVE  IsFiniteSet(Heap(S))
<1> DEFINE T == {BytesOf(a) : a \in S}
           f == [a \in S |-> BytesOf(a)]
<1>1. IsFiniteSet(S)
  BY AssetsAssumption, FS_Subset
<1>2. f \in Surjection(S, T)
  BY DEF Surjection
<1>3. IsFiniteSet(T)
  BY <1>1, <1>2, FS_Surjection
<1>4. \A B \in T : IsFiniteSet(B)
  BY BytesOfOne
<1>5. IsFiniteSet(UNION T)
  BY <1>3, <1>4, FS_UNION
<1>6. QED
  BY <1>5 DEF Heap

\* A sum of sizes is a natural number.
LEMMA BytesType ==
  ASSUME NEW S \in SUBSET Assets
  PROVE  Bytes(S) \in Nat
BY HeapFinite, FS_CardinalityType DEF Bytes, Heap

\* A further asset adds its size to the sum.
LEMMA BytesAdd ==
  ASSUME NEW S \in SUBSET Assets, NEW a \in Assets \ S
  PROVE  Bytes(S \cup {a}) = Bytes(S) + Size[a]
<1>1. Cardinality(Heap(S \cup {a})) = Cardinality(Heap(S) \cup BytesOf(a))
  <2>1. Heap(S \cup {a}) = Heap(S) \cup BytesOf(a)
    BY DEF Heap
  <2>2. QED
    BY <2>1, Zenon
<1>2. Heap(S) \cap BytesOf(a) = {}
  BY DEF Heap, BytesOf
<1>3. IsFiniteSet(Heap(S)) /\ IsFiniteSet(BytesOf(a))
  BY HeapFinite, BytesOfOne
<1>4. Cardinality(Heap(S) \cup BytesOf(a))
        = Cardinality(Heap(S)) + Cardinality(BytesOf(a)) - Cardinality(Heap(S) \cap BytesOf(a))
  BY <1>3, FS_Union
<1>5. Cardinality(Heap(S) \cap BytesOf(a)) = 0
  BY <1>2, FS_EmptySet, Zenon
<1>6. Cardinality(Heap(S)) \in Nat /\ Cardinality(BytesOf(a)) \in Nat
  BY <1>3, FS_CardinalityType
<1>7. Cardinality(Heap(S \cup {a})) = Cardinality(Heap(S)) + Cardinality(BytesOf(a))
  BY <1>1, <1>4, <1>5, <1>6
<1>8. QED
  BY <1>7, BytesOfOne DEF Bytes, Heap

\* An asset that goes takes its size out of the sum.
LEMMA BytesRemove ==
  ASSUME NEW S \in SUBSET Assets, NEW a \in S
  PROVE  /\ Bytes(S) >= Size[a]
         /\ Bytes(S \ {a}) = Bytes(S) - Size[a]
<1>1. Bytes((S \ {a}) \cup {a}) = Bytes(S)
  <2>1. (S \ {a}) \cup {a} = S
    OBVIOUS
  <2>2. QED
    BY <2>1, Zenon
<1>2. Bytes((S \ {a}) \cup {a}) = Bytes(S \ {a}) + Size[a]
  BY BytesAdd
<1>3. Bytes(S \ {a}) \in Nat /\ Size[a] \in Nat
  BY BytesType, SizeAssumption
<1>4. QED
  BY <1>1, <1>2, <1>3

\* Nothing has no bytes, and fewer assets have no more of them.
LEMMA BytesMonotone ==
  ASSUME NEW S \in SUBSET Assets, NEW R \in SUBSET S
  PROVE  Bytes(R) <= Bytes(S)
<1>1. Heap(R) \subseteq Heap(S)
  BY DEF Heap
<1>2. QED
  BY <1>1, HeapFinite, FS_Subset DEF Bytes, Heap

LEMMA BytesEmpty == Bytes({}) = 0
<1>1. UNION {BytesOf(a) : a \in {}} = {}
  OBVIOUS
<1>2. QED
  BY <1>1, FS_EmptySet DEF Bytes

-----------------------------------------------------------------------------
(* Types *)

\* Reservations and the counter keep their types.
QuotaTypeOK ==
  /\ reservation \in [Assets -> Reservations]
  /\ overdue \in SUBSET Assets
  /\ used \in Nat
  /\ reserved \in Nat

LEMMA HoldTyped ==
  ASSUME QuotaTypeOK, NEW a \in Assets, Hold(a)
  PROVE  QuotaTypeOK'
<1>1. Size[a] \in Nat
  BY SizeAssumption
<1>2. reserved' \in Nat
  BY <1>1 DEF QuotaTypeOK, Hold
<1>3. QED
  BY <1>2 DEF QuotaTypeOK, Hold, Reservations

LEMMA EndHoldTyped ==
  ASSUME QuotaTypeOK, NEW a \in Assets, NEW ending \in Reservations,
         NEW bytes \in {0, Size[a]}, EndHold(a, ending, bytes)
  PROVE  QuotaTypeOK'
<1>1. Size[a] \in Nat
  BY SizeAssumption
<1>2. reserved' \in Nat /\ used' \in Nat
  BY <1>1 DEF QuotaTypeOK, EndHold
<1>3. QED
  BY <1>2 DEF QuotaTypeOK, EndHold

LEMMA FinalizeTyped ==
  ASSUME QuotaTypeOK, NEW a \in Assets, Finalize(a)
  PROVE  QuotaTypeOK'
BY EndHoldTyped DEF Finalize, Reservations

LEMMA GiveUpHoldTyped ==
  ASSUME QuotaTypeOK, NEW a \in Assets, GiveUpHold(a)
  PROVE  QuotaTypeOK'
BY EndHoldTyped DEF QuotaTypeOK, GiveUpHold, Reservations, quotaVars

LEMMA QuotaStutters ==
  ASSUME QuotaTypeOK, UNCHANGED quotaVars
  PROVE  QuotaTypeOK'
BY DEF QuotaTypeOK, quotaVars

LEMMA FaultTyped ==
  ASSUME faults \in 0 .. MaxFaults, Fault
  PROVE  faults' \in 0 .. MaxFaults
BY FaultsAssumption DEF Fault

LEMMA UploadStepTyped ==
  ASSUME StorageTypeOK, NEW a \in Assets, UploadStep(a)
  PROVE  StorageTypeOK'
<1>0. QuotaTypeOK
  BY DEF StorageTypeOK, QuotaTypeOK
<1>s. ASSUME QuotaTypeOK', upload' \in [Assets -> Uploads], row' \in [Assets -> Rows],
             stored' \in SUBSET Objects, aged' \in SUBSET stored',
             UNCHANGED <<suspects, purgeVars, faults>>
      PROVE  StorageTypeOK'
  BY <1>s DEF StorageTypeOK, QuotaTypeOK, purgeVars
<1> USE DEF Goto, Uploads, Uploading, objectVars
<1>1. CASE Reserve(a)
  BY <1>0, <1>s, <1>1, HoldTyped, QuotaStutters DEF Reserve, StorageTypeOK
<1>2. CASE RejectImage(a)
  BY <1>0, <1>s, <1>2, QuotaStutters DEF RejectImage, StorageTypeOK
<1>3. CASE PutImage(a)
  BY <1>0, <1>s, <1>3, QuotaStutters DEF PutImage, StorageTypeOK, ImageOf, Objects
<1>4. CASE PutThumbnail(a)
  BY <1>0, <1>s, <1>4, QuotaStutters DEF PutThumbnail, StorageTypeOK, ThumbnailOf, Objects
<1>5. CASE Commit(a)
  <2>1. QuotaTypeOK'
    BY <1>0, <1>5, FinalizeTyped, QuotaStutters DEF Commit, quotaVars
  <2>2. QED
    BY <1>s, <1>5, <2>1 DEF Commit, StorageTypeOK, CreateAsset, Rows
<1>6. CASE CommitNothing(a)
  BY <1>0, <1>s, <1>6, GiveUpHoldTyped DEF CommitNothing, StorageTypeOK
<1>7. CASE Clean(a)
  BY <1>0, <1>s, <1>7, QuotaStutters DEF Clean, StorageTypeOK, AfterCleaning, Erase
<1>8. CASE Release(a)
  BY <1>0, <1>s, <1>8, GiveUpHoldTyped DEF Release, StorageTypeOK
<1>9. QED
  BY <1>1, <1>2, <1>3, <1>4, <1>5, <1>6, <1>7, <1>8 DEF UploadStep

LEMMA UploadFaultTyped ==
  ASSUME StorageTypeOK, NEW a \in Assets,
         \/ ReserveFails(a) \/ PutFails(a) \/ CommitFails(a) \/ CleanFails(a)
         \/ UploadDies(a)
  PROVE  StorageTypeOK'
<1>0. QuotaTypeOK /\ faults \in 0 .. MaxFaults
  BY DEF StorageTypeOK, QuotaTypeOK
<1>s. ASSUME QuotaTypeOK', upload' \in [Assets -> Uploads], row' \in [Assets -> Rows],
             stored' \in SUBSET Objects, aged' \in SUBSET stored',
             faults' \in 0 .. MaxFaults, UNCHANGED <<suspects, purgeVars>>
      PROVE  StorageTypeOK'
  BY <1>s DEF StorageTypeOK, QuotaTypeOK, purgeVars
<1> USE DEF Goto, Uploads, Uploading, objectVars
<1>1. CASE ReserveFails(a)
  BY <1>0, <1>s, <1>1, HoldTyped, QuotaStutters, FaultTyped DEF ReserveFails, StorageTypeOK
<1>2. CASE PutFails(a)
  <2>1. stored' \in SUBSET Objects /\ aged' \in SUBSET stored'
    BY <1>2 DEF PutFails, StorageTypeOK, ImageOf, ThumbnailOf, Objects
  <2>2. QED
    BY <1>0, <1>s, <1>2, <2>1, QuotaStutters, FaultTyped DEF PutFails, StorageTypeOK
<1>3. CASE CommitFails(a)
  <2>1. QuotaTypeOK'
    BY <1>0, <1>3, FinalizeTyped, QuotaStutters DEF CommitFails, quotaVars
  <2>2. QED
    BY <1>0, <1>s, <1>3, <2>1, FaultTyped DEF CommitFails, StorageTypeOK, CreateAsset, Rows
<1>4. CASE CleanFails(a)
  <2>1. stored' \in SUBSET Objects /\ aged' \in SUBSET stored'
    BY <1>4 DEF CleanFails, Erase, StorageTypeOK
  <2>2. QED
    BY <1>0, <1>s, <1>4, <2>1, QuotaStutters, FaultTyped
       DEF CleanFails, StorageTypeOK, AfterCleaning
<1>5. CASE UploadDies(a)
  BY <1>0, <1>s, <1>5, QuotaStutters, FaultTyped DEF UploadDies, StorageTypeOK
<1>6. QED
  BY <1>1, <1>2, <1>3, <1>4, <1>5

LEMMA PurgerTyped ==
  ASSUME StorageTypeOK, NEW p \in Purgers,
         \/ PurgeStep(p) \/ PurgerStops(p)
         \/ \E a \in Assets : PurgeObjectsFails(p, a)
  PROVE  StorageTypeOK'
<1>0. faults \in 0 .. MaxFaults
  BY DEF StorageTypeOK
<1> USE DEF StorageTypeOK, objectVars, quotaVars
<1>1. CASE ListCandidates(p)
  BY <1>1 DEF ListCandidates
<1>2. ASSUME NEW a \in Assets, PurgeObjects(p, a)
      PROVE  StorageTypeOK'
  BY <1>2 DEF PurgeObjects, Erase
<1>3. ASSUME NEW a \in Assets, MarkPurged(p, a)
      PROVE  StorageTypeOK'
  <2>1. used' \in Nat /\ row' \in [Assets -> Rows]
    BY <1>3, SizeAssumption DEF MarkPurged, Rows
  <2>2. QED
    BY <1>3, <2>1 DEF MarkPurged
<1>4. CASE PurgerStops(p)
  BY <1>0, <1>4, FaultTyped DEF PurgerStops
<1>5. ASSUME NEW a \in Assets, PurgeObjectsFails(p, a)
      PROVE  StorageTypeOK'
  <2>1. stored' \in SUBSET Objects /\ aged' \in SUBSET stored'
    BY <1>5 DEF PurgeObjectsFails, Erase
  <2>2. QED
    BY <1>0, <1>5, <2>1, FaultTyped DEF PurgeObjectsFails
<1>6. QED
  BY <1>1, <1>2, <1>3, <1>4, <1>5 DEF PurgeStep

LEMMA UpkeepTyped ==
  ASSUME StorageTypeOK,
         \/ \E a \in Assets : DeleteAsset(a)
         \/ \E o \in Objects : OrphanStep(o) \/ RemoveOrphanFails(o)
         \/ Reconcile
         \/ TimeStep
  PROVE  StorageTypeOK'
<1>0. faults \in 0 .. MaxFaults
  BY DEF StorageTypeOK
<1> USE DEF StorageTypeOK, objectVars, quotaVars, purgeVars
<1>1. ASSUME NEW a \in Assets, DeleteAsset(a) \/ RetentionPasses(a)
      PROVE  StorageTypeOK'
  BY <1>1 DEF DeleteAsset, RetentionPasses, Rows
<1>2. ASSUME NEW o \in Objects, Suspect(o) \/ RemoveOrphan(o) \/ ObjectAges(o)
      PROVE  StorageTypeOK'
  BY <1>2 DEF Suspect, RemoveOrphan, ObjectAges, Erase
<1>3. ASSUME NEW o \in Objects, RemoveOrphanFails(o)
      PROVE  StorageTypeOK'
  BY <1>0, <1>3, FaultTyped DEF RemoveOrphanFails
<1>4. CASE Reconcile
  <2>1. Bytes(Counted) \in Nat /\ Bytes(Held \ overdue) \in Nat
    BY BytesType DEF Counted, Held
  <2>2. reservation' \in [Assets -> Reservations]
    BY <1>4 DEF Reconcile, Reservations
  <2>3. QED
    BY <1>4, <2>1, <2>2 DEF Reconcile
<1>5. ASSUME NEW a \in Assets, ReservationExpires(a)
      PROVE  StorageTypeOK'
  BY <1>5 DEF ReservationExpires
<1>6. QED
  BY <1>1, <1>2, <1>3, <1>4, <1>5 DEF OrphanStep, TimeStep

LEMMA StepTyped ==
  ASSUME StorageTypeOK, [Next]_vars
  PROVE  StorageTypeOK'
<1>1. CASE UNCHANGED vars
  BY <1>1 DEF StorageTypeOK, vars, objectVars, quotaVars, purgeVars
<1>2. CASE Next
  BY <1>2, UploadStepTyped, UploadFaultTyped, PurgerTyped, UpkeepTyped DEF Next, FaultStep
<1>3. QED
  BY <1>1, <1>2

\* The counter never falls below zero, and no purger or orphan cleanup works on
\* anything but assets and objects of the tenant.
THEOREM StorageTypeCorrect == Spec => []StorageTypeOK
<1>1. Init => StorageTypeOK
  BY FaultsAssumption
     DEF Init, StorageTypeOK, Uploads, Rows, Reservations, Objects
<1>2. StorageTypeOK /\ [Next]_vars => StorageTypeOK'
  BY StepTyped
<1>3. QED
  BY <1>1, <1>2, PTL DEF Spec

-----------------------------------------------------------------------------
(* Counter and quota *)

\* An upload reserves once, and its row appears with its last transaction.
UploadsInOrder ==
  \A a \in Assets :
     /\ upload[a] = "new" => reservation[a] = "none"
     /\ upload[a] \in {"new", "reserved", "imaged", "stored"} => row[a] = "none"

CounterInv == StorageTypeOK /\ UploadsInOrder /\ CounterExact /\ QuotaRespected

\* A reservation takes its bytes from the room that is left.
LEMMA HoldCounts ==
  ASSUME CounterInv, NEW a \in Assets, reservation[a] = "none",
         HasRoom(a), Hold(a), UNCHANGED row
  PROVE  CounterExact' /\ QuotaRespected'
<1>1. Held' = Held \cup {a} /\ a \notin Held
  BY DEF Hold, Held, CounterInv, StorageTypeOK
<1>2. Counted' = Counted
  BY DEF Counted
<1>3. Bytes(Held \cup {a}) = Bytes(Held) + Size[a]
  BY <1>1, BytesAdd DEF Held
<1>4. Bytes(Held') = Bytes(Held \cup {a}) /\ Bytes(Counted') = Bytes(Counted)
  BY <1>1, <1>2, Zenon
<1>5. used' = used /\ reserved' = reserved + Size[a] /\ used + reserved + Size[a] <= Quota
  BY DEF Hold, HasRoom
<1>6. CounterExact'
  BY <1>3, <1>4, <1>5 DEF CounterInv, CounterExact, Bytes
<1>7. Size[a] \in Nat /\ used \in Nat /\ reserved \in Nat
  BY SizeAssumption DEF CounterInv, StorageTypeOK
<1>8. QuotaRespected'
  BY <1>5, <1>7, QuotaAssumption DEF QuotaRespected
<1>9. QED
  BY <1>6, <1>8

\* A reservation that ends gives its bytes back, to the room that is left or to
\* the row that is created with it.
LEMMA EndHoldCounts ==
  ASSUME CounterInv, NEW a \in Assets, NEW ending \in {"FINALIZED", "RELEASED"},
         NEW bytes \in {0, Size[a]}, EndHold(a, ending, bytes),
         \/ bytes = 0 /\ UNCHANGED row
         \/ bytes = Size[a] /\ row[a] = "none" /\ CreateAsset(a)
  PROVE  CounterExact' /\ QuotaRespected'
<1>1. Held' = Held \ {a} /\ a \in Held
  BY DEF EndHold, Held, CounterInv, StorageTypeOK
<1>2. Bytes(Held') = Bytes(Held) - Size[a]
  <2>1. Bytes(Held \ {a}) = Bytes(Held) - Size[a]
    BY <1>1, BytesRemove DEF Held
  <2>2. Bytes(Held') = Bytes(Held \ {a})
    BY <1>1, Zenon
  <2>3. QED
    BY <2>1, <2>2
<1>3. Bytes(Counted') = Bytes(Counted) + bytes
  <2>0. Bytes(Counted) \in Nat
    BY BytesType DEF Counted
  <2>1. CASE bytes = 0 /\ UNCHANGED row
    <3>1. Counted' = Counted
      BY <2>1 DEF Counted
    <3>2. Bytes(Counted') = Bytes(Counted)
      BY <3>1, Zenon
    <3>3. QED
      BY <2>0, <2>1, <3>2
  <2>2. CASE bytes = Size[a] /\ row[a] = "none" /\ CreateAsset(a)
    <3>1. Counted' = Counted \cup {a} /\ a \notin Counted
      BY <2>2 DEF Counted, CreateAsset, CounterInv, StorageTypeOK
    <3>2. Bytes(Counted \cup {a}) = Bytes(Counted) + Size[a]
      BY <3>1, BytesAdd DEF Counted
    <3>3. Bytes(Counted') = Bytes(Counted \cup {a})
      BY <3>1, Zenon
    <3>4. QED
      BY <2>2, <3>2, <3>3
  <2>3. QED
    BY <2>1, <2>2
<1>4. /\ used' = used + bytes
      /\ reserved' = reserved - Size[a]
      /\ reserved >= Size[a]
  BY DEF EndHold
<1>5. /\ used = Bytes(Counted)
      /\ reserved = Bytes(Held)
      /\ used + reserved <= Quota
      /\ used \in Nat
      /\ reserved \in Nat
  BY DEF CounterInv, CounterExact, QuotaRespected, StorageTypeOK
<1>6. used' = Bytes(Counted') /\ reserved' = Bytes(Held')
  BY <1>2, <1>3, <1>4, <1>5
<1>7. CounterExact'
  BY <1>6 DEF CounterExact
<1>8. QuotaRespected'
  BY <1>4, <1>5, SizeAssumption, QuotaAssumption DEF QuotaRespected
<1>9. QED
  BY <1>7, <1>8

LEMMA FinalizeCounts ==
  ASSUME CounterInv, NEW a \in Assets, row[a] = "none", Finalize(a), CreateAsset(a)
  PROVE  CounterExact' /\ QuotaRespected'
BY EndHoldCounts DEF Finalize

\* What neither moves a reservation nor lets a row come or go.
LEMMA NothingCounts ==
  ASSUME CounterInv, UNCHANGED <<reservation, used, reserved>>, Counted' = Counted
  PROVE  CounterExact' /\ QuotaRespected'
<1>1. Held' = Held
  BY DEF Held
<1>2. Bytes(Held') = Bytes(Held) /\ Bytes(Counted') = Bytes(Counted)
  BY <1>1, Zenon
<1>3. used = Bytes(Counted) /\ reserved = Bytes(Held)
  BY DEF CounterInv, CounterExact
<1>4. used' = Bytes(Counted') /\ reserved' = Bytes(Held')
  BY <1>2, <1>3
<1>5. QED
  BY <1>4 DEF CounterInv, CounterExact, QuotaRespected

LEMMA QuietCounts ==
  ASSUME CounterInv, UNCHANGED <<reservation, used, reserved, row>>
  PROVE  CounterExact' /\ QuotaRespected'
BY NothingCounts DEF Counted

LEMMA GiveUpHoldCounts ==
  ASSUME CounterInv, NEW a \in Assets, GiveUpHold(a), UNCHANGED row
  PROVE  CounterExact' /\ QuotaRespected'
<1>1. CASE EndHold(a, "RELEASED", 0)
  BY <1>1, EndHoldCounts
<1>2. CASE UNCHANGED quotaVars
  BY <1>2, QuietCounts DEF quotaVars
<1>3. QED
  BY <1>1, <1>2 DEF GiveUpHold

\* The first purger takes the bytes of the asset out, the second does nothing.
LEMMA MarkPurgedCounts ==
  ASSUME CounterInv, NEW p \in Purgers, NEW a \in Assets, MarkPurged(p, a)
  PROVE  CounterExact' /\ QuotaRespected'
<1>1. CASE /\ row[a] = "expired" /\ used >= Size[a]
           /\ row' = [row EXCEPT ![a] = "purged"]
           /\ used' = used - Size[a]
  <2>1. Counted' = Counted \ {a} /\ a \in Counted
    BY <1>1 DEF Counted, CounterInv, StorageTypeOK
  <2>2. Bytes(Counted \ {a}) = Bytes(Counted) - Size[a]
    BY <2>1, BytesRemove DEF Counted
  <2>3. Held' = Held
    BY DEF MarkPurged, Held
  <2>4. Bytes(Counted') = Bytes(Counted \ {a}) /\ Bytes(Held') = Bytes(Held)
    BY <2>1, <2>3, Zenon
  <2>5. reserved' = reserved /\ used = Bytes(Counted) /\ reserved = Bytes(Held)
    BY DEF MarkPurged, CounterInv, CounterExact
  <2>6. used' = Bytes(Counted') /\ reserved' = Bytes(Held')
    BY <1>1, <2>2, <2>4, <2>5
  <2>7. used \in Nat /\ reserved \in Nat /\ Size[a] \in Nat /\ used + reserved <= Quota
    BY SizeAssumption DEF CounterInv, StorageTypeOK, QuotaRespected
  <2>8. QuotaRespected'
    BY <1>1, <2>5, <2>7, QuotaAssumption DEF QuotaRespected
  <2>9. QED
    BY <2>6, <2>8 DEF CounterExact
<1>2. CASE UNCHANGED <<row, used>>
  BY <1>2, QuietCounts DEF MarkPurged
<1>3. QED
  BY <1>1, <1>2 DEF MarkPurged

\* Reconciliation finds used_bytes as they are, and takes the overdue
\* reservations out.
LEMMA ReconcileCounts ==
  ASSUME CounterInv, Reconcile
  PROVE  CounterExact' /\ QuotaRespected'
<1>1. Held' = Held \ overdue /\ Counted' = Counted
  BY DEF Reconcile, Held, Counted
<1>2. Bytes(Held') = Bytes(Held \ overdue) /\ Bytes(Counted') = Bytes(Counted)
  BY <1>1, Zenon
<1>3. used' = Bytes(Counted) /\ reserved' = Bytes(Held \ overdue)
  BY DEF Reconcile
<1>4. Bytes(Held \ overdue) <= Bytes(Held)
  BY BytesMonotone DEF Held
<1>5. used = Bytes(Counted) /\ reserved = Bytes(Held) /\ used + reserved <= Quota
  BY DEF CounterInv, CounterExact, QuotaRespected
<1>6. /\ Bytes(Held \ overdue) \in Nat
      /\ Bytes(Held) \in Nat
      /\ Bytes(Counted) \in Nat
  BY BytesType DEF Held, Counted
<1>7. QuotaRespected'
  BY <1>3, <1>4, <1>5, <1>6, QuotaAssumption DEF QuotaRespected
<1>8. used' = Bytes(Counted') /\ reserved' = Bytes(Held')
  BY <1>2, <1>3
<1>9. QED
  BY <1>7, <1>8 DEF CounterExact

LEMMA UploadStepCounts ==
  ASSUME CounterInv, NEW a \in Assets, UploadStep(a)
  PROVE  CounterExact' /\ QuotaRespected'
<1>0. CASE UNCHANGED <<quotaVars, row>>
  BY <1>0, QuietCounts DEF quotaVars
<1>1. CASE Reserve(a)
  <2>1. reservation[a] = "none"
    BY <1>1 DEF Reserve, CounterInv, UploadsInOrder
  <2>2. QED
    BY <1>0, <1>1, <2>1, HoldCounts DEF Reserve
<1>2. CASE RejectImage(a) \/ PutImage(a) \/ PutThumbnail(a) \/ Clean(a)
  BY <1>0, <1>2 DEF RejectImage, PutImage, PutThumbnail, Clean
<1>3. CASE Commit(a)
  <2>1. row[a] = "none"
    BY <1>3 DEF Commit, CounterInv, UploadsInOrder
  <2>2. QED
    BY <1>0, <1>3, <2>1, FinalizeCounts DEF Commit
<1>4. CASE CommitNothing(a) \/ Release(a)
  BY <1>4, GiveUpHoldCounts DEF CommitNothing, Release
<1>5. QED
  BY <1>1, <1>2, <1>3, <1>4 DEF UploadStep

LEMMA FaultStepCounts ==
  ASSUME CounterInv, FaultStep
  PROVE  CounterExact' /\ QuotaRespected'
<1>0. CASE UNCHANGED <<quotaVars, row>>
  BY <1>0, QuietCounts DEF quotaVars
<1>1. ASSUME NEW a \in Assets, ReserveFails(a)
      PROVE  CounterExact' /\ QuotaRespected'
  <2>1. reservation[a] = "none"
    BY <1>1 DEF ReserveFails, CounterInv, UploadsInOrder
  <2>2. QED
    BY <1>0, <1>1, <2>1, HoldCounts DEF ReserveFails
<1>2. ASSUME NEW a \in Assets, CommitFails(a)
      PROVE  CounterExact' /\ QuotaRespected'
  <2>1. row[a] = "none"
    BY <1>2 DEF CommitFails, CounterInv, UploadsInOrder
  <2>2. QED
    BY <1>0, <1>2, <2>1, FinalizeCounts DEF CommitFails
<1>3. ASSUME NEW a \in Assets, PutFails(a) \/ CleanFails(a) \/ UploadDies(a)
      PROVE  CounterExact' /\ QuotaRespected'
  BY <1>0, <1>3 DEF PutFails, CleanFails, UploadDies
<1>4. ASSUME NEW p \in Purgers, PurgerStops(p) \/ \E a \in Assets : PurgeObjectsFails(p, a)
      PROVE  CounterExact' /\ QuotaRespected'
  BY <1>0, <1>4 DEF PurgerStops, PurgeObjectsFails
<1>5. ASSUME NEW o \in Objects, RemoveOrphanFails(o)
      PROVE  CounterExact' /\ QuotaRespected'
  BY <1>0, <1>5 DEF RemoveOrphanFails
<1>6. QED
  BY <1>1, <1>2, <1>3, <1>4, <1>5 DEF FaultStep

LEMMA OtherStepCounts ==
  ASSUME CounterInv,
         \/ \E a \in Assets : DeleteAsset(a)
         \/ \E p \in Purgers : PurgeStep(p)
         \/ \E o \in Objects : OrphanStep(o)
         \/ Reconcile
         \/ TimeStep
  PROVE  CounterExact' /\ QuotaRespected'
<1>1. ASSUME NEW a \in Assets, DeleteAsset(a) \/ RetentionPasses(a)
      PROVE  CounterExact' /\ QuotaRespected'
  <2>1. Counted' = Counted
    BY <1>1 DEF DeleteAsset, RetentionPasses, Counted, CounterInv, StorageTypeOK
  <2>2. QED
    BY <1>1, <2>1, NothingCounts DEF DeleteAsset, RetentionPasses, quotaVars
<1>2. ASSUME NEW p \in Purgers, ListCandidates(p) \/ \E a \in Assets : PurgeObjects(p, a)
      PROVE  CounterExact' /\ QuotaRespected'
  BY <1>2, QuietCounts DEF ListCandidates, PurgeObjects, quotaVars
<1>3. ASSUME NEW p \in Purgers, NEW a \in Assets, MarkPurged(p, a)
      PROVE  CounterExact' /\ QuotaRespected'
  BY <1>3, MarkPurgedCounts
<1>4. ASSUME NEW o \in Objects, OrphanStep(o) \/ ObjectAges(o)
      PROVE  CounterExact' /\ QuotaRespected'
  BY <1>4, QuietCounts DEF OrphanStep, Suspect, RemoveOrphan, ObjectAges, quotaVars
<1>5. CASE Reconcile
  BY <1>5, ReconcileCounts
<1>6. ASSUME NEW a \in Assets, ReservationExpires(a)
      PROVE  CounterExact' /\ QuotaRespected'
  BY <1>6, QuietCounts DEF ReservationExpires
<1>7. QED
  BY <1>1, <1>2, <1>3, <1>4, <1>5, <1>6 DEF PurgeStep, TimeStep

\* Only the upload itself moves its pc, makes its reservation or its row; the
\* others need a row, or a reservation that is there.
LEMMA StepInOrder ==
  ASSUME StorageTypeOK, UploadsInOrder, [Next]_vars
  PROVE  UploadsInOrder'
<1> USE DEF UploadsInOrder, StorageTypeOK
<1>0. CASE UNCHANGED <<upload, reservation, row>>
  BY <1>0
<1>1. ASSUME NEW a \in Assets, UploadStep(a)
      PROVE  UploadsInOrder'
  <2> USE DEF Goto, quotaVars
  <2>1. CASE Reserve(a)
    BY <2>1 DEF Reserve, Hold
  <2>2. CASE RejectImage(a) \/ PutImage(a) \/ PutThumbnail(a) \/ Clean(a)
    BY <2>2 DEF RejectImage, PutImage, PutThumbnail, Clean, AfterCleaning
  <2>3. CASE Commit(a)
    BY <2>3 DEF Commit, CreateAsset, Finalize, EndHold
  <2>4. CASE CommitNothing(a) \/ Release(a)
    BY <2>4 DEF CommitNothing, Release, GiveUpHold, EndHold
  <2>5. QED
    BY <1>1, <2>1, <2>2, <2>3, <2>4 DEF UploadStep
<1>2. ASSUME FaultStep
      PROVE  UploadsInOrder'
  <2> USE DEF Goto, quotaVars
  <2>1. ASSUME NEW a \in Assets, ReserveFails(a)
        PROVE  UploadsInOrder'
    BY <2>1 DEF ReserveFails, Hold
  <2>2. ASSUME NEW a \in Assets, PutFails(a) \/ CleanFails(a) \/ UploadDies(a)
        PROVE  UploadsInOrder'
    BY <2>2 DEF PutFails, CleanFails, UploadDies, AfterCleaning, Uploading
  <2>3. ASSUME NEW a \in Assets, CommitFails(a)
        PROVE  UploadsInOrder'
    BY <2>3 DEF CommitFails, CreateAsset, Finalize, EndHold
  <2>4. ASSUME NEW p \in Purgers, PurgerStops(p) \/ \E a \in Assets : PurgeObjectsFails(p, a)
        PROVE  UploadsInOrder'
    BY <1>0, <2>4 DEF PurgerStops, PurgeObjectsFails
  <2>5. ASSUME NEW o \in Objects, RemoveOrphanFails(o)
        PROVE  UploadsInOrder'
    BY <1>0, <2>5 DEF RemoveOrphanFails
  <2>6. QED
    BY <1>2, <2>1, <2>2, <2>3, <2>4, <2>5 DEF FaultStep
<1>3. ASSUME NEW a \in Assets, DeleteAsset(a) \/ RetentionPasses(a)
      PROVE  UploadsInOrder'
  BY <1>3 DEF DeleteAsset, RetentionPasses, quotaVars
<1>4. ASSUME NEW p \in Purgers, PurgeStep(p)
      PROVE  UploadsInOrder'
  <2>1. CASE ListCandidates(p) \/ \E a \in Assets : PurgeObjects(p, a)
    BY <1>0, <2>1 DEF ListCandidates, PurgeObjects, quotaVars
  <2>2. ASSUME NEW a \in Assets, MarkPurged(p, a)
        PROVE  UploadsInOrder'
    BY <2>2 DEF MarkPurged
  <2>3. QED
    BY <1>4, <2>1, <2>2 DEF PurgeStep
<1>5. ASSUME NEW o \in Objects, OrphanStep(o) \/ ObjectAges(o)
      PROVE  UploadsInOrder'
  BY <1>0, <1>5 DEF OrphanStep, Suspect, RemoveOrphan, ObjectAges, quotaVars
<1>6. CASE Reconcile
  BY <1>6 DEF Reconcile
<1>7. ASSUME NEW a \in Assets, ReservationExpires(a)
      PROVE  UploadsInOrder'
  BY <1>0, <1>7 DEF ReservationExpires
<1>8. CASE UNCHANGED vars
  BY <1>0, <1>8 DEF vars, quotaVars
<1>9. QED
  BY <1>1, <1>2, <1>3, <1>4, <1>5, <1>6, <1>7, <1>8 DEF Next, TimeStep

LEMMA StepCounts ==
  ASSUME CounterInv, [Next]_vars
  PROVE  CounterInv'
<1>1. StorageTypeOK' /\ UploadsInOrder'
  BY StepTyped, StepInOrder DEF CounterInv
<1>2. CounterExact' /\ QuotaRespected'
  <2>1. CASE UNCHANGED vars
    BY <2>1, QuietCounts DEF vars, quotaVars
  <2>2. CASE Next
    BY <2>2, UploadStepCounts, FaultStepCounts, OtherStepCounts DEF Next
  <2>3. QED
    BY <2>1, <2>2
<1>3. QED
  BY <1>1, <1>2 DEF CounterInv

\* The counter agrees with the rows and the reservations, and uploads cannot
\* pass the quota together, for assets of any size.
THEOREM QuotaIsKept == Spec => [](CounterExact /\ QuotaRespected)
<1>1. Init => CounterInv
  <2> SUFFICES ASSUME Init PROVE CounterInv
    OBVIOUS
  <2>1. StorageTypeOK
    BY FaultsAssumption
       DEF Init, StorageTypeOK, Uploads, Rows, Reservations, Objects
  <2>2. UploadsInOrder
    BY DEF Init, UploadsInOrder
  <2>3. Counted = {} /\ Held = {}
    BY DEF Init, Counted, Held
  <2>4. Bytes(Counted) = 0 /\ Bytes(Held) = 0
    BY <2>3, BytesEmpty, Zenon
  <2>5. QED
    BY <2>1, <2>2, <2>4, QuotaAssumption DEF Init, CounterInv, CounterExact, QuotaRespected
<1>2. CounterInv /\ [Next]_vars => CounterInv'
  BY StepCounts
<1>3. CounterInv => CounterExact /\ QuotaRespected
  BY DEF CounterInv
<1>4. QED
  BY <1>1, <1>2, <1>3, PTL DEF Spec

\* Uploads that pass the check of the quota together are still within it when
\* they are counted: rows and reservations never come to more.
COROLLARY QuotaIsNeverPassed == Spec => []QuotaRespected
BY QuotaIsKept, PTL

-----------------------------------------------------------------------------
(* Objects *)

Over == {"accepted", "failed"}

\* What an upload has stored stays until its row, if it gets one, is deleted.
UploadsStored ==
  \A a \in Assets :
     /\ upload[a] = "new" => ObjectsOf(a) \cap stored = {}
     /\ upload[a] = "imaged" => ImageOf(a) \in stored
     /\ upload[a] = "stored" => ObjectsOf(a) \subseteq stored

\* The orphan cleanup is after objects whose upload is over and whose row is
\* not live, and so it will stay.
SuspectsOver ==
  /\ \A o \in aged : upload[o[1]] \in Over
  /\ \A o \in suspects : row[o[1]] # "live" /\ upload[o[1]] \in Over

\* A purger works on assets that are past their retention for good.
PurgersLate ==
  \A p \in Purgers :
     /\ \A a \in listed[p] : row[a] \in {"expired", "purged"}
     /\ \A a \in emptied[p] :
           row[a] \in {"expired", "purged"} /\ ObjectsOf(a) \cap stored = {}

ObjectFacts ==
  /\ UploadsStored
  /\ SuspectsOver
  /\ PurgersLate
  /\ AcceptedHasObjects
  /\ PurgedIsGone

ObjectInv == StorageTypeOK /\ UploadsInOrder /\ ObjectFacts

LEMMA UploadStepKeepsObjects ==
  ASSUME ObjectInv, NEW a \in Assets, UploadStep(a)
  PROVE  ObjectFacts'
<1> USE DEF ObjectInv, ObjectFacts, StorageTypeOK, UploadsInOrder, UploadsStored, SuspectsOver,
            PurgersLate, AcceptedHasObjects, PurgedIsGone, Over, Uploading, Goto,
            ObjectsOf, ImageOf, ThumbnailOf, Objects, objectVars, purgeVars
<1>1. CASE Reserve(a)
  BY <1>1 DEF Reserve
<1>2. CASE RejectImage(a)
  BY <1>2 DEF RejectImage
<1>3. CASE PutImage(a)
  BY <1>3 DEF PutImage
<1>4. CASE PutThumbnail(a)
  BY <1>4 DEF PutThumbnail
<1>5. CASE Commit(a)
  BY <1>5 DEF Commit, CreateAsset
<1>6. CASE CommitNothing(a)
  BY <1>6 DEF CommitNothing
<1>7. CASE Clean(a)
  BY <1>7 DEF Clean, Erase, AfterCleaning
<1>8. CASE Release(a)
  BY <1>8 DEF Release
<1>9. QED
  BY <1>1, <1>2, <1>3, <1>4, <1>5, <1>6, <1>7, <1>8 DEF UploadStep

LEMMA FaultStepKeepsObjects ==
  ASSUME ObjectInv, FaultStep
  PROVE  ObjectFacts'
<1> USE DEF ObjectInv, ObjectFacts, StorageTypeOK, UploadsInOrder, UploadsStored, SuspectsOver,
            PurgersLate, AcceptedHasObjects, PurgedIsGone, Over, Uploading, Goto,
            ObjectsOf, ImageOf, ThumbnailOf, Objects, objectVars, purgeVars
<1>1. ASSUME NEW a \in Assets, ReserveFails(a) \/ UploadDies(a)
      PROVE  ObjectFacts'
  BY <1>1 DEF ReserveFails, UploadDies
<1>2. ASSUME NEW a \in Assets, PutFails(a)
      PROVE  ObjectFacts'
  BY <1>2 DEF PutFails
<1>3. ASSUME NEW a \in Assets, CommitFails(a)
      PROVE  ObjectFacts'
  BY <1>3 DEF CommitFails, CreateAsset
<1>4. ASSUME NEW a \in Assets, CleanFails(a)
      PROVE  ObjectFacts'
  BY <1>4 DEF CleanFails, Erase, AfterCleaning
<1>5. ASSUME NEW p \in Purgers, PurgerStops(p)
      PROVE  ObjectFacts'
  BY <1>5 DEF PurgerStops
<1>6. ASSUME NEW p \in Purgers, NEW a \in Assets, PurgeObjectsFails(p, a)
      PROVE  ObjectFacts'
  BY <1>6 DEF PurgeObjectsFails, Erase
<1>7. ASSUME NEW o \in Objects, RemoveOrphanFails(o)
      PROVE  ObjectFacts'
  BY <1>7 DEF RemoveOrphanFails
<1>8. QED
  BY <1>1, <1>2, <1>3, <1>4, <1>5, <1>6, <1>7 DEF FaultStep

LEMMA OtherStepKeepsObjects ==
  ASSUME ObjectInv,
         \/ \E a \in Assets : DeleteAsset(a)
         \/ \E p \in Purgers : PurgeStep(p)
         \/ \E o \in Objects : OrphanStep(o)
         \/ Reconcile
         \/ TimeStep
  PROVE  ObjectFacts'
<1> USE DEF ObjectInv, ObjectFacts, StorageTypeOK, UploadsInOrder, UploadsStored, SuspectsOver,
            PurgersLate, AcceptedHasObjects, PurgedIsGone, Over, Uploading, Uploads,
            ObjectsOf, ImageOf, ThumbnailOf, Objects, objectVars, purgeVars
<1>1. ASSUME NEW a \in Assets, DeleteAsset(a) \/ RetentionPasses(a)
      PROVE  ObjectFacts'
  BY <1>1 DEF DeleteAsset, RetentionPasses
<1>2. ASSUME NEW p \in Purgers, ListCandidates(p)
      PROVE  ObjectFacts'
  BY <1>2 DEF ListCandidates
<1>3. ASSUME NEW p \in Purgers, NEW a \in Assets, PurgeObjects(p, a)
      PROVE  ObjectFacts'
  BY <1>3 DEF PurgeObjects, Erase
<1>4. ASSUME NEW p \in Purgers, NEW a \in Assets, MarkPurged(p, a)
      PROVE  ObjectFacts'
  BY <1>4 DEF MarkPurged
<1>5. ASSUME NEW o \in Objects, Suspect(o)
      PROVE  ObjectFacts'
  BY <1>5 DEF Suspect
<1>6. ASSUME NEW o \in Objects, RemoveOrphan(o)
      PROVE  ObjectFacts'
  BY <1>6 DEF RemoveOrphan, Erase
<1>7. ASSUME NEW o \in Objects, ObjectAges(o)
      PROVE  ObjectFacts'
  <2>1. o[1] \in Assets /\ o \in ObjectsOf(o[1])
    OBVIOUS
  <2>2. upload[o[1]] # "new"
    BY <1>7, <2>1 DEF ObjectAges
  <2>3. upload[o[1]] \in Over
    BY <1>7, <2>1, <2>2 DEF ObjectAges
  <2>4. \A x \in aged' : upload'[x[1]] \in Over
    BY <1>7, <2>3 DEF ObjectAges
  <2>5. QED
    BY <1>7, <2>4 DEF ObjectAges
<1>8. CASE Reconcile \/ \E a \in Assets : ReservationExpires(a)
  BY <1>8 DEF Reconcile, ReservationExpires
<1>9. QED
  BY <1>1, <1>2, <1>3, <1>4, <1>5, <1>6, <1>7, <1>8 DEF PurgeStep, OrphanStep, TimeStep

LEMMA StepKeepsObjects ==
  ASSUME ObjectInv, [Next]_vars
  PROVE  ObjectInv'
<1>1. StorageTypeOK' /\ UploadsInOrder'
  BY StepTyped, StepInOrder DEF ObjectInv
<1>2. ObjectFacts'
  <2>1. CASE UNCHANGED vars
    BY <2>1 DEF ObjectInv, ObjectFacts, UploadsStored, SuspectsOver, PurgersLate,
                AcceptedHasObjects, PurgedIsGone, vars, objectVars, purgeVars
  <2>2. CASE Next
    BY <2>2, UploadStepKeepsObjects, FaultStepKeepsObjects, OtherStepKeepsObjects DEF Next
  <2>3. QED
    BY <2>1, <2>2
<1>3. QED
  BY <1>1, <1>2 DEF ObjectInv

\* An accepted asset has its objects until it is deleted, and a purged one has
\* none left, for any number of purgers, orphan cleanups and faults.
THEOREM ObjectsAreKept == Spec => [](AcceptedHasObjects /\ PurgedIsGone)
<1>1. Init => ObjectInv
  <2> SUFFICES ASSUME Init PROVE ObjectInv
    OBVIOUS
  <2>1. StorageTypeOK
    BY FaultsAssumption
       DEF Init, StorageTypeOK, Uploads, Rows, Reservations, Objects
  <2>2. UploadsInOrder
    BY DEF Init, UploadsInOrder
  <2>3. ObjectFacts
    BY DEF Init, ObjectFacts, UploadsStored, SuspectsOver, PurgersLate,
           AcceptedHasObjects, PurgedIsGone
  <2>4. QED
    BY <2>1, <2>2, <2>3 DEF ObjectInv
<1>2. ObjectInv /\ [Next]_vars => ObjectInv'
  BY StepKeepsObjects
<1>3. ObjectInv => AcceptedHasObjects /\ PurgedIsGone
  BY DEF ObjectInv, ObjectFacts
<1>4. QED
  BY <1>1, <1>2, <1>3, PTL DEF Spec

\* A row says purged only when no object of its asset is left, although purgers
\* and orphan cleanups fail half way and overtake each other.
COROLLARY PurgedAreGone == Spec => []PurgedIsGone
BY ObjectsAreKept, PTL

=============================================================================
