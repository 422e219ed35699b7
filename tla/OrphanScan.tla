----------------------------- MODULE OrphanScan -----------------------------
(***************************************************************************)
(* The search for objects of the storage that no asset knows               *)
(* (internal/asset): an administrator walks through the buckets page by    *)
(* page, each request beginning where the last one says.  A request lists  *)
(* bucket after bucket until its page is full, and looks at the objects it *)
(* lists one by one.  Objects come and go meanwhile.                       *)
(*                                                                         *)
(* How a single object is found to be an orphan is InspectOrphan of        *)
(* AssetStorage.  A storage or a database that fails is a RollbackRequest: *)
(* the administrator repeats the page.                                     *)
(***************************************************************************)
EXTENDS Transactions, FiniteSetsExt

CONSTANTS
  StoredObjects,     \* pairs of a class, which is the number of a bucket, and of a key
  Referenced   \* those that an asset or a job knows

Class(o) == o[1]
Key(o) == o[2]
LastClass == Max({Class(o) : o \in StoredObjects})

ASSUME ScanAssumption ==
  /\ StoredObjects \subseteq Nat \X (Nat \ {0})
  /\ IsFiniteSet(StoredObjects) /\ StoredObjects # {} /\ Referenced \subseteq StoredObjects

Scans == {"scanOrphans", "cleanupOrphans"}

\* A limit that is none is taken for one that is.
ASSUME ScanRequestsAssumption == \A r \in Requests : r.kind \in Scans => r.limit \in Nat \ {0}

VARIABLES
  objects,  \* those in the storage
  recent,   \* those of them that are younger than the grace period
  cursor,   \* where the next request of the walk begins
  unseen,   \* the orphans that have been there since the walk began and were
            \* in no answer yet
  class, after, scanned,  \* where the request under way is
  page,     \* what it has listed and not looked at yet
  found     \* the orphans of its answer

scanVars == <<objects, recent, cursor, unseen, class, after, scanned, page, found>>
pageVars == <<class, after, scanned, page, found>>

FirstClass == Min({Class(o) : o \in StoredObjects})
Start == [class |-> FirstClass, key |-> 0]
NoPage == class = FirstClass /\ after = 0 /\ scanned = 0 /\ page = {} /\ found = {}

ScanInit ==
  /\ objects \in IF \E r \in workload : r.kind \in Scans THEN SUBSET StoredObjects ELSE {{}}
  /\ recent = {}
  /\ cursor = Start
  /\ unseen = {}
  /\ NoPage

Orphans == objects \ (recent \cup Referenced)
PageLimit(c) == request[c].limit

\* An object is stored, or removed by those it belongs to.
StoreObject(o) ==
  /\ o \notin objects \cup page
  /\ objects' = objects \cup {o}
  /\ recent' = recent \cup {o}
  /\ UNCHANGED <<cursor, unseen, pageVars>>

Remove(o) ==
  /\ objects' = objects \ {o}
  /\ recent' = recent \ {o}
  /\ unseen' = unseen \ {o}

RemoveObject(o) ==
  /\ o \in objects
  /\ Remove(o)
  /\ UNCHANGED <<cursor, pageVars>>

\* A walk begins without a cursor.
BeginScan(c) ==
  /\ Kind(c) \in Scans /\ step[c] = "begun"
  /\ class' = cursor.class /\ after' = cursor.key
  /\ unseen' = IF cursor = Start THEN Orphans ELSE unseen
  /\ Read(c, "class")
  /\ UNCHANGED <<objects, recent, cursor, scanned, page, found>>

\* The objects of a bucket after the last one, in the order of their keys.
Following == {o \in objects : Class(o) = class /\ Key(o) > after}
FirstOf(following, n) ==
  {o \in following : Cardinality({p \in following : Key(p) < Key(o)}) < n}

\* ListObjects says where it stopped if there is more.
ListObjects(c) ==
  LET listed == FirstOf(Following, PageLimit(c) - scanned) IN
  /\ step[c] = "class" /\ scanned < PageLimit(c)
  /\ page' = listed
  /\ after' = IF listed = Following THEN 0 ELSE Max({Key(o) : o \in listed})
  /\ Read(c, "page")
  /\ UNCHANGED <<objects, recent, cursor, unseen, class, scanned, found>>

\* removeObjectIfPresent, which may fail, is for a cleanup only.
InspectObject(c) ==
  /\ step[c] = "page" /\ page # {}
  /\ \E o \in page :
       /\ \A p \in page : Key(o) <= Key(p)
       /\ page' = page \ {o}
       /\ IF o \in recent \cup Referenced THEN UNCHANGED <<objects, recent, unseen, found>>
          ELSE /\ found' = found \cup {o}
               /\ \/ Kind(c) = "cleanupOrphans" /\ Remove(o)
                  \/ UNCHANGED <<objects, recent, unseen>>
  /\ scanned' = scanned + 1
  /\ Read(c, "page")
  /\ UNCHANGED <<cursor, class, after>>

\* The next bucket, while the page has room.
NextClass(c) ==
  /\ step[c] = "page" /\ page = {} /\ after = 0
  /\ scanned < PageLimit(c) /\ class < LastClass
  /\ class' = class + 1
  /\ Read(c, "class")
  /\ UNCHANGED <<objects, recent, cursor, unseen, after, scanned, page, found>>

\* Mutant: the page is full at the end of a bucket, and the walk is taken to be over.
NextCursorInClass ==
  IF after # 0 THEN [class |-> class, key |-> after] ELSE Start

\* setOrphanNextCursor: in this bucket, or at the start of the next one.  Start
\* stands for the answer without a cursor, after which a walk begins anew.
NextCursor ==
  CASE after # 0 -> [class |-> class, key |-> after]
    [] after = 0 /\ class < LastClass -> [class |-> class + 1, key |-> 0]
    [] OTHER -> Start

AnswerScan(c) ==
  /\ step[c] = "page" /\ page = {}
  /\ after # 0 \/ scanned >= PageLimit(c) \/ class = LastClass
  /\ End(c)
  /\ cursor' = NextCursor
  /\ unseen' = unseen \ found
  /\ class' = FirstClass /\ after' = 0 /\ scanned' = 0 /\ page' = {} /\ found' = {}
  /\ UNCHANGED <<objects, recent>>

ForgetScan(c) ==
  IF Kind(c) \in Scans
  THEN /\ class' = FirstClass /\ after' = 0 /\ scanned' = 0 /\ page' = {} /\ found' = {}
       /\ unseen' = IF cursor = Start THEN {} ELSE unseen
       /\ UNCHANGED <<objects, recent, cursor>>
  ELSE UNCHANGED scanVars

\* An administrator asks for one page after the other.
OneWalk(r) == r.kind \in Scans => \A c \in Connections : Kind(c) \notin Scans

ScanStep(c) ==
  \/ BeginScan(c)
  \/ ListObjects(c)
  \/ InspectObject(c)
  \/ NextClass(c)
  \/ AnswerScan(c)

ScanTypeOK ==
  /\ objects \subseteq StoredObjects /\ recent \subseteq objects /\ unseen \subseteq Orphans
  /\ cursor \in [class : FirstClass .. LastClass, key : {Key(o) : o \in StoredObjects} \cup {0}]
  /\ page \subseteq StoredObjects /\ found \subseteq StoredObjects
  /\ (\A c \in Connections : Kind(c) \notin Scans) => NoPage

=============================================================================
