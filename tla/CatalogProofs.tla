--------------------------- MODULE CatalogProofs ---------------------------
(***************************************************************************)
(* What a tenant may rely on about its providers, its models and the       *)
(* defaults of its tasks, whatever transactions run side by side.  Each    *)
(* transaction knows something from the rows it has locked; whoever writes *)
(* leaves alone what others know.                                          *)
(***************************************************************************)
EXTENDS AdministrationFrames

-----------------------------------------------------------------------------
(* What a transaction knows *)

\* A provider that is locked for a change is there.
HoldsProvider(c) ==
  Kind(c) \in {"updateProvider", "deleteProvider"} /\ step[c] \in {"locked", "counted"} =>
    /\ ProviderRow(request[c].provider) \in exclusive[c]
    /\ providers[request[c].provider] # "absent"

\* The count of its models is still what was found.
Counted(c) ==
  Kind(c) \in {"updateProvider", "deleteProvider"} /\ step[c] = "counted" =>
    /\ Kind(c) = "deleteProvider" => Linked(request[c].provider) = {}
    /\ Asks(c, "status") /\ request[c].status = "DISABLED" =>
         EnabledLinked(request[c].provider) = {}

\* A model that is locked for a change is there.
HoldsModel(c) ==
  Kind(c) \in {"updateModel", "deleteModel"} /\ step[c] \in {"locked", "provided", "unique"} =>
    /\ ModelRow(request[c].model) \in exclusive[c]
    /\ models[request[c].model] # Deleted

\* The provider that a model needs is locked and as it must be.
HoldsProviderOfModel(c) ==
  Kind(c) \in {"createModel", "updateModel"} /\ step[c] \in {"provided", "unique"} =>
    /\ NeedsProvider(c) =>
         /\ ProviderRow(Wanted(c).provider) \in exclusive[c]
         /\ providers[Wanted(c).provider] # "absent"
    /\ NeedsUsable(c) => providers[Wanted(c).provider] = "ENABLED"

\* No other model of the provider has the name.
Unique(c) ==
  /\ Kind(c) \in {"createModel", "updateModel"} /\ step[c] = "unique"
  /\ Asks(c, "provider") \/ Asks(c, "name")
  => \A n \in Linked(Wanted(c).provider) \ {request[c].model} :
       models[n].name # Wanted(c).name

\* The defaults to be set are locked and usable.
HoldsDefaults(c) ==
  Kind(c) = "setDefaults" =>
    /\ step[c] \in {"provided for defaults", "validated"} =>
         /\ ProviderRow(request[c].provider) \in exclusive[c]
         /\ providers[request[c].provider] = "ENABLED"
    /\ step[c] = "validated" =>
         /\ ModelRow(request[c].model) \in exclusive[c]
         /\ models[request[c].model].status = "ENABLED"
         /\ models[request[c].model].provider = request[c].provider

Knows(c) ==
  /\ HoldsProvider(c)
  /\ Counted(c)
  /\ HoldsModel(c)
  /\ HoldsProviderOfModel(c)
  /\ Unique(c)
  /\ HoldsDefaults(c)

CatalogInv ==
  /\ CatalogTypeOK
  /\ ModelsHaveProviders
  /\ ModelNamesUnique
  /\ \A c \in Connections : Knows(c)

-----------------------------------------------------------------------------
(* Requests *)

\* A kind is that of a request somebody has made.
LEMMA RequestIsMade ==
  ASSUME TxInv, NEW c \in Connections, Kind(c) # "none"
  PROVE  request[c] \in Requests
BY DEF TxInv, TxTypeOK, Kind, NoRequest

CatalogKinds ==
  {"createProvider", "updateProvider", "deleteProvider", "createModel", "updateModel",
   "deleteModel", "setDefaults"}

\* The provider and the model of a request about them.
LEMMA RequestIsTyped ==
  ASSUME TxInv, NEW c \in Connections
  PROVE  /\ Kind(c) \in {"createProvider", "updateProvider", "deleteProvider", "setDefaults"} =>
              request[c].provider \in Providers
         /\ Kind(c) \in {"createModel", "updateModel", "deleteModel", "setDefaults"} =>
              request[c].model \in Models
         /\ Kind(c) = "createProvider" => request[c].status \in States
         /\ Kind(c) = "updateProvider" /\ Asks(c, "status") => request[c].status \in States
         /\ Kind(c) = "rotateKeys" => request[c].new \in CipherKeys
<1>1. CASE Kind(c) \in CatalogKinds \cup {"rotateKeys"}
  <2>1. request[c] \in Requests
    BY <1>1, RequestIsMade DEF CatalogKinds
  <2>2. QED
    BY <2>1, CatalogRequestsAssumption DEF Kind, Asks, MaySay
<1>2. CASE Kind(c) \notin CatalogKinds \cup {"rotateKeys"}
  BY <1>2 DEF CatalogKinds
<1>3. QED
  BY <1>1, <1>2

\* The row of a model as it is to be is one of a model that is there.
LEMMA WantedIsTyped ==
  ASSUME TxInv, CatalogTypeOK, NEW c \in Connections,
         \/ Kind(c) = "createModel"
         \/ Kind(c) = "updateModel" /\ models[request[c].model] # Deleted
  PROVE  Wanted(c) \in [status : States, provider : Providers, name : Names,
                        supports : SUBSET Features]
<1> DEFINE r == request[c]
           m == r.model
<1>1. r \in Requests /\ r.kind = Kind(c)
  BY RequestIsMade DEF Kind
<1>2. m \in Models
  BY <1>1, RequestIsTyped
<1>3. /\ MaySay(r, "provider", Providers) /\ MaySay(r, "status", States)
      /\ MaySay(r, "name", Names) /\ MaySay(r, "supports", SUBSET Features)
      /\ Kind(c) = "createModel" =>
           /\ "status" \in DOMAIN r /\ "provider" \in DOMAIN r
           /\ "name" \in DOMAIN r /\ "supports" \in DOMAIN r
  BY <1>1, CatalogRequestsAssumption
<1>4. Kind(c) # "createModel" =>
        models[m] \in [status : States, provider : Providers, name : Names,
                       supports : SUBSET Features]
  BY <1>2 DEF CatalogTypeOK, ModelRecords
<1> DEFINE Field(f) == IF Asks(c, f) THEN r[f] ELSE models[m][f]
<1>5. Field("status") \in States
  BY <1>3, <1>4 DEF MaySay, Asks
<1>6. Field("provider") \in Providers
  BY <1>3, <1>4 DEF MaySay, Asks
<1>7. Field("name") \in Names
  BY <1>3, <1>4 DEF MaySay, Asks
<1>8. Field("supports") \in SUBSET Features
  BY <1>3, <1>4 DEF MaySay, Asks
<1>9. Wanted(c) = [status |-> Field("status"), provider |-> Field("provider"),
                   name |-> Field("name"), supports |-> Field("supports")]
  BY DEF Wanted
<1> HIDE DEF Field
<1>10. QED
  BY <1>5, <1>6, <1>7, <1>8, <1>9

-----------------------------------------------------------------------------
(* What others know *)

\* A step leaves alone the providers and the models that others have locked, and
\* gives no model to a provider that another has locked, nor a new name, nor
\* enables one there.
Disciplined(c) ==
  \A d \in Connections \ {c} :
    /\ \A p \in Providers : ProviderRow(p) \in exclusive[d] =>
         /\ providers'[p] = providers[p]
         /\ \A m \in Models : models'[m].provider = p =>
              /\ models[m].provider = p /\ models[m].name = models'[m].name
              /\ models'[m].status = "ENABLED" => models[m].status = "ENABLED"
    /\ \A m \in Models : ModelRow(m) \in exclusive[d] => models'[m] = models[m]

\* What a model is to be does not change while its row is locked.
LEMMA WantedIsSteady ==
  ASSUME TxInv, NEW d \in Connections, TxSame(d),
         \/ Kind(d) = "createModel"
         \/ Kind(d) = "updateModel" /\ models'[request[d].model] = models[request[d].model]
  PROVE  Wanted(d)' = Wanted(d)
<1>1. CASE Kind(d) = "updateModel"
  BY <1>1 DEF TxSame, Wanted, Asks, Kind
<1>2. CASE Kind(d) = "createModel"
  <2>1. request[d] \in Requests /\ request[d].kind = "createModel"
    BY <1>2, RequestIsMade DEF Kind
  <2>2. Asks(d, "status") /\ Asks(d, "provider") /\ Asks(d, "name") /\ Asks(d, "supports")
    BY <2>1, CatalogRequestsAssumption DEF Asks
  <2>3. QED
    BY <2>2 DEF TxSame, Wanted, Asks
<1>3. QED
  BY <1>1, <1>2

\* A step of another connection that is disciplined takes nothing away from
\* what a transaction knows.
LEMMA OthersKeepKnowing ==
  ASSUME TxInv, CatalogInv, NEW c \in Connections, Disciplined(c),
         NEW d \in Connections, d # c, TxSame(d)
  PROVE  Knows(d)'
<1> DEFINE r == request[d]
<1>1. /\ HoldsProvider(d) /\ Counted(d) /\ HoldsModel(d) /\ HoldsProviderOfModel(d)
      /\ Unique(d) /\ HoldsDefaults(d)
  BY DEF CatalogInv, Knows
<1>2. request'[d] = r /\ step'[d] = step[d] /\ exclusive'[d] = exclusive[d]
      /\ Kind(d)' = Kind(d) /\ \A f : Asks(d, f)' = Asks(d, f)
  BY DEF TxSame, Kind, Asks
<1>3. ASSUME NEW p \in Providers, ProviderRow(p) \in exclusive[d]
      PROVE  /\ providers'[p] = providers[p]
             /\ \A m \in Models : models'[m].provider = p =>
                  /\ models[m].provider = p /\ models[m].name = models'[m].name
                  /\ models'[m].status = "ENABLED" => models[m].status = "ENABLED"
  BY <1>3 DEF Disciplined
<1>4. ASSUME NEW m \in Models, ModelRow(m) \in exclusive[d]
      PROVE  models'[m] = models[m]
  BY <1>4 DEF Disciplined
<1>5. /\ Kind(d) \in {"updateProvider", "deleteProvider", "setDefaults"} => r.provider \in Providers
      /\ Kind(d) \in {"createModel", "updateModel", "deleteModel", "setDefaults"} => r.model \in Models
  BY RequestIsTyped
<1>6. HoldsProvider(d)'
  BY <1>1, <1>2, <1>3, <1>5 DEF HoldsProvider
<1>7. Counted(d)'
  <2>1. SUFFICES ASSUME Kind(d) \in {"updateProvider", "deleteProvider"}, step[d] = "counted"
                 PROVE  /\ Kind(d) = "deleteProvider" => Linked(r.provider)' = {}
                        /\ Asks(d, "status") /\ r.status = "DISABLED" =>
                             EnabledLinked(r.provider)' = {}
    BY <1>2 DEF Counted
  <2>2. r.provider \in Providers /\ ProviderRow(r.provider) \in exclusive[d]
    BY <1>1, <1>5, <2>1 DEF HoldsProvider
  <2>3. Linked(r.provider)' \subseteq Linked(r.provider)
        /\ EnabledLinked(r.provider)' \subseteq EnabledLinked(r.provider)
    BY <1>2, <1>3, <2>2 DEF Linked, EnabledLinked
  <2>4. QED
    BY <1>1, <2>1, <2>3 DEF Counted
<1>8. HoldsModel(d)'
  BY <1>1, <1>2, <1>4, <1>5 DEF HoldsModel
<1>9. ASSUME Kind(d) \in {"createModel", "updateModel"}, step[d] \in {"provided", "unique"}
      PROVE  /\ Wanted(d)' = Wanted(d)
             /\ Wanted(d).provider \in Providers
  <2>1. Kind(d) = "updateModel" =>
          models[r.model] # Deleted /\ models'[r.model] = models[r.model]
    BY <1>1, <1>4, <1>5, <1>9 DEF HoldsModel
  <2>2. Wanted(d)' = Wanted(d)
    BY <1>9, <2>1, WantedIsSteady
  <2>3. Wanted(d).provider \in Providers
    BY <1>9, <2>1, WantedIsTyped DEF CatalogInv
  <2>4. QED
    BY <2>2, <2>3
<1>10. HoldsProviderOfModel(d)'
  <2>1. NeedsProvider(d)' = NeedsProvider(d) /\ NeedsUsable(d)' = NeedsUsable(d)
    BY <1>2 DEF NeedsProvider, NeedsUsable
  <2>2. NeedsUsable(d) => NeedsProvider(d)
    BY DEF NeedsProvider
  <2>3. QED
    BY <1>1, <1>2, <1>3, <1>9, <2>1, <2>2 DEF HoldsProviderOfModel
<1>11. Unique(d)'
  <2>1. SUFFICES ASSUME Kind(d) \in {"createModel", "updateModel"}, step[d] = "unique",
                        Asks(d, "provider") \/ Asks(d, "name"),
                        NEW n \in Models, n # r.model, models'[n].provider = Wanted(d).provider
                 PROVE  models'[n].name # Wanted(d).name
    BY <1>2, <1>9 DEF Unique, Linked
  <2>2. NeedsProvider(d)
    BY <2>1 DEF NeedsProvider, NeedsUsable
  <2>3. ProviderRow(Wanted(d).provider) \in exclusive[d] /\ Wanted(d).provider \in Providers
    BY <1>1, <1>9, <2>1, <2>2 DEF HoldsProviderOfModel
  <2>4. models[n].provider = Wanted(d).provider /\ models'[n].name = models[n].name
    BY <1>3, <2>1, <2>3
  <2>5. QED
    BY <1>1, <2>1, <2>4 DEF Unique, Linked
<1>12. HoldsDefaults(d)'
  BY <1>1, <1>2, <1>3, <1>4, <1>5 DEF HoldsDefaults
<1>13. QED
  BY <1>6, <1>7, <1>8, <1>10, <1>11, <1>12 DEF Knows

-----------------------------------------------------------------------------
(* What the statements of a transaction tell it *)

\* Who is at no step of the catalog knows nothing about it.
LEMMA ElsewhereNothingIsKnown ==
  ASSUME NEW c \in Connections, step'[c] \notin CatalogSteps
  PROVE  Knows(c)'
BY DEF Knows, HoldsProvider, Counted, HoldsModel, HoldsProviderOfModel, Unique, HoldsDefaults,
       CatalogSteps

\* A statement that reads.
Reads(c, next) ==
  /\ UNCHANGED catalogVars
  /\ \/ Read(c, next)
     \/ \E rows : ReadForUpdate(c, rows, next)

LEMMA ReadingKeeps ==
  ASSUME TxInv, NEW c \in Connections, NEW next, Reads(c, next)
  PROVE  /\ request'[c] = request[c] /\ step'[c] = next
         /\ exclusive[c] \subseteq exclusive'[c]
         /\ UNCHANGED <<providers, models>>
         /\ Kind(c)' = Kind(c) /\ Asks(c, "status")' = Asks(c, "status")
         /\ Asks(c, "provider")' = Asks(c, "provider") /\ Asks(c, "name")' = Asks(c, "name")
         /\ NeedsUsable(c)' = NeedsUsable(c) /\ NeedsProvider(c)' = NeedsProvider(c)
         /\ Wanted(c)' = Wanted(c)
         /\ Linked(Wanted(c).provider)' = Linked(Wanted(c).provider)
         /\ Linked(request[c].provider)' = Linked(request[c].provider)
         /\ EnabledLinked(request[c].provider)' = EnabledLinked(request[c].provider)
<1>1. step = [e \in Connections |-> step[e]] /\ exclusive = [e \in Connections |-> exclusive[e]]
  BY DEF TxInv
<1>2. request' = request /\ step'[c] = next /\ exclusive[c] \subseteq exclusive'[c]
  BY <1>1 DEF Reads, Read, ReadForUpdate
<1>3. UNCHANGED <<providers, models>>
  BY DEF Reads, catalogVars
<1>4. Kind(c)' = Kind(c) /\ Asks(c, "status")' = Asks(c, "status")
      /\ Asks(c, "provider")' = Asks(c, "provider") /\ Asks(c, "name")' = Asks(c, "name")
      /\ NeedsUsable(c)' = NeedsUsable(c) /\ NeedsProvider(c)' = NeedsProvider(c)
  BY <1>2 DEF Kind, Asks, NeedsUsable, NeedsProvider
<1>5. Wanted(c)' = Wanted(c)
  BY <1>2, <1>3 DEF Wanted, Asks
<1>6. /\ Linked(Wanted(c).provider)' = Linked(Wanted(c).provider)
      /\ Linked(request[c].provider)' = Linked(request[c].provider)
      /\ EnabledLinked(request[c].provider)' = EnabledLinked(request[c].provider)
  BY <1>2, <1>3, <1>5 DEF Linked, EnabledLinked
<1>7. QED
  BY <1>2, <1>3, <1>4, <1>5, <1>6

LEMMA ReadersLearn ==
  ASSUME TxInv, CatalogInv, NEW c \in Connections,
         \/ LockProvider(c) \/ CountLinkedModels(c) \/ LockAllProviders(c)
         \/ FindProviderToTest(c) \/ LockModel(c) \/ EnsureProviderUsable(c)
         \/ EnsureUniqueName(c) \/ LockDefaultProvider(c) \/ LockDefaultModel(c)
  PROVE  Knows(c)'
<1> DEFINE r == request[c]
<1>1. /\ HoldsProvider(c) /\ Counted(c) /\ HoldsModel(c) /\ HoldsProviderOfModel(c)
      /\ Unique(c) /\ HoldsDefaults(c)
  BY DEF CatalogInv, Knows
<1>2. exclusive = [e \in Connections |-> exclusive[e]]
  BY DEF TxInv
<1> USE DEF Knows, HoldsProvider, Counted, HoldsModel, HoldsProviderOfModel, Unique, HoldsDefaults
<1>3. CASE LockProvider(c)
  <2>1. Reads(c, "locked")
    BY <1>3 DEF LockProvider, Reads
  <2>2. ProviderRow(r.provider) \in exclusive'[c]
    BY <1>2, <1>3 DEF LockProvider, ReadForUpdate
  <2>3. Kind(c) \in {"updateProvider", "deleteProvider"} /\ providers[r.provider] # "absent"
    BY <1>3 DEF LockProvider
  <2>4. step'[c] = "locked" /\ r' = r /\ Kind(c)' = Kind(c) /\ providers' = providers
    BY <2>1, ReadingKeeps
  <2>5. QED
    BY <2>2, <2>3, <2>4
<1>4. CASE CountLinkedModels(c)
  <2>1. Reads(c, "counted")
    BY <1>4 DEF CountLinkedModels, Reads
  <2>2. /\ Kind(c) \in {"updateProvider", "deleteProvider"} /\ step[c] = "locked"
        /\ Kind(c) = "deleteProvider" => Linked(r.provider) = {}
        /\ Asks(c, "status") /\ r.status = "DISABLED" => EnabledLinked(r.provider) = {}
    BY <1>4 DEF CountLinkedModels
  <2>3. QED
    BY <1>1, <2>1, <2>2, ReadingKeeps
<1>5. CASE LockAllProviders(c)
  <2>1. Reads(c, "rotating")
    BY <1>5 DEF LockAllProviders, Reads
  <2>2. step'[c] = "rotating"
    BY <2>1, ReadingKeeps
  <2>3. QED
    BY <2>2
<1>6. CASE FindProviderToTest(c)
  <2>1. Reads(c, "probing") \/ Reads(c, "not decrypted")
    BY <1>6 DEF FindProviderToTest, Reads
  <2>2. step'[c] \in {"probing", "not decrypted"}
    BY <2>1, ReadingKeeps
  <2>3. QED
    BY <2>2
<1>7. CASE LockModel(c)
  <2>1. Reads(c, "locked")
    BY <1>7 DEF LockModel, Reads
  <2>2. ModelRow(r.model) \in exclusive'[c]
    BY <1>2, <1>7 DEF LockModel, ReadForUpdate
  <2>3. Kind(c) \in {"updateModel", "deleteModel"} /\ models[r.model] # Deleted
    BY <1>7 DEF LockModel
  <2>4. step'[c] = "locked" /\ r' = r /\ Kind(c)' = Kind(c) /\ models' = models
    BY <2>1, ReadingKeeps
  <2>5. QED
    BY <2>2, <2>3, <2>4
<1>8. CASE EnsureProviderUsable(c)
  <2>1. Reads(c, "provided")
    BY <1>8 DEF EnsureProviderUsable, Reads
  <2>2. NeedsProvider(c) => ProviderRow(Wanted(c).provider) \in exclusive'[c]
    BY <1>2, <1>8 DEF EnsureProviderUsable, ReadForUpdate
  <2>3. /\ Kind(c) = "createModel" \/ (Kind(c) = "updateModel" /\ step[c] = "locked")
        /\ NeedsProvider(c) => providers[Wanted(c).provider] # "absent"
        /\ NeedsUsable(c) => providers[Wanted(c).provider] = "ENABLED"
    BY <1>8 DEF EnsureProviderUsable
  <2>4. QED
    BY <1>1, <2>1, <2>2, <2>3, ReadingKeeps
<1>9. CASE EnsureUniqueName(c)
  <2>1. Reads(c, "unique")
    BY <1>9 DEF EnsureUniqueName, Reads
  <2>2. step[c] = "provided"
    BY <1>9 DEF EnsureUniqueName
  <2>3. Asks(c, "provider") \/ Asks(c, "name") =>
          \A n \in Linked(Wanted(c).provider) \ {r.model} : models[n].name # Wanted(c).name
    BY <1>9 DEF EnsureUniqueName
  <2>4. /\ step'[c] = "unique" /\ r' = r /\ Kind(c)' = Kind(c)
        /\ exclusive[c] \subseteq exclusive'[c]
        /\ Asks(c, "provider")' = Asks(c, "provider") /\ Asks(c, "name")' = Asks(c, "name")
        /\ NeedsUsable(c)' = NeedsUsable(c) /\ NeedsProvider(c)' = NeedsProvider(c)
        /\ models' = models /\ providers' = providers
        /\ Wanted(c)' = Wanted(c)
        /\ Linked(Wanted(c).provider)' = Linked(Wanted(c).provider)
    BY <2>1, ReadingKeeps
  <2>5. HoldsModel(c)' /\ HoldsProviderOfModel(c)'
    BY <1>1, <2>2, <2>4
  <2>6. Unique(c)'
    BY <2>3, <2>4
  <2>7. QED
    BY <2>4, <2>5, <2>6
<1>10. CASE LockDefaultProvider(c)
  <2>1. Reads(c, "provided for defaults")
    BY <1>10 DEF LockDefaultProvider, Reads
  <2>2. ProviderRow(r.provider) \in exclusive'[c]
    BY <1>2, <1>10 DEF LockDefaultProvider, ReadForUpdate
  <2>3. Kind(c) = "setDefaults" /\ providers[r.provider] = "ENABLED"
    BY <1>10 DEF LockDefaultProvider
  <2>4. /\ step'[c] = "provided for defaults" /\ r' = r /\ Kind(c)' = Kind(c)
        /\ providers' = providers
    BY <2>1, ReadingKeeps
  <2>5. QED
    BY <2>2, <2>3, <2>4
<1>11. CASE LockDefaultModel(c)
  <2>1. Reads(c, "validated")
    BY <1>11 DEF LockDefaultModel, Reads
  <2>2. ModelRow(r.model) \in exclusive'[c]
    BY <1>2, <1>11 DEF LockDefaultModel, ReadForUpdate
  <2>3. /\ Kind(c) = "setDefaults" /\ step[c] = "provided for defaults"
        /\ models[r.model].status = "ENABLED" /\ models[r.model].provider = r.provider
    BY <1>11 DEF LockDefaultModel
  <2>4. QED
    BY <1>1, <2>1, <2>2, <2>3, ReadingKeeps
<1>12. QED
  BY <1>3, <1>4, <1>5, <1>6, <1>7, <1>8, <1>9, <1>10, <1>11

-----------------------------------------------------------------------------
(* What writers leave alone *)

\* Nobody else has locked what a transaction has locked for writing.
LEMMA HeldAlone ==
  ASSUME TxInv, NEW c \in Connections, NEW row \in exclusive[c],
         NEW d \in Connections \ {c}
  PROVE  row \notin exclusive[d] /\ row \notin shared[d]
BY DEF TxInv, TxTypeOK, MayWrite

LEMMA CommitsAlone ==
  ASSUME NEW c \in Connections, NEW rows, Commit(c, rows), NEW row \in rows,
         NEW d \in Connections \ {c}
  PROVE  row \notin exclusive[d] /\ row \notin shared[d]
BY DEF Commit, MayWrite

LEMMA ProvidersAreDisciplined ==
  ASSUME TxInv, CatalogInv, NEW c \in Connections,
         CreateProvider(c) \/ UpdateProvider(c) \/ DeleteProvider(c)
  PROVE  Disciplined(c)
<1> DEFINE r == request[c]
<1>1. \A p \in Providers : p # r.provider => providers'[p] = providers[p]
  BY DEF CreateProvider, UpdateProvider, DeleteProvider, CatalogInv, CatalogTypeOK
<1>2. models' = models
  BY DEF CreateProvider, UpdateProvider, DeleteProvider
<1>3. ASSUME NEW d \in Connections \ {c} PROVE ProviderRow(r.provider) \notin exclusive[d]
  <2>1. CASE CreateProvider(c)
    BY <2>1, CommitsAlone DEF CreateProvider
  <2>2. CASE UpdateProvider(c) \/ DeleteProvider(c)
    <3>1. HoldsProvider(c)
      BY DEF CatalogInv, Knows
    <3>2. ProviderRow(r.provider) \in exclusive[c]
      BY <2>2, <3>1 DEF UpdateProvider, DeleteProvider, HoldsProvider
    <3>3. QED
      BY <3>2, HeldAlone
  <2>3. QED
    BY <2>1, <2>2
<1>4. QED
  BY <1>1, <1>2, <1>3 DEF Disciplined

LEMMA ModelsAreDisciplined ==
  ASSUME TxInv, CatalogInv, NEW c \in Connections,
         CreateModel(c) \/ UpdateModel(c) \/ DeleteModel(c)
  PROVE  Disciplined(c)
<1> DEFINE r == request[c]
           m == r.model
<1>0. /\ HoldsModel(c) /\ HoldsProviderOfModel(c)
  BY DEF CatalogInv, Knows
<1>1. providers' = providers
  BY DEF CreateModel, UpdateModel, DeleteModel
<1>2. \A n \in Models : n # m => models'[n] = models[n]
  BY DEF CreateModel, UpdateModel, DeleteModel, CatalogInv, CatalogTypeOK
<1>3. ASSUME NEW d \in Connections \ {c} PROVE ModelRow(m) \notin exclusive[d]
  <2>1. CASE CreateModel(c)
    BY <2>1, CommitsAlone DEF CreateModel
  <2>2. CASE UpdateModel(c) \/ DeleteModel(c)
    <3>1. ModelRow(m) \in exclusive[c]
      BY <1>0, <2>2 DEF UpdateModel, DeleteModel, HoldsModel
    <3>2. QED
      BY <3>1, HeldAlone
  <2>3. QED
    BY <2>1, <2>2
<1>4. ASSUME NEW d \in Connections \ {c}, NEW p \in Providers, ProviderRow(p) \in exclusive[d],
             m \in Models, models'[m].provider = p
      PROVE  /\ models[m].provider = p /\ models[m].name = models'[m].name
             /\ models'[m].status = "ENABLED" => models[m].status = "ENABLED"
  <2>1. CASE DeleteModel(c)
    <3>1. models'[m] = Deleted
      BY <1>4, <2>1 DEF DeleteModel, CatalogInv, CatalogTypeOK
    <3>2. QED
      BY <1>4, <3>1, CatalogAssumption DEF Deleted
  <2>2. CASE CreateModel(c) \/ UpdateModel(c)
    <3>1. models'[m] = Wanted(c)
      BY <1>4, <2>2 DEF CreateModel, UpdateModel, CatalogInv, CatalogTypeOK
    <3>2. Kind(c) \in {"createModel", "updateModel"} /\ step[c] = "unique"
      BY <2>2 DEF CreateModel, UpdateModel
    <3>3. CASE NeedsProvider(c)
      <4>1. ProviderRow(p) \in exclusive[c]
        BY <1>0, <1>4, <3>1, <3>2, <3>3 DEF HoldsProviderOfModel
      <4>2. QED
        BY <1>4, <4>1, HeldAlone
    <3>4. CASE ~ NeedsProvider(c)
      <4>1. ~ Asks(c, "provider") /\ ~ Asks(c, "name")
            /\ (Asks(c, "status") => r.status # "ENABLED")
        BY <3>4 DEF NeedsProvider, NeedsUsable
      <4>2. Wanted(c).provider = models[m].provider /\ Wanted(c).name = models[m].name
            /\ (Wanted(c).status = "ENABLED" => models[m].status = "ENABLED")
        BY <4>1 DEF Wanted
      <4>3. QED
        BY <1>4, <3>1, <4>2
    <3>5. QED
      BY <3>3, <3>4
  <2>3. QED
    BY <2>1, <2>2
<1>5. QED
  BY <1>1, <1>2, <1>3, <1>4 DEF Disciplined

LEMMA UnchangedIsDisciplined ==
  ASSUME NEW c, UNCHANGED <<providers, models>>
  PROVE  Disciplined(c)
BY DEF Disciplined

LEMMA CatalogIsDisciplined ==
  ASSUME TxInv, CatalogInv, NEW c \in Connections, CatalogStep(c)
  PROVE  Disciplined(c)
<1>1. \/ UNCHANGED <<providers, models>>
      \/ CreateProvider(c) \/ UpdateProvider(c) \/ DeleteProvider(c)
      \/ CreateModel(c) \/ UpdateModel(c) \/ DeleteModel(c)
  BY DEF CatalogStep, LockProvider, CountLinkedModels, LockAllProviders, Rotate,
         FindProviderToTest, RecordTestResult, LockModel, EnsureProviderUsable,
         EnsureUniqueName, LockDefaultProvider, LockDefaultModel, UpdateTaskDefaults,
         ClearTaskDefaults, catalogVars
<1>2. QED
  BY <1>1, ProvidersAreDisciplined, ModelsAreDisciplined, UnchangedIsDisciplined

\* After each step every transaction knows what it is to know.
LEMMA CatalogStepKeepsKnowing ==
  ASSUME TxInv, CatalogInv, NEW c \in Connections, CatalogStep(c)
  PROVE  \A d \in Connections : Knows(d)'
<1>1. TxMove(c, {"begun"} \cup CatalogSteps, CatalogSteps)
  BY CatalogMove
<1>2. \A d \in Connections : d # c => TxSame(d)
  BY <1>1, MoveIsLocal
<1>3. \A d \in Connections : d # c => Knows(d)'
  BY <1>2, CatalogIsDisciplined, OthersKeepKnowing
<1>4. Knows(c)'
  <2>1. CASE \/ LockProvider(c) \/ CountLinkedModels(c) \/ LockAllProviders(c)
             \/ FindProviderToTest(c) \/ LockModel(c) \/ EnsureProviderUsable(c)
             \/ EnsureUniqueName(c) \/ LockDefaultProvider(c) \/ LockDefaultModel(c)
    BY <2>1, ReadersLearn
  <2>2. CASE End(c)
    <3>1. step'[c] = "idle"
      BY <2>2 DEF End, TxInv
    <3>2. QED
      BY <3>1, ElsewhereNothingIsKnown DEF CatalogSteps
  <2>3. QED
    BY <2>1, <2>2 DEF CatalogStep, CreateProvider, UpdateProvider, DeleteProvider, Rotate,
                      RecordTestResult, CreateModel, UpdateModel, DeleteModel,
                      UpdateTaskDefaults, ClearTaskDefaults, Commit
<1>5. QED
  BY <1>3, <1>4

-----------------------------------------------------------------------------
(* Types *)

LEMMA CatalogStepKeepsTypes ==
  ASSUME TxInv, CatalogInv, NEW c \in Connections, CatalogStep(c)
  PROVE  CatalogTypeOK'
<1> DEFINE r == request[c]
<1>1. CatalogTypeOK
  BY DEF CatalogInv
<1> USE <1>1 DEF CatalogTypeOK
<1>2. CASE UNCHANGED catalogVars
  BY <1>2 DEF catalogVars
<1>3. CASE CreateProvider(c)
  <2>1. r.status \in States
    BY <1>3, RequestIsTyped DEF CreateProvider
  <2>2. QED
    BY <1>3, <2>1 DEF CreateProvider
<1>4. CASE UpdateProvider(c)
  <2>1. Asks(c, "status") => r.status \in States
    BY <1>4, RequestIsTyped DEF UpdateProvider
  <2>2. QED
    BY <1>4, <2>1 DEF UpdateProvider
<1>5. CASE DeleteProvider(c)
  BY <1>5 DEF DeleteProvider
<1>6. CASE Rotate(c)
  <2>1. r.new \in CipherKeys
    BY <1>6, RequestIsTyped DEF Rotate
  <2>2. QED
    BY <1>6, <2>1 DEF Rotate
<1>7. CASE RecordTestResult(c)
  BY <1>7 DEF RecordTestResult
<1>8. CASE CreateModel(c) \/ UpdateModel(c)
  <2>1. HoldsModel(c)
    BY DEF CatalogInv, Knows
  <2>2. Wanted(c) \in [status : States, provider : Providers, name : Names,
                       supports : SUBSET Features]
    BY <1>8, <2>1, WantedIsTyped DEF CreateModel, UpdateModel, HoldsModel
  <2>3. Wanted(c) \in ModelRecords
    BY <2>2 DEF ModelRecords
  <2>4. models' = [models EXCEPT ![r.model] = Wanted(c)]
        /\ UNCHANGED <<providers, defaults, apiKey, cipher, lastTest>>
    BY <1>8 DEF CreateModel, UpdateModel, keyVars
  <2>5. QED
    BY <2>3, <2>4
<1>9. CASE DeleteModel(c)
  <2>1. Deleted \in ModelRecords
    BY DEF ModelRecords
  <2>2. QED
    BY <1>9, <2>1 DEF DeleteModel, keyVars
<1>10. CASE UpdateTaskDefaults(c)
  <2>1. r.provider \in Providers /\ r.model \in Models
    BY <1>10, RequestIsTyped DEF UpdateTaskDefaults
  <2>2. QED
    BY <1>10, <2>1 DEF UpdateTaskDefaults, keyVars
<1>11. CASE ClearTaskDefaults(c)
  BY <1>11 DEF ClearTaskDefaults, keyVars
<1>12. QED
  BY <1>2, <1>3, <1>4, <1>5, <1>6, <1>7, <1>8, <1>9, <1>10, <1>11
     DEF CatalogStep, LockProvider, CountLinkedModels, LockAllProviders, FindProviderToTest,
         LockModel, EnsureProviderUsable, EnsureUniqueName, LockDefaultProvider,
         LockDefaultModel

-----------------------------------------------------------------------------
(* Models have providers, and names of their own *)

\* What a model that is written says of its provider.
LEMMA WrittenModelFits ==
  ASSUME TxInv, CatalogInv, NEW c \in Connections, CreateModel(c) \/ UpdateModel(c)
  PROVE  /\ request[c].model \in Models
         /\ models' = [models EXCEPT ![request[c].model] = Wanted(c)]
         /\ providers' = providers
         /\ providers[Wanted(c).provider] # "absent"
         /\ Wanted(c).status = "ENABLED" => providers[Wanted(c).provider] = "ENABLED"
         /\ Wanted(c).provider \in Providers
<1> DEFINE r == request[c]
           m == r.model
<1>1. /\ Kind(c) \in {"createModel", "updateModel"} /\ step[c] = "unique"
      /\ models' = [models EXCEPT ![m] = Wanted(c)] /\ providers' = providers
  BY DEF CreateModel, UpdateModel
<1>2. HoldsModel(c) /\ HoldsProviderOfModel(c)
  BY DEF CatalogInv, Knows
<1>3. m \in Models
  BY <1>1, RequestIsTyped
<1>4. Wanted(c).provider \in Providers
  BY <1>1, <1>2, WantedIsTyped DEF HoldsModel, CatalogInv
<1>5. CASE NeedsUsable(c)
  BY <1>1, <1>2, <1>3, <1>4, <1>5 DEF HoldsProviderOfModel
<1>6. CASE ~ NeedsUsable(c)
  <2>1. Kind(c) = "updateModel" /\ models[m] # Deleted
    BY <1>1, <1>2, <1>6 DEF NeedsUsable, HoldsModel
  <2>2. Wanted(c).provider = models[m].provider
        /\ (Wanted(c).status = "ENABLED" => models[m].status = "ENABLED")
    BY <1>6 DEF NeedsUsable, Wanted
  <2>3. /\ providers[models[m].provider] # "absent"
        /\ models[m].status = "ENABLED" => providers[models[m].provider] = "ENABLED"
    BY <1>3, <2>1 DEF CatalogInv, ModelsHaveProviders
  <2>4. QED
    BY <1>1, <1>3, <1>4, <2>2, <2>3
<1>7. QED
  BY <1>5, <1>6

LEMMA CatalogStepKeepsProviders ==
  ASSUME TxInv, CatalogInv, NEW c \in Connections, CatalogStep(c)
  PROVE  ModelsHaveProviders'
<1> DEFINE r == request[c]
<1>1. CatalogTypeOK /\ ModelsHaveProviders
  BY DEF CatalogInv
<1>2. ASSUME NEW m \in Models, models[m] # Deleted
      PROVE  models[m].provider \in Providers
  BY <1>1, <1>2 DEF CatalogTypeOK, ModelRecords
<1>3. CASE UNCHANGED <<providers, models>>
  BY <1>1, <1>3 DEF ModelsHaveProviders
<1>4. CASE CreateProvider(c)
  <2>1. /\ providers[r.provider] = "absent" /\ models' = models
        /\ providers' = [providers EXCEPT ![r.provider] = r.status]
    BY <1>4 DEF CreateProvider
  <2>2. QED
    BY <1>1, <1>2, <2>1 DEF ModelsHaveProviders, CatalogTypeOK
<1>5. CASE UpdateProvider(c)
  <2>1. Counted(c) /\ HoldsProvider(c)
    BY DEF CatalogInv, Knows
  <2>2. /\ Kind(c) = "updateProvider" /\ step[c] = "counted" /\ models' = models
        /\ providers' = [providers EXCEPT ![r.provider] =
             IF Asks(c, "status") THEN request[c].status ELSE @]
    BY <1>5 DEF UpdateProvider
  <2>3. Asks(c, "status") => r.status \in States
    BY <2>2, RequestIsTyped
  <2>4. Asks(c, "status") /\ r.status = "DISABLED" => EnabledLinked(r.provider) = {}
    BY <2>1, <2>2 DEF Counted
  <2>5. ASSUME NEW m \in Models, models[m] # Deleted
        PROVE  /\ providers'[models[m].provider] # "absent"
               /\ models[m].status = "ENABLED" => providers'[models[m].provider] = "ENABLED"
    <3>1. /\ providers[models[m].provider] # "absent"
          /\ models[m].status = "ENABLED" => providers[models[m].provider] = "ENABLED"
      BY <1>1, <2>5 DEF ModelsHaveProviders
    <3>2. models[m].provider \in Providers
      BY <1>2, <2>5
    <3>3. CASE models[m].provider # r.provider \/ ~ Asks(c, "status")
      BY <1>1, <2>2, <3>1, <3>2, <3>3 DEF CatalogTypeOK
    <3>4. CASE models[m].provider = r.provider /\ Asks(c, "status")
      <4>1. providers'[models[m].provider] = r.status
        BY <1>1, <2>2, <3>2, <3>4 DEF CatalogTypeOK
      <4>2. models[m].status = "ENABLED" => r.status # "DISABLED"
        BY <2>4, <3>4 DEF EnabledLinked, Linked
      <4>3. QED
        BY <2>3, <3>4, <4>1, <4>2 DEF States
    <3>5. QED
      BY <3>3, <3>4
  <2>6. QED
    BY <2>2, <2>5 DEF ModelsHaveProviders
<1>6. CASE DeleteProvider(c)
  <2>1. Counted(c)
    BY DEF CatalogInv, Knows
  <2>2. /\ Linked(r.provider) = {} /\ models' = models
        /\ providers' = [providers EXCEPT ![r.provider] = "absent"]
    BY <1>6, <2>1 DEF DeleteProvider, Counted
  <2>3. \A m \in Models : models[m].provider # r.provider
    BY <2>2 DEF Linked
  <2>4. QED
    BY <1>1, <1>2, <2>2, <2>3 DEF ModelsHaveProviders, CatalogTypeOK
<1>7. CASE CreateModel(c) \/ UpdateModel(c)
  <2>1. /\ request[c].model \in Models
        /\ models' = [models EXCEPT ![request[c].model] = Wanted(c)]
        /\ providers' = providers
        /\ providers[Wanted(c).provider] # "absent"
        /\ Wanted(c).status = "ENABLED" => providers[Wanted(c).provider] = "ENABLED"
    BY <1>7, WrittenModelFits
  <2>2. QED
    BY <1>1, <2>1 DEF ModelsHaveProviders, CatalogTypeOK
<1>8. CASE DeleteModel(c)
  <2>1. models' = [models EXCEPT ![r.model] = Deleted] /\ providers' = providers
    BY <1>8 DEF DeleteModel
  <2>2. QED
    BY <1>1, <2>1 DEF ModelsHaveProviders, CatalogTypeOK
<1>9. QED
  BY <1>3, <1>4, <1>5, <1>6, <1>7, <1>8
     DEF CatalogStep, LockProvider, CountLinkedModels, LockAllProviders, Rotate,
         FindProviderToTest, RecordTestResult, LockModel, EnsureProviderUsable,
         EnsureUniqueName, LockDefaultProvider, LockDefaultModel, UpdateTaskDefaults,
         ClearTaskDefaults, catalogVars

LEMMA CatalogStepKeepsNames ==
  ASSUME TxInv, CatalogInv, NEW c \in Connections, CatalogStep(c)
  PROVE  ModelNamesUnique'
<1> DEFINE r == request[c]
           w == r.model
<1>1. CatalogTypeOK /\ ModelNamesUnique
  BY DEF CatalogInv
<1>2. CASE UNCHANGED models
  BY <1>1, <1>2 DEF ModelNamesUnique
<1>3. CASE CreateModel(c) \/ UpdateModel(c)
  <2>1. w \in Models /\ models' = [models EXCEPT ![w] = Wanted(c)]
    BY <1>3, WrittenModelFits
  <2>2. Unique(c) /\ HoldsModel(c)
    BY DEF CatalogInv, Knows
  <2>3. Kind(c) \in {"createModel", "updateModel"} /\ step[c] = "unique"
    BY <1>3 DEF CreateModel, UpdateModel
  <2>4. ASSUME NEW n \in Models, n # w, models[n] # Deleted
        PROVE  models[n].provider # Wanted(c).provider \/ models[n].name # Wanted(c).name
    <3>1. CASE Asks(c, "provider") \/ Asks(c, "name")
      BY <2>2, <2>3, <2>4, <3>1 DEF Unique, Linked
    <3>2. CASE ~ Asks(c, "provider") /\ ~ Asks(c, "name")
      <4>1. Wanted(c).provider = models[w].provider /\ Wanted(c).name = models[w].name
        BY <3>2 DEF Wanted
      <4>2. Kind(c) = "updateModel"
        <5>1. Kind(c) = "createModel" => request[c] \in Requests
          BY RequestIsMade
        <5>2. QED
          BY <2>3, <3>2, <5>1, CatalogRequestsAssumption DEF Asks, Kind
      <4>3. models[w] # Deleted
        BY <2>2, <2>3, <4>2 DEF HoldsModel
      <4>4. QED
        BY <1>1, <2>1, <2>4, <4>1, <4>3 DEF ModelNamesUnique
    <3>3. QED
      BY <3>1, <3>2
  <2>5. QED
    BY <1>1, <2>1, <2>4 DEF ModelNamesUnique, CatalogTypeOK
<1>4. CASE DeleteModel(c)
  <2>1. models' = [models EXCEPT ![w] = Deleted]
    BY <1>4 DEF DeleteModel
  <2>2. QED
    BY <1>1, <2>1 DEF ModelNamesUnique, CatalogTypeOK
<1>5. QED
  BY <1>2, <1>3, <1>4
     DEF CatalogStep, CreateProvider, UpdateProvider, DeleteProvider, LockProvider,
         CountLinkedModels, LockAllProviders, Rotate,
         FindProviderToTest, RecordTestResult, LockModel, EnsureProviderUsable,
         EnsureUniqueName, LockDefaultProvider, LockDefaultModel, UpdateTaskDefaults,
         ClearTaskDefaults, catalogVars

-----------------------------------------------------------------------------
(* The whole system *)

CatalogSame == UNCHANGED <<providers, models, defaults, apiKey, cipher, lastTest>>

LEMMA SameCatalog ==
  ASSUME CatalogInv, CatalogSame
  PROVE  CatalogTypeOK' /\ ModelsHaveProviders' /\ ModelNamesUnique'
BY DEF CatalogSame, CatalogInv, CatalogTypeOK, ModelsHaveProviders, ModelNamesUnique

\* Other transactions do not come to the steps of the catalog.
LEMMA OthersKeepCatalog ==
  ASSUME TxInv, CatalogInv, CatalogSame, NEW c \in Connections, step'[c] \notin CatalogSteps,
         \A d \in Connections : d # c => TxSame(d)
  PROVE  CatalogInv'
<1>1. Disciplined(c)
  BY UnchangedIsDisciplined DEF CatalogSame
<1>2. \A d \in Connections : d # c => Knows(d)'
  BY <1>1, OthersKeepKnowing
<1>3. Knows(c)'
  BY ElsewhereNothingIsKnown
<1>4. QED
  BY <1>2, <1>3, SameCatalog DEF CatalogInv

LEMMA StutterKeepsCatalog ==
  ASSUME CatalogInv, UNCHANGED txVars, UNCHANGED <<providers, models>>, CatalogTypeOK'
  PROVE  CatalogInv'
<1>1. UNCHANGED <<request, step, exclusive, providers, models>>
  BY DEF txVars
<1>2. ModelsHaveProviders' /\ ModelNamesUnique'
  BY <1>1 DEF CatalogInv, ModelsHaveProviders, ModelNamesUnique
<1>3. ASSUME NEW d \in Connections PROVE Knows(d)'
  <2>1. Knows(d)
    BY DEF CatalogInv
  <2>2. HoldsProvider(d)' /\ HoldsModel(d)' /\ HoldsDefaults(d)'
    BY <1>1, <2>1 DEF Knows, HoldsProvider, HoldsModel, HoldsDefaults, Kind
  <2>3. Counted(d)'
    BY <1>1, <2>1 DEF Knows, Counted, Kind, Asks, Linked, EnabledLinked
  <2>4. HoldsProviderOfModel(d)'
    BY <1>1, <2>1 DEF Knows, HoldsProviderOfModel, Kind, Asks, Wanted, NeedsProvider, NeedsUsable
  <2>5. Unique(d)'
    BY <1>1, <2>1 DEF Knows, Unique, Kind, Asks, Wanted, Linked
  <2>6. QED
    BY <2>2, <2>3, <2>4, <2>5 DEF Knows
<1>4. QED
  BY <1>2, <1>3 DEF CatalogInv

LEMMA StepKeepsCatalog ==
  ASSUME TxInv, CatalogInv, [Next]_vars
  PROVE  CatalogInv'
<1>1. ASSUME NEW c \in Connections, Step(c) PROVE CatalogInv'
  <2>0. ASSUME NEW from, NEW to, TxMove(c, from, to), UNCHANGED catalogVars,
               to \cap CatalogSteps = {}
        PROVE  CatalogInv'
    <3>1. \A d \in Connections : d # c => TxSame(d)
      BY <2>0, MoveIsLocal
    <3>2. (request'[c] = request[c] /\ step'[c] \in to) \/ TxIdle(c)'
      BY <2>0, MoveGoesOn
    <3>3. step'[c] \notin CatalogSteps
      BY <2>0, <3>2 DEF TxIdle, CatalogSteps
    <3>4. QED
      BY <2>0, <3>1, <3>3, OthersKeepCatalog DEF CatalogSame, catalogVars
  <2>1. CASE BeginRequest(c)
    <3>1. Begin(c, Admitted)
      BY <2>1 DEF BeginRequest
    <3>2. step'[c] = "begun" /\ \A d \in Connections : d # c => TxSame(d)
      BY <3>1, BeginKeepsTx
    <3>3. step'[c] \notin CatalogSteps
      BY <3>2 DEF CatalogSteps
    <3>4. QED
      BY <2>1, <3>2, <3>3, OthersKeepCatalog DEF CatalogSame, catalogVars, BeginRequest
  <2>2. CASE RollbackRequest(c)
    <3>1. TxMove(c, {step[c]}, {})
      BY <2>2, EndIsMove DEF RollbackRequest, Rollback
    <3>2. QED
      BY <2>0, <2>2, <3>1 DEF RollbackRequest
  <2>3. CASE UserStep(c) /\ UNCHANGED catalogVars
    BY <2>0, <2>3, UserMove DEF UserSteps, CatalogSteps
  <2>4. CASE CatalogStep(c)
    BY <2>4, CatalogStepKeepsTypes, CatalogStepKeepsProviders, CatalogStepKeepsNames,
       CatalogStepKeepsKnowing DEF CatalogInv
  <2>5. CASE MemberStep(c) /\ UNCHANGED catalogVars
    BY <2>0, <2>5, MemberMove DEF MemberSteps, CatalogSteps
  <2>6. CASE AdmissionStep(c) /\ UNCHANGED catalogVars
    BY <2>0, <2>6, AdmissionMove DEF AccessSteps, AdmissionSteps, ContextSteps, CatalogSteps
  <2>7. CASE AttemptStep(c) /\ UNCHANGED catalogVars
    <3>1. CASE UNCHANGED txVars
      BY <2>7, <3>1, StutterKeepsCatalog DEF catalogVars, CatalogInv, CatalogTypeOK
    <3>2. Executing \cap CatalogSteps = {}
      BY DEF Executing, CatalogSteps
    <3>3. QED
      BY <2>0, <2>7, <3>1, <3>2, AttemptMove
  <2>8. CASE SettingStep(c) /\ UNCHANGED catalogVars
    BY <2>0, <2>8, SettingMove DEF SettingSteps, CatalogSteps
  <2>9. CASE StartStep(c) /\ UNCHANGED catalogVars
    BY <2>0, <2>9, StartMove DEF StartSteps, CatalogSteps
  <2>10. CASE MaintenanceStep(c) /\ UNCHANGED catalogVars
    BY <2>0, <2>10, MaintenanceMove DEF MaintenanceSteps, CatalogSteps
  <2>11. CASE ScanStep(c) /\ UNCHANGED catalogVars
    BY <2>0, <2>11, ScanMove DEF ScanSteps, CatalogSteps
  <2>12. QED
    BY <1>1, <2>1, <2>2, <2>3, <2>4, <2>5, <2>6, <2>7, <2>8, <2>9, <2>10, <2>11 DEF Step
<1>2. ASSUME NEW k \in CipherKeys, DeployCipher(k) PROVE CatalogInv'
  <2>1. CatalogTypeOK'
    BY <1>2 DEF DeployCipher, CatalogInv, CatalogTypeOK
  <2>2. QED
    BY <1>2, <2>1, StutterKeepsCatalog DEF DeployCipher
<1>3. CASE (\E n \in Caps : DeployCaps(n)) /\ UNCHANGED catalogVars
  BY <1>3, StutterKeepsCatalog DEF DeployCaps, catalogVars, CatalogInv, CatalogTypeOK
<1>4. CASE ObjectsChange \/ UNCHANGED vars
  BY <1>4, StutterKeepsCatalog DEF ObjectsChange, vars, catalogVars, CatalogInv, CatalogTypeOK
<1>5. QED
  BY <1>1, <1>2, <1>3, <1>4 DEF Next, Deploy

LEMMA CatalogBegins == Init => CatalogInv
<1> SUFFICES ASSUME Init PROVE CatalogInv
  OBVIOUS
<1>1. PICK empty \in BOOLEAN : CatalogInit(empty)
  BY DEF Init
<1>2. step = [c \in Connections |-> "idle"]
  BY DEF Init, TxInit
<1>3. \A c \in Connections : Knows(c)
  BY <1>2 DEF Knows, HoldsProvider, Counted, HoldsModel, HoldsProviderOfModel, Unique,
              HoldsDefaults
<1>4. /\ providers = [p \in Providers |->
                        IF ~ empty /\ p \in StartProviders THEN "ENABLED" ELSE "absent"]
      /\ models = IF empty THEN [m \in Models |-> Deleted] ELSE StartModels
  BY <1>1 DEF CatalogInit
<1>5. CatalogTypeOK
  <2>1. Deleted \in ModelRecords
    BY DEF ModelRecords
  <2>2. models \in [Models -> ModelRecords]
    BY <1>4, <2>1, CatalogAssumption
  <2>3. providers \in [Providers -> States \cup {"absent"}]
    BY <1>4 DEF States
  <2>4. QED
    BY <1>1, <2>2, <2>3, CatalogAssumption DEF CatalogInit, CatalogTypeOK
<1>6. ModelsHaveProviders
  BY <1>4, CatalogAssumption DEF ModelsHaveProviders
<1>7. ModelNamesUnique
  BY <1>4, CatalogAssumption DEF ModelNamesUnique
<1>8. QED
  BY <1>3, <1>5, <1>6, <1>7 DEF CatalogInv

LEMMA CatalogHolds == Spec => []CatalogInv
BY CatalogBegins, StepKeepsCatalog, LocksExclude, PTL DEF Spec

\* No model belongs to a deleted provider and no enabled one to a disabled
\* provider, whatever is created, moved, enabled, disabled and deleted side by side:
\* the lock of the provider makes what was counted, and what was found, last until
\* the transaction commits.
THEOREM ModelsKeepProviders == Spec => []ModelsHaveProviders
<1>1. CatalogInv => ModelsHaveProviders
  BY DEF CatalogInv
<1>2. QED
  BY <1>1, CatalogHolds, PTL

\* No two models of a provider have the same name, though no index says so: who
\* gives a name has locked the provider before the search for the name.
THEOREM NamesStayUnique == Spec => []ModelNamesUnique
<1>1. CatalogInv => ModelNamesUnique
  BY DEF CatalogInv
<1>2. QED
  BY <1>1, CatalogHolds, PTL

\* The defaults name an enabled model of an enabled provider when they are
\* committed.
THEOREM DefaultsAreUsable == Spec => DefaultsUsableWhenSet
<1>1. TxInv /\ CatalogInv /\ [Next]_vars =>
        [defaults' \notin {defaults, NoDefault} =>
           /\ providers'[defaults'.provider] = "ENABLED"
           /\ models'[defaults'.model].status = "ENABLED"
           /\ models'[defaults'.model].provider = defaults'.provider]_vars
  <2> SUFFICES ASSUME TxInv, CatalogInv, Next, defaults' \notin {defaults, NoDefault}
               PROVE  /\ providers'[defaults'.provider] = "ENABLED"
                      /\ models'[defaults'.model].status = "ENABLED"
                      /\ models'[defaults'.model].provider = defaults'.provider
    OBVIOUS
  <2>1. PICK c \in Connections : CatalogStep(c)
    BY DEF Next, Deploy, ObjectsChange, DeployCipher, DeployCaps, Step, BeginRequest,
           RollbackRequest, catalogVars
  <2>2. UpdateTaskDefaults(c)
    BY <2>1 DEF CatalogStep, CreateProvider, LockProvider, CountLinkedModels, UpdateProvider,
         DeleteProvider, LockAllProviders, Rotate, FindProviderToTest, RecordTestResult,
         LockModel, EnsureProviderUsable, EnsureUniqueName, CreateModel, UpdateModel,
         DeleteModel, LockDefaultProvider, LockDefaultModel, ClearTaskDefaults, catalogVars
  <2>3. HoldsDefaults(c)
    BY DEF CatalogInv, Knows
  <2>4. /\ defaults' = [provider |-> request[c].provider, model |-> request[c].model]
        /\ providers' = providers /\ models' = models
        /\ Kind(c) = "setDefaults" /\ step[c] = "validated"
    BY <2>2 DEF UpdateTaskDefaults
  <2>5. QED
    BY <2>3, <2>4 DEF HoldsDefaults
<1>2. QED
  BY <1>1, LocksExclude, CatalogHolds, PTL DEF Spec, DefaultsUsableWhenSet

-----------------------------------------------------------------------------
(* The keys of providers *)

RotationKinds == ProviderWrites \cup {"rotateKeys"}

\* A rotation is alone with the providers, and until the processes know the key
\* of one that is over, nobody writes providers.
KeysInv ==
  /\ KeysUnderOneCipher
  /\ \A c, d \in Connections :
       Kind(c) = "rotateKeys" /\ d # c => Kind(d) \notin RotationKinds
  /\ (\E c \in Connections : Kind(c) \in RotationKinds) => \A p \in Live : apiKey[p] = cipher

\* What somebody does is what was begun, or nothing.
LEMMA KindsEnd ==
  ASSUME TxInv, NEW c \in Connections, NEW from, NEW to, TxMove(c, from, to),
         NEW d \in Connections, Kind(d)' \in RotationKinds
  PROVE  Kind(d) = Kind(d)'
<1>1. CASE d = c
  <2>1. (request'[c] = request[c] /\ step'[c] \in to) \/ TxIdle(c)'
    BY MoveGoesOn
  <2>2. QED
    BY <1>1, <2>1 DEF TxIdle, NoRequest, Kind, RotationKinds, ProviderWrites
<1>2. CASE d # c
  BY <1>2, MoveIsLocal DEF TxSame, Kind
<1>3. QED
  BY <1>1, <1>2

LEMMA EndedIsNobody ==
  ASSUME TxInv, NEW c \in Connections, End(c)
  PROVE  Kind(c)' = "none"
BY DEF End, Kind, NoRequest, TxInv, TxTypeOK

\* Keys and providers are left alone.
LEMMA SameKeys ==
  ASSUME KeysInv, UNCHANGED <<providers, apiKey, cipher>>,
         \A d \in Connections : Kind(d)' \in RotationKinds => Kind(d) = Kind(d)'
  PROVE  KeysInv'
<1>1. KeysUnderOneCipher' /\ Live' = Live
  BY DEF KeysInv, KeysUnderOneCipher, Live
<1>2. QED
  BY <1>1 DEF KeysInv, RotationKinds

LEMMA BeginKeepsKeys ==
  ASSUME TxInv, KeysInv, NEW c \in Connections, BeginRequest(c)
  PROVE  KeysInv'
<1>1. Begin(c, Admitted)
  BY DEF BeginRequest
<1>2. request'[c] \in Admitted /\ \A d \in Connections : d # c => TxSame(d)
  BY <1>1, BeginKeepsTx
<1>3. OutsideOfRotation(request'[c])
  BY <1>2 DEF Admitted
<1>4. \A d \in Connections : d # c => Kind(d)' = Kind(d)
  BY <1>2 DEF TxSame, Kind
<1>5. UNCHANGED <<providers, apiKey, cipher>>
  BY DEF BeginRequest, catalogVars
<1>6. KeysUnderOneCipher' /\ Live' = Live
  BY <1>5 DEF KeysInv, KeysUnderOneCipher, Live
<1>7. Kind(c)' \in RotationKinds =>
        ~ Paused /\ (Kind(c)' = "rotateKeys" => \A d \in Connections : Kind(d) \notin ProviderWrites)
  BY <1>3 DEF OutsideOfRotation, RotationKinds, ProviderWrites, Kind
<1>8. CASE Kind(c)' \in RotationKinds
  <2>1. (\A d \in Connections : Kind(d) # "rotateKeys") /\ \A p \in Live : apiKey[p] = cipher
    BY <1>7, <1>8 DEF Paused
  <2>2. \A p \in Live' : apiKey'[p] = cipher'
    BY <1>5, <1>6, <2>1
  <2>3. ASSUME NEW d \in Connections, NEW e \in Connections, Kind(d)' = "rotateKeys", e # d
        PROVE  Kind(e)' \notin RotationKinds
    BY <1>4, <1>7, <2>1, <2>3 DEF RotationKinds, ProviderWrites
  <2>4. QED
    BY <1>6, <2>2, <2>3 DEF KeysInv
<1>9. CASE Kind(c)' \notin RotationKinds
  BY <1>4, <1>5, <1>9, SameKeys
<1>10. QED
  BY <1>8, <1>9

\* A provider is written with the key of the processes.
LEMMA WritesKeepKeys ==
  ASSUME TxInv, CatalogInv, KeysInv, NEW c \in Connections,
         CreateProvider(c) \/ UpdateProvider(c) \/ DeleteProvider(c)
  PROVE  KeysInv'
<1> DEFINE r == request[c]
           w == r.provider
<1>1. /\ Kind(c) \in ProviderWrites /\ cipher' = cipher /\ End(c)
      /\ \A p \in Providers : p # w => providers'[p] = providers[p] /\ apiKey'[p] = apiKey[p]
  BY DEF CreateProvider, UpdateProvider, DeleteProvider, ProviderWrites, Commit, CatalogInv,
         CatalogTypeOK
<1>2. \A p \in Live : apiKey[p] = cipher
  BY <1>1 DEF KeysInv, RotationKinds
<1>3. cipher # "none"
  BY CatalogAssumption DEF CatalogInv, CatalogTypeOK
<1>4. w \in Providers
  BY <1>1, RequestIsTyped DEF ProviderWrites
<1>5. \/ providers'[w] # "absent" /\ apiKey'[w] = cipher
      \/ providers'[w] = "absent" /\ apiKey'[w] = "none"
  <2>1. CASE CreateProvider(c)
    <3>1. r.status \in States
      BY <2>1, RequestIsTyped DEF CreateProvider
    <3>2. providers'[w] = r.status /\ apiKey'[w] = cipher
      BY <1>4, <2>1 DEF CreateProvider, CatalogInv, CatalogTypeOK
    <3>3. QED
      BY <3>1, <3>2 DEF States
  <2>2. CASE UpdateProvider(c)
    <3>1. Asks(c, "status") => r.status \in States
      BY <2>2, RequestIsTyped DEF UpdateProvider
    <3>2. providers[w] # "absent"
      BY <2>2 DEF UpdateProvider, CatalogInv, Knows, HoldsProvider
    <3>3. apiKey[w] = cipher
      BY <1>2, <1>4, <3>2 DEF Live
    <3>4. /\ providers'[w] = IF Asks(c, "status") THEN r.status ELSE providers[w]
          /\ apiKey'[w] = IF Asks(c, "apiKey") THEN cipher ELSE apiKey[w]
      BY <1>4, <2>2 DEF UpdateProvider, CatalogInv, CatalogTypeOK
    <3>5. QED
      BY <3>1, <3>2, <3>3, <3>4 DEF States
  <2>3. CASE DeleteProvider(c)
    BY <1>4, <2>3 DEF DeleteProvider, CatalogInv, CatalogTypeOK
  <2>4. QED
    BY <2>1, <2>2, <2>3
<1>6. \A p \in Live' : apiKey'[p] = cipher'
  BY <1>1, <1>2, <1>5 DEF Live
<1>7. \A p \in Providers \ Live' : apiKey'[p] = "none"
  BY <1>1, <1>3, <1>5 DEF Live, KeysInv, KeysUnderOneCipher
<1>8. KeysUnderOneCipher'
  BY <1>1, <1>3, <1>6, <1>7 DEF KeysUnderOneCipher
<1>9. \A d \in Connections : Kind(d)' \in RotationKinds => Kind(d) = Kind(d)'
  <2>1. TxMove(c, {step[c]}, {})
    BY <1>1, EndIsMove
  <2>2. QED
    BY <2>1, KindsEnd
<1>10. QED
  BY <1>6, <1>8, <1>9 DEF KeysInv, RotationKinds

LEMMA RotationKeepsKeys ==
  ASSUME TxInv, CatalogInv, KeysInv, NEW c \in Connections, Rotate(c)
  PROVE  KeysInv'
<1> DEFINE r == request[c]
<1>1. /\ Kind(c) = "rotateKeys" /\ providers' = providers /\ End(c)
      /\ apiKey' = [p \in Providers |-> IF p \in Live THEN r.new ELSE "none"]
  BY DEF Rotate, Commit
<1>2. r.new # "none"
  BY <1>1, RequestIsTyped, CatalogAssumption
<1>3. Live' = Live /\ Live \subseteq Providers
  BY <1>1 DEF Live
<1>4. KeysUnderOneCipher'
  BY <1>1, <1>2, <1>3 DEF KeysUnderOneCipher
<1>5. \A d \in Connections : Kind(d)' \notin RotationKinds
  <2>1. TxMove(c, {step[c]}, {})
    BY <1>1, EndIsMove
  <2>2. \A d \in Connections : Kind(d)' \in RotationKinds => Kind(d) = Kind(d)'
    BY <2>1, KindsEnd
  <2>3. Kind(c)' = "none"
    BY <1>1, EndedIsNobody
  <2>4. \A d \in Connections : d # c => Kind(d) \notin RotationKinds
    BY <1>1 DEF KeysInv
  <2>5. QED
    BY <2>2, <2>3, <2>4 DEF RotationKinds, ProviderWrites
<1>6. QED
  BY <1>4, <1>5 DEF KeysInv, RotationKinds

LEMMA DeploymentKeepsKeys ==
  ASSUME TxInv, KeysInv, NEW k, DeployCipher(k)
  PROVE  KeysInv'
<1>1. \A c \in Connections : request'[c] = NoRequest
  BY DEF DeployCipher, txVars, TxInv, TxTypeOK
<1>2. \A c \in Connections : Kind(c)' \notin RotationKinds
  BY <1>1 DEF Kind, NoRequest, RotationKinds, ProviderWrites
<1>3. KeysUnderOneCipher'
  BY DEF DeployCipher, KeysInv, KeysUnderOneCipher, Live
<1>4. QED
  BY <1>2, <1>3 DEF KeysInv, RotationKinds

LEMMA StepKeepsKeys ==
  ASSUME TxInv, CatalogInv, KeysInv, [Next]_vars
  PROVE  KeysInv'
<1>1. ASSUME NEW c \in Connections, Step(c), ~ BeginRequest(c), UNCHANGED <<providers, apiKey, cipher>>
      PROVE  KeysInv'
  <2>1. \/ UNCHANGED txVars
        \/ TxMove(c, AllSteps, AllSteps)
        \/ TxMove(c, {step[c]}, {})
    <3>1. Begin(c, Admitted) => step[c] = "idle"
      BY DEF Begin
    <3>2. CASE RollbackRequest(c)
      BY <3>2, EndIsMove DEF RollbackRequest, Rollback
    <3>3. CASE ~ RollbackRequest(c)
      <4>1. step[c] # "idle" \/ UNCHANGED txVars
        BY <1>1, <3>3, UserMove, CatalogMove, MemberMove, AdmissionMove, AttemptMove,
           SettingMove, StartMove, MaintenanceMove, ScanMove
           DEF Step, TxMove, UserSteps, CatalogSteps, MemberSteps, AccessSteps, AdmissionSteps,
               ContextSteps, Executing, SettingSteps, StartSteps, MaintenanceSteps, ScanSteps
      <4>2. QED
        BY <1>1, <3>1, <4>1, StepIsMove, EndIsMove
    <3>4. QED
      BY <3>2, <3>3
  <2>2. \A d \in Connections : Kind(d)' \in RotationKinds => Kind(d) = Kind(d)'
    BY <2>1, KindsEnd DEF txVars, Kind
  <2>3. QED
    BY <1>1, <2>2, SameKeys
<1>2. ASSUME NEW c \in Connections, Step(c)
      PROVE  \/ BeginRequest(c)
             \/ CreateProvider(c) \/ UpdateProvider(c) \/ DeleteProvider(c) \/ Rotate(c)
             \/ UNCHANGED <<providers, apiKey, cipher>>
  BY <1>2 DEF Step, RollbackRequest, catalogVars, keyVars, CatalogStep, LockProvider,
              CountLinkedModels, LockAllProviders, FindProviderToTest, RecordTestResult,
              LockModel, EnsureProviderUsable, EnsureUniqueName, CreateModel, UpdateModel,
              DeleteModel, LockDefaultProvider, LockDefaultModel, UpdateTaskDefaults,
              ClearTaskDefaults
<1>3. ASSUME NEW c \in Connections, Step(c) PROVE KeysInv'
  BY <1>1, <1>2, <1>3, BeginKeepsKeys, WritesKeepKeys, RotationKeepsKeys
<1>4. CASE \E k \in CipherKeys : DeployCipher(k)
  BY <1>4, DeploymentKeepsKeys
<1>5. CASE ((\E n \in Caps : DeployCaps(n)) /\ UNCHANGED catalogVars) \/ ObjectsChange
           \/ UNCHANGED vars
  <2>1. UNCHANGED <<providers, apiKey, cipher>> /\ UNCHANGED request
    BY <1>5 DEF DeployCaps, ObjectsChange, vars, catalogVars, txVars
  <2>2. QED
    BY <2>1, SameKeys DEF Kind
<1>6. QED
  BY <1>3, <1>4, <1>5 DEF Next, Deploy

\* The keys of all live providers are encrypted under one key, and those of deleted
\* ones are erased, at any point of a rotation: the writes of providers pause from
\* its start until the processes are deployed with its key.
THEOREM KeysStayTogether == Spec => []KeysUnderOneCipher
<1>1. Init => KeysInv
  <2> SUFFICES ASSUME Init PROVE KeysInv
    OBVIOUS
  <2>1. PICK empty \in BOOLEAN : CatalogInit(empty)
    BY DEF Init
  <2>2. \A c \in Connections : Kind(c) = "none"
    BY DEF Init, TxInit, Kind, NoRequest
  <2>3. KeysUnderOneCipher
    BY <2>1, CatalogAssumption DEF CatalogInit, KeysUnderOneCipher, Live
  <2>4. QED
    BY <2>2, <2>3 DEF KeysInv, RotationKinds, ProviderWrites
<1>2. KeysInv => KeysUnderOneCipher
  BY DEF KeysInv
<1>3. QED
  BY <1>1, <1>2, StepKeepsKeys, LocksExclude, CatalogHolds, PTL DEF Spec

=============================================================================
