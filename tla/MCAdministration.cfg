\* Two connections, three transactions, every kind of request in one of the workloads.
CONSTANTS
  u1 = u1
  u2 = u2
  u3 = u3
  admin = admin
  seller = seller
  custom = custom
  extra = extra
  p1 = p1
  p2 = p2
  m1 = m1
  m2 = m2
  n1 = n1
  n2 = n2
  t1 = t1
  t2 = t2
  t3 = t3
  Connections = {c1, c2}
  Workloads <- AllWorkloads
  MaxTransactions = 3
  Users <- Three
  Administrators <- Two
  Admin = admin
  Seller = seller
  SellerPermissions = {"task:create"}
  Migrations <- MCMigrations
  CustomRoles = {custom, extra}
  StartRoles = {custom}
  Permissions = {"task:create", "audit:read"}
  TaskCreate = "task:create"
  Providers = {p1, p2}
  Models = {m1, m2}
  Names = {n1, n2}
  StartProviders = {p1, p2}
  StartModels <- MCStartModels
  NoDefault = NoDefault
  Features = {"generate", "edit", "multi reference", "n"}
  CipherKeys = {"k1", "k2"}
  StartCipher = "k1"
  Members <- Two
  StartMembers <- MCStartMembers
  Tasks = {t1, t2, t3}
  StartTasks <- MCStartTasks
  MaxAttempts = 2
  GeminiProviders = {p2}
  MaxImages = 2
  Usages <- MCUsages
  Pricings <- MCPricings
  Undecodable = Undecodable
  Places = 1
  MaxScale = 2
  MaxDigits = 3
  MaxUnitPrice = 5
  MaxCost = 99
  Clamped = {"upload"}
  Refused = {"concurrency"}
  Optional = {"retention"}
  Fields = {"a", "b"}
  Caps = {1, 2}
  FirstLimit = 1
  MaxOptional = 3
  LastTenant = 3
  FirstTenant = 2
  Retaining = {1, 3}
  Broken = {2}
  BatchLimit = 1
  StoredObjects <- MCObjects
  Referenced <- MCReferenced
SPECIFICATION Spec
INVARIANTS
  AdminTypeOK
  AdminRemains
  ModelsHaveProviders
  ModelNamesUnique
  OutputsAreLedgered
  CostsAreNearest
  TemporaryImagesRemoved
  LimitsWithinCap
  KeysUnderOneCipher
  StartsRecoverOrFailClosed
  NobodyIsPassedOver
  ScanReachesEveryOrphan
PROPERTIES
  GrantsAreLive
  DefaultsUsableWhenSet
  ValidatedContextIsUsable
  GrantsAreNotRevived
CHECK_DEADLOCK FALSE
