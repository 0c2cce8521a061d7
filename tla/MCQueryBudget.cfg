SPECIFICATION Spec
CONSTANTS
  p1 = p1
  p2 = p2
  c1 = c1
  t1 = t1
  f1 = f1
  f2 = f2
  s1 = s1
  NoStore = NoStore
  ConfigStore = s1
  Procs <- MCProcs
  Clients <- MCClients
  Tools <- MCTools
  Fields <- MCFields2
  Stores <- MCStores
  StoreOf <- MCStoreOf
  Limit <- MCLimit1
  MaxRetries = 1
  Faults <- AllButRead
  MaxCrashes = 1
INVARIANTS
  TypeOK
  MutualExclusion
  NoFreeQuery
  BoundedOverrun
PROPERTIES
  ImplementsLedger
  OnlyResetForgives
SYMMETRY Perms
