SPECIFICATION Spec
CONSTANTS
  p1 = p1
  p2 = p2
  c1 = c1
  t1 = t1
  f1 = f1
  f2 = f2
  s1 = s1
  NoStore = NoStore
  ConfigStore = s1
  Procs <- MCOneProc
  Clients <- MCClients
  Tools <- MCTools
  Fields <- MCFields
  Stores <- MCStores
  StoreOf <- MCStoreOf
  Limit <- MCLimit1
  MaxRetries = 2
  Faults <- OnlyCrash
  MaxCrashes = 1
INVARIANTS
  PersistentBudgetHolds
