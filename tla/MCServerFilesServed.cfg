SPECIFICATION Spec
CONSTANTS
  w1 = w1
  s1 = s1
  s2 = s2
  h1 = h1
  h2 = h2
  NoHash = NoHash
  Writers <- MCWriters
  AuditFaults <- AnyFault
  MaxEntries = 5
  Servers <- MCServers
  Hashes <- MCHashes
  Deployments <- MCDeployments
  MaxWrites = 3
  Files <- MCFiles
  MaxRenewals = 1
  Setups <- MCSetups
INVARIANTS
  ServedIsCurrent
CHECK_DEADLOCK FALSE
