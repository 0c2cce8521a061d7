SPECIFICATION Spec
CONSTANTS
  c1 = c1
  c2 = c2
  c3 = c3
  t1 = t1
  t2 = t2
  j1 = j1
  j2 = j2
  NoToken = NoToken
  NoSession = NoSession
  NoPolicy = NoPolicy
  Calls <- MCCalls
  Tokens <- MCTokens
  LocalToken = t1
  AuthModes <- MCAuthModes
  Threads = 1
  MaxQueue = 0
  TTL = 0
  MaxClock = 1
  SessionFaults <- CallFaults
  Jobs <- MCJobs
  Payloads <- MCPayloads
  Datasets <- MCDatasets
  Size <- MCSize
  Policies <- MCPolicies
  Draw <- MCDraw
  One = 4
  FuelLimit = 400
  WorkerFaults <- JobFaults
INVARIANTS
  TypeOK
  RevokedNeverRuns
  NoLogicOnExpiredKey
  RecordTellsAnswer
  ExecutionsConclude
  AcceptedWasComputed
  HonestAnswersPass
  Reproducible
  CountsStayCounts
  NothingLeftBehind
SYMMETRY Perms
CHECK_DEADLOCK FALSE
