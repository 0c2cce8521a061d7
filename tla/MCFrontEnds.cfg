SPECIFICATION Spec
CONSTANTS
  a = a
  b = b
  x = x
  y = y
  i1 = i1
  i2 = i2
  i3 = i3
  r1 = r1
  r2 = r2
  r3 = r3
  s1 = s1
  NoId = NoId
  NoAddress = NoAddress
  Tools <- TwoNames
  MaxPerWindow = 2
  GlobalMax = 3
  Window = 2
  Threshold = 2
  Cooldown = 2
  MaxClock = 4
  MaxFailures = 3
  Keys <- TwoNames
  maxRequests = 2
  windowMs = 2
  CleanupMs = 3
  Slots <- TwoSlots
  Ids <- ThreeIds
  Addresses <- TwoNames
  MaxPerIp = 1
  Timeout = 1
  Interval = 2
  Http1 <- ThreeRequests
  Http2 <- OneStream
  Auth = TRUE
  DrainTimeout = 2
INVARIANTS
  TypeOK
  RetryAfterIsExact
  OverrunIsConcurrent
  DrainWaits
PROPERTIES
  WindowsSlide
  TwiceTheLimit
  IdleGoes
  DrainEnds
CHECK_DEADLOCK FALSE
