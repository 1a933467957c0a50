CONSTANTS
  s1 = s1
  s2 = s2
  s3 = s3
  s4 = s4
  OrderedServerIds <- TwoServers
  KindOf <- WireguardEverywhere
  Preparable <- AllServers
  kMaxAttempts = 3
  MaxClicks = 2
  SiteRouting = "off"
  maxTun2SocksRetries = 1
  MaxEvents = 1
  Patient = TRUE
SPECIFICATION Spec
INVARIANTS ClosedStaysClosed
CHECK_DEADLOCK FALSE
