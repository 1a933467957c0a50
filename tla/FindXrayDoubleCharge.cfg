CONSTANTS
  s1 = s1
  s2 = s2
  s3 = s3
  s4 = s4
  OrderedServerIds <- ThreeServers
  KindOf <- XrayEverywhere
  Preparable <- AllServers
  kMaxAttempts = 3
  MaxClicks = 1
  SiteRouting = "off"
  maxTun2SocksRetries = 1
  MaxEvents = 1
  Patient = TRUE
SPECIFICATION Spec
PROPERTIES OneFailureOneCandidate
CHECK_DEADLOCK FALSE
