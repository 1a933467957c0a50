CONSTANTS
  s1 = s1
  s2 = s2
  s3 = s3
  s4 = s4
  OrderedServerIds <- TwoServers
  KindOf <- OpenVpnEverywhere
  Preparable <- AllServers
  kMaxAttempts = 3
  MaxClicks = 1
  SiteRouting = "off"
  maxTun2SocksRetries = 1
  MaxEvents = 1
  Patient = TRUE
SPECIFICATION FairSpec
PROPERTIES BusyEnds
CHECK_DEADLOCK FALSE
