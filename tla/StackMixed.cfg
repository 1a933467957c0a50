CONSTANTS
  s1 = s1
  s2 = s2
  s3 = s3
  s4 = s4
  OrderedServerIds <- ThreeServers
  KindOf <- WireguardTwiceAndXray
  Preparable <- AllServers
  kMaxAttempts = 3
  MaxClicks = 1
  SiteRouting = "VpnAllExceptSites"
  maxTun2SocksRetries = 1
  MaxEvents = 1
  Patient = TRUE
SPECIFICATION FairSpec
INVARIANTS DnsRoutesOnlyWithTunnel ScreenShowsState
PROPERTIES BusyEnds
CHECK_DEADLOCK FALSE
