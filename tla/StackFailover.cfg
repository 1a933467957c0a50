CONSTANTS
  s1 = s1
  s2 = s2
  s3 = s3
  s4 = s4
  OrderedServerIds <- FourServers
  KindOf <- WireguardOpenVpnNone
  Preparable <- ButSecond
  kMaxAttempts = 4
  MaxClicks = 2
  SiteRouting = "VpnOnlyForwardSites"
  maxTun2SocksRetries = 1
  MaxEvents = 2
  Patient = TRUE
SPECIFICATION Spec
INVARIANTS TypeOK BackupAnnounced IdleScreenIdleProtocol ConnectedHasTunnel ScreenShowsState DnsRoutesOnlyWithTunnel DisconnectingCanEnd FailoverBounded LaunchedFromQueue
PROPERTIES OneFailureOneCandidate ErrorOnlyWhenExhausted
CHECK_DEADLOCK FALSE
CONSTRAINT FewInputs
