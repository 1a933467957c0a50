SPECIFICATION Spec
CONSTANTS
  Hosts = {h1}
  Sites = {net}
  Ranges = {net}
  Gateway = gw
  Options <- SomeOptions
  MaxFaults = 0
INVARIANT ListedSitesSealed
