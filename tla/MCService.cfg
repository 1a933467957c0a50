CONSTANTS
  Hosts = {h1, h2}
  Sites = {net}
  Ranges = {net}
  Gateway = gw
  Options <- SomeOptions
  MaxFaults = 1
SPECIFICATION Spec
INVARIANTS TypeOK StrictSealed TunnelSealed ServerReachable NothingLeft RoutesFollowConnection
PROPERTIES ImplementsPolicy
SYMMETRY ServerSymmetry
VIEW VisibleState
