CONSTANTS
  Hosts = {h1, h2}
  Sites = {}
  Ranges = {}
  MAX_CONNECTION_RETRY = 2
  MaxAsked = 3
  MaxFaults = 1
SPECIFICATION Spec
INVARIANTS TypeOK ClientAgrees NothingKept
PROPERTIES InitializationEnds
CHECK_DEADLOCK FALSE
CONSTRAINT ThirdOnlyIfTold
