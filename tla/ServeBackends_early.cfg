\* Nothing goes wrong: the parent is only slow to listen.
CONSTANTS
  TrafficTypes <- OneType
  TLSTypes <- OneType
  Nbackends = 1
  Retries = 1
  Port = 2000
  ChildPort = 2000
  Faults <- NoFaults
SPECIFICATION Spec
INVARIANT RefusedMeansNoParent
