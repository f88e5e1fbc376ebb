\* Two backends, one of which may be counted twice.
CONSTANTS
  TrafficTypes <- OneType
  TLSTypes <- OneType
  Nbackends = 2
  Retries = 2
  Port = 2000
  ChildPort = 2000
  Faults <- Delivery
SPECIFICATION Spec
INVARIANT ReadyMeansAllBound
