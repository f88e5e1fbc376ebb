\* Two backends, under the fairness of the code.
CONSTANTS
  TrafficTypes <- TwoTypes
  TLSTypes <- OneTLSType
  Nbackends = 1
  Retries = 1
  Port = 2000
  ChildPort = 2000
  Faults <- Deaths
SPECIFICATION FairSpec
PROPERTIES
  DeadBackendStopsAll
  InterruptStopsAll
  RequestAnswered
  ImplementsRendezvous
