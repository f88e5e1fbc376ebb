\* Two backends of one type that may each retry once.
CONSTANTS
  TrafficTypes <- OneType
  TLSTypes <- OneType
  Nbackends = 2
  Retries = 2
  Port = 2000
  ChildPort = 2000
  Faults <- Delivery
SPECIFICATION Spec
INVARIANTS
  TypeOK
  RegisteredCountsRequests
  MissingOnlyByRetry
  NoDenialWithoutRetry
  NoLateSender
  RegistrationInv
PROPERTIES
  ErrorReported
  ImplementsRegistration
