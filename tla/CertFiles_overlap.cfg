\* Two starts of serve-backends, a generator and a second serve-backends over
\* one directory.
CONSTANTS
  WriteOrder <- ThreeFiles
  DomainFile = "domain.pem"
  TLSKeyFile = "tls.key"
  Backends <- OneBackend
  Generators <- OneGenerator
  Strays <- OneStray
  StrayBundle <- ItsBundle
  MaxStarts = 2
  Faults <- Breaks
SPECIFICATION Spec
INVARIANTS
  TypeOK
  CompleteWhenQuiet
  OwnBundle
  LoadNeedsRewrite
  FetchOrder
  CertInv
CHECK_DEADLOCK FALSE
