\* Two backends of each type, two starts, both proxies at their default ports.
CONSTANTS
  Nbackends = 2
  HTTPPort = 8080
  HTTPSPort = 8443
  HTTPSPortSNIOnly = 9443
  Bindings <- SomeBindings
  StrayBundles = {}
  MaxStarts = 2
SPECIFICATION FairSpec
INVARIANTS
  TypeOK
  ReachesNamedBackend
  EncryptionKept
  ReencryptTrusted
  WrongOnlyByRestart
  RouteInv
PROPERTIES
  FreshIsServed
