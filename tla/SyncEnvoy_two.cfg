\* Two Envoys of two nodes; a stream breaks once.
CONSTANTS
  Streams <- TwoStreams
  Nodes <- TwoNodes
  NodeOf <- EachItsNode
  MaxBreaks = 1
  Faults <- AllFaults
SPECIFICATION FairSpec
INVARIANTS
  TypeOK
  NoForgottenWatch
  SyncInv
PROPERTIES
  ImplementsProvisioning
  SecondInterruptEnds
