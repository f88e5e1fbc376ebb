\* Two Envoys with one node id; a stream breaks once; nobody interrupts.  Run
\* may then wait for ever for a type whose append was lost.
CONSTANTS
  Streams <- TwoStreams
  Nodes <- OneNode
  NodeOf <- SameNode
  MaxBreaks = 1
  Faults <- NoInterrupt
SPECIFICATION FairSpec
INVARIANTS
  LossNeedsOverlap
PROPERTIES
  AnswerSent
  SyncEnds
CHECK_DEADLOCK FALSE
