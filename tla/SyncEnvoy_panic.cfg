\* One Envoy and nothing that goes wrong.
CONSTANTS
  Streams <- OneStream
  Nodes <- OneNode
  NodeOf <- TheNode
  MaxBreaks = 0
  Faults <- NoFaults
SPECIFICATION Spec
INVARIANT ConnectedIsKnown
