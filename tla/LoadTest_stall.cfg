\* One client and a server that stops in the middle of a body.
CONSTANTS
  Program = "test"
  Clients = 1
  Nrequests = 1
  Duration = 1
  Minute = 1
  MaxTime = 1
  MaxCount = 1
  Faults <- OnlyStall
SPECIFICATION FairSpec
PROPERTY TestEnds
