\* A test that outlasts the clock, so that only an interrupt ends it.
CONSTANTS
  Program = "test"
  Clients = 2
  Nrequests = 2
  Duration = 2
  Minute = 2
  MaxTime = 1
  MaxCount = 1
  Faults <- NoStall
SPECIFICATION FairSpec
PROPERTIES
  EveryRequestRuns
  ResultsTaken
  InterruptEndsTest
