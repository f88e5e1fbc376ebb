\* gomb, with a minute shorter than the clock: two clients, two requests each.
CONSTANTS
  Program = "gomb"
  Clients = 2
  Nrequests = 2
  Duration = 2
  Minute = 1
  MaxTime = 2
  MaxCount = 3
  Faults <- AllFaults
SPECIFICATION Spec
INVARIANTS
  TypeOK
  RequestsConserved
  ReportAddsUp
PROPERTIES
  ImplementsClosedLoop
