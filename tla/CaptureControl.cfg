SPECIFICATION ControlFairSpec
CONSTANTS
  Mixed = Mixed
  Nobody = Nobody
  r1 = r1
  r2 = r2
  Requests = {r1, r2}
  Filters <- MCFilters
  Hosts = {"a", "b"}
  Ports = {"53", "80"}
  RingCapacity = 2
  MaxFaults = 2
INVARIANTS
  InAgreement
  ReportedFilterIsApplied
PROPERTIES
  PutIsAnswered
  DisabledIsQuiet
