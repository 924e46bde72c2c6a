SPECIFICATION FairSpec
CONSTANTS
  d1 = d1
  d2 = d2
  r1 = r1
  r2 = r2
  Devices = {d1, d2}
  Requests = {r1, r2}
  NameOf <- OwnName
  MaxFaults = 1
INVARIANTS
  NamesAreLinked
  ReadyMeansAttached
  RefreshAloneIsCurrent
PROPERTY RefreshRepairs
