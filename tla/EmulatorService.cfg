SPECIFICATION ServiceSpec
CONSTANTS
  c1 = c1
  c2 = c2
  n1 = n1
  n2 = n2
  watcher = watcher
  other = other
  packets = packets
  Calls = {c1, c2}
  NodeList <- TwoNodes
  Filters = {"off", "icmp"}
  Off = "off"
  Sockets = {watcher, other, packets}
  KindOf <- Kind
  Concurrency = 1
  Nothing = Nothing
  MaxFaults = 1
SYMMETRY Symmetry
INVARIANTS
  SubscribersStay
  SniffersAreKept
  CallsAwaitDocker
PROPERTY
  SuccessIsEverywhere
CHECK_DEADLOCK FALSE
