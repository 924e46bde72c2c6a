SPECIFICATION Spec
CONSTANTS
  Filters = {"icmp", "ICMP"}
  SafeFilterName <- MCSafeFilterName
  MaxPackets = 3
  MaxBatches = 2
  MaxSeconds = 1
  MaxFaults = 2
INVARIANTS
  OneBatchPerFile
  MessageHasPacket
  UndamagedIsComplete
  FilesAreReadable
PROPERTY ClosedFilesAreFrozen
CHECK_DEADLOCK FALSE
