SPECIFICATION PageSpec
CONSTANTS
  Stamps = {1, 4}
  Window = 1
  MaxEvents = 2
  Modes = {"window", "single"}
  Filters = {"icmp"}
  Off = "off"
  JsonLists <- MCLists
  Speeds = {1, 2}
INVARIANTS
  PageIsOrderly
  FilesExcludeCapture
  CaptureIsShown
PROPERTY
  PageEnds
CHECK_DEADLOCK FALSE
