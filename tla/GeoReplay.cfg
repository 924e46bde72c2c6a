SPECIFICATION FairSpec
CONSTANTS
  Stamps = {1, 3}
  Window = 1
  MaxEvents = 2
  Modes = {"interval", "window"}
INVARIANTS
  ReplayIsOrderly
  PathsMatchPackets
PROPERTY EventuallyDone
