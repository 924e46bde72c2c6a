SPECIFICATION FairMapSpec
CONSTANTS
  Vertices = {"h1", "h2", "net"}
  Lines <- MCLines
  Terms <- MCTerms
  Positions = {0, 1, 2}
  MaxEvents = 2
  MaxBack = 1
INVARIANTS
  NothingStaysLit
  OneReplayer
PROPERTY ReplayEnds
