SPECIFICATION FairSpec
CONSTANTS
  old = old
  new = new
  Pids = {p1, p2}
  Blobs = {old, new}
  Size <- MCSize
  None = None
INVARIANTS LoadsWholeShim LosesNoRace
PROPERTIES CacheKeepsShim ExtractEnds
