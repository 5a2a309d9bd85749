SPECIFICATION FairSpec
CONSTANTS
  Workers = {w1, w2}
  Owner = Owner
  Acceptor = Acceptor
  NoThread = NoThread
INVARIANTS SessionExclusive NoUseAfterFree CloseLeavesNothing EofAfterData
PROPERTIES StopsOnlyForCause CloseReturns ReportedDropStops
