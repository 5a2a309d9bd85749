SPECIFICATION FairSpec
CONSTANTS
  Conns = {c1, c2}
INVARIANTS TypeOK NothingPublished NoneEscapesClose
PROPERTIES ResponseSurvivesEof CloseEndsServing
