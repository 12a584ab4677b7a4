\* Two tests of two connections.
SPECIFICATION FairTesterSpec
CONSTANTS
  MaxTests = 2
  Conn = {x, y}
INVARIANTS
  TesterTypeOK
  TestsDontOverlap
  ProfileSound
PROPERTIES
  EndsOnStop
  StopsWithAddress
CHECK_DEADLOCK FALSE
