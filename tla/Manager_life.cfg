SPECIFICATION Spec
CONSTANTS
  h1 = h1
  h2 = h2
  s1 = s1
  s2 = s2
  NoHelper = NoHelper
  Helpers = {h1, h2}
  Sessions = {s1, s2}
  MaxManagers = 2
  MaxCloses = 1
  MaxKills = 1
INVARIANTS
  FailedWithItsHelper
PROPERTIES
  EveryLoginEnds
  QuitStopsHelper
CHECK_DEADLOCK FALSE
