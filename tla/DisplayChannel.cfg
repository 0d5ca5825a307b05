SPECIFICATION FairSpec
CONSTANTS
  w1 = w1
  w2 = w2
  d1 = d1
  d2 = d2
  small = small
  large = large
  Windows = {w1, w2}
  FirstWindow = w1
  Displays = {d1, d2}
  FirstDisplay = d1
  Sizes = {small, large}
  FirstSize = small
  NoLayout = NoLayout
  Torn = Torn
  MAX_RETRIES = 1
  MaxChanges = 2
INVARIANTS
  TypeOK
  SpreadKeepsMonitor
PROPERTIES
  ServerIsTold
  ResizingEnds
CHECK_DEADLOCK FALSE
