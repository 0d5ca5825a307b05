SPECIFICATION Spec
CONSTANTS
  w1 = w1
  w2 = w2
  w3 = w3
  Outside = Outside
  Windows = {w1, w2, w3}
  Rendered = {w1, w2}
  FirstWindow = w1
  WindowWidths = {4, 5}
  Depth = 4
  BarWidth = 4
  BarHeight = 3
  Peek = 1
  RevealZone = 1
  Step = 1
  MenuWidth = 3
  MenuHeight = 1
  Gap = 0
  left = left
  right = right
  NoButton = NoButton
  MouseButtons = {left, right}
  PartAt <- MCPartAt
SYMMETRY Buttons
INVARIANTS
  BarInPlace
  LeftMeansHidden
PROPERTIES
  StaysUnderPointer
  DismissFiresNothing
CHECK_DEADLOCK FALSE
