SPECIFICATION Spec
CONSTANTS
  w1 = w1
  w2 = w2
  NoWindow = NoWindow
  shift = shift
  g = g
  f = f
  u = u
  Windows = {w1, w2}
  Keys = {shift, g, f, u}
  Mask = shift
  Unmapped = {u}
  HotkeyOf <- MCHotkeyOf
  MaxQueue = 2
INVARIANTS
  NoKeyLeftDown
CHECK_DEADLOCK FALSE
