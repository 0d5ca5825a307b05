SPECIFICATION IdleSpec
CONSTANTS
  Intervals <- ShortIntervals
  Never <- BeforeStart
  MaxTime = 9
INVARIANTS
  FiresWhenQuiet
PROPERTIES
  OnlyWhenIdle
  ToggleRestores
CHECK_DEADLOCK FALSE
