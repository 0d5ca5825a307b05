SPECIFICATION FairSpec
CONSTANTS
  Kinds <- BothSorts
  FormKinds <- OnlyForms
  MaxQuestions = 2
  MaxPaints = 1
  MaxUserEvents = 1
  MaxShown = 2
INVARIANTS
  TypeOK
  WindowsReady
  PaintedIsDrawn
  OrphansComeFromRepeats
PROPERTIES
  RdpThreadMovesOn
  ImplementsContract
CHECK_DEADLOCK FALSE
