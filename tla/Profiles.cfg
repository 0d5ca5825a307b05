SPECIFICATION Spec
CONSTANTS
  Typed <- MCTyped
  Names <- MCNames
  Blank = ""
  Trim <- MCTrim
  Paths = {"f"}
  NoLink = "none"
  Settings <- MCSettings
  Hostless <- MCHostless
  Reread <- MCReread
  Fields <- MCFields
  Presets = {"speed", "best"}
  Values <- MCValues
  OwnFields = {"quality", "shortcuts"}
  Taken <- MCTaken
  Forms <- MCForms
  Documents <- MCDocuments
  FileName <- MCFileName
  Numbered <- MCNumbered
  MaxForeign = 1
  MaxGestures = 5
  MaxFaults = 1
INVARIANTS
  TypeOK
  ListKept
  LinkedInStep
PROPERTIES
  ImplementsBook
  OthersKept
  ShownAsSaved
CHECK_DEADLOCK FALSE
