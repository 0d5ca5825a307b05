SPECIFICATION Spec
CONSTANTS
  dib = dib
  html = html
  png = png
  bmp = bmp
  rich = rich
  Formats = {dib}
  Named = {}
  Mimes = {png, bmp}
  FormatsFor <- MCImageFormats
  MimesFor <- MCImageMimes
  NoFormat = NoFormat
  NoData = NoData
  MaxAttempts = 2
  MaxLists = 2
  MaxAsks = 1
  MaxPastes = 1
  MaxCopies = 1
INVARIANTS
  PasteIsServers
PROPERTIES
  BridgeMovesOn
CHECK_DEADLOCK FALSE
