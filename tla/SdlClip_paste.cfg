SPECIFICATION SafetySpec
CONSTANTS
  dib = dib
  html = html
  png = png
  bmp = bmp
  rich = rich
  Formats = {dib, html}
  Named = {html}
  Mimes = {png, bmp, rich}
  FormatsFor <- MCFormatsFor
  MimesFor <- MCMimesFor
  NoFormat = NoFormat
  NoData = NoData
  MaxAttempts = 2
  MaxLists = 2
  MaxAsks = 0
  MaxPastes = 2
  MaxCopies = 0
INVARIANTS
  CallsInStep
  PasteAsAsked
CHECK_DEADLOCK FALSE
