CONSTANTS
  Handles = {h1}
  None = None
  MaxWindowId = 6
  MaxChannel = 24
  Codec = "H264"
  Hardware = FALSE
  MaxFramesInFlight = 2
  QueueCap = 4
  WireCap = 1
  MaxEdits = 2
  Sizes = {1, 2}
  Edits = {"paint"}
  Recycle = FALSE
  MaxPings = 0
  Leaves = FALSE
  AckChoices = {TRUE}
SPECIFICATION MirrorSpec
PROPERTY AcceptedIsPolled
CHECK_DEADLOCK FALSE
