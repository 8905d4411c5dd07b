CONSTANTS
  Handles = {h1}
  None = None
  MaxWindowId = 6
  MaxChannel = 24
  Codec = "RAW_BGRA"
  Hardware = FALSE
  MaxFramesInFlight = 1
  QueueCap = 3
  WireCap = 1
  MaxEdits = 3
  Sizes = {1, 2}
  Edits = {"resize", "show", "paint"}
  Recycle = FALSE
  MaxPings = 0
  Leaves = TRUE
  AckChoices = {TRUE}
SPECIFICATION MirrorSpec
PROPERTIES Converges LeavingEnds
CHECK_DEADLOCK FALSE
