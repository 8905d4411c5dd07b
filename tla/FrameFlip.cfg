CONSTANTS
  Handles = {h1}
  None = None
  MaxWindowId = 6
  MaxChannel = 24
  Codec = "RAW_BGRA"
  Hardware = FALSE
  MaxFramesInFlight = 2
  QueueCap = 4
  WireCap = 1
  MaxEdits = 4
  Sizes = {1, 2}
  Edits = {"show", "style"}
  Recycle = FALSE
  MaxPings = 0
  Leaves = FALSE
  AckChoices = {TRUE}
SPECIFICATION MirrorSpec
INVARIANT FrameFlipFollowed
CHECK_DEADLOCK FALSE
