CONSTANTS
  Handles = {h1}
  None = None
  MaxWindowId = 6
  MaxChannel = 24
  Codec = "H264"
  Hardware = TRUE
  MaxFramesInFlight = 1
  QueueCap = 2
  WireCap = 1
  MaxEdits = 4
  Sizes = {1, 3}
  Edits = {"resize", "show", "paint"}
  Recycle = FALSE
  MaxPings = 0
  Leaves = FALSE
  AckChoices = {TRUE, FALSE}
SPECIFICATION MirrorSpec
INVARIANTS  FrameIdsConsecutive
CHECK_DEADLOCK FALSE
