CONSTANTS
  Handles = {h1, h2}
  None = None
  MaxWindowId = 6
  MaxChannel = 24
  Codec = "RAW_BGRA"
  Hardware = FALSE
  MaxFramesInFlight = 1
  QueueCap = 2
  WireCap = 1
  MaxEdits = 3
  Sizes = {1, 2}
  Edits = {"title", "move", "resize", "show", "style", "paint"}
  Recycle = TRUE
  MaxPings = 1
  Leaves = FALSE
  AckChoices = {TRUE}
SPECIFICATION MirrorSpec
INVARIANTS MirrorTypeOK  DiffsAddUp LifecycleOrder NoFrameWhileMinimized
 
CHECK_DEADLOCK FALSE
