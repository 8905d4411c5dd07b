SPECIFICATION BudgetSpec
CONSTANTS
  MaxInFlight = 3
  MaxFrameId = 7
INVARIANTS
  BudgetTypeOK
  InFlightNewest
  FramesConserved
  RestartForgets
PROPERTIES
  LateAckHarmless
  AckCumulative
