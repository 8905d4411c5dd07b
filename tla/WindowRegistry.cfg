SPECIFICATION RegistrySpec
CONSTANTS
  Handles = {h1, h2, h3}
  MaxWindowId = 6
  MaxChannel = 20
INVARIANTS
  RegistryTypeOK
  MapsInverse
  IdsNeverReused
  ChannelsConserved
PROPERTY
  TrackedStable
