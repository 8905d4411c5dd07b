CONSTANTS
  Ids = {1, 2, 3, 4}
  Titles = {t1}
  Geos = {g1}
  Flags = {"MINIMIZED"}
  Shows = {"NORMAL", "MINIMIZED"}
SPECIFICATION ModelSpec
INVARIANTS StackIsPermutation
PROPERTIES RestackPlaces
CHECK_DEADLOCK FALSE
