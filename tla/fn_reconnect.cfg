SPECIFICATION FairSpec
CONSTANTS
  Players = {p1, p2}
  Slots <- OneSlot
  Chars = {c1, c2}
  NoChar = NoChar
  Nowhere = Nowhere
  Blank = Blank
  Unreadable = {c2}
  Banned = {p2}
  AddCanFail = TRUE
  NetCanFail = TRUE
  InitCanFail = TRUE
  MaxReqs = 3
  MaxJoins = 2
  MaxMaps = 1
INVARIANTS
  OneCallbackPerSlot
  ClientViewFresh
PROPERTIES
  OnlyCurlStrands
  LoadingResolves
CHECK_DEADLOCK FALSE
