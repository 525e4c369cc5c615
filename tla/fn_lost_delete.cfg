SPECIFICATION Spec
CONSTANTS
  Players = {p1}
  Slots <- OneSlot
  Chars = {c1}
  NoChar = NoChar
  Nowhere = Nowhere
  Blank = Blank
  Unreadable = {}
  Banned = {}
  AddCanFail = FALSE
  NetCanFail = TRUE
  InitCanFail = FALSE
  MaxReqs = 3
  MaxJoins = 1
  MaxMaps = 0
PROPERTY
  DeletedIsGone
CHECK_DEADLOCK FALSE
