SPECIFICATION Spec
CONSTANTS
  Players = {p1}
  Slots <- TwoSlots
  Chars = {c1, c2, c3}
  NoChar = NoChar
  Nowhere = Nowhere
  Blank = Blank
  Unreadable = {}
  Banned = {}
  AddCanFail = FALSE
  NetCanFail = TRUE
  InitCanFail = FALSE
  MaxReqs = 5
  MaxJoins = 2
  MaxMaps = 0
SYMMETRY Guids
INVARIANTS
  TypeOK
  PlayedCharIsTheSlots
  StoreKeepsIdentity
CHECK_DEADLOCK FALSE
