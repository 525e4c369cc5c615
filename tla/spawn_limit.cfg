SPECIFICATION FairSpec
CONSTANTS
  NSlots = 2
  Addresses = {x1, x2}
  NoAddress = NoAddress
  KeyValues <- Limited
PROPERTY
  DepletedGoesInactive
CHECK_DEADLOCK FALSE
