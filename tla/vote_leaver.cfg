SPECIFICATION Spec
CONSTANTS
  Slots <- FirstSlots
  SteamIDs = {i1, i2, i3}
  NoID = NoID
  VoteBits = 8
  VoteTime = 1
  Pause = 1
  MaxTime = 3
PROPERTY
  MajorityDecides
