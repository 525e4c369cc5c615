SPECIFICATION FairSpec
CONSTANTS
  Slots <- AndTheNinth
  SteamIDs = {i1, i2, i3}
  NoID = NoID
  VoteBits = 8
  VoteTime = 1
  Pause = 1
  MaxTime = 1
INVARIANT
  TypeOK
PROPERTIES
  BansTheAccused
  SettledMajorityDecides
  MajorityPrevails
  VoteEnds
