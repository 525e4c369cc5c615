SPECIFICATION Spec
CONSTANTS
  Slots <- TwoSlots
  Addresses = {a1, a2, a3}
  NoTeam = NoTeam
  IDs = {i1, i2, i3}
  NoID = NoID
  n1 = n1
  n2 = n2
  Names <- TwoNames
  NoName = NoName
  SavedName <- Cut
  Collisions = TRUE
SYMMETRY Memory
INVARIANTS
  TypeOK
  MembersAgree
  DistinctParties
  RestoredToHisParty
PROPERTY
  LeaderStays
