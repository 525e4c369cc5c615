SPECIFICATION Spec
CONSTANTS
  Slots <- ThreeSlots
  Addresses = {a1, a2}
  NoTeam = NoTeam
  IDs = {i1, i2}
  NoID = NoID
  n1 = n1
  n2 = n2
  Names <- TwoNames
  NoName = NoName
  SavedName <- Whole
  Collisions = FALSE
SYMMETRY Memory
INVARIANT
  MembersReunite
