SPECIFICATION FairSpec
CONSTANTS
  NSlots = 2
  Addresses = {x1, x2}
  NoAddress = NoAddress
  KeyValues <- Spawners
INVARIANTS
  TypeOK
  LivingIsTracked
  FinalDeathOnce
PROPERTIES
  PerishIsFinal
  WavesEnd
CHECK_DEADLOCK FALSE
