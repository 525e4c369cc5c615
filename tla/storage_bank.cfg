SPECIFICATION FairSpec
CONSTANTS
  Groupables = {arrow}
  Plains = {sword}
  Potions = {mana}
  Tellers = {t1}
  NUM_MAX_STACK = 2
  STORAGE_MAX_SWIGS = 2
  STORAGE_MAX_ITEMS = 2
  STORAGE_DEFAULT_ITEMS = 2
  STORAGE_ITEMS_PER_MSG = 1
  STORAGE_MAX_TRANSFER = 1
  PotionSize = 2
  Start <- FirstCarried
  MaxCommands = 1
  MaxGranted = 1
INVARIANTS
  TypeOK
  UniqueIDs
  ClientHoldsPrefix
  OneDonePerSuccess
PROPERTIES
  WithinMax
  KeepsTheBooks
  ItemsGetShown
