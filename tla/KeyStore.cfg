SPECIFICATION ModeSpec
CONSTANTS
  u1 = u1
  u2 = u2
  u3 = u3
  Users <- ThreeUsers
  MaxKey = 4
  InitM = 2
  QueryMayFail = TRUE
INVARIANTS
  KeyStoreTypeOK
  RecordsAgree
  KeysUniqueWhenTidy
  AvailableUnownedWhenTidy
PROPERTIES
  AllocationIsStable
  TidyIsAllocator
