SPECIFICATION CipherSpec
CONSTANTS
  HashBits = 2
  InitM = 1
  MaxRows = 2
  MaxMembers = 4
  MaxActive = 46340
  EncSample <- SomeKeys
INVARIANTS
  CipherTypeOK
  MembersDecrypt
  KeyStoreView
PROPERTIES
  MasterKeyStable
CHECK_DEADLOCK FALSE
