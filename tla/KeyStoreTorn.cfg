SPECIFICATION ModeSpec
CONSTANTS
  u1 = u1
  u2 = u2
  u3 = u3
  Users <- TwoUsers
  MaxKey = 4
  InitM = 2
  QueryMayFail = FALSE
INVARIANT AvailableIsUnowned
