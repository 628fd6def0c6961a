SPECIFICATION SettledSpec
CONSTANTS
  p1 = p1
  p2 = p2
  p3 = p3
  d2 = d2
  d3 = d3
  q = q
  u1 = u1
  u2 = u2
  u3 = u3
  Users <- TwoUsers
  MaxKey = 2
  InitM = 2
  QueryMayFail = FALSE
  Procs <- PeerPair
  NoProc = NoProc
  Acct <- Accounts
  Pwd <- Secrets
  NoPwd = NoPwd
  NoUser = NoUser
  MaxFd = 2
  SockBuf = 2
  Splits <- PeerPair
  Peers <- OnePeer
  MaxSends = 1
  MayDie = TRUE
  Casts <- PeerCast
INVARIANTS
  DroppedLeavesGroup
CHECK_DEADLOCK FALSE
