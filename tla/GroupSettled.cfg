SPECIFICATION SettledSpec
CONSTANTS
  p1 = p1
  p2 = p2
  p3 = p3
  d2 = d2
  d3 = d3
  q = q
  u1 = u1
  u2 = u2
  u3 = u3
  Users <- ThreeUsers
  MaxKey = 3
  InitM = 3
  QueryMayFail = TRUE
  Procs <- AllProcs
  NoProc = NoProc
  Acct <- Accounts
  Pwd <- Secrets
  NoPwd = NoPwd
  NoUser = NoUser
  MaxFd = 3
  SockBuf = 2
  Splits <- PeerPair
  Peers <- OnePeer
  MaxSends = 2
  MayDie = TRUE
  Casts <- EveryCast
INVARIANTS
  JoinedIsMember
  ScriptIsFollowed
  ActiveIsConnected
  OneConnPerModulus
  EveryConnWatched
CHECK_DEADLOCK FALSE
