--------------------------- MODULE MCGroupSystem ---------------------------
(* GroupSystem with a few processes and accounts.                          *)
EXTENDS GroupSystem, TLC

CONSTANTS p1, p2, p3, d2, d3, q, u1, u2, u3,
  Casts     \* for SettledSpec: who takes part, and who of them has joined

TwoProcs == {p1, p2}
AllProcs == {p1, p2, p3, d2, d3, q}
PeerPair == {q, p2}
NoPeers  == {}
OnePeer  == {q}
NoCasts  == {}

TwoUsers   == {u1, u2}
ThreeUsers == {u1, u2, u3}

\* p1, p2 and p3 have accounts of their own.  d2 and d3 log in to the one of
\* p1, d3 with a password of its own, and the peer q to u1 as well.
Accounts == [p \in Procs |-> CASE p = p2 -> u2 [] p = p3 -> u3 [] OTHER -> u1]
Secrets  == [p \in Procs |-> IF p = d3 THEN "guess" ELSE "secret"]

OwnAccounts == [all |-> {p1, p2, p3}, first |-> p1]
OneAccount  == [all |-> {p1, d2, d3}, first |-> p1]
WithPeer    == [all |-> {q, p2},      first |-> q]
EveryCast   == {OwnAccounts, OneAccount, WithPeer}
PeerCast    == {WithPeer}

(***************************************************************************)
(* A start from later on: every account is registered and owns a key, and  *)
(* the first of the cast has joined on descriptor 1 with modulus 1 and is  *)
(* alone in the group.  Who is not of the cast never connects.             *)
(***************************************************************************)
SettledFor(cast) ==
  LET first == cast.first
  IN  /\ userKey = CHOOSE k \in [Users -> 1..InitM] : k[Acct[first]] = 1 /\ IsInjective(k)
      /\ conn = [f \in Fds |->
                   IF f = 1
                   THEN [proc |-> first, user |-> Acct[first], mod |-> 1, act |-> TRUE,
                         rbuf |-> <<>>, wbuf |-> <<>>]
                   ELSE [proc |-> NoProc, user |-> NoUser, mod |-> NoKey, act |-> FALSE,
                         rbuf |-> <<>>, wbuf |-> <<>>]]
      /\ passwd = [u \in Users |-> Pwd[first]]
      /\ link = [p \in Procs |-> IF p = first THEN "open"
                                 ELSE IF p \in cast.all THEN "none" ELSE "closed"]
      /\ phase = [p \in Procs |-> IF p # first THEN "off"
                                  ELSE IF p \in Peers THEN "peer" ELSE "rekeying"]
      /\ mod = [p \in Procs |-> IF p = first THEN 1 ELSE NoKey]
      /\ cipher = [p \in Procs |-> IF p = first THEN [num |-> 1, for |-> {1}]
                                   ELSE [num |-> 0, for |-> {}]]
      /\ gk = [p \in Procs |-> IF p = first THEN 1 ELSE Junk]

SettledInit ==
  /\ \E cast \in Casts : SettledFor(cast)
  /\ dbKeys = 1..InitM /\ dbUsed = 1..InitM
  /\ told = userKey
  /\ up = TRUE
  /\ members = 1..InitM /\ available = {} /\ modProd = 1..InitM
  /\ active = {1} /\ activeProd = {1} /\ rekey = {1}
  /\ lowerBound = InitM /\ m = InitM
  /\ armed = [f \in Fds |-> IF f = 1 THEN "in" ELSE "none"]
  /\ batch = {} /\ gen = 1 /\ backlog = <<>>
  /\ c2s = [p \in Procs |-> <<>>] /\ s2c = [p \in Procs |-> <<>>]
  /\ sends = [p \in Procs |-> 0]

SettledSpec == SettledInit /\ [][GroupSystemNext]_sysVars
=============================================================================
