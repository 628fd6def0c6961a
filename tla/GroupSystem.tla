----------------------------- MODULE GroupSystem -----------------------------
(***************************************************************************)
(* GroupServer and its clients.  A process of Procs \ Peers runs the       *)
(* program of client/: Client::start is a script that sends one request,   *)
(* reads one message, decides by it what to send next, and ends in a loop  *)
(* that reads a rekeying message and a random number and decrypts.  Peers  *)
(* are clients of another make, of which nothing is known but that they    *)
(* send requests of the protocol; mem_leave is one only they send.         *)
(***************************************************************************)
EXTENDS GroupServer

CONSTANTS
  Peers,       \* the processes that do not run Client::start
  MaxSends,    \* bound: requests of a peer
  MayDie       \* whether a process can die

ASSUME GroupSystemAssumption ==
  /\ Peers \subseteq Procs
  /\ MaxSends \in Nat
  /\ MayDie \in BOOLEAN

VARIABLES
  phase,    \* the readFd of Client::start a process is in
  mod,      \* mod_
  cipher,   \* gk_cipher_, with the moduli it decrypts under
  gk,       \* gk_: the number of the group key, or Junk
  sends     \* the requests a peer has sent

Junk == -1

clientVars == <<phase, mod, cipher, gk, sends>>
sysVars    == <<serverVars, clientVars>>

Phases == {"off", "login", "register", "allocation", "mod", "mem_join",
           "rekeying", "randomNum", "peer", "ended"}
InLoop == {"rekeying", "randomNum"}

GroupSystemTypeOK ==
  /\ GroupServerTypeOK
  /\ phase \in [Procs -> Phases]
  /\ mod \in [Procs -> Nat]
  /\ cipher \in [Procs -> [num : Nat, for : SUBSET Keys]]
  /\ gk \in [Procs -> Nat \cup {Junk}]
  /\ sends \in [Procs -> Nat]

GroupSystemInit ==
  /\ GroupServerInit
  /\ phase = [p \in Procs |-> "off"]
  /\ mod = [p \in Procs |-> NoKey]
  /\ cipher = [p \in Procs |-> [num |-> 0, for |-> {}]]
  /\ gk = [p \in Procs |-> Junk]
  /\ sends = [p \in Procs |-> 0]

-----------------------------------------------------------------------------
(* The sockets of the clients.                                             *)

\* How the connection of a process that is gone ends.  It is reset when a
\* message has arrived and not been read; unread says that one is on its way
\* or has arrived.
Endings(unread) == IF unread THEN {"fin", "rst"} ELSE {"fin"}

\* The socket of p is closed, by the process or with it.
Disconnect(p, unread) ==
  /\ phase' = [phase EXCEPT ![p] = "ended"]
  /\ s2c' = [s2c EXCEPT ![p] = <<>>]
  /\ \E end \in Endings(unread) :
       /\ link' = [link EXCEPT ![p] = end]
       /\ c2s' = [c2s EXCEPT ![p] = IF end = "rst" THEN <<>> ELSE @]

\* A new process: Client::init connects and start sends its login.
Connect(p) ==
  /\ link[p] = "none"
  /\ link' = [link EXCEPT ![p] = "open"]
  /\ backlog' = Append(backlog, p)
  /\ phase' = [phase EXCEPT ![p] = IF p \in Peers THEN "peer" ELSE "login"]
  /\ c2s' = [c2s EXCEPT ![p] = IF p \in Peers THEN <<>> ELSE <<"login">>]
  /\ UNCHANGED <<keyVars, connVars, batch, passwd, s2c, mod, cipher, gk, sends>>

\* The process dies.
Die(p) ==
  /\ MayDie
  /\ link[p] = "open"
  /\ Disconnect(p, s2c[p] # <<>>)
  /\ UNCHANGED <<keyVars, connVars, batch, passwd, backlog, mod, cipher, gk, sends>>

-----------------------------------------------------------------------------
(* Client::start.                                                          *)

\* The message readFd returns.
Msg(p) == Head(s2c[p])

\* readFd returns to p, which is in the readFd named at.
ReadFd(p, at) ==
  /\ link[p] = "open" /\ phase[p] = at
  /\ s2c[p] # <<>>
  /\ UNCHANGED <<keyVars, connVars, batch, passwd, backlog, sends>>

\* The script goes on to the readFd named next, after writing requests.
Continue(p, requests, next) ==
  /\ s2c' = [s2c EXCEPT ![p] = Tail(@)]
  /\ c2s' = [c2s EXCEPT ![p] = @ \o requests]
  /\ phase' = [phase EXCEPT ![p] = next]
  /\ UNCHANGED link

Return(p) == Disconnect(p, Tail(s2c[p]) # <<>>)

ReadLogin(p) ==
  /\ ReadFd(p, "login")
  /\ CASE Msg(p).second = "bad" -> Continue(p, <<"register">>, "register")
       [] Msg(p).second = "pwd" -> Return(p)
       [] OTHER -> Continue(p, <<"allocation">>, "allocation")
  /\ UNCHANGED <<mod, cipher, gk>>

ReadRegister(p) ==
  /\ ReadFd(p, "register")
  /\ IF Msg(p).second = "bad" THEN Return(p) ELSE Continue(p, <<"allocation">>, "allocation")
  /\ UNCHANGED <<mod, cipher, gk>>

ReadAllocation(p) ==
  /\ ReadFd(p, "allocation")
  /\ IF Msg(p).second = "ok" THEN Continue(p, <<>>, "mod") ELSE Return(p)
  /\ UNCHANGED <<mod, cipher, gk>>

\* mpz_class throws when the text is not a number, and nothing catches it.
ReadMod(p) ==
  /\ ReadFd(p, "mod")
  /\ IF Msg(p).second = "number"
     THEN /\ mod' = [mod EXCEPT ![p] = Msg(p).num]
          /\ Continue(p, <<"mem_join">>, "mem_join")
     ELSE Return(p) /\ UNCHANGED mod
  /\ UNCHANGED <<cipher, gk>>

ReadMemJoin(p) ==
  /\ ReadFd(p, "mem_join")
  /\ IF Msg(p).second = "ok" THEN Continue(p, <<>>, "rekeying") ELSE Return(p)
  /\ UNCHANGED <<mod, cipher, gk>>

\* Another message than the one expected is logged and otherwise ignored.
ReadRekeying(p) ==
  /\ ReadFd(p, "rekeying")
  /\ cipher' = [cipher EXCEPT ![p] =
                  IF Msg(p).first = "rekeying" THEN [num |-> Msg(p).num, for |-> Msg(p).for] ELSE @]
  /\ Continue(p, <<>>, "randomNum")
  /\ UNCHANGED <<mod, gk>>

\* decrypt: the right key when the ciphertext covers the modulus and the
\* random number is the one it was made with.
Decrypt(p, r) ==
  IF r = cipher[p].num /\ mod[p] \in cipher[p].for THEN r ELSE Junk

ReadRandomNum(p) ==
  /\ ReadFd(p, "randomNum")
  /\ gk' = [gk EXCEPT ![p] =
              IF Msg(p).first = "randomNum" THEN Decrypt(p, Msg(p).num) ELSE Junk]
  /\ Continue(p, <<>>, "rekeying")
  /\ UNCHANGED <<mod, cipher>>

ClientStep(p) ==
  \/ ReadLogin(p) \/ ReadRegister(p) \/ ReadAllocation(p) \/ ReadMod(p)
  \/ ReadMemJoin(p) \/ ReadRekeying(p) \/ ReadRandomNum(p)

-----------------------------------------------------------------------------
(* Peers: they send what they like, and need not wait for an answer.       *)

PeerSends(p, r) ==
  /\ phase[p] = "peer" /\ link[p] = "open"
  /\ sends[p] < MaxSends
  /\ sends' = [sends EXCEPT ![p] = @ + 1]
  /\ c2s' = [c2s EXCEPT ![p] = Append(@, r)]
  /\ UNCHANGED <<keyVars, connVars, batch, passwd, socketVars, phase, mod, cipher, gk>>

PeerReads(p) ==
  /\ phase[p] = "peer" /\ link[p] = "open"
  /\ s2c[p] # <<>>
  /\ s2c' = [s2c EXCEPT ![p] = <<>>]
  /\ UNCHANGED <<keyVars, connVars, batch, passwd, link, backlog, c2s, clientVars>>

-----------------------------------------------------------------------------
Server == ServerStep /\ UNCHANGED clientVars

GroupSystemNext ==
  \/ Server
  \/ \E p \in Procs : Connect(p) \/ Die(p) \/ ClientStep(p)
  \/ \E p \in Peers : PeerReads(p) \/ \E r \in Requests : PeerSends(p, r)

GroupSystemSpec == GroupSystemInit /\ [][GroupSystemNext]_sysVars

(***************************************************************************)
(* The loop of the server never rests while epoll has something for it,    *)
(* and a client that is blocked in readFd returns once a message is there. *)
(* Nobody has to connect, and nobody has to die.                           *)
(***************************************************************************)
FairSystemSpec ==
  /\ GroupSystemSpec
  /\ WF_sysVars(Server)
  /\ \A p \in Procs : WF_sysVars(ClientStep(p)) /\ WF_sysVars(p \in Peers /\ PeerReads(p))

-----------------------------------------------------------------------------
(* Properties.                                                             *)

\* The Conns that serve process p.
ServedBy(p) == {f \in Fds : conn[f].proc = p}

\* No peer has connected: what the clients of the repository alone can do.
\* A peer can leave a Conn active that is closed (DealReadError), and join
\* with the modulus that Conn::init leaves from whoever had the descriptor
\* before; the next user of the descriptor is then taken for a member.
OnlyClients == \A p \in Peers : phase[p] = "off"

\* Nobody else has logged in to the account of p.
Alone(p) == \A o \in Procs \ {p} : Acct[o] = Acct[p] => phase[o] = "off"

(***************************************************************************)
(* server.cpp:59: who is in the active group and loses the connection is   *)
(* moved out of it.  Every modulus of the group belongs to a connection    *)
(* that is open and knows that it is active.                               *)
(***************************************************************************)
ActiveIsConnected ==
  OnlyClients =>
    \A k \in active : \E f \in Fds : Open(f) /\ conn[f].act /\ conn[f].mod = k

(***************************************************************************)
(* The same as far as the comment itself goes: no modulus stays in the     *)
(* group when the last connection that holds it is gone.                   *)
(***************************************************************************)
DroppedLeavesGroup ==
  \A k \in active : \E f \in Fds : Open(f) /\ conn[f].mod = k

(***************************************************************************)
(* A modulus is active through one connection: of several logins to one    *)
(* account the first to join is the member, and its end is the one that    *)
(* takes the modulus out of the group.                                     *)
(***************************************************************************)
OneConnPerModulus ==
  OnlyClients =>
    \A f, g \in Fds : f # g /\ conn[f].act /\ conn[g].act => conn[f].mod # conn[g].mod

(***************************************************************************)
(* A client that was told it has joined, and shares its account with       *)
(* nobody, is a member on all sides: its Conn is active, under the modulus *)
(* the client decrypts with, and that modulus is in the group, whoever     *)
(* else joins, leaves, dies or takes over a descriptor in the meantime.    *)
(***************************************************************************)
JoinedIsMember ==
  \A p \in Procs \ Peers : phase[p] \in InLoop /\ link[p] = "open" /\ Alone(p) =>
    \E f \in ServedBy(p) : conn[f].act /\ conn[f].mod = mod[p] /\ mod[p] \in active

(***************************************************************************)
(* A client reads the messages of its script in their order: the answer to *)
(* what it asked, then pairs of a rekeying message and its random number.  *)
(* A broadcast never overtakes an answer.                                  *)
(***************************************************************************)
ScriptIsFollowed ==
  OnlyClients =>
    \A p \in Procs \ Peers : phase[p] # "ended" /\ s2c[p] # <<>> =>
      /\ Head(s2c[p]).first = IF phase[p] = "register" THEN "login" ELSE phase[p]
      /\ phase[p] = "randomNum" => Head(s2c[p]).num = cipher[p].num

(***************************************************************************)
(* No connection is forgotten: each is watched by epoll or has its event   *)
(* in the batch, although every event disarms it and each path through the *)
(* handlers has to arm it again.                                           *)
(***************************************************************************)
EveryConnWatched ==
  \A f \in Fds : Open(f) => armed[f] # "none" \/ \E ev \in {"in", "out", "hup"} : <<f, ev>> \in batch

(***************************************************************************)
(* server.h:38: what is written for a member triggers a write event: a     *)
(* connection with output is watched for writing, or has an event in the   *)
(* batch.                                                                  *)
(***************************************************************************)
OutputIsWatched ==
  \A f \in Fds : Open(f) /\ conn[f].wbuf # <<>> =>
    armed[f] = "out" \/ link[conn[f].proc] \in {"fin", "rst"}
      \/ \E ev \in {"in", "out", "hup"} : <<f, ev>> \in batch

(***************************************************************************)
(* The connections a new group key is written to are the ones that can     *)
(* decrypt it: whoever has left or is gone is on neither list, and nobody  *)
(* who is in the group is missing from one (server.h:38).                  *)
(***************************************************************************)
NewKeyReachesMembers ==
  [][gen' # gen /\ OnlyClients =>
       rekey' = {conn'[f].mod : f \in {g \in Fds : conn'[g].wbuf # <<>>
                                                    /\ Last(conn'[g].wbuf) = RandomNum(gen')}}]_gen

(***************************************************************************)
(* Once the group stops changing, every client in it ends up with the      *)
(* group key of the server.                                                *)
(***************************************************************************)
GroupAgrees ==
  <>[](\A p \in Procs \ Peers : phase[p] \in InLoop /\ link[p] = "open" => gk[p] = gen)

(***************************************************************************)
(* Nobody waits for ever: a client that has started is in the group in the *)
(* end, or its script has ended.                                           *)
(***************************************************************************)
StartedIsServed ==
  \A p \in Procs \ Peers : phase[p] = "login" ~> phase[p] \in InLoop \cup {"ended"}
=============================================================================
