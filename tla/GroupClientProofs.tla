------------------------- MODULE GroupClientProofs --------------------------
(***************************************************************************)
(* The conversation of the server with the clients of the repository.      *)
(*                                                                         *)
(* First what holds as long as no peer has connected (OnlyClients).  The   *)
(* inductive invariant ClientInv follows one request and its answer:       *)
(* ServedRightly is the server's side of a connection, Conversing relates  *)
(* it to the client's, and ActiveAgrees ties the active Conns to the       *)
(* active group.                                                           *)
(*                                                                         *)
(* Then what holds of a client that has its account for itself, whoever    *)
(* else has connected: AloneInv, at the end of the module.                 *)
(***************************************************************************)
EXTENDS GroupSystemProofs

-----------------------------------------------------------------------------
(* The server's side of a connection of a client.                          *)

\* Nothing but the requests of the script is on its way, one at a time, and
\* none of a member; who is active, or about to be, holds the modulus on
\* record for its account; only a member has been sent a group key.
ServedRightly(f) ==
  LET c == conn[f]  p == conn[f].proc
  IN  /\ c.user \in {NoUser, Acct[p]}
      /\ c.rbuf \in {<<>>, <<Part>>}
      /\ c2s[p] \in {<<>>, <<"login">>, <<"register">>, <<"allocation">>, <<"mem_join">>}
      /\ c2s[p] # <<>> => ~c.act
      /\ c.act \/ c2s[p] = <<"mem_join">> => c.mod = userKey[Acct[p]] /\ c.mod # NoKey
      /\ <<f, "in">> \in batch => ~c.act
      /\ ~c.act => \A i \in 1..Len(c.wbuf) : c.wbuf[i].first # "randomNum"

\* A Conn that is closed.
Idle(f) == ~conn[f].act /\ conn[f].wbuf = <<>>

\* The active Conns and the active moduli are the same.
ActiveAgrees ==
  /\ \A f \in Fds : conn[f].act => conn[f].mod \in active
  /\ \A k \in active : \E f \in Fds : conn[f].act /\ conn[f].mod = k
  /\ \A f, g \in Fds : conn[f].act /\ conn[g].act /\ conn[f].mod = conn[g].mod => f = g

(* The client's side: ph is the readFd it is in, out what the server has   *)
(* written and it has not read, req what it has sent and was not read.     *)

Scripted == {"login", "register", "allocation", "mod", "mem_join", "rekeying", "randomNum"}
Joins    == {"mem_join", "rekeying", "randomNum"}

\* The message read next is the one the script expects; num is the number
\* of the ciphertext read last.
Fits(ph, num, msg) ==
  /\ msg.first = IF ph = "register" THEN "login" ELSE ph
  /\ ph = "mod" => msg.second = "number"
  /\ ph = "randomNum" => msg.num = num

\* What comes after a message, and what is never the last one.
Follows(a, b) ==
  \/ a.first = "allocation" /\ a.second = "ok" /\ b.first = "mod" /\ b.second = "number"
  \/ a.first = "mem_join" /\ a.second = "ok" /\ b.first = "rekeying"
  \/ a.first = "rekeying" /\ b.first = "randomNum" /\ b.num = a.num
  \/ a.first = "randomNum" /\ b.first = "rekeying"
Complete(a) == a.first # "rekeying" /\ ~(a.first = "allocation" /\ a.second = "ok")

Chain(out) ==
  /\ \A i \in 1..(Len(out) - 1) : Follows(out[i], out[i + 1])
  /\ out # <<>> => Complete(out[Len(out)])

\* The script and the server are at the same place.
InStep(ph, req, num, out) ==
  /\ ph \in Scripted
  /\ req # <<>> => out = <<>> /\ req = <<ph>>
  /\ out = <<>> /\ req = <<>> => ph = "rekeying"
  /\ out # <<>> => Fits(ph, num, out[1])
  /\ Chain(out)

\* They agree about the modulus: own is the client's, k the one of the Conn
\* and key the one on record.
Holds(ph, own, k, key, out) ==
  /\ \A i \in 1..Len(out) : out[i].first = "mod" => out[i].num = k /\ k = key /\ k # NoKey
  /\ ph \in Joins => own = k /\ k = key /\ k # NoKey

\* Who is active has asked to join, and the last it is sent is a key.
Settled(ph, out) ==
  /\ ph \in Joins
  /\ out # <<>> => out[Len(out)].first = "randomNum"

\* It was told that it has joined, or is about to be.
Joined(ph, out) ==
  ph \in InLoop \/ (out # <<>> /\ out[1].first = "mem_join" /\ out[1].second = "ok")

Out(f) == s2c[conn[f].proc] \o conn[f].wbuf

Conversing(p, c, out) ==
  /\ InStep(phase[p], c2s[p], cipher[p].num, out)
  /\ Holds(phase[p], mod[p], c.mod, userKey[Acct[p]], out)
  /\ c.act => Settled(phase[p], out)
  /\ Alone(p) /\ Joined(phase[p], out) => c.act

ConnInv(f) ==
  /\ ServedRightly(f)
  /\ link[conn[f].proc] = "open" => Conversing(conn[f].proc, conn[f], Out(f))

\* What holds of the sockets whoever has connected.
LinksAgree ==
  /\ \A p \in Procs : link[p] = "open" <=> phase[p] \notin {"off", "ended"}
  /\ \A p \in Procs : link[p] = "none" => s2c[p] = <<>>
  /\ \A f \in Fds : <<f, "hup">> \in batch => Gone(conn[f].proc)
  /\ \A p \in Procs : phase[p] = "peer" => p \in Peers

\* A client in the backlog has sent its login and not been answered.
WaitersWait ==
  \A p \in Procs \ Peers : Waiting(p) =>
    /\ s2c[p] = <<>> /\ c2s[p] \in {<<>>, <<"login">>}
    /\ link[p] = "open" => phase[p] = "login" /\ c2s[p] = <<"login">>

ClientInv ==
  /\ \A f \in Fds : IF Open(f) THEN ConnInv(f) ELSE Idle(f)
  /\ ActiveAgrees

\* Everything that is known of a state.
KnownInv == TypeInv /\ KeyInv /\ ConnsDiffer /\ LinksAgree /\ WaitersWait

-----------------------------------------------------------------------------
(* The sockets, whoever has connected.                                     *)

\* What a handler of f does to the sockets: nothing to those of others, and
\* the connection of f changes its state only when its process is gone.
LEMMA HandlerSockets ==
  ASSUME TypeInv, ConnsDiffer, LinksAgree, NEW f \in Fds, DealRead(f) \/ DealWrite(f) \/ DealHup(f)
  PROVE  /\ Open(f) /\ conn[f].proc \in Procs
         /\ \A q \in Procs : q # conn[f].proc =>
              link'[q] = link[q] /\ s2c'[q] = s2c[q] /\ c2s'[q] = c2s[q]
         /\ \/ link'[conn[f].proc] = link[conn[f].proc]
            \/ Gone(conn[f].proc) /\ link'[conn[f].proc] \in {"rst", "closed"}
         /\ \E ev \in Events : <<f, ev>> \in batch /\ batch' = batch \ {<<f, ev>>}
         /\ backlog' = backlog
<1> DEFINE p == conn[f].proc
           Goal == /\ \A q \in Procs : q # conn[f].proc =>
                        link'[q] = link[q] /\ s2c'[q] = s2c[q] /\ c2s'[q] = c2s[q]
                   /\ \/ link'[conn[f].proc] = link[conn[f].proc]
                      \/ Gone(conn[f].proc) /\ link'[conn[f].proc] \in {"rst", "closed"}
                   /\ backlog' = backlog
<1>1. /\ GroupServerTypeOK /\ link \in [Procs -> Links] /\ c2s \in [Procs -> Seq(Requests)]
      /\ s2c \in [Procs -> Seq(Messages)]
  BY DEF TypeInv, GroupSystemTypeOK, GroupServerTypeOK
<1>2. PICK ev \in Events : <<f, ev>> \in batch /\ batch' = batch \ {<<f, ev>>}
  BY DEF DealRead, DealReadError, DealReadPart, OnReadUserVerify, OnReadAllocation, OnReadMemberJoin,
         OnReadMemberLeave, OnReadError, DealReadDamaged, DealWrite, DealHup, Received, Event, Events
<1>3. Open(f) /\ p \in Procs
  BY <1>1, <1>2, ConnTypes DEF TypeInv, BatchIsOpen
<1>4. ASSUME NEW r, Received(f, r)
      PROVE  Goal
  BY <1>1, <1>3, <1>4 DEF Received, socketVars
<1>5. ASSUME DealReadPart(f) PROVE Goal
  BY <1>1, <1>5 DEF DealReadPart, socketVars
<1>6. ASSUME CloseSocket(f), Gone(p)
      PROVE  Goal
  BY <1>1, <1>3, <1>6 DEF CloseSocket
<1>7. ASSUME DealReadError(f) PROVE Goal
  BY <1>6, <1>7 DEF DealReadError, Gone
<1>8. ASSUME DealHup(f) PROVE Goal
  <2>1. <<f, "hup">> \in batch /\ CloseSocket(f)
    BY <1>8 DEF DealHup, Event
  <2> QED
    BY <1>6, <2>1 DEF LinksAgree
<1>9. ASSUME DealWrite(f) PROVE Goal
  <2>1. CASE link[p] = "rst"
    BY <1>1, <1>3, <1>9, <2>1 DEF DealWrite, socketVars
  <2>2. CASE link[p] = "fin"
    BY <1>1, <1>3, <1>9, <2>2 DEF DealWrite, Gone
  <2>3. CASE link[p] \notin {"rst", "fin"}
    BY <1>1, <1>3, <1>9, <2>3 DEF DealWrite
  <2> QED
    BY <2>1, <2>2, <2>3
<1>10. ASSUME DealRead(f), ~DealReadError(f), ~DealReadPart(f)
       PROVE  \E r : Received(f, r)
  BY <1>10 DEF DealRead, OnReadUserVerify, OnReadAllocation, OnReadMemberJoin,
         OnReadMemberLeave, OnReadError, DealReadDamaged
<1> QED
  BY <1>2, <1>3, <1>4, <1>5, <1>7, <1>8, <1>9, <1>10

\* The server.
LEMMA LinksServer ==
  ASSUME TypeInv, TypeInv', ConnsDiffer, LinksAgree, Server
  PROVE  LinksAgree'
<1>1. /\ phase' = phase /\ link \in [Procs -> Links] /\ conn \in [Fds -> Conns] /\ link' \in [Procs -> Links]
      /\ GroupServerTypeOK /\ rekey' \in SUBSET Keys
  BY DEF Server, clientVars, TypeInv, GroupSystemTypeOK, GroupServerTypeOK, KeyStoreTypeOK
<1>2. CASE Wait
  <2>1. UNCHANGED <<conn, link, s2c>>
    BY <1>2 DEF Wait, socketVars
  <2>2. \A f \in Fds : <<f, "hup">> \in batch' => Gone(conn[f].proc)
    <3> SUFFICES ASSUME NEW f \in Fds, <<f, "hup">> \in batch' PROVE Gone(conn[f].proc)
      OBVIOUS
    <3>1. EventOf(f) = "hup"
      BY <1>2, WaitTypes DEF Events
    <3> QED
      BY <3>1 DEF EventOf, Gone
  <2> QED
    BY <1>1, <2>1, <2>2 DEF LinksAgree, Gone
<1>3. CASE DealListen
  <2>1. batch' \subseteq batch /\ UNCHANGED <<link, s2c>>
    BY <1>3 DEF DealListen, Event
  <2>2. \A f \in Fds : <<f, "hup">> \in batch => Gone(conn[f].proc) /\ conn'[f] = conn[f]
    BY <1>3, ListenTypes DEF LinksAgree, TypeInv, BatchIsOpen, Events
  <2> QED
    BY <1>1, <2>1, <2>2 DEF LinksAgree, Gone
<1>4. ASSUME NEW f \in Fds, DealRead(f) \/ DealWrite(f) \/ DealHup(f)
      PROVE  LinksAgree'
  <2> DEFINE p == conn[f].proc
  <2>1. /\ Open(f) /\ p \in Procs
        /\ \A q \in Procs : q # p => link'[q] = link[q] /\ s2c'[q] = s2c[q]
        /\ \/ link'[p] = link[p]
           \/ Gone(p) /\ link'[p] \in {"rst", "closed"}
    BY <1>4, HandlerSockets
  <2>2. PICK ev \in Events : <<f, ev>> \in batch /\ batch' = batch \ {<<f, ev>>}
    BY <1>4, HandlerSockets
  <2>3. link[p] \in {"open", "fin", "rst"}
    BY <2>1 DEF ConnsDiffer, Connected
  <2>4. \A q \in Procs : (link'[q] = "open" <=> link[q] = "open") /\ (link'[q] = "none" <=> link[q] = "none")
    BY <1>1, <2>1, <2>3 DEF Gone
  <2>5. \A q \in Procs : link'[q] = "none" => s2c'[q] = <<>>
    <3>1. \A q \in Procs : link[q] = "none" => q # p
      BY <2>3
    <3> QED
      BY <2>1, <2>4, <3>1 DEF LinksAgree
  <2>6. ASSUME NEW g \in Fds, <<g, "hup">> \in batch'
        PROVE  Gone(conn[g].proc)'
    <3>1. <<g, "hup">> \in batch
      BY <2>2, <2>6
    <3>2. g # f
      <4>1. g = f => ev = "hup"
        BY <2>2, <3>1 DEF TypeInv, BatchIsOpen, Events
      <4> QED
        BY <2>2, <2>6, <4>1
    <3>3. Open(g) /\ Gone(conn[g].proc)
      BY <3>1 DEF TypeInv, BatchIsOpen, Events, LinksAgree
    <3>4. conn[g].proc \in Procs /\ conn[g].proc # p
      BY <1>1, <2>1, <3>2, <3>3, ConnTypes DEF ConnsDiffer
    <3>5. conn'[g].proc = conn[g].proc
      BY <1>1, <1>4, <3>2, EventHandled DEF Handled
    <3> QED
      BY <2>1, <3>3, <3>4, <3>5 DEF Gone
  <2> QED
    BY <1>1, <2>4, <2>5, <2>6 DEF LinksAgree
<1> QED
  BY <1>2, <1>3, <1>4 DEF Server, ServerStep

\* The processes.
LEMMA LinksClients ==
  ASSUME TypeInv, LinksAgree, ConnsDiffer, NEW p \in Procs,
         Connect(p) \/ Die(p) \/ ClientStep(p) \/ PeerReads(p) \/ \E r \in Requests : PeerSends(p, r)
  PROVE  LinksAgree'
<1>1. /\ phase \in [Procs -> Phases] /\ link \in [Procs -> Links] /\ s2c \in [Procs -> Seq(Messages)]
      /\ GroupServerTypeOK
  BY DEF TypeInv, GroupSystemTypeOK, GroupServerTypeOK
<1>2. UNCHANGED <<conn, batch>>
  BY ClientLeaves DEF Connect, Die, PeerReads, PeerSends, connVars
<1>3. \A f \in Fds : <<f, "hup">> \in batch => conn[f].proc \in Procs
  BY <1>1, ConnTypes DEF TypeInv, BatchIsOpen, Events
<1>4. CASE Connect(p)
  <2>1. /\ link' = [link EXCEPT ![p] = "open"] /\ link[p] = "none" /\ s2c' = s2c
        /\ phase' = [phase EXCEPT ![p] = IF p \in Peers THEN "peer" ELSE "login"]
    BY <1>4 DEF Connect
  <2>2. \A f \in Fds : <<f, "hup">> \in batch' => Gone(conn[f].proc)'
    BY <1>1, <1>2, <1>3, <2>1 DEF LinksAgree, Gone
  <2> QED
    BY <1>1, <2>1, <2>2 DEF LinksAgree
<1>5. CASE PeerReads(p) \/ \E r \in Requests : PeerSends(p, r)
  <2>1. link' = link /\ phase' = phase /\ link[p] = "open" /\ \A q \in Procs : q # p => s2c'[q] = s2c[q]
    BY <1>1, <1>5 DEF PeerReads, PeerSends, clientVars, socketVars
  <2> QED
    BY <1>1, <1>2, <2>1 DEF LinksAgree, Gone
<1>6. CASE Die(p) \/ ClientStep(p)
  <2>1. link[p] = "open" /\ phase[p] # "off"
    BY <1>6, ClientLeaves DEF LinksAgree, Die
  <2>2. /\ \A q \in Procs : q # p => link'[q] = link[q] /\ phase'[q] = phase[q] /\ s2c'[q] = s2c[q]
        /\ \/ link'[p] = "open" /\ phase'[p] \in Phases \ {"off", "peer", "ended"}
           \/ link'[p] \in {"fin", "rst"} /\ phase'[p] = "ended"
    <3>1. ASSUME NEW unread, Disconnect(p, unread)
          PROVE  <2>2
      BY <1>1, <3>1 DEF Disconnect, Endings
    <3>2. ASSUME NEW requests, NEW next \in Phases \ {"off", "peer", "ended", "login"},
                 Continue(p, requests, next)
          PROVE  <2>2
      BY <1>1, <2>1, <3>2 DEF Continue
    <3> QED
      BY <1>6, <3>1, <3>2, ClientGoesOn DEF Die, Return
  <2>3. \A q \in Procs : phase'[q] = "peer" => q \in Peers
    BY <2>2 DEF LinksAgree
  <2>4. \A f \in Fds : <<f, "hup">> \in batch' => Gone(conn[f].proc)'
    BY <1>2, <1>3, <2>1, <2>2 DEF LinksAgree, Gone
  <2>5. /\ \A q \in Procs : link'[q] = "open" <=> phase'[q] \notin {"off", "ended"}
        /\ \A q \in Procs : link'[q] = "none" => s2c'[q] = <<>>
    BY <2>2 DEF LinksAgree
  <2> QED
    BY <2>3, <2>4, <2>5 DEF LinksAgree
<1> QED
  BY <1>4, <1>5, <1>6

\* Every step.
LEMMA LinksStep ==
  ASSUME TypeInv, TypeInv', ConnsDiffer, LinksAgree, [GroupSystemNext]_sysVars
  PROVE  LinksAgree'
<1>1. CASE UNCHANGED sysVars
  BY <1>1 DEF LinksAgree, Gone, sysVars, serverVars, connVars, socketVars, clientVars
<1> QED
  BY <1>1, LinksServer, LinksClients, GroupSystemAssumption DEF GroupSystemNext

\* A client in the backlog stays where it is until it is accepted.
LEMMA WaitersStep ==
  ASSUME TypeInv, ConnsDiffer, LinksAgree, WaitersWait, [GroupSystemNext]_sysVars
  PROVE  WaitersWait'
<1>1. /\ phase \in [Procs -> Phases] /\ link \in [Procs -> Links] /\ s2c \in [Procs -> Seq(Messages)]
      /\ c2s \in [Procs -> Seq(Requests)] /\ backlog \in Seq(Procs)
      /\ Peers \subseteq Procs
  BY GroupSystemAssumption DEF TypeInv, GroupSystemTypeOK, GroupServerTypeOK
<1> DEFINE Waits(p) == /\ s2c[p] = <<>> /\ c2s[p] \in {<<>>, <<"login">>}
                       /\ link[p] = "open" => phase[p] = "login" /\ c2s[p] = <<"login">>
<1>2. \A p \in Procs \ Peers : Waiting(p) => Waits(p)
  BY DEF WaitersWait
<1>3. SUFFICES \A p \in Procs \ Peers : Waiting(p)' => Waits(p)'
  BY DEF WaitersWait
<1>4. ASSUME backlog' = backlog,
             NEW q \in Procs, \A p \in Procs : p # q =>
               link'[p] = link[p] /\ phase'[p] = phase[p] /\ s2c'[p] = s2c[p] /\ c2s'[p] = c2s[p],
             q \in Peers \/ ~Waiting(q) \/ Waits(q)'
      PROVE  \A p \in Procs \ Peers : Waiting(p)' => Waits(p)'
  <2>1. \A p : Waiting(p)' <=> Waiting(p)
    BY <1>4 DEF Waiting
  <2> SUFFICES ASSUME NEW p \in Procs \ Peers, Waiting(p) PROVE Waits(p)'
    BY <2>1
  <2>2. CASE p = q
    BY <1>4, <2>2
  <2>3. CASE p # q
    BY <1>2, <1>4, <2>3
  <2> QED
    BY <2>2, <2>3
<1>5. ASSUME UNCHANGED <<backlog, link, phase, s2c, c2s>>
      PROVE  \A p \in Procs \ Peers : Waiting(p)' => Waits(p)'
  BY <1>2, <1>5 DEF Waiting
<1>6. CASE Server
  <2>1. phase' = phase
    BY <1>6 DEF Server, clientVars
  <2>2. CASE Wait
    BY <1>5, <2>1, <2>2 DEF Wait, socketVars
  <2>3. CASE DealListen
    BY <2>3, EmptyTypes DEF DealListen, Waiting
  <2>4. ASSUME NEW f \in Fds, DealRead(f) \/ DealWrite(f) \/ DealHup(f)
        PROVE  \A p \in Procs \ Peers : Waiting(p)' => Waits(p)'
    <3> DEFINE q == conn[f].proc
    <3>1. /\ Open(f) /\ q \in Procs /\ backlog' = backlog
          /\ \A p \in Procs : p # q => link'[p] = link[p] /\ s2c'[p] = s2c[p] /\ c2s'[p] = c2s[p]
      BY <2>4, HandlerSockets
    <3>2. ~Waiting(q)
      BY <3>1 DEF ConnsDiffer
    <3> HIDE DEF q
    <3> QED
      BY <1>4, <2>1, <3>1, <3>2
  <2> QED
    BY <1>6, <2>2, <2>3, <2>4 DEF Server, ServerStep
<1>7. ASSUME NEW q \in Procs, Connect(q)
      PROVE  \A p \in Procs \ Peers : Waiting(p)' => Waits(p)'
  <2>1. /\ backlog' = Append(backlog, q) /\ link[q] = "none" /\ s2c' = s2c
        /\ \A p \in Procs : p # q => link'[p] = link[p] /\ phase'[p] = phase[p] /\ c2s'[p] = c2s[p]
        /\ q \notin Peers => phase'[q] = "login" /\ c2s'[q] = <<"login">>
    BY <1>1, <1>7 DEF Connect
  <2>2. \A p : Waiting(p)' => Waiting(p) \/ p = q
    <3> DEFINE n == Len(backlog)
    <3>1. n \in Nat /\ Len(backlog') = n + 1 /\ backlog'[n + 1] = q /\ \A i \in 1..n : backlog'[i] = backlog[i]
      BY <1>1, <2>1, LenProperties
    <3> HIDE DEF n
    <3>2. \A i \in 1..Len(backlog') : i \in 1..n \/ i = n + 1
      BY <3>1
    <3> QED
      BY <3>1, <3>2 DEF Waiting, n
  <2>3. s2c[q] = <<>>
    BY <2>1 DEF LinksAgree
  <2> QED
    BY <1>2, <2>1, <2>2, <2>3
<1>8. ASSUME NEW q \in Procs, Die(q)
      PROVE  \A p \in Procs \ Peers : Waiting(p)' => Waits(p)'
  <2>1. /\ backlog' = backlog
        /\ \A p \in Procs : p # q =>
             link'[p] = link[p] /\ phase'[p] = phase[p] /\ s2c'[p] = s2c[p] /\ c2s'[p] = c2s[p]
        /\ s2c'[q] = <<>> /\ link'[q] # "open" /\ (c2s'[q] = c2s[q] \/ c2s'[q] = <<>>)
    BY <1>1, <1>8 DEF Die, Disconnect, Endings
  <2>2. q \in Peers \/ ~Waiting(q) \/ Waits(q)'
    BY <1>2, <2>1
  <2> QED
    BY <1>4, <2>1, <2>2
<1>9. ASSUME NEW q \in Procs, ClientStep(q)
      PROVE  \A p \in Procs \ Peers : Waiting(p)' => Waits(p)'
  <2>1. backlog' = backlog /\ s2c[q] # <<>>
    BY <1>9, ClientLeaves
  <2>2. \A p \in Procs : p # q =>
           link'[p] = link[p] /\ phase'[p] = phase[p] /\ s2c'[p] = s2c[p] /\ c2s'[p] = c2s[p]
    <3>1. ASSUME NEW unread, Disconnect(q, unread) PROVE <2>2
      BY <1>1, <3>1 DEF Disconnect
    <3>2. ASSUME NEW requests, NEW next, Continue(q, requests, next) PROVE <2>2
      BY <1>1, <3>2 DEF Continue
    <3> QED
      BY <1>9, <3>1, <3>2, ClientGoesOn DEF Return
  <2>3. q \in Peers \/ ~Waiting(q)
    BY <1>2, <2>1
  <2> QED
    BY <1>4, <2>1, <2>2, <2>3
<1>10. ASSUME NEW q \in Peers, PeerReads(q) \/ \E r \in Requests : PeerSends(q, r)
       PROVE  \A p \in Procs \ Peers : Waiting(p)' => Waits(p)'
  <2>1. /\ backlog' = backlog /\ q \in Procs
        /\ \A p \in Procs : p # q =>
             link'[p] = link[p] /\ phase'[p] = phase[p] /\ s2c'[p] = s2c[p] /\ c2s'[p] = c2s[p]
    BY <1>1, <1>10 DEF PeerReads, PeerSends, clientVars, socketVars
  <2> QED
    BY <1>4, <2>1
<1>11. CASE UNCHANGED sysVars
  BY <1>5, <1>11 DEF sysVars, serverVars, socketVars, clientVars
<1> QED
  BY <1>6, <1>7, <1>8, <1>9, <1>10, <1>11 DEF GroupSystemNext

\* The sockets agree with the processes, whoever has connected.
LEMMA KnownHolds == GroupSystemSpec => []KnownInv
<1>1. GroupSystemInit => LinksAgree /\ WaitersWait
  <2> SUFFICES ASSUME GroupSystemInit PROVE LinksAgree /\ WaitersWait
    OBVIOUS
  <2>1. GroupServerInit /\ phase = [p \in Procs |-> "off"] /\ Len(<<>>) = 0
    BY EmptyTypes DEF GroupSystemInit
  <2>2. /\ link = [p \in Procs |-> "none"] /\ s2c = [p \in Procs |-> <<>>] /\ batch = {} /\ backlog = <<>>
    BY <2>1 DEF GroupServerInit
  <2> QED
    BY <2>1, <2>2 DEF LinksAgree, WaitersWait, Waiting
<1>2. TypeInv /\ TypeInv' /\ ConnsDiffer /\ LinksAgree /\ [GroupSystemNext]_sysVars => LinksAgree'
  BY LinksStep
<1>3. TypeInv /\ ConnsDiffer /\ LinksAgree /\ WaitersWait /\ [GroupSystemNext]_sysVars => WaitersWait'
  BY WaitersStep
<1> QED
  BY <1>1, <1>2, <1>3, KeyInvHolds, EachServedOnce, PTL DEF GroupSystemSpec, KnownInv

-----------------------------------------------------------------------------
(* Sequences of messages.                                                  *)

\* The first message of a conversation is read.
LEMMA ChainTail ==
  ASSUME NEW out \in Seq(Messages), out # <<>>, Chain(out)
  PROVE  /\ Tail(out) \in Seq(Messages) /\ Chain(Tail(out))
         /\ Tail(out) = <<>> => Complete(out[1])
         /\ Tail(out) # <<>> => /\ Follows(out[1], Tail(out)[1])
                                /\ Tail(out)[Len(Tail(out))] = out[Len(out)]
         /\ \A i \in 1..Len(Tail(out)) : i + 1 \in 1..Len(out) /\ Tail(out)[i] = out[i + 1]
<1> DEFINE n == Len(out)
           rest == Tail(out)
<1>1. n \in Nat \ {0} /\ rest \in Seq(Messages) /\ Len(rest) = n - 1 /\ \A i \in 1..Len(rest) : rest[i] = out[i + 1]
  BY EmptySeq, HeadTailProperties
<1>2. /\ \A i \in 1..(n - 1) : Follows(out[i], out[i + 1])
      /\ Complete(out[n])
  BY DEF Chain
<1>3. Chain(rest) <=> /\ \A i \in 1..(Len(rest) - 1) : Follows(rest[i], rest[i + 1])
                      /\ rest # <<>> => Complete(rest[Len(rest)])
  BY DEF Chain
<1>4. rest = <<>> <=> Len(rest) = 0
  BY <1>1, EmptySeq
<1> HIDE DEF n, rest
<1>5. \A i \in 1..Len(rest) : i + 1 \in 1..n /\ rest[i] = out[i + 1]
  BY <1>1
<1>6. ASSUME NEW i \in 1..(Len(rest) - 1)
      PROVE  Follows(rest[i], rest[i + 1])
  <2>1. /\ i + 1 \in 1..(n - 1) /\ i \in 1..Len(rest) /\ i + 1 \in 1..Len(rest)
        /\ (i + 1) + 1 = i + 2
    BY <1>1
  <2>2. rest[i] = out[i + 1] /\ rest[i + 1] = out[(i + 1) + 1]
    BY <1>5, <2>1
  <2>3. Follows(out[i + 1], out[(i + 1) + 1])
    BY <1>2, <2>1
  <2> QED
    BY <2>2, <2>3
<1>7. ASSUME rest # <<>>
      PROVE  rest[Len(rest)] = out[n] /\ rest[1] = out[2] /\ Follows(out[1], out[2])
  <2>1. Len(rest) \in 1..Len(rest) /\ Len(rest) + 1 = n /\ 1 \in 1..Len(rest) /\ 1 \in 1..(n - 1) /\ 1 + 1 = 2
    BY <1>1, <1>4, <1>7
  <2>2. rest[Len(rest)] = out[n] /\ rest[1] = out[2]
    BY <1>5, <2>1
  <2>3. Follows(out[1], out[1 + 1])
    BY <1>2, <2>1
  <2> QED
    BY <2>1, <2>2, <2>3
<1>8. rest = <<>> => Complete(out[1])
  <2>1. rest = <<>> => n = 1
    BY <1>1, <1>4
  <2> QED
    BY <1>2, <2>1
<1>9. Chain(rest)
  BY <1>2, <1>3, <1>6, <1>7
<1> QED
  BY <1>1, <1>5, <1>7, <1>8, <1>9 DEF n, rest

\* A new key is written behind a conversation.
LEMMA ChainPair ==
  ASSUME NEW out \in Seq(Messages), Chain(out), out # <<>> => out[Len(out)].first = "randomNum",
         NEW g \in Nat, NEW ks \in SUBSET Keys, NEW new, new = out \o <<Rekeying(g, ks), RandomNum(g)>>
  PROVE  /\ new \in Seq(Messages) /\ new # <<>> /\ Chain(new)
         /\ new[Len(new)].first = "randomNum"
         /\ new[1] = IF out = <<>> THEN Rekeying(g, ks) ELSE out[1]
         /\ \A i \in 1..Len(new) : new[i].first = "mod" => i \in 1..Len(out) /\ new[i] = out[i]
<1> DEFINE pair == <<Rekeying(g, ks), RandomNum(g)>>
           n == Len(out)
<1>1. /\ pair \in Seq(Messages) /\ Len(pair) = 2 /\ pair[1] = Rekeying(g, ks) /\ pair[2] = RandomNum(g)
  BY MessageTypes
<1>2. n \in Nat /\ (out = <<>> <=> n = 0)
  BY LenProperties, EmptySeq
<1>3. new \in Seq(Messages) /\ Len(new) = n + 2
      /\ \A i \in 1..(n + 2) : new[i] = IF i <= n THEN out[i] ELSE pair[i - n]
  <2>1. out \o pair \in Seq(Messages) /\ Len(out \o pair) = Len(out) + Len(pair)
        /\ \A i \in 1..(Len(out) + Len(pair)) : (out \o pair)[i] = IF i <= Len(out) THEN out[i] ELSE pair[i - Len(out)]
    BY <1>1, ConcatProperties
  <2> HIDE DEF pair
  <2>2. new = out \o pair
    BY DEF pair
  <2> QED
    BY <1>1, <2>1, <2>2
<1>4. /\ Rekeying(g, ks).first = "rekeying" /\ RandomNum(g).first = "randomNum"
      /\ RandomNum(g).num = g /\ Rekeying(g, ks).num = g
  BY DEF Rekeying, RandomNum
<1> HIDE DEF n, pair
<1>5. new[n + 1] = Rekeying(g, ks) /\ new[n + 2] = RandomNum(g)
  <2>1. n + 1 \in 1..(n + 2) /\ n + 2 \in 1..(n + 2) /\ ~(n + 1 <= n) /\ ~(n + 2 <= n) /\ (n + 1) - n = 1 /\ (n + 2) - n = 2
    BY <1>2
  <2> QED
    BY <1>1, <1>3, <2>1
<1>6. \A i \in 1..n : i \in 1..(n + 2) /\ new[i] = out[i]
  BY <1>2, <1>3
<1>7. ASSUME NEW i \in 1..((n + 2) - 1)
      PROVE  Follows(new[i], new[i + 1])
  <2>1. CASE i = n + 1
    <3>0. i + 1 = n + 2
      BY <1>2, <2>1
    <3>1. new[i] = Rekeying(g, ks) /\ new[i + 1] = RandomNum(g)
      BY <1>5, <2>1, <3>0
    <3> QED
      BY <1>4, <3>1 DEF Follows
  <2>2. CASE i = n
    <3>1. n # 0 /\ n \in 1..n
      BY <1>2, <2>2
    <3>2. new[i] = out[n] /\ new[i + 1] = Rekeying(g, ks) /\ out[n].first = "randomNum"
      BY <1>2, <1>5, <1>6, <2>2, <3>1 DEF n
    <3> QED
      BY <1>4, <3>2 DEF Follows
  <2>3. CASE i < n
    <3>1. i \in 1..(n - 1) /\ i \in 1..n /\ i + 1 \in 1..n
      BY <1>2, <2>3
    <3> QED
      BY <1>6, <3>1 DEF Chain, n
  <2>4. i = n + 1 \/ i = n \/ i < n
    BY <1>2
  <2> QED
    BY <2>1, <2>2, <2>3, <2>4
<1>8. Complete(new[n + 2])
  BY <1>4, <1>5 DEF Complete
<1>9. new # <<>>
  BY <1>2, <1>3, EmptySeq
<1>10. Chain(new)
  BY <1>3, <1>7, <1>8 DEF Chain
<1>11. new[1] = IF out = <<>> THEN Rekeying(g, ks) ELSE out[1]
  <2>1. out = <<>> => n + 1 = 1
    BY <1>2
  <2>2. out # <<>> => 1 \in 1..n
    BY <1>2
  <2> QED
    BY <1>5, <1>6, <2>1, <2>2
<1>12. ASSUME NEW i \in 1..(n + 2), new[i].first = "mod"
       PROVE  i \in 1..n
  <2>1. i \in 1..n \/ i = n + 1 \/ i = n + 2
    BY <1>2
  <2> QED
    BY <1>4, <1>5, <1>12, <2>1
<1> QED
  BY <1>3, <1>4, <1>5, <1>6, <1>9, <1>10, <1>11, <1>12 DEF n

\* An answer of one message or two, alone.
LEMMA ChainOne ==
  ASSUME NEW a \in Messages, Complete(a)
  PROVE  <<a>> \in Seq(Messages) /\ Chain(<<a>>) /\ <<a>> # <<>> /\ Len(<<a>>) = 1 /\ <<a>>[1] = a
<1>1. <<a>> \in Seq(Messages) /\ Len(<<a>>) = 1 /\ <<a>>[1] = a /\ <<a>> # <<>>
  BY ShortSeqs
<1> DEFINE s == <<a>>
<1> HIDE DEF s
<1>2. Chain(s)
  <2>1. Len(s) = 1 /\ s[1] = a
    BY <1>1 DEF s
  <2> QED
    BY <2>1 DEF Chain
<1> QED
  BY <1>1, <1>2 DEF s

\* The same of two.
LEMMA ChainTwo ==
  ASSUME NEW a \in Messages, NEW b \in Messages, Follows(a, b), Complete(b)
  PROVE  <<a, b>> \in Seq(Messages) /\ Chain(<<a, b>>) /\ <<a, b>> # <<>> /\ Len(<<a, b>>) = 2
         /\ <<a, b>>[1] = a /\ <<a, b>>[2] = b
<1>1. <<a, b>> \in Seq(Messages) /\ Len(<<a, b>>) = 2 /\ <<a, b>>[1] = a /\ <<a, b>>[2] = b /\ <<a, b>> # <<>>
  BY ShortSeqs
<1> DEFINE s == <<a, b>>
<1> HIDE DEF s
<1>2. Chain(s)
  <2>1. Len(s) = 2 /\ s[1] = a /\ s[2] = b
    BY <1>1 DEF s
  <2>2. \A i \in 1..(Len(s) - 1) : i = 1 /\ i + 1 = 2
    BY <2>1
  <2> QED
    BY <2>1, <2>2 DEF Chain
<1> QED
  BY <1>1, <1>2 DEF s

-----------------------------------------------------------------------------
(* What no step of the group does.                                         *)

\* A process that has started is never one that has not.
LEMMA StartedForEver ==
  ASSUME TypeInv, [GroupSystemNext]_sysVars
  PROVE  /\ \A p \in Procs : phase'[p] = "off" => phase[p] = "off"
         /\ \A p \in Procs : Alone(p)' => Alone(p)
         /\ OnlyClients' => OnlyClients
<1>1. phase \in [Procs -> Phases] /\ Peers \subseteq Procs
  BY GroupSystemAssumption DEF TypeInv, GroupSystemTypeOK
<1>2. \A p \in Procs : phase'[p] = "off" => phase[p] = "off"
  <2>1. CASE phase' = phase
    BY <2>1
  <2>2. ASSUME NEW p \in Procs, NEW next, next # "off", phase' = [phase EXCEPT ![p] = next]
        PROVE  \A q \in Procs : phase'[q] = "off" => phase[q] = "off"
    BY <1>1, <2>2
  <2>3. CASE Server \/ UNCHANGED sysVars
    BY <2>1, <2>3 DEF Server, sysVars, clientVars
  <2>4. ASSUME NEW p \in Procs, Connect(p)
        PROVE  \A q \in Procs : phase'[q] = "off" => phase[q] = "off"
    BY <1>1, <2>4 DEF Connect
  <2>5. ASSUME NEW p \in Procs, Die(p)
        PROVE  \A q \in Procs : phase'[q] = "off" => phase[q] = "off"
    BY <2>2, <2>5 DEF Die, Disconnect
  <2>6. ASSUME NEW p \in Procs, ClientStep(p)
        PROVE  \A q \in Procs : phase'[q] = "off" => phase[q] = "off"
    BY <2>2, <2>6, ClientGoesOn DEF Return, Disconnect, Continue
  <2>7. ASSUME NEW p \in Peers, PeerReads(p) \/ \E r \in Requests : PeerSends(p, r)
        PROVE  phase' = phase
    BY <2>7 DEF PeerReads, PeerSends, clientVars
  <2> QED
    BY <2>1, <2>3, <2>4, <2>5, <2>6, <2>7 DEF GroupSystemNext
<1> QED
  BY <1>1, <1>2 DEF Alone, OnlyClients

\* An account keeps its modulus.
LEMMA KeysKept ==
  ASSUME GroupServerTypeOK, KeyStep
  PROVE  \A u \in Users : userKey[u] # NoKey => userKey'[u] = userKey[u]
<1> DEFINE Kept == \A u \in Users : userKey[u] # NoKey => userKey'[u] = userKey[u]
<1>1. userKey \in [Users -> Keys \cup {NoKey}]
  BY DEF GroupServerTypeOK, KeyStoreTypeOK
<1>2. userKey' = userKey => Kept
  OBVIOUS
<1>3. \A u \in Users, k \in Keys, stop \in Stops : AllocateNew(u, k, stop) => Kept
  BY <1>1 DEF AllocateNew, IsNew, RecordAllocation
<1>4. \A u \in Users, k \in Keys : CrashBetweenUpdates(u, k) => Kept
  BY <1>1 DEF CrashBetweenUpdates, IsNew
<1>5. CASE UNCHANGED keyVars
  BY <1>2, <1>5 DEF keyVars, dbVars
<1>6. CASE KeyStoreNext
  <2>1. SysInitFromDb => Kept
    BY <1>2 DEF SysInitFromDb, dbVars
  <2>2. \A rows \in Keys : SysInitEmptyDb(rows) => Kept
    BY <1>2 DEF SysInitEmptyDb
  <2>3. \A u \in Users, rows \in 0..MaxKey : AllocateNoKey(u, rows) => Kept
    BY <1>2 DEF AllocateNoKey
  <2>4. \A u \in Users : AllocateAgain(u) => Kept
    BY <1>2 DEF AllocateAgain, dbVars
  <2>5. \A k \in Keys \cup {NoKey} : Join(k) \/ Leave(k) \/ Drop(k) => Kept
    BY <1>2 DEF Join, Leave, Drop, dbVars
  <2>6. Crash => Kept
    BY <1>2 DEF Crash, dbVars
  <2>7. \A u \in Users, rows \in Keys : CrashExtending(u, rows) => Kept
    BY <1>2 DEF CrashExtending
  <2> QED
    BY <1>3, <1>4, <1>6, <2>1, <2>2, <2>3, <2>4, <2>5, <2>6, <2>7 DEF KeyStoreNext
<1> QED
  BY <1>5, <1>6 DEF KeyStep

-----------------------------------------------------------------------------
(* A connection that a step is not about.                                  *)

\* What is written to a connection, and by whom it is read.
LEMMA OutTypes ==
  ASSUME GroupServerTypeOK, NEW f \in Fds, Open(f)
  PROVE  /\ conn[f].proc \in Procs /\ Acct[conn[f].proc] \in Users
         /\ s2c[conn[f].proc] \in Seq(Messages) /\ conn[f].wbuf \in Seq(Messages) /\ Out(f) \in Seq(Messages)
<1>1. conn[f].proc \in Procs /\ conn[f].wbuf \in Seq(Messages)
  BY ConnTypes
<1>2. s2c[conn[f].proc] \in Seq(Messages)
  BY <1>1 DEF GroupServerTypeOK
<1> QED
  BY <1>1, <1>2, ConcatProperties, GroupServerAssumption DEF Out

\* Nothing of g and its process changes, but that a member gets the new key.
Untouched(g) ==
  LET q == conn[g].proc
  IN  /\ s2c'[q] = s2c[q] /\ c2s'[q] = c2s[q] /\ link'[q] = link[q]
      /\ phase'[q] = phase[q] /\ mod'[q] = mod[q] /\ cipher'[q] = cipher[q]
      /\ \A o \in Procs : Alone(o)' => Alone(o)
      /\ \A u \in Users : userKey[u] # NoKey => userKey'[u] = userKey[u]
      /\ <<g, "in">> \in batch' => ~conn[g].act

TheKey(c) == [c EXCEPT !.wbuf = c.wbuf \o <<Rekeying(gen', rekey'), RandomNum(gen')>>]

\* Sequences of messages behind each other.
LEMMA MessagesConcat ==
  ASSUME NEW a \in Seq(Messages), NEW b \in Seq(Messages), NEW c \in Seq(Messages)
  PROVE  /\ a \o b \in Seq(Messages) /\ (a \o b) \o c \in Seq(Messages)
         /\ a \o (b \o c) = (a \o b) \o c
<1> DEFINE S == Messages
<1>1. a \in Seq(S) /\ b \in Seq(S) /\ c \in Seq(S)
  OBVIOUS
<1> HIDE DEF S
<1>2. (a \o b) \o c = a \o (b \o c)
  BY <1>1, ConcatAssociative
<1>3. a \o b \in Seq(S) /\ (a \o b) \o c \in Seq(S)
  BY <1>1, ConcatProperties
<1> QED
  BY <1>2, <1>3 DEF S

\* A modulus that is on record stays there.
LEMMA HoldsOn ==
  ASSUME NEW ph, NEW own, NEW k, NEW key, NEW next, NEW out,
         Holds(ph, own, k, key, out), key # NoKey => next = key
  PROVE  Holds(ph, own, k, next, out)
BY DEF Holds

\* The conversation of a connection that does not change goes on.
LEMMA SameConn ==
  ASSUME GroupServerTypeOK, NEW g \in Fds, Open(g), ConnInv(g), Untouched(g), conn'[g] = conn[g]
  PROVE  ConnInv(g)'
<1> DEFINE q == conn[g].proc
           c == conn[g]
<1>1. q \in Procs /\ Acct[q] \in Users
  BY OutTypes
<1>2. ServedRightly(g)'
  <2>1. c.act \/ c2s[q] = <<"mem_join">> => c.mod = userKey'[Acct[q]] /\ c.mod # NoKey
    BY <1>1 DEF ConnInv, ServedRightly, Untouched
  <2> QED
    BY <2>1 DEF ConnInv, ServedRightly, Untouched
<1>3. Out(g)' = Out(g)
  BY DEF Out, Untouched
<1>4. ASSUME link[q] = "open"
      PROVE  Conversing(conn[g].proc, conn[g], Out(g))'
  <2>1. Conversing(q, c, Out(g))
    BY <1>4 DEF ConnInv
  <2>2. Holds(phase[q], mod[q], c.mod, userKey'[Acct[q]], Out(g))
    BY <1>1, <2>1, HoldsOn DEF Conversing, Untouched
  <2> QED
    BY <1>1, <1>3, <2>1, <2>2 DEF Conversing, Untouched
<1> QED
  BY <1>2, <1>4 DEF ConnInv, Untouched

\* A member that reads and is read from nothing gets a key.
LEMMA TellMember ==
  ASSUME NEW ph, NEW num, NEW own, NEW k, NEW key, NEW out \in Seq(Messages),
         InStep(ph, <<>>, num, out), Holds(ph, own, k, key, out), Settled(ph, out),
         NEW g \in Nat, NEW ks \in SUBSET Keys, NEW new, new = out \o <<Rekeying(g, ks), RandomNum(g)>>
  PROVE  InStep(ph, <<>>, num, new) /\ Holds(ph, own, k, key, new) /\ Settled(ph, new)
<1>1. ph \in Joins /\ (out # <<>> => out[Len(out)].first = "randomNum") /\ Chain(out)
  BY DEF Settled, InStep
<1>2. /\ new \in Seq(Messages) /\ new # <<>> /\ Chain(new)
      /\ new[Len(new)].first = "randomNum"
      /\ new[1] = IF out = <<>> THEN Rekeying(g, ks) ELSE out[1]
      /\ \A i \in 1..Len(new) : new[i].first = "mod" => i \in 1..Len(out) /\ new[i] = out[i]
  <2>1. \A o \in Seq(Messages) : Chain(o) /\ (o # <<>> => o[Len(o)].first = "randomNum") =>
          \A n : n = o \o <<Rekeying(g, ks), RandomNum(g)>> =>
            /\ n \in Seq(Messages) /\ n # <<>> /\ Chain(n)
            /\ n[Len(n)].first = "randomNum"
            /\ n[1] = IF o = <<>> THEN Rekeying(g, ks) ELSE o[1]
            /\ \A i \in 1..Len(n) : n[i].first = "mod" => i \in 1..Len(o) /\ n[i] = o[i]
    BY ChainPair
  <2> QED
    BY <1>1, <2>1, Zenon
<1>3. Rekeying(g, ks).first = "rekeying"
  BY DEF Rekeying
<1>4. Fits(ph, num, new[1])
  <2>1. CASE out = <<>>
    <3>1. ph = "rekeying"
      BY <2>1 DEF InStep
    <3> QED
      BY <1>2, <1>3, <2>1, <3>1 DEF Fits
  <2>2. CASE out # <<>>
    BY <1>2, <2>2 DEF InStep
  <2> QED
    BY <2>1, <2>2
<1>5. InStep(ph, <<>>, num, new)
  BY <1>2, <1>4 DEF InStep
<1>6. Holds(ph, own, k, key, new)
  BY <1>2 DEF Holds
<1> QED
  BY <1>1, <1>2, <1>5, <1>6 DEF Settled

\* And that of a member that gets the new key.
LEMMA ToldConn ==
  ASSUME GroupServerTypeOK, gen' \in Nat, rekey' \in SUBSET Keys,
         NEW g \in Fds, Open(g), ConnInv(g), Untouched(g), conn[g].act, conn'[g] = TheKey(conn[g])
  PROVE  ConnInv(g)'
<1> DEFINE q == conn[g].proc
           c == conn[g]
           pair == <<Rekeying(gen', rekey'), RandomNum(gen')>>
<1>1. /\ q \in Procs /\ Acct[q] \in Users /\ Out(g) \in Seq(Messages)
      /\ s2c[q] \in Seq(Messages) /\ c.wbuf \in Seq(Messages) /\ pair \in Seq(Messages)
  BY OutTypes, MessageTypes
<1>2. /\ conn'[g].proc = q /\ conn'[g].user = c.user /\ conn'[g].mod = c.mod /\ conn'[g].act = c.act
      /\ conn'[g].rbuf = c.rbuf /\ conn'[g].wbuf = c.wbuf \o pair
  BY ConnTypes DEF TheKey, Conns
<1>3. ServedRightly(g)'
  <2>1. c.mod = userKey'[Acct[q]] /\ c.mod # NoKey
    BY <1>1 DEF ConnInv, ServedRightly, Untouched
  <2> QED
    BY <1>2, <2>1 DEF ConnInv, ServedRightly, Untouched
<1>4. \E new : new = Out(g) \o pair
  OBVIOUS
<1>5. PICK new : new = Out(g) \o pair
  BY <1>4
<1>6. Out(g)' = new
  <2>1. Out(g)' = s2c'[q] \o (c.wbuf \o pair)
    BY <1>2 DEF Out
  <2>2. s2c'[q] = s2c[q]
    BY DEF Untouched
  <2>3. \E r \in Seq(Messages) : r = pair
    BY <1>1
  <2>4. PICK r \in Seq(Messages) : r = pair
    BY <2>3
  <2>5. s2c[q] \o (c.wbuf \o r) = (s2c[q] \o c.wbuf) \o r
    <3>1. s2c[q] \in Seq(Messages) /\ c.wbuf \in Seq(Messages)
      BY <1>1
    <3>2. \A a, b \in Seq(Messages) : a \o (b \o r) = (a \o b) \o r
      BY MessagesConcat
    <3> QED
      BY <3>1, <3>2, Zenon
  <2>6. new = (s2c[q] \o c.wbuf) \o r
    BY <1>5, <2>4 DEF Out
  <2>7. Out(g)' = s2c[q] \o (c.wbuf \o r)
    BY <2>1, <2>2, <2>4, Zenon
  <2> QED
    BY <2>5, <2>6, <2>7
<1>7. ASSUME link[q] = "open"
      PROVE  Conversing(conn[g].proc, conn[g], Out(g))'
  <2>1. Conversing(q, c, Out(g)) /\ c2s[q] = <<>>
    BY <1>7 DEF ConnInv, ServedRightly
  <2>2. /\ InStep(phase[q], <<>>, cipher[q].num, new)
        /\ Holds(phase[q], mod[q], c.mod, userKey[Acct[q]], new)
        /\ Settled(phase[q], new)
    <3>1. /\ InStep(phase[q], <<>>, cipher[q].num, Out(g))
          /\ Holds(phase[q], mod[q], c.mod, userKey[Acct[q]], Out(g))
          /\ Settled(phase[q], Out(g))
      BY <2>1 DEF Conversing
    <3>2. \E k \in Nat, ks \in SUBSET Keys : k = gen' /\ ks = rekey'
      OBVIOUS
    <3>3. PICK k \in Nat, ks \in SUBSET Keys : k = gen' /\ ks = rekey'
      BY <3>2
    <3>4. new = Out(g) \o <<Rekeying(k, ks), RandomNum(k)>>
      BY <1>5, <3>3
    <3>5. \A ph, num, own, l, key : \A out \in Seq(Messages) :
            InStep(ph, <<>>, num, out) /\ Holds(ph, own, l, key, out) /\ Settled(ph, out) =>
              \A n : n = out \o <<Rekeying(k, ks), RandomNum(k)>> =>
                InStep(ph, <<>>, num, n) /\ Holds(ph, own, l, key, n) /\ Settled(ph, n)
      BY TellMember
    <3>6. Out(g) \in Seq(Messages)
      BY <1>1
    <3> QED
      <4>1. ASSUME NEW ph, NEW num, NEW own, NEW l, NEW key, NEW out \in Seq(Messages), out = Out(g),
                   InStep(ph, <<>>, num, out), Holds(ph, own, l, key, out), Settled(ph, out)
            PROVE  InStep(ph, <<>>, num, new) /\ Holds(ph, own, l, key, new) /\ Settled(ph, new)
        BY <3>4, <3>5, <4>1, Zenon
      <4> QED
        BY <3>1, <3>6, <4>1
  <2>3. Holds(phase[q], mod[q], c.mod, userKey'[Acct[q]], new)
    BY <1>1, <2>2, HoldsOn DEF Untouched
  <2>4. /\ phase'[q] = phase[q] /\ c2s'[q] = <<>> /\ cipher'[q] = cipher[q] /\ mod'[q] = mod[q]
    BY <2>1 DEF Untouched
  <2> QED
    BY <1>2, <1>6, <2>2, <2>3, <2>4 DEF Conversing
<1> QED
  BY <1>2, <1>3, <1>7 DEF ConnInv, Untouched

-----------------------------------------------------------------------------
(* A request is read and answered.                                         *)

Clients == KnownInv /\ OnlyClients /\ ClientInv

\* No random number among the messages.
NoKeySent(out) == \A i \in 1..Len(out) : out[i].first # "randomNum"

\* Nor when such messages are put behind others.
LEMMA NoneSent ==
  ASSUME NEW a \in Seq(Messages), NEW b \in Seq(Messages), NoKeySent(a), NoKeySent(b)
  PROVE  NoKeySent(a \o b)
<1>1. /\ Len(a) \in Nat /\ Len(b) \in Nat /\ Len(a \o b) = Len(a) + Len(b)
      /\ \A i \in 1..(Len(a) + Len(b)) : (a \o b)[i] = IF i <= Len(a) THEN a[i] ELSE b[i - Len(a)]
  BY ConcatProperties, LenProperties
<1>2. \A i \in 1..(Len(a) + Len(b)) : IF i <= Len(a) THEN i \in 1..Len(a) ELSE i - Len(a) \in 1..Len(b)
  BY <1>1
<1> QED
  BY <1>1, <1>2 DEF NoKeySent

\* What is known of an open connection.
LEMMA ClientFacts ==
  ASSUME Clients, NEW f \in Fds, Open(f)
  PROVE  /\ GroupServerTypeOK /\ ConnInv(f) /\ ServedRightly(f)
         /\ conn[f] \in Conns /\ conn[f].proc \in Procs /\ Acct[conn[f].proc] \in Users
         /\ s2c[conn[f].proc] \in Seq(Messages) /\ conn[f].wbuf \in Seq(Messages) /\ Out(f) \in Seq(Messages)
         /\ link[conn[f].proc] = "open" => Conversing(conn[f].proc, conn[f], Out(f))
<1>1. GroupServerTypeOK
  BY DEF Clients, KnownInv, TypeInv, GroupSystemTypeOK
<1> QED
  BY <1>1, OutTypes, ConnTypes DEF Clients, ClientInv, ConnInv

\* The request that is read is the only one there is.
LEMMA ReadForm ==
  ASSUME Clients, NEW f \in Fds, NEW r, Received(f, r)
  PROVE  /\ Open(f) /\ ~conn[f].act
         /\ r \in {"login", "register", "allocation", "mem_join"}
         /\ c2s[conn[f].proc] = <<r>> /\ Tail(Whole(f)) = <<>> /\ Whole(f) # <<>>
         /\ c2s' = [c2s EXCEPT ![conn[f].proc] = <<>>] /\ c2s'[conn[f].proc] = <<>>
         /\ UNCHANGED <<link, s2c, backlog>>
         /\ link[conn[f].proc] = "open" => phase[conn[f].proc] = r /\ s2c[conn[f].proc] = <<>> /\ conn[f].wbuf = <<>>
<1> DEFINE p == conn[f].proc
<1>1. <<f, "in">> \in batch
  BY DEF Received, Event
<1>2. Open(f)
  BY <1>1 DEF Clients, KnownInv, TypeInv, BatchIsOpen, Events
<1>3. /\ ServedRightly(f) /\ p \in Procs /\ s2c[p] \in Seq(Messages) /\ conn[f].wbuf \in Seq(Messages)
      /\ link[p] = "open" => Conversing(p, conn[f], Out(f))
  BY <1>2, ClientFacts
<1>4. c2s \in [Procs -> Seq(Requests)]
  BY <1>2, ClientFacts DEF GroupServerTypeOK
<1>5. Whole(f) = c2s[p]
  <2>1. (IF conn[f].rbuf = <<Part>> THEN <<>> ELSE conn[f].rbuf) = <<>>
    BY <1>3 DEF ServedRightly
  <2>2. c2s[p] \in Seq(Requests)
    BY <1>3, <1>4
  <2>3. \A s \in Seq(Requests) : <<>> \o s = s
    BY ConcatEmptySeq
  <2> QED
    BY <2>1, <2>2, <2>3 DEF Whole
<1>6. PICK q \in {"login", "register", "allocation", "mem_join"} : c2s[p] = <<q>>
  BY <1>3, <1>5 DEF Received, ServedRightly
<1>7. q = r /\ Tail(<<q>>) = <<>>
  <2>1. q \in {"login", "register", "allocation", "mem_join"}
    OBVIOUS
  <2>2. <<q>> \in Seq({"login", "register", "allocation", "mem_join"}) /\ Len(<<q>>) = 1 /\ <<q>>[1] = q /\ <<q>> # <<>>
    BY <2>1, ShortSeqs
  <2>3. Head(<<q>>) = q /\ Tail(<<q>>) = <<>>
    OBVIOUS
  <2> QED
    BY <1>5, <1>6, <2>3 DEF Received
<1>8. ~conn[f].act
  BY <1>1, <1>3 DEF ServedRightly
<1>9. ASSUME link[p] = "open"
      PROVE  phase[p] = r /\ s2c[p] = <<>> /\ conn[f].wbuf = <<>>
  <2>1. c2s[p] # <<>>
    BY <1>5 DEF Received
  <2>2. Out(f) = <<>> /\ c2s[p] = <<phase[p]>>
    BY <1>3, <1>9, <2>1 DEF Conversing, InStep
  <2>3. s2c[p] = <<>> /\ conn[f].wbuf = <<>>
    <3>1. \A s, t \in Seq(Messages) : s \o t = <<>> => s = <<>> /\ t = <<>>
      BY ConcatSimplifications
    <3> QED
      BY <1>3, <2>2, <3>1 DEF Out
  <2>4. phase[p] = q
    BY <1>6, <2>2
  <2> QED
    BY <1>7, <2>3, <2>4
<1>10. c2s'[p] = <<>> /\ c2s' = [c2s EXCEPT ![p] = <<>>] /\ UNCHANGED <<link, s2c, backlog>>
  BY <1>3, <1>4 DEF Received, socketVars
<1> QED
  BY <1>2, <1>5, <1>6, <1>7, <1>8, <1>9, <1>10 DEF Received

\* An answer without a broadcast.
LEMMA AnswerConn ==
  ASSUME Clients, NEW f \in Fds, NEW r, Received(f, r), UNCHANGED clientVars,
         NEW c \in Conns, c.proc = conn[f].proc, ~c.act, c.user \in {NoUser, Acct[c.proc]},
         c.wbuf = conn[f].wbuf, NEW ms \in Seq(Messages), NoKeySent(ms), conn'[f] = Answered(f, c, ms)[f],
         InStep(r, <<>>, cipher[c.proc].num, ms),
         link[c.proc] = "open" => Holds(r, mod[c.proc], c.mod, userKey'[Acct[c.proc]], ms),
         ~(Alone(c.proc) /\ Joined(r, ms))
  PROVE  Open(f)' /\ ConnInv(f)' /\ ~conn'[f].act
<1> DEFINE p == conn[f].proc
<1>1. /\ Open(f) /\ ~conn[f].act /\ Tail(Whole(f)) = <<>> /\ c2s'[p] = <<>> /\ UNCHANGED <<link, s2c>>
      /\ link[p] = "open" => phase[p] = r /\ s2c[p] = <<>> /\ conn[f].wbuf = <<>>
  BY ReadForm
<1>2. /\ p \in Procs /\ s2c[p] \in Seq(Messages) /\ conn[f].wbuf \in Seq(Messages) /\ conn \in [Fds -> Conns]
      /\ ServedRightly(f)
  BY <1>1, ClientFacts DEF GroupServerTypeOK
<1>3. /\ conn'[f].proc = p /\ conn'[f].user = c.user /\ conn'[f].mod = c.mod /\ conn'[f].act = c.act
      /\ conn'[f].rbuf = <<>> /\ conn'[f].wbuf = c.wbuf \o ms
  BY <1>1, <1>2 DEF Answered, Conns
<1>4. NoKeySent(c.wbuf \o ms)
  <2>1. NoKeySent(conn[f].wbuf)
    BY <1>1, <1>2 DEF ServedRightly, NoKeySent
  <2> QED
    BY <1>2, <2>1, NoneSent
<1>5. ServedRightly(f)'
  <2>1. NoKeySent(conn'[f].wbuf)
    BY <1>3, <1>4
  <2> QED
    <3>1. ~conn'[f].act
      BY <1>3
    <3>2. <<>> # <<"mem_join">>
      OBVIOUS
    <3> QED
      BY <1>1, <1>3, <2>1, <3>1, <3>2 DEF ServedRightly, NoKeySent
<1>6. ASSUME link[p] = "open"
      PROVE  Conversing(conn[f].proc, conn[f], Out(f))'
  <2>1. Out(f)' = ms
    <3>1. Out(f)' = s2c[p] \o (c.wbuf \o ms)
      BY <1>1, <1>3 DEF Out
    <3>2. s2c[p] = <<>> /\ c.wbuf = <<>>
      BY <1>1, <1>6
    <3>3. \A s \in Seq(Messages) : <<>> \o s = s
      BY ConcatEmptySeq
    <3> QED
      BY <3>1, <3>2, <3>3
  <2>0. Alone(p)' => Alone(p)
    BY <1>3 DEF Alone, clientVars
  <2>2. phase'[p] = r /\ cipher' = cipher /\ mod' = mod /\ c2s'[p] = <<>>
    BY <1>1, <1>6 DEF clientVars
  <2>3. Holds(r, mod[p], c.mod, userKey'[Acct[p]], ms)
    BY <1>6
  <2> QED
    BY <1>3, <2>0, <2>1, <2>2, <2>3 DEF Conversing
<1> QED
  BY <1>1, <1>2, <1>3, <1>5, <1>6 DEF ConnInv, Open

\* Every active modulus is on record for the client of an active Conn.
LEMMA ActiveOwned ==
  ASSUME Clients, NEW k \in active
  PROVE  \E f \in Fds : /\ Open(f) /\ conn[f].act /\ conn[f].mod = k /\ k # NoKey
                        /\ Acct[conn[f].proc] \in Users /\ userKey[Acct[conn[f].proc]] = k
<1>1. PICK f \in Fds : conn[f].act /\ conn[f].mod = k
  BY DEF Clients, ClientInv, ActiveAgrees
<1>2. Open(f)
  BY <1>1 DEF Clients, ClientInv, Idle
<1>3. ServedRightly(f) /\ Acct[conn[f].proc] \in Users
  BY <1>2, ClientFacts
<1> QED
  BY <1>1, <1>2, <1>3 DEF ServedRightly

\* A key that is chosen is nobody's.
LEMMA FreshKey ==
  ASSUME Clients, NEW u \in Users, NEW k \in Keys, NEW stop \in Stops, AllocateNew(u, k, stop)
  PROVE  k \notin active
<1>1. KeyStoreTypeOK /\ RecordsAgree /\ up /\ Ownership
  BY DEF Clients, KnownInv, TypeInv, GroupSystemTypeOK, GroupServerTypeOK, KeyInv
<1>2. k \in available \cup NewKeys /\ lowerBound + Cardinality(NewKeys) <= MaxKey
  BY DEF AllocateNew, CipherAllocation, NewKeys
<1>3. \A v \in Users : userKey[v] # k
  BY <1>1, <1>2, ChosenKey DEF Ownership, AvailableIsUnowned
<1> QED
  BY <1>3, ActiveOwned

\* What the answers say.
LEMMA WordFacts ==
  ASSUME NEW first \in {"login", "allocation", "mem_join"}, NEW second \in {"ok", "bad", "pwd"},
         ~(first = "allocation" /\ second = "ok"), NEW ms, ms = <<Word(first, second)>>
  PROVE  /\ ms \in Seq(Messages) /\ ms # <<>> /\ Len(ms) = 1 /\ ms[1] = Word(first, second)
         /\ NoKeySent(ms) /\ Chain(ms)
         /\ ms[1].first = first /\ ms[1].second = second
<1> DEFINE a == Word(first, second)
<1>1. a.first = first /\ a.second = second /\ a \in Messages
  BY DEF Word, Messages
<1>2. Complete(a)
  BY <1>1 DEF Complete
<1> HIDE DEF a
<1>3. /\ <<a>> \in Seq(Messages) /\ Chain(<<a>>) /\ <<a>> # <<>> /\ Len(<<a>>) = 1 /\ <<a>>[1] = a
  BY <1>1, <1>2, ChainOne
<1>4. ms = <<a>>
  BY DEF a
<1>5. NoKeySent(ms)
  <2>1. Len(ms) = 1 /\ ms[1] = a
    BY <1>3, <1>4
  <2>2. \A i \in 1..1 : i = 1
    OBVIOUS
  <2> QED
    BY <1>1, <2>1, <2>2 DEF NoKeySent
<1> QED
  BY <1>1, <1>3, <1>4, <1>5 DEF a

\* A word that answers the request the client waits for.
LEMMA WordAnswers ==
  ASSUME NEW r \in {"login", "register", "allocation"}, NEW first \in {"login", "allocation"},
         first = IF r = "register" THEN "login" ELSE r,
         NEW second \in {"ok", "bad", "pwd"}, ~(first = "allocation" /\ second = "ok"),
         NEW ms, ms = <<Word(first, second)>>, NEW num, NEW own, NEW k, NEW key
  PROVE  /\ ms \in Seq(Messages) /\ NoKeySent(ms)
         /\ InStep(r, <<>>, num, ms) /\ Holds(r, own, k, key, ms) /\ ~Joined(r, ms)
<1>1. /\ ms \in Seq(Messages) /\ ms # <<>> /\ Len(ms) = 1 /\ NoKeySent(ms) /\ Chain(ms)
      /\ ms[1].first = first /\ ms[1].second = second
  BY WordFacts
<1>2. InStep(r, <<>>, num, ms)
  BY <1>1 DEF InStep, Fits, Scripted
<1>3. Holds(r, own, k, key, ms)
  <2>1. \A i \in 1..Len(ms) : i = 1
    BY <1>1
  <2> QED
    BY <1>1, <2>1 DEF Holds, Joins
<1>4. ~Joined(r, ms)
  BY <1>1 DEF Joined, InLoop
<1> QED
  BY <1>1, <1>2, <1>3, <1>4

\* onRead_userVerify.
LEMMA VerifyConn ==
  ASSUME Clients, NEW f \in Fds, NEW isLogin \in BOOLEAN, OnReadUserVerify(f, isLogin), UNCHANGED clientVars
  PROVE  Open(f)' /\ ConnInv(f)' /\ ~conn'[f].act
<1> DEFINE p == conn[f].proc
           u == Acct[conn[f].proc]
<1>1. PICK r \in {"login", "register"} : Received(f, r)
  BY DEF OnReadUserVerify
<1>2. Open(f) /\ ~conn[f].act
  BY <1>1, ReadForm
<1>3. conn[f] \in Conns /\ u \in Users /\ conn[f].user \in {NoUser, u}
  BY <1>2, ClientFacts DEF ServedRightly
<1>4. PICK con \in {conn[f], [conn[f] EXCEPT !.user = u], [conn[f] EXCEPT !.user = NoUser]},
           word \in {"ok", "bad", "pwd"} : Answer(f, con, <<Word("login", word)>>)
  BY DEF OnReadUserVerify
<1>5. con \in Conns /\ con.proc = p
  <2>1. /\ [conn[f] EXCEPT !.user = u] \in Conns /\ [conn[f] EXCEPT !.user = u].proc = p
        /\ [conn[f] EXCEPT !.user = NoUser] \in Conns /\ [conn[f] EXCEPT !.user = NoUser].proc = p
    BY <1>3, ConnChanges
  <2> QED
    BY <1>3, <1>4, <2>1
<1>6. ~con.act /\ con.user \in {NoUser, u} /\ con.wbuf = conn[f].wbuf
  BY <1>2, <1>3, <1>4 DEF Conns
<1>7. PICK ms : ms = <<Word("login", word)>>
  OBVIOUS
<1>8. /\ ms \in Seq(Messages) /\ NoKeySent(ms) /\ ~Joined(r, ms)
      /\ \A num : InStep(r, <<>>, num, ms)
      /\ \A own, k, key : Holds(r, own, k, key, ms)
  BY <1>1, <1>7, WordAnswers
<1>9. conn'[f] = Answered(f, con, ms)[f]
  BY <1>4, <1>7 DEF Answer
<1> QED
  BY <1>1, <1>5, <1>6, <1>8, <1>9, AnswerConn

\* The answer to an allocation gives the modulus on record.
LEMMA ModAnswers ==
  ASSUME NEW k \in Keys \cup {NoKey}, k # NoKey, NEW ms, ms = <<Word("allocation", "ok"), Mod(k)>>, NEW num, NEW own
  PROVE  /\ ms \in Seq(Messages) /\ NoKeySent(ms)
         /\ InStep("allocation", <<>>, num, ms) /\ Holds("allocation", own, k, k, ms)
         /\ ~Joined("allocation", ms)
<1> DEFINE a == Word("allocation", "ok")
           b == Mod(k)
<1>1. k \in Nat
  BY DEF NoKey, Keys
<1>2. /\ a \in Messages /\ b \in Messages
      /\ a.first = "allocation" /\ a.second = "ok" /\ b.first = "mod" /\ b.second = "number" /\ b.num = k
  BY <1>1 DEF Word, Mod, Messages
<1>3. Follows(a, b) /\ Complete(b)
  BY <1>2 DEF Follows, Complete
<1> HIDE DEF a, b
<1>4. /\ <<a, b>> \in Seq(Messages) /\ Chain(<<a, b>>) /\ <<a, b>> # <<>> /\ Len(<<a, b>>) = 2
      /\ <<a, b>>[1] = a /\ <<a, b>>[2] = b
  BY <1>2, <1>3, ChainTwo
<1>5. ms \in Seq(Messages) /\ Chain(ms) /\ ms # <<>> /\ Len(ms) = 2 /\ ms[1] = a /\ ms[2] = b
  <2>1. ms = <<a, b>>
    BY DEF a, b
  <2> QED
    BY <1>4, <2>1
<1>6. \A i \in 1..Len(ms) : i = 1 \/ i = 2
  BY <1>5
<1>7. NoKeySent(ms) /\ Holds("allocation", own, k, k, ms)
  BY <1>2, <1>5, <1>6 DEF NoKeySent, Holds, Joins
<1>8. InStep("allocation", <<>>, num, ms) /\ ~Joined("allocation", ms)
  BY <1>2, <1>5 DEF InStep, Fits, Scripted, Joined, InLoop
<1> QED
  BY <1>5, <1>7, <1>8

\* What onRead_allocation can answer: con is the Conn after it.
Offered(f, k, con, ms) ==
  /\ con \in {conn[f], [conn[f] EXCEPT !.mod = k, !.act = FALSE]}
  /\ Answer(f, con, ms)
  /\ \/ ms = <<Word("allocation", "bad")>>
     \/ /\ ms = <<Word("allocation", "ok"), Mod(k)>> /\ con.mod = k /\ k # NoKey
        /\ userKey'[Acct[conn[f].proc]] = k

\* That is all it does.
LEMMA AllocationForm ==
  ASSUME Clients, NEW f \in Fds, OnReadAllocation(f)
  PROVE  \E k \in Keys \cup {NoKey}, con \in Conns : \E ms : Offered(f, k, con, ms)
<1> DEFINE c == conn[f]
           u == Acct[conn[f].proc]
           bad == <<Word("allocation", "bad")>>
           Given(k) == [c EXCEPT !.mod = k, !.act = FALSE]
           Goal == \E k \in Keys \cup {NoKey}, con \in Conns : \E ms : Offered(f, k, con, ms)
<1>1. Received(f, "allocation")
  BY DEF OnReadAllocation
<1>2. Open(f) /\ ~c.act
  BY <1>1, ReadForm
<1>3. c \in Conns /\ u \in Users /\ c.user \in {NoUser, u} /\ userKey \in [Users -> Keys \cup {NoKey}]
  BY <1>2, ClientFacts DEF ServedRightly, GroupServerTypeOK, KeyStoreTypeOK
<1>4. ASSUME Answer(f, c, bad) PROVE Goal
  <2>1. Offered(f, NoKey, c, bad)
    BY <1>4 DEF Offered
  <2> QED
    BY <1>3, <2>1
<1>5. \A k \in Keys \cup {NoKey} : Given(k) \in Conns /\ Given(k).mod = k
  <2>1. FALSE \in BOOLEAN
    OBVIOUS
  <2> QED
    BY <1>3, <2>1, ModChanges
<1>6. ASSUME c.user = u, NEW k \in Keys, NEW stop \in Stops, AllocateNew(u, k, stop),
             IF stop = "none"
             THEN Answer(f, [c EXCEPT !.mod = k, !.act = k \in active],
                         <<Word("allocation", "ok"), Mod([c EXCEPT !.mod = k, !.act = k \in active].mod)>>)
             ELSE Answer(f, [c EXCEPT !.mod = k, !.act = k \in active], bad)
      PROVE  Goal
  <2>1. (k \in active) = FALSE
    BY <1>3, <1>6, FreshKey
  <2>2. Given(k) \in Conns /\ Given(k).mod = k /\ k # NoKey
    <3>1. k # NoKey
      BY DEF Keys, NoKey
    <3> QED
      BY <1>5, <3>1
  <2>3. IF stop = "none" THEN Answer(f, Given(k), <<Word("allocation", "ok"), Mod(k)>>)
                         ELSE Answer(f, Given(k), bad)
    <3>1. IF stop = "none" THEN Answer(f, Given(k), <<Word("allocation", "ok"), Mod(Given(k).mod)>>)
                           ELSE Answer(f, Given(k), bad)
      BY <1>6, <2>1
    <3> QED
      BY <2>2, <3>1
  <2>4. stop = "none" => userKey'[u] = k
    BY <1>3, <1>6 DEF AllocateNew, RecordAllocation
  <2>5. \E ms : Offered(f, k, Given(k), ms)
    <3>1. CASE stop = "none"
      <4>1. Offered(f, k, Given(k), <<Word("allocation", "ok"), Mod(k)>>)
        BY <2>2, <2>3, <2>4, <3>1 DEF Offered
      <4> QED
        BY <4>1
    <3>2. CASE stop # "none"
      <4>1. Offered(f, k, Given(k), bad)
        BY <2>3, <3>2 DEF Offered
      <4> QED
        BY <4>1
    <3> QED
      BY <3>1, <3>2
  <2> HIDE DEF Given
  <2> QED
    BY <2>2, <2>5
<1>7. ASSUME c.user = u, AllocateAgain(u),
             Answer(f, [c EXCEPT !.mod = userKey[u], !.act = FALSE],
                    <<Word("allocation", "ok"), Mod([c EXCEPT !.mod = userKey[u], !.act = FALSE].mod)>>)
      PROVE  Goal
  <2>1. PICK k \in Keys \cup {NoKey} : k = userKey[u]
    BY <1>3
  <2>2. Given(k) \in Conns /\ Given(k).mod = k
    BY <1>5
  <2>3. userKey'[u] = k /\ k # NoKey
    BY <1>7, <2>1 DEF AllocateAgain, IsNew, dbVars
  <2>4. Answer(f, Given(k), <<Word("allocation", "ok"), Mod(k)>>)
    <3>1. Answer(f, Given(k), <<Word("allocation", "ok"), Mod(Given(k).mod)>>)
      BY <1>7, <2>1
    <3> QED
      BY <2>2, <3>1
  <2>5. Offered(f, k, Given(k), <<Word("allocation", "ok"), Mod(k)>>)
    BY <2>2, <2>3, <2>4 DEF Offered
  <2> HIDE DEF Given
  <2> QED
    BY <2>2, <2>5
<1>8. CASE c.user = NoUser
  BY <1>4, <1>8 DEF OnReadAllocation
<1>9. CASE c.user = u
  <2>1. \/ Answer(f, c, bad)
        \/ \E k \in Keys, stop \in Stops :
             /\ AllocateNew(u, k, stop)
             /\ IF stop = "none"
                THEN Answer(f, [c EXCEPT !.mod = k, !.act = k \in active],
                            <<Word("allocation", "ok"), Mod([c EXCEPT !.mod = k, !.act = k \in active].mod)>>)
                ELSE Answer(f, [c EXCEPT !.mod = k, !.act = k \in active], bad)
        \/ /\ AllocateAgain(u)
           /\ Answer(f, [c EXCEPT !.mod = userKey[u], !.act = FALSE],
                     <<Word("allocation", "ok"), Mod([c EXCEPT !.mod = userKey[u], !.act = FALSE].mod)>>)
    BY <1>9, Zenon DEF OnReadAllocation
  <2> HIDE DEF Goal, bad
  <2>2. CASE Answer(f, c, bad)
    BY <1>4, <2>2 DEF Goal
  <2>3. ASSUME NEW k \in Keys, NEW stop \in Stops, AllocateNew(u, k, stop),
               IF stop = "none"
               THEN Answer(f, [c EXCEPT !.mod = k, !.act = k \in active],
                           <<Word("allocation", "ok"), Mod([c EXCEPT !.mod = k, !.act = k \in active].mod)>>)
               ELSE Answer(f, [c EXCEPT !.mod = k, !.act = k \in active], bad)
        PROVE  Goal
    BY <1>6, <1>9, <2>3, Zenon
  <2>4. CASE /\ AllocateAgain(u)
             /\ Answer(f, [c EXCEPT !.mod = userKey[u], !.act = FALSE],
                       <<Word("allocation", "ok"), Mod([c EXCEPT !.mod = userKey[u], !.act = FALSE].mod)>>)
    BY <1>7, <1>9, <2>4, Zenon DEF Goal
  <2> QED
    BY <2>1, <2>2, <2>3, <2>4, Zenon DEF Goal
<1> QED
  BY <1>3, <1>8, <1>9

\* onRead_allocation.
LEMMA AllocationConn ==
  ASSUME Clients, NEW f \in Fds, OnReadAllocation(f), UNCHANGED clientVars
  PROVE  Open(f)' /\ ConnInv(f)' /\ ~conn'[f].act
<1> DEFINE p == conn[f].proc
           u == Acct[conn[f].proc]
<1>1. Received(f, "allocation")
  BY DEF OnReadAllocation
<1>2. Open(f) /\ ~conn[f].act
  BY <1>1, ReadForm
<1>3. conn[f] \in Conns /\ u \in Users /\ conn[f].user \in {NoUser, u}
  BY <1>2, ClientFacts DEF ServedRightly
<1>0. PICK k \in Keys \cup {NoKey}, con \in Conns : \E ms : Offered(f, k, con, ms)
  BY AllocationForm
<1>4. PICK ms : Offered(f, k, con, ms)
  BY <1>0
<1>5. con.proc = p /\ ~con.act /\ con.user \in {NoUser, u} /\ con.wbuf = conn[f].wbuf
  BY <1>2, <1>3, <1>4 DEF Conns, Offered
<1>6. /\ ms \in Seq(Messages) /\ NoKeySent(ms) /\ ~Joined("allocation", ms)
      /\ \A num : InStep("allocation", <<>>, num, ms)
      /\ \A own : Holds("allocation", own, con.mod, userKey'[u], ms)
  <2>1. CASE ms = <<Word("allocation", "bad")>>
    <3>1. \A num, own, l, key : /\ ms \in Seq(Messages) /\ NoKeySent(ms) /\ ~Joined("allocation", ms)
                                /\ InStep("allocation", <<>>, num, ms) /\ Holds("allocation", own, l, key, ms)
      BY <2>1, WordAnswers
    <3> QED
      BY <3>1
  <2>2. CASE /\ ms = <<Word("allocation", "ok"), Mod(k)>> /\ con.mod = k /\ k # NoKey
             /\ userKey'[u] = k
    <3>1. \A num, own : /\ ms \in Seq(Messages) /\ NoKeySent(ms) /\ ~Joined("allocation", ms)
                        /\ InStep("allocation", <<>>, num, ms) /\ Holds("allocation", own, k, k, ms)
      BY <2>2, ModAnswers
    <3> QED
      BY <2>2, <3>1
  <2> QED
    BY <1>4, <2>1, <2>2 DEF Offered
<1>7. conn'[f] = Answered(f, con, ms)[f]
  BY <1>4 DEF Offered, Answer
<1> QED
  BY <1>1, <1>4, <1>5, <1>6, <1>7, AnswerConn

\* What a join of a client does: the modulus is known, and when the client
\* has its account for itself the Conn becomes active.
LEMMA JoinFacts ==
  ASSUME Clients, NEW f \in Fds, OnReadMemberJoin(f)
  PROVE  /\ conn[f].mod \in members /\ conn[f].mod = userKey[Acct[conn[f].proc]] /\ conn[f].mod # NoKey
         /\ active' = active \cup {conn[f].mod} /\ userKey' = userKey
         /\ Activated(conn[f]).act <=> conn[f].mod \notin active
         /\ Alone(conn[f].proc) => conn[f].mod \notin active
         /\ Received(f, "mem_join")
         /\ OnWriteNewKey(Answered(f, Activated(conn[f]), <<Word("mem_join", "ok")>>), [armed EXCEPT ![f] = "out"])
<1> DEFINE p == conn[f].proc
           k == conn[f].mod
<1>1. Received(f, "mem_join") /\ Join(k)
  BY DEF OnReadMemberJoin
<1>2. Open(f) /\ ~conn[f].act /\ c2s[p] = <<"mem_join">>
  BY <1>1, ReadForm
<1>3. conn[f] \in Conns /\ p \in Procs /\ Acct[p] \in Users /\ k = userKey[Acct[p]] /\ k # NoKey
  BY <1>2, ClientFacts DEF ServedRightly
<1>4. /\ RecordsAgree /\ up /\ Ownership /\ ConnsDiffer /\ LinksAgree
  BY DEF Clients, KnownInv, KeyInv
<1>5. k \in members
  BY <1>3, <1>4 DEF RecordsAgree
<1>6. active' = active \cup {k} /\ userKey' = userKey
  BY <1>1, <1>5 DEF Join, MemberJoin, dbVars
<1>7. Activated(conn[f]).act <=> k \notin active
  <2>1. Activated(conn[f]).act = (conn[f].act \/ (k \in members /\ k \notin active))
    BY <1>3 DEF Activated, Conns
  <2> QED
    BY <1>2, <1>5, <2>1
<1>8. ASSUME Alone(p), k \in active
      PROVE  FALSE
  <2>1. PICK g \in Fds : /\ Open(g) /\ conn[g].act /\ conn[g].mod = k
                         /\ Acct[conn[g].proc] \in Users /\ userKey[Acct[conn[g].proc]] = k
    BY <1>8, ActiveOwned
  <2>2. Acct[conn[g].proc] = Acct[p]
    BY <1>3, <1>4, <2>1 DEF Ownership, KeysUnique
  <2>3. conn[g].proc \in Procs /\ link[conn[g].proc] # "none"
    BY <1>4, <2>1, ClientFacts DEF ConnsDiffer, Connected
  <2>4. conn[g].proc # p
    BY <1>2, <1>4, <2>1 DEF ConnsDiffer
  <2>5. phase[conn[g].proc] = "off"
    BY <1>8, <2>2, <2>3, <2>4 DEF Alone
  <2> QED
    BY <1>4, <2>3, <2>5 DEF ConnsDiffer
<1>9. OnWriteNewKey(Answered(f, Activated(conn[f]), <<Word("mem_join", "ok")>>), [armed EXCEPT ![f] = "out"])
  BY <1>5 DEF OnReadMemberJoin, JoinReturnsOk
<1> QED
  BY <1>1, <1>3, <1>5, <1>6, <1>7, <1>8, <1>9

\* A client that was active already under its modulus is told nothing more.
LEMMA OkAnswers ==
  ASSUME NEW ms, ms = <<Word("mem_join", "ok")>>, NEW num, NEW k, k # NoKey
  PROVE  /\ ms \in Seq(Messages) /\ NoKeySent(ms)
         /\ InStep("mem_join", <<>>, num, ms) /\ Holds("mem_join", k, k, k, ms)
<1>1. /\ ms \in Seq(Messages) /\ ms # <<>> /\ Len(ms) = 1 /\ NoKeySent(ms) /\ Chain(ms)
      /\ ms[1].first = "mem_join" /\ ms[1].second = "ok"
  BY WordFacts
<1>2. InStep("mem_join", <<>>, num, ms)
  BY <1>1 DEF InStep, Fits, Scripted
<1>3. Holds("mem_join", k, k, k, ms)
  <2>1. \A i \in 1..Len(ms) : i = 1
    BY <1>1
  <2> QED
    BY <1>1, <2>1 DEF Holds, Joins
<1> QED
  BY <1>1, <1>2, <1>3

\* The answer to a join that made the client a member, and the key behind it.
LEMMA KeyAnswers ==
  ASSUME NEW g \in Nat, NEW ks \in SUBSET Keys, NEW num, NEW k, NEW s, NEW pair, NEW new,
         k # NoKey, s = <<Word("mem_join", "ok")>>, pair = <<Rekeying(g, ks), RandomNum(g)>>, new = s \o pair
  PROVE  /\ new \in Seq(Messages)
         /\ InStep("mem_join", <<>>, num, new) /\ Holds("mem_join", k, k, k, new) /\ Settled("mem_join", new)
<1> DEFINE a == Word("mem_join", "ok")
           b == Rekeying(g, ks)
           c == RandomNum(g)
<1>1. /\ a.first = "mem_join" /\ a.second = "ok" /\ a \in Messages
      /\ b.first = "rekeying" /\ c.first = "randomNum" /\ c.num = b.num
  BY DEF Word, Rekeying, RandomNum, Messages
<1>2. /\ s \in Seq(Messages) /\ Len(s) = 1 /\ s[1] = a
      /\ pair \in Seq(Messages) /\ Len(pair) = 2 /\ pair[1] = b /\ pair[2] = c
  <2>1. s = <<a>> /\ pair = <<b, c>>
    OBVIOUS
  <2>2. <<b, c>> \in Seq(Messages) /\ Len(<<b, c>>) = 2 /\ <<b, c>>[1] = b /\ <<b, c>>[2] = c
    BY MessageTypes
  <2>3. <<a>> \in Seq(Messages) /\ Len(<<a>>) = 1 /\ <<a>>[1] = a
    BY <1>1, ShortSeqs
  <2> QED
    BY <2>1, <2>2, <2>3
<1> HIDE DEF a, b, c
<1>3. /\ s \o pair \in Seq(Messages) /\ Len(s \o pair) = Len(s) + Len(pair)
      /\ \A i \in 1..(Len(s) + Len(pair)) : (s \o pair)[i] = IF i <= Len(s) THEN s[i] ELSE pair[i - Len(s)]
  BY <1>2, ConcatProperties
<1>4. new \in Seq(Messages) /\ Len(new) = 3 /\ new[1] = a /\ new[2] = b /\ new[3] = c
  <2>1. \A i \in 1..3 : new[i] = IF i <= 1 THEN s[i] ELSE pair[i - 1]
    BY <1>2, <1>3
  <2>2. new[1] = s[1] /\ new[2] = pair[1] /\ new[3] = pair[2]
    BY <2>1
  <2> QED
    BY <1>2, <1>3, <2>2
<1>5. \A i \in 1..(Len(new) - 1) : Follows(new[i], new[i + 1])
  <2>1. \A i \in 1..(Len(new) - 1) : (i = 1 /\ i + 1 = 2) \/ (i = 2 /\ i + 1 = 3)
    BY <1>4
  <2>2. Follows(a, b) /\ Follows(b, c)
    BY <1>1 DEF Follows
  <2> QED
    BY <1>4, <2>1, <2>2
<1>6. Complete(c) /\ new # <<>>
  BY <1>1, <1>4, EmptySeq DEF Complete
<1>7. Chain(new)
  BY <1>4, <1>5, <1>6 DEF Chain
<1>8. \A i \in 1..Len(new) : new[i].first # "mod"
  <2>1. \A i \in 1..Len(new) : i = 1 \/ i = 2 \/ i = 3
    BY <1>4
  <2> QED
    BY <1>1, <1>4, <2>1
<1>9. InStep("mem_join", <<>>, num, new)
  BY <1>1, <1>4, <1>6, <1>7 DEF InStep, Fits, Scripted
<1> QED
  BY <1>1, <1>4, <1>8, <1>9 DEF Holds, Settled, Joins

\* Whom a broadcast reaches.
LEMMA BroadcastConns ==
  ASSUME NEW cs, NEW as, OnWriteNewKey(cs, as), NEW g \in Fds
  PROVE  conn'[g] = IF IsMember(cs[g]) THEN TheKey(cs[g]) ELSE cs[g]
  BY DEF OnWriteNewKey, KeyAfter, TheKey

\* onRead_member_join.
LEMMA JoinConn ==
  ASSUME Clients, KnownInv', NEW f \in Fds, OnReadMemberJoin(f), UNCHANGED clientVars
  PROVE  /\ Open(f)' /\ ConnInv(f)' /\ conn'[f].mod = conn[f].mod
         /\ conn'[f].act <=> conn[f].mod \notin active
<1> DEFINE p == conn[f].proc
           c == conn[f]
           k == conn[f].mod
           con == Activated(conn[f])
<1>1. /\ k \in members /\ k = userKey[Acct[p]] /\ k # NoKey
      /\ userKey' = userKey
      /\ con.act <=> k \notin active
      /\ Alone(p) => k \notin active
      /\ Received(f, "mem_join")
      /\ OnWriteNewKey(Answered(f, con, <<Word("mem_join", "ok")>>), [armed EXCEPT ![f] = "out"])
  BY JoinFacts
<1>2. /\ Open(f) /\ ~c.act /\ Tail(Whole(f)) = <<>> /\ Whole(f) # <<>> /\ c2s'[p] = <<>> /\ UNCHANGED <<link, s2c>>
      /\ link[p] = "open" => phase[p] = "mem_join" /\ s2c[p] = <<>> /\ c.wbuf = <<>>
  BY <1>1, ReadForm
<1>3. /\ GroupServerTypeOK /\ c \in Conns /\ p \in Procs /\ c.wbuf \in Seq(Messages) /\ conn \in [Fds -> Conns]
      /\ ServedRightly(f) /\ (link[p] = "open" => Conversing(p, c, Out(f)))
  BY <1>2, ClientFacts DEF GroupServerTypeOK
<1>4. con \in Conns /\ con.proc = p /\ con.user = c.user /\ con.mod = k /\ con.wbuf = c.wbuf
  <2> DEFINE a == c.act \/ (c.mod \in members /\ c.mod \notin active)
  <2>1. a \in BOOLEAN
    BY <1>3 DEF Conns
  <2> HIDE DEF a
  <2>2. [c EXCEPT !.act = a] \in Conns /\ [c EXCEPT !.act = a].proc = c.proc
    BY <1>3, <2>1, ConnChanges
  <2>3. /\ [c EXCEPT !.act = a].user = c.user /\ [c EXCEPT !.act = a].mod = c.mod
        /\ [c EXCEPT !.act = a].wbuf = c.wbuf
    BY <1>3 DEF Conns
  <2> QED
    BY <2>2, <2>3 DEF a, Activated
<1>5. PICK ms : ms = <<Word("mem_join", "ok")>>
  OBVIOUS
<1>6. /\ ms \in Seq(Messages) /\ NoKeySent(ms)
      /\ \A num : InStep("mem_join", <<>>, num, ms)
      /\ Holds("mem_join", k, k, k, ms)
  BY <1>1, <1>5, OkAnswers
<1>7. link[p] = "open" => mod[p] = k
  BY <1>2, <1>3 DEF Conversing, Holds, Joins
<1> DEFINE base == Answered(f, con, ms)[f]
<1>8. /\ base.proc = p /\ base.user = c.user /\ base.mod = k /\ base.act = con.act
      /\ base.rbuf = <<>> /\ base.wbuf = c.wbuf \o ms /\ base \in Conns
  <2>1. Answered(f, con, ms)[f] = [con EXCEPT !.rbuf = Tail(Whole(f)), !.wbuf = con.wbuf \o ms]
    BY <1>3 DEF Answered
  <2>2. Answered(f, con, ms) \in [Fds -> Conns]
    BY <1>2, <1>3, <1>4, <1>6, AnsweredTypes
  <2> QED
    BY <1>2, <1>4, <2>1, <2>2 DEF Conns
<1>9. conn'[f] = IF IsMember(base) THEN TheKey(base) ELSE base
  <2>1. OnWriteNewKey(Answered(f, con, ms), [armed EXCEPT ![f] = "out"])
    BY <1>1, <1>5
  <2> QED
    BY <2>1, BroadcastConns
<1> HIDE DEF base, con
<1>10. CASE k \in active
  <2>1. ~con.act /\ ~base.act
    BY <1>1, <1>8, <1>10
  <2>2. conn'[f] = Answered(f, con, ms)[f]
    BY <1>9, <2>1 DEF IsMember, base
  <2>3. /\ ~(Alone(con.proc) /\ Joined("mem_join", ms)) /\ con.user \in {NoUser, Acct[con.proc]}
        /\ InStep("mem_join", <<>>, cipher[con.proc].num, ms)
        /\ link[con.proc] = "open" => Holds("mem_join", mod[con.proc], con.mod, userKey'[Acct[con.proc]], ms)
    BY <1>1, <1>3, <1>4, <1>6, <1>7, <1>10 DEF ServedRightly
  <2>4. Open(f)' /\ ConnInv(f)' /\ ~conn'[f].act
    BY <1>1, <1>4, <1>6, <2>1, <2>2, <2>3, AnswerConn
  <2> QED
    BY <1>8, <1>9, <1>10, <2>1, <2>4 DEF IsMember
<1>11. CASE k \notin active
  <2>1. con.act /\ base.act
    BY <1>1, <1>8, <1>11
  <2>2. conn'[f] = TheKey(base)
    BY <1>3, <1>8, <1>9, <2>1, GroupServerAssumption DEF IsMember
  <2>3. PICK g \in Nat, ks \in SUBSET Keys : g = gen' /\ ks = rekey'
    BY DEF KnownInv, TypeInv, GroupSystemTypeOK, GroupServerTypeOK, KeyStoreTypeOK
  <2>4. PICK pair \in Seq(Messages) : pair = <<Rekeying(g, ks), RandomNum(g)>>
    BY MessageTypes
  <2>5. /\ conn'[f].proc = p /\ conn'[f].user = c.user /\ conn'[f].mod = k /\ conn'[f].act = base.act
        /\ conn'[f].rbuf = <<>> /\ conn'[f].wbuf = (c.wbuf \o ms) \o pair
    BY <1>8, <2>2, <2>3, <2>4 DEF TheKey, Conns
  <2>6. conn'[f].act
    BY <2>1, <2>5
  <2>7. <<f, "in">> \notin batch'
    BY <1>1 DEF Received, Event
  <2>8. ServedRightly(f)'
    BY <1>1, <1>2, <1>3, <2>5, <2>6, <2>7 DEF ServedRightly
  <2>9. ASSUME link[p] = "open"
        PROVE  Conversing(conn[f].proc, conn[f], Out(f))'
    <3>1. PICK new : new = ms \o pair
      OBVIOUS
    <3>2. /\ new \in Seq(Messages)
          /\ \A num : InStep("mem_join", <<>>, num, new)
          /\ Holds("mem_join", k, k, k, new) /\ Settled("mem_join", new)
      BY <1>1, <1>5, <2>4, <3>1, KeyAnswers
    <3>3. Out(f)' = new
      <4>1. Out(f)' = s2c[p] \o ((c.wbuf \o ms) \o pair)
        BY <1>2, <2>5 DEF Out
      <4>2. s2c[p] = <<>> /\ c.wbuf = <<>>
        BY <1>2, <2>9
      <4>3. \A s \in Seq(Messages) : <<>> \o s = s
        BY ConcatEmptySeq
      <4>4. (c.wbuf \o ms) \o pair = new
        BY <1>6, <3>1, <4>2, <4>3
      <4> QED
        BY <3>2, <4>1, <4>2, <4>3, <4>4
    <3>4. phase'[p] = "mem_join" /\ cipher' = cipher /\ mod'[p] = k /\ c2s'[p] = <<>> /\ userKey'[Acct[p]] = k
      BY <1>1, <1>2, <1>7, <2>9 DEF clientVars
    <3> QED
      BY <2>5, <2>6, <3>2, <3>3, <3>4 DEF Conversing
  <2>10. Open(f)' /\ ConnInv(f)'
    BY <1>2, <1>3, <2>5, <2>8, <2>9 DEF ConnInv, Open
  <2> QED
    BY <1>11, <2>5, <2>6, <2>10
<1> QED
  BY <1>10, <1>11

-----------------------------------------------------------------------------
(* A connection is written to, or closed.                                  *)

\* What a write takes from the buffer is what it gives to the socket.
LEMMA TakenOut ==
  ASSUME NEW s \in Seq(Messages), NEW w \in Seq(Messages), NEW n \in 0..Len(w)
  PROVE  (s \o SubSeq(w, 1, n)) \o SubSeq(w, n + 1, Len(w)) = s \o w
<1>1. Len(w) \in Nat
  BY LenProperties
<1>2. SubSeq(w, 1, n) \in Seq(Messages) /\ SubSeq(w, n + 1, Len(w)) \in Seq(Messages)
  <2>1. \A i \in 1..Len(w) : w[i] \in Messages
    BY ElementOfSeq
  <2>2. (\A i \in 1..n : w[i] \in Messages) /\ (\A i \in (n + 1)..Len(w) : w[i] \in Messages)
    BY <1>1, <2>1
  <2> QED
    BY <1>1, <2>2, SubSeqProperties
<1>3. SubSeq(w, 1, n) \o SubSeq(w, n + 1, Len(w)) = w
  <2>1. SubSeq(w, 1, n) \o SubSeq(w, n + 1, Len(w)) = SubSeq(w, 1, Len(w))
    <3>1. 1 \in 1..(Len(w) + 1) /\ n \in (1 - 1)..Len(w) /\ Len(w) \in n..Len(w)
      BY <1>1
    <3> QED
      BY <3>1, ConcatAdjacentSubSeq
  <2> QED
    BY <2>1, SubSeqFull
<1>4. PICK a \in Seq(Messages), b \in Seq(Messages) : a = SubSeq(w, 1, n) /\ b = SubSeq(w, n + 1, Len(w))
  BY <1>2
<1>5. (s \o a) \o b = s \o (a \o b)
  BY MessagesConcat
<1> QED
  BY <1>3, <1>4, <1>5

\* dealWrite.
LEMMA WriteConn ==
  ASSUME Clients, NEW f \in Fds, DealWrite(f), UNCHANGED clientVars
  PROVE  Open(f)' /\ ConnInv(f)' /\ conn'[f].mod = conn[f].mod /\ conn'[f].act = conn[f].act
<1> DEFINE p == conn[f].proc
           c == conn[f]
<1>1. <<f, "out">> \in batch /\ batch' \subseteq batch
  BY DEF DealWrite, Event
<1>2. Open(f)
  BY <1>1 DEF Clients, KnownInv, TypeInv, BatchIsOpen, Events
<1>3. /\ GroupServerTypeOK /\ c \in Conns /\ p \in Procs /\ c.wbuf \in Seq(Messages) /\ conn \in [Fds -> Conns]
      /\ ServedRightly(f) /\ (link[p] = "open" => Conversing(p, c, Out(f)))
      /\ s2c[p] \in Seq(Messages) /\ s2c \in [Procs -> Seq(Messages)] /\ link \in [Procs -> Links]
  BY <1>2, ClientFacts DEF GroupServerTypeOK
<1>4. UNCHANGED <<phase, mod, cipher, c2s, userKey>> /\ \A q : Alone(q)' => Alone(q)
  BY DEF DealWrite, clientVars, keyVars, dbVars, Alone
<1>5. ASSUME NEW w \in Seq(Messages), conn'[f] = [c EXCEPT !.wbuf = w],
             \A i \in 1..Len(w) : \E j \in 1..Len(c.wbuf) : w[i] = c.wbuf[j],
             link'[p] = "open" => link[p] = "open" /\ s2c'[p] \o w = s2c[p] \o c.wbuf
      PROVE  Open(f)' /\ ConnInv(f)' /\ conn'[f].mod = c.mod /\ conn'[f].act = c.act
  <2>1. /\ conn'[f].proc = p /\ conn'[f].user = c.user /\ conn'[f].mod = c.mod /\ conn'[f].act = c.act
        /\ conn'[f].rbuf = c.rbuf /\ conn'[f].wbuf = w
    BY <1>3, <1>5 DEF Conns
  <2>2. ~c.act => \A i \in 1..Len(w) : w[i].first # "randomNum"
    BY <1>3, <1>5 DEF ServedRightly
  <2>3. ServedRightly(f)'
    BY <1>1, <1>3, <1>4, <2>1, <2>2 DEF ServedRightly
  <2>4. link'[p] = "open" => Conversing(conn[f].proc, conn[f], Out(f))'
    <3>1. link'[p] = "open" => Out(f)' = Out(f)
      BY <1>5, <2>1 DEF Out
    <3> QED
      BY <1>3, <1>4, <1>5, <2>1, <3>1 DEF Conversing
  <2> QED
    BY <1>2, <2>1, <2>3, <2>4 DEF ConnInv, Open
<1>6. c = [c EXCEPT !.wbuf = c.wbuf]
  BY <1>3 DEF Conns
<1>7. CASE link[p] = "rst"
  <2>1. conn' = conn /\ link' = link
    BY <1>7 DEF DealWrite, socketVars
  <2>2. conn'[f] = [c EXCEPT !.wbuf = c.wbuf]
    BY <1>6, <2>1
  <2> QED
    BY <1>3, <1>5, <1>7, <2>1, <2>2
<1>8. CASE link[p] = "fin"
  <2>1. conn' = [conn EXCEPT ![f].wbuf = <<>>] /\ link' = [link EXCEPT ![p] = "rst"]
    BY <1>8 DEF DealWrite
  <2>2. conn'[f] = [c EXCEPT !.wbuf = <<>>] /\ link'[p] # "open"
    BY <1>3, <2>1
  <2>3. PICK w \in Seq(Messages) : w = <<>> /\ Len(w) = 0
    BY EmptyTypes
  <2>4. \A i \in 1..Len(w) : \E j \in 1..Len(c.wbuf) : w[i] = c.wbuf[j]
    BY <2>3
  <2> QED
    BY <1>5, <2>2, <2>3, <2>4
<1>9. CASE link[p] \notin {"rst", "fin"}
  <2> DEFINE n == Taken(f)
             w == SubSeq(c.wbuf, n + 1, Len(c.wbuf))
  <2>1. /\ s2c' = [s2c EXCEPT ![p] = s2c[p] \o SubSeq(c.wbuf, 1, n)] /\ link' = link
        /\ conn' = [conn EXCEPT ![f].wbuf = SubSeq(c.wbuf, n + 1, Len(c.wbuf))]
    BY <1>9 DEF DealWrite
  <2>2. n \in 0..Len(c.wbuf) /\ w \in Seq(Messages) /\ Len(w) = Len(c.wbuf) - n
    BY <1>2, <1>3, TakenTypes
  <2>3. conn'[f] = [c EXCEPT !.wbuf = w] /\ s2c'[p] = s2c[p] \o SubSeq(c.wbuf, 1, n)
    BY <1>3, <2>1
  <2> HIDE DEF n
  <2>4. s2c'[p] \o w = s2c[p] \o c.wbuf
    <3>1. \A k \in 0..Len(c.wbuf) :
            (s2c[p] \o SubSeq(c.wbuf, 1, k)) \o SubSeq(c.wbuf, k + 1, Len(c.wbuf)) = s2c[p] \o c.wbuf
      BY <1>3, TakenOut
    <3> QED
      BY <2>2, <2>3, <3>1
  <2>5. \A i \in 1..Len(w) : \E j \in 1..Len(c.wbuf) : w[i] = c.wbuf[j]
    <3>1. Len(c.wbuf) \in Nat /\ n \in Nat /\ n <= Len(c.wbuf)
      BY <1>3, <2>2, LenProperties
    <3>2. \A i \in 1..(Len(c.wbuf) - n) : w[i] = c.wbuf[n + i] /\ n + i \in 1..Len(c.wbuf)
      BY <3>1
    <3> QED
      BY <2>2, <3>2
  <2> HIDE DEF w
  <2> QED
    BY <1>5, <1>9, <2>1, <2>2, <2>3, <2>4, <2>5
<1> QED
  BY <1>7, <1>8, <1>9

\* The first segment of a request changes nothing that counts.
LEMMA PartConn ==
  ASSUME Clients, NEW f \in Fds, DealReadPart(f), UNCHANGED clientVars
  PROVE  Open(f)' /\ ConnInv(f)' /\ conn'[f].mod = conn[f].mod /\ conn'[f].act = conn[f].act
<1> DEFINE p == conn[f].proc
           c == conn[f]
<1>1. <<f, "in">> \in batch /\ batch' \subseteq batch
  BY DEF DealReadPart, Event
<1>2. Open(f)
  BY <1>1 DEF Clients, KnownInv, TypeInv, BatchIsOpen, Events
<1>3. /\ c \in Conns /\ p \in Procs /\ conn \in [Fds -> Conns]
      /\ ServedRightly(f) /\ (link[p] = "open" => Conversing(p, c, Out(f)))
  BY <1>2, ClientFacts DEF GroupServerTypeOK
<1>4. UNCHANGED <<phase, mod, cipher, c2s, s2c, link, userKey>> /\ \A q : Alone(q)' => Alone(q)
  BY DEF DealReadPart, clientVars, keyVars, dbVars, socketVars, Alone
<1>5. /\ conn'[f].proc = p /\ conn'[f].user = c.user /\ conn'[f].mod = c.mod /\ conn'[f].act = c.act
      /\ conn'[f].rbuf = <<Part>> /\ conn'[f].wbuf = c.wbuf
  BY <1>3 DEF DealReadPart, Conns
<1>6. ServedRightly(f)'
  BY <1>1, <1>3, <1>4, <1>5 DEF ServedRightly
<1>7. Out(f)' = Out(f)
  BY <1>4, <1>5 DEF Out
<1>8. link'[p] = "open" => Conversing(conn[f].proc, conn[f], Out(f))'
  BY <1>3, <1>4, <1>5, <1>7 DEF Conversing
<1> QED
  BY <1>2, <1>5, <1>6, <1>8 DEF ConnInv, Open

\* A connection that is closed leaves nothing behind: a member is taken out
\* of the group first, and finds itself in it.
LEMMA ClosedIdle ==
  ASSUME NEW c \in Conns, NEW a \in BOOLEAN
  PROVE  /\ Closed(c).proc = NoProc /\ Closed(c).wbuf = <<>> /\ Closed(c).act = c.act
         /\ Closed([c EXCEPT !.act = a]).proc = NoProc /\ Closed([c EXCEPT !.act = a]).wbuf = <<>>
         /\ Closed([c EXCEPT !.act = a]).act = a
  BY DEF Closed, Conns

\* The branch of a connection that is gone, and a read that fails.
LEMMA CloseConn ==
  ASSUME Clients, NEW f \in Fds, DealReadError(f) \/ DealHup(f)
  PROVE  /\ ~Open(f)' /\ Idle(f)'
         /\ \/ active' = active /\ ~conn[f].act /\ UNCHANGED userKey
               /\ \A g \in Fds : g # f => conn'[g] = conn[g]
            \/ /\ active' = active \ {conn[f].mod} /\ conn[f].act /\ UNCHANGED userKey
               /\ \A g \in Fds : g # f => conn'[g] = IF IsMember(conn[g]) THEN TheKey(conn[g]) ELSE conn[g]
<1> DEFINE c == conn[f]
<1>1. /\ conn \in [Fds -> Conns] /\ c \in Conns /\ c.act \in BOOLEAN
  BY ConnTypes DEF Clients, KnownInv, TypeInv, GroupSystemTypeOK, GroupServerTypeOK
<1>2. \E ev \in Events : <<f, ev>> \in batch
  BY DEF DealReadError, DealHup, Event, Events
<1>3. Open(f)
  BY <1>2 DEF Clients, KnownInv, TypeInv, BatchIsOpen
<1>4. ASSUME conn' = [conn EXCEPT ![f] = Closed(c)], ~c.act, UNCHANGED keyVars
      PROVE  /\ ~Open(f)' /\ Idle(f)'
             /\ active' = active /\ ~conn[f].act /\ UNCHANGED userKey
             /\ \A g \in Fds : g # f => conn'[g] = conn[g]
  <2>1. conn'[f] = Closed(c) /\ \A g \in Fds : g # f => conn'[g] = conn[g]
    BY <1>1, <1>4
  <2>2. active' = active /\ userKey' = userKey
    BY <1>4 DEF keyVars, dbVars, groupVars
  <2>3. conn'[f].proc = NoProc /\ conn'[f].wbuf = <<>> /\ conn'[f].act = c.act
    BY <1>1, <2>1, ClosedIdle
  <2> QED
    BY <1>4, <2>1, <2>2, <2>3 DEF Open, Idle
<1>5. CASE DealReadError(f)
  <2>1. <<f, "in">> \in batch
    BY <1>5 DEF DealReadError, Event
  <2>2. ~c.act
    BY <1>3, <2>1, ClientFacts DEF ServedRightly
  <2> QED
    BY <1>4, <1>5, <2>2 DEF DealReadError
<1>6. CASE DealHup(f) /\ ~c.act
  BY <1>4, <1>6 DEF DealHup, MustLeave
<1>7. CASE DealHup(f) /\ c.act
  <2> DEFINE left == Closed([c EXCEPT !.act = c.mod \notin active])
  <2>1. Drop(c.mod) /\ OnWriteNewKey([conn EXCEPT ![f] = left], [armed EXCEPT ![f] = "none"])
    BY <1>7 DEF DealHup, MustLeave
  <2>2. c.mod \in active
    BY <1>7 DEF Clients, ClientInv, ActiveAgrees
  <2>3. c.mod \in members
    <3>1. c.mod = userKey[Acct[c.proc]] /\ c.mod # NoKey /\ Acct[c.proc] \in Users
      BY <1>3, <1>7, ClientFacts DEF ServedRightly
    <3>2. RecordsAgree /\ up
      BY DEF Clients, KnownInv, KeyInv
    <3> QED
      BY <3>1, <3>2 DEF RecordsAgree
  <2>4. active' = active \ {c.mod} /\ userKey' = userKey
    BY <2>1, <2>2, <2>3 DEF Drop, MemberLeave, LeaveReturnsOk, dbVars
  <2>5. left.proc = NoProc /\ left.wbuf = <<>> /\ ~left.act
    <3>1. (c.mod \notin active) = FALSE
      BY <2>2
    <3>2. left = Closed([c EXCEPT !.act = FALSE])
      BY <3>1
    <3> QED
      BY <1>1, <3>2, ClosedIdle
  <2> HIDE DEF left
  <2>6. /\ [conn EXCEPT ![f] = left][f] = left
        /\ \A g \in Fds : g # f => [conn EXCEPT ![f] = left][g] = conn[g]
    BY <1>1
  <2>7. conn'[f] = left
    BY <2>1, <2>5, <2>6, BroadcastConns DEF IsMember
  <2>8. \A g \in Fds : g # f => conn'[g] = IF IsMember(conn[g]) THEN TheKey(conn[g]) ELSE conn[g]
    BY <2>1, <2>6, BroadcastConns
  <2> QED
    BY <1>7, <2>4, <2>5, <2>7, <2>8 DEF Open, Idle
<1> QED
  BY <1>5, <1>6, <1>7

-----------------------------------------------------------------------------
(* What the handler of f does to its connection, the others and the group. *)

\* Only a member gets a key.
Bystander(g) == conn'[g] = conn[g] \/ (IsMember(conn[g]) /\ conn'[g] = TheKey(conn[g]))

GroupEffect(f) ==
  \/ /\ active' = active /\ ~conn[f].act /\ ~conn'[f].act
  \/ /\ active' = active /\ conn'[f].act = conn[f].act /\ conn'[f].mod = conn[f].mod
  \/ /\ active' = active \cup {conn'[f].mod} /\ ~conn[f].act
     /\ conn'[f].act <=> conn'[f].mod \notin active
  \/ /\ active' = active \ {conn[f].mod} /\ conn[f].act /\ ~conn'[f].act

Effect(f) ==
  /\ IF Open(f)' THEN ConnInv(f)' ELSE Idle(f)'
  /\ \A g \in Fds : g # f => Bystander(g)
  /\ GroupEffect(f)

\* dealRead.
LEMMA ReadEffect ==
  ASSUME Clients, KnownInv', NEW f \in Fds, DealRead(f), UNCHANGED clientVars
  PROVE  Effect(f)
<1>1. /\ conn \in [Fds -> Conns]
  BY DEF Clients, KnownInv, TypeInv, GroupSystemTypeOK, GroupServerTypeOK
<1>2. ASSUME NEW c, NEW ms, Answer(f, c, ms)
      PROVE  \A g \in Fds : g # f => conn'[g] = conn[g]
  BY <1>1, <1>2 DEF Answer, Answered
<1>3. UNCHANGED keyVars => active' = active
  BY DEF keyVars, groupVars
<1>4. CASE DealReadError(f)
  <2>1. <<f, "in">> \in batch
    BY <1>4 DEF DealReadError, Event
  <2>2. Open(f)
    BY <2>1 DEF Clients, KnownInv, TypeInv, BatchIsOpen, Events
  <2>3. ~conn[f].act
    BY <2>1, <2>2, ClientFacts DEF ServedRightly
  <2> QED
    BY <1>4, <2>3, CloseConn DEF Effect, GroupEffect, Bystander, Idle
<1>5. CASE DealReadPart(f)
  <2>1. \A g \in Fds : g # f => conn'[g] = conn[g]
    BY <1>1, <1>5 DEF DealReadPart
  <2>2. active' = active
    BY <1>3, <1>5 DEF DealReadPart
  <2> QED
    BY <1>5, <2>1, <2>2, PartConn DEF Effect, GroupEffect, Bystander
<1>6. ASSUME NEW isLogin \in BOOLEAN, OnReadUserVerify(f, isLogin)
      PROVE  Effect(f)
  <2>1. \E c, ms : Answer(f, c, ms)
    BY <1>6 DEF OnReadUserVerify
  <2>2. active' = active
    BY <1>3, <1>6 DEF OnReadUserVerify
  <2>3. \E r : Received(f, r)
    BY <1>6 DEF OnReadUserVerify
  <2>4. ~conn[f].act
    BY <2>3, ReadForm
  <2> QED
    BY <1>2, <1>6, <2>1, <2>2, <2>4, VerifyConn DEF Effect, GroupEffect, Bystander
<1>7. CASE OnReadAllocation(f)
  <2>1. \E c, ms : Answer(f, c, ms)
    BY <1>7, AllocationForm DEF Offered
  <2>2. active' = active
    <3>1. \/ UNCHANGED keyVars
          \/ \E u, k, stop : AllocateNew(u, k, stop)
          \/ \E u, rows : AllocateNoKey(u, rows)
          \/ \E u : AllocateAgain(u)
      BY <1>7 DEF OnReadAllocation
    <3> QED
      BY <1>3, <3>1 DEF AllocateNew, AllocateNoKey, AllocateAgain, groupVars
  <2>3. ~conn[f].act
    BY <1>7, ReadForm DEF OnReadAllocation
  <2> QED
    BY <1>2, <1>7, <2>1, <2>2, <2>3, AllocationConn DEF Effect, GroupEffect, Bystander
<1>8. CASE OnReadMemberJoin(f)
  <2> DEFINE cs == Answered(f, Activated(conn[f]), <<Word("mem_join", "ok")>>)
  <2>1. /\ active' = active \cup {conn[f].mod} /\ Received(f, "mem_join")
        /\ OnWriteNewKey(cs, [armed EXCEPT ![f] = "out"])
    BY <1>8, JoinFacts
  <2>2. \A g \in Fds : g # f => cs[g] = conn[g]
    BY <1>1 DEF Answered
  <2> HIDE DEF cs
  <2>3. \A g \in Fds : g # f => Bystander(g)
    BY <2>1, <2>2, BroadcastConns DEF Bystander
  <2>4. ~conn[f].act
    BY <2>1, ReadForm
  <2>5. /\ Open(f)' /\ ConnInv(f)' /\ conn'[f].mod = conn[f].mod
        /\ conn'[f].act <=> conn[f].mod \notin active
    BY <1>8, JoinConn
  <2> QED
    BY <2>1, <2>3, <2>4, <2>5 DEF Effect, GroupEffect
<1>9. CASE OnReadMemberLeave(f) \/ OnReadError(f) \/ DealReadDamaged(f)
  <2>1. \E r \in {"mem_leave", "other", "unframed", "undelimited"} : Received(f, r)
    BY <1>9 DEF OnReadMemberLeave, OnReadError, DealReadDamaged, Damaged
  <2> QED
    BY <2>1, ReadForm
<1> QED
  BY <1>4, <1>5, <1>6, <1>7, <1>8, <1>9 DEF DealRead

\* Every handler of an event.
LEMMA HandlerEffect ==
  ASSUME Clients, KnownInv', NEW f \in Fds, DealRead(f) \/ DealWrite(f) \/ DealHup(f), UNCHANGED clientVars
  PROVE  Effect(f)
<1>1. conn \in [Fds -> Conns]
  BY DEF Clients, KnownInv, TypeInv, GroupSystemTypeOK, GroupServerTypeOK
<1>2. CASE DealHup(f)
  BY <1>2, CloseConn DEF Effect, GroupEffect, Bystander, Idle
<1>3. CASE DealWrite(f)
  <2>1. active' = active
    BY <1>3 DEF DealWrite, keyVars, groupVars
  <2>2. \A g \in Fds : g # f => conn'[g] = conn[g]
    <3>1. conn' = conn \/ \E w : conn' = [conn EXCEPT ![f].wbuf = w]
      BY <1>3 DEF DealWrite
    <3> QED
      BY <1>1, <3>1
  <2> QED
    BY <1>3, <2>1, <2>2, WriteConn DEF Effect, GroupEffect, Bystander
<1> QED
  BY <1>2, <1>3, ReadEffect

\* The active Conns and the active moduli stay the same.
LEMMA ActiveStep ==
  ASSUME GroupServerTypeOK, ActiveAgrees, NEW f \in Fds, GroupEffect(f),
         \A g \in Fds : g # f => Bystander(g)
  PROVE  ActiveAgrees'
<1>1. \A g \in Fds : g # f => conn'[g].act = conn[g].act /\ conn'[g].mod = conn[g].mod
  <2> SUFFICES ASSUME NEW g \in Fds, g # f
               PROVE  conn'[g].act = conn[g].act /\ conn'[g].mod = conn[g].mod
    OBVIOUS
  <2>1. conn[g] \in Conns
    BY ConnTypes
  <2>2. TheKey(conn[g]).act = conn[g].act /\ TheKey(conn[g]).mod = conn[g].mod
    BY <2>1 DEF TheKey, Conns
  <2> QED
    BY <2>2 DEF Bystander
<1>2. /\ \A g \in Fds : conn[g].act => conn[g].mod \in active
      /\ \A k \in active : \E g \in Fds : conn[g].act /\ conn[g].mod = k
      /\ \A g, h \in Fds : conn[g].act /\ conn[h].act /\ conn[g].mod = conn[h].mod => g = h
  BY DEF ActiveAgrees
<1> DEFINE Goal == /\ \A g \in Fds : conn'[g].act => conn'[g].mod \in active'
                   /\ \A k \in active' : \E g \in Fds : conn'[g].act /\ conn'[g].mod = k
                   /\ \A g, h \in Fds : conn'[g].act /\ conn'[h].act /\ conn'[g].mod = conn'[h].mod => g = h
<1>3. ASSUME active' = active, ~conn[f].act, ~conn'[f].act PROVE Goal
  BY <1>1, <1>2, <1>3
<1>4. ASSUME active' = active, conn'[f].act = conn[f].act, conn'[f].mod = conn[f].mod PROVE Goal
  <2>1. \A g \in Fds : conn'[g].act = conn[g].act /\ conn'[g].mod = conn[g].mod
    BY <1>1, <1>4
  <2> QED
    BY <1>2, <1>4, <2>1
<1>5. ASSUME active' = active \cup {conn'[f].mod}, ~conn[f].act, conn'[f].act <=> conn'[f].mod \notin active PROVE Goal
  <2>1. \A g \in Fds : conn'[g].act => conn'[g].mod \in active'
    BY <1>1, <1>2, <1>5
  <2>2. \A k \in active' : \E g \in Fds : conn'[g].act /\ conn'[g].mod = k
    BY <1>1, <1>2, <1>5
  <2>3. \A g, h \in Fds : conn'[g].act /\ conn'[h].act /\ conn'[g].mod = conn'[h].mod => g = h
    BY <1>1, <1>2, <1>5
  <2> QED
    BY <2>1, <2>2, <2>3
<1>6. ASSUME active' = active \ {conn[f].mod}, conn[f].act, ~conn'[f].act PROVE Goal
  <2>1. \A g \in Fds : conn'[g].act => conn'[g].mod \in active'
    BY <1>1, <1>2, <1>6
  <2>2. \A k \in active' : \E g \in Fds : conn'[g].act /\ conn'[g].mod = k
    BY <1>1, <1>2, <1>6
  <2>3. \A g, h \in Fds : conn'[g].act /\ conn'[h].act /\ conn'[g].mod = conn'[h].mod => g = h
    BY <1>1, <1>2, <1>6
  <2> QED
    BY <2>1, <2>2, <2>3
<1>7. Goal
  BY <1>3, <1>4, <1>5, <1>6, Zenon DEF GroupEffect
<1> QED
  BY <1>7 DEF ActiveAgrees

-----------------------------------------------------------------------------
(* The steps of the server.                                                *)

\* The handler of f leaves the other connections and their clients alone.
LEMMA OthersUntouched ==
  ASSUME Clients, KeyStep, NEW f \in Fds, DealRead(f) \/ DealWrite(f) \/ DealHup(f), UNCHANGED clientVars,
         NEW g \in Fds, g # f, Open(g)
  PROVE  Untouched(g)
<1> DEFINE q == conn[g].proc
<1>1. /\ Open(f) /\ conn[f].proc \in Procs
      /\ \A o \in Procs : o # conn[f].proc => link'[o] = link[o] /\ s2c'[o] = s2c[o] /\ c2s'[o] = c2s[o]
      /\ batch' \subseteq batch
  BY HandlerSockets DEF Clients, KnownInv
<1>2. q \in Procs /\ GroupServerTypeOK /\ (<<g, "in">> \in batch => ~conn[g].act)
  BY ClientFacts DEF ServedRightly
<1>3. q # conn[f].proc
  BY DEF Clients, KnownInv, ConnsDiffer
<1>4. UNCHANGED <<phase, mod, cipher>> /\ \A o : Alone(o)' => Alone(o)
  BY DEF clientVars, Alone
<1>5. \A u \in Users : userKey[u] # NoKey => userKey'[u] = userKey[u]
  BY <1>2, KeysKept
<1> QED
  BY <1>1, <1>2, <1>3, <1>4, <1>5 DEF Untouched

\* A closed Conn stays closed, an open one keeps its conversation.
LEMMA BystanderKeeps ==
  ASSUME Clients, GroupServerTypeOK', NEW g \in Fds, Bystander(g), Open(g) => Untouched(g)
  PROVE  IF Open(g)' THEN ConnInv(g)' ELSE Idle(g)'
<1>1. GroupServerTypeOK /\ conn[g] \in Conns /\ (IF Open(g) THEN ConnInv(g) ELSE Idle(g))
  BY ConnTypes DEF Clients, KnownInv, TypeInv, GroupSystemTypeOK, ClientInv
<1>2. gen' \in Nat /\ rekey' \in SUBSET Keys
  BY DEF GroupServerTypeOK, KeyStoreTypeOK
<1>3. CASE ~Open(g)
  <2>1. conn'[g] = conn[g]
    BY <1>3 DEF Bystander, IsMember, Open
  <2> QED
    BY <1>1, <1>3, <2>1 DEF Open, Idle
<1>4. CASE Open(g) /\ conn'[g] = conn[g]
  <2>1. ConnInv(g)'
    BY <1>1, <1>4, SameConn
  <2> QED
    BY <1>4, <2>1 DEF Open
<1>5. CASE Open(g) /\ conn'[g] # conn[g]
  <2>1. conn[g].act /\ conn'[g] = TheKey(conn[g])
    BY <1>5 DEF Bystander, IsMember
  <2>2. ConnInv(g)'
    BY <1>1, <1>2, <1>5, <2>1, ToldConn
  <2>3. conn'[g].proc = conn[g].proc
    BY <1>1, <2>1 DEF TheKey, Conns
  <2> QED
    BY <1>5, <2>2, <2>3 DEF Open
<1> QED
  BY <1>3, <1>4, <1>5

\* So a handler keeps every conversation in order.
LEMMA HandlerStep ==
  ASSUME Clients, KnownInv', KeyStep, NEW f \in Fds, DealRead(f) \/ DealWrite(f) \/ DealHup(f), UNCHANGED clientVars
  PROVE  ClientInv'
<1>1. Effect(f)
  BY HandlerEffect
<1>2. GroupServerTypeOK /\ GroupServerTypeOK' /\ ActiveAgrees
  BY DEF Clients, KnownInv, TypeInv, GroupSystemTypeOK, ClientInv
<1>3. ASSUME NEW g \in Fds, g # f
      PROVE  IF Open(g)' THEN ConnInv(g)' ELSE Idle(g)'
  BY <1>1, <1>2, <1>3, OthersUntouched, BystanderKeeps DEF Effect
<1>4. ActiveAgrees'
  BY <1>1, <1>2, ActiveStep DEF Effect
<1> QED
  BY <1>1, <1>3, <1>4 DEF Effect, ClientInv

\* epoll_wait changes what is armed, and the events it returns are new.
LEMMA WaitStep ==
  ASSUME Clients, Wait, UNCHANGED clientVars
  PROVE  ClientInv'
<1>1. /\ UNCHANGED <<conn, active, userKey, link, s2c, c2s, phase, mod, cipher>>
      /\ \A q : Alone(q)' => Alone(q)
  BY DEF Wait, socketVars, keyVars, dbVars, groupVars, clientVars, Alone
<1>2. TypeInv /\ GroupServerTypeOK /\ ClientInv
  BY DEF Clients, KnownInv, TypeInv, GroupSystemTypeOK
<1>3. ASSUME NEW g \in Fds, Open(g)
      PROVE  ConnInv(g)'
  <2>1. ConnInv(g)
    BY <1>2, <1>3 DEF ClientInv
  <2>2. <<g, "in">> \in batch' => ~conn[g].act
    <3> SUFFICES ASSUME <<g, "in">> \in batch' PROVE ~conn[g].act
      OBVIOUS
    <3>1. EventOf(g) = "in"
      BY <1>2, WaitTypes DEF Events
    <3>2. c2s[conn[g].proc] # <<>>
      BY <3>1 DEF EventOf
    <3> QED
      BY <2>1, <3>2 DEF ConnInv, ServedRightly
  <2>3. Untouched(g)
    BY <1>1, <2>2 DEF Untouched
  <2> QED
    BY <1>1, <1>2, <1>3, <2>1, <2>3, SameConn
<1>4. \A g \in Fds : IF Open(g)' THEN ConnInv(g)' ELSE Idle(g)'
  BY <1>1, <1>2, <1>3 DEF ClientInv, Open, Idle
<1>5. ActiveAgrees'
  BY <1>1, <1>2 DEF ClientInv, ActiveAgrees
<1> QED
  BY <1>4, <1>5 DEF ClientInv

\* A client that is accepted has sent its login, and nothing was answered.
LEMMA AcceptedConn ==
  ASSUME Clients, DealListen, UNCHANGED clientVars, NEW f \in Fds, Accepts(f)
  PROVE  Open(f)' /\ ConnInv(f)' /\ conn'[f].act = conn[f].act /\ conn'[f].mod = conn[f].mod /\ ~conn'[f].act
<1> DEFINE q == backlog[PlaceAmongFree(f)]
<1>1. /\ TypeInv /\ GroupServerTypeOK /\ conn[f] \in Conns /\ ~Open(f) /\ Idle(f)
  BY ConnTypes DEF Accepts, Clients, KnownInv, TypeInv, GroupSystemTypeOK, ClientInv
<1>2. PlaceAmongFree(f) \in 1..Len(backlog) /\ q \in Procs /\ Waiting(q)
  BY <1>1, AcceptTypes DEF Waiting
<1>3. q \in Procs \ Peers
  <2>1. phase[q] # "off"
    BY <1>2 DEF Clients, KnownInv, ConnsDiffer, Connected
  <2> QED
    BY <1>2, <2>1 DEF Clients, OnlyClients
<1>4. /\ s2c[q] = <<>> /\ c2s[q] \in {<<>>, <<"login">>}
      /\ link[q] = "open" => phase[q] = "login" /\ c2s[q] = <<"login">>
  BY <1>2, <1>3 DEF Clients, KnownInv, WaitersWait
<1>5. /\ UNCHANGED <<link, s2c, c2s, phase, mod, cipher, userKey>>
      /\ batch' \subseteq batch
  BY DEF DealListen, Event, clientVars, keyVars, dbVars
<1>6. /\ conn'[f].proc = q /\ conn'[f].user = NoUser /\ conn'[f].mod = conn[f].mod /\ conn'[f].act = conn[f].act
      /\ conn'[f].rbuf = <<>> /\ conn'[f].wbuf = <<>>
  <2>1. conn'[f] = Inited(conn[f], q)
    BY DEF DealListen
  <2> QED
    BY <1>1, <2>1 DEF Inited, Conns
<1>7. ~conn'[f].act
  BY <1>1, <1>6 DEF Idle
<1>8. Open(f)'
  BY <1>2, <1>6, GroupServerAssumption DEF Open
<1>9. ServedRightly(f)'
  <2>1. <<"login">> # <<"mem_join">> /\ <<>> # <<"mem_join">> /\ Len(<<>>) = 0
    OBVIOUS
  <2>2. c2s'[conn'[f].proc] \in {<<>>, <<"login">>}
    BY <1>4, <1>5, <1>6
  <2>3. c2s'[conn'[f].proc] # <<"mem_join">>
    BY <2>1, <2>2
  <2> QED
    BY <1>6, <1>7, <2>1, <2>2, <2>3 DEF ServedRightly
<1>10. ASSUME link[q] = "open"
       PROVE  Conversing(conn[f].proc, conn[f], Out(f))'
  <2>1. phase'[q] = "login" /\ c2s'[q] = <<"login">>
    BY <1>4, <1>5, <1>10
  <2>2. PICK e : e = <<>>
    OBVIOUS
  <2>3. e = <<>> /\ Len(e) = 0 /\ Out(f)' = e
    <3>1. Out(f)' = <<>> \o <<>>
      BY <1>4, <1>5, <1>6 DEF Out
    <3>2. <<>> \o <<>> = <<>> /\ Len(<<>>) = 0
      OBVIOUS
    <3> QED
      BY <2>2, <3>1, <3>2
  <2>4. Chain(e)
    BY <2>3 DEF Chain
  <2>5. \A num : InStep("login", <<"login">>, num, e)
    BY <2>3, <2>4 DEF InStep, Scripted
  <2>6. \A own, k, key : Holds("login", own, k, key, e)
    BY <2>3 DEF Holds, Joins
  <2>7. ~Joined("login", e)
    BY <2>3 DEF Joined, InLoop
  <2> QED
    BY <1>6, <1>7, <2>1, <2>3, <2>5, <2>6, <2>7 DEF Conversing
<1> QED
  BY <1>5, <1>6, <1>7, <1>8, <1>9, <1>10 DEF ConnInv

\* dealListen leaves the connections alone that are there already.
LEMMA ListenStep ==
  ASSUME Clients, DealListen, UNCHANGED clientVars
  PROVE  ClientInv'
<1>1. /\ UNCHANGED <<active, userKey, link, s2c, c2s, phase, mod, cipher>>
      /\ \A q : Alone(q)' => Alone(q)
      /\ batch' \subseteq batch
  BY DEF DealListen, Event, keyVars, dbVars, groupVars, clientVars, Alone
<1>2. TypeInv /\ GroupServerTypeOK /\ ClientInv
  BY DEF Clients, KnownInv, TypeInv, GroupSystemTypeOK
<1>3. \A g \in Fds : ~Accepts(g) => conn'[g] = conn[g]
  BY <1>2, ListenTypes
<1>4. ASSUME NEW g \in Fds, Open(g), ~Accepts(g)
      PROVE  ConnInv(g)'
  <2>1. ConnInv(g)
    BY <1>2, <1>4 DEF ClientInv
  <2>2. Untouched(g)
    BY <1>1, <2>1 DEF Untouched, ConnInv, ServedRightly
  <2> QED
    BY <1>2, <1>3, <1>4, <2>1, <2>2, SameConn
<1>5. \A g \in Fds : ~Accepts(g) => IF Open(g)' THEN ConnInv(g)' ELSE Idle(g)'
  BY <1>2, <1>3, <1>4 DEF ClientInv, Open, Idle
<1>6. \A g \in Fds : conn'[g].act = conn[g].act /\ conn'[g].mod = conn[g].mod
  BY <1>3, AcceptedConn
<1>7. ActiveAgrees'
  BY <1>1, <1>2, <1>6 DEF ClientInv, ActiveAgrees
<1> QED
  BY <1>5, <1>7, AcceptedConn DEF ClientInv

-----------------------------------------------------------------------------
(* The steps of the clients.                                               *)

\* The first of the messages is in the socket.
LEMMA HeadOfOut ==
  ASSUME NEW s \in Seq(Messages), NEW w \in Seq(Messages), s # <<>>, NEW out, out = s \o w
  PROVE  /\ out \in Seq(Messages) /\ out # <<>> /\ Head(s) = out[1] /\ s[1] = out[1]
         /\ Tail(s) \in Seq(Messages) /\ Tail(out) = Tail(s) \o w
<1> DEFINE S == Messages
<1>1. /\ s \in Seq(S) /\ w \in Seq(S)
  OBVIOUS
<1>2. /\ Len(s) \in Nat \ {0} /\ Len(w) \in Nat /\ Head(s) = s[1] /\ Tail(s) \in Seq(S) /\ Len(Tail(s)) = Len(s) - 1
      /\ \A i \in 1..(Len(s) - 1) : Tail(s)[i] = s[i + 1]
  BY EmptySeq, HeadTailProperties
<1> HIDE DEF S
<1>3. /\ out \in Seq(S) /\ Len(out) = Len(s) + Len(w)
      /\ \A i \in 1..(Len(s) + Len(w)) : out[i] = IF i <= Len(s) THEN s[i] ELSE w[i - Len(s)]
  BY <1>1, ConcatProperties
<1>4. PICK t \in Seq(S) : t = Tail(s)
  BY <1>2
<1>5. /\ t \o w \in Seq(S) /\ Len(t \o w) = Len(t) + Len(w)
      /\ \A i \in 1..(Len(t) + Len(w)) : (t \o w)[i] = IF i <= Len(t) THEN t[i] ELSE w[i - Len(t)]
  BY <1>1, ConcatProperties
<1>6. out # <<>>
  BY <1>2, <1>3, EmptySeq
<1>7. /\ Tail(out) \in Seq(S) /\ Len(Tail(out)) = Len(out) - 1
      /\ \A i \in 1..(Len(out) - 1) : Tail(out)[i] = out[i + 1]
  BY <1>3, <1>6, HeadTailProperties
<1>8. Len(Tail(out)) = Len(t \o w)
  BY <1>2, <1>3, <1>4, <1>5, <1>7
<1>9. ASSUME NEW i \in 1..Len(Tail(out))
      PROVE  Tail(out)[i] = (t \o w)[i]
  <2> DEFINE n == Len(s)
             l == Len(w)
  <2>1. /\ n \in Nat \ {0} /\ l \in Nat /\ i \in 1..(n + l - 1) /\ Len(t) = n - 1
    BY <1>2, <1>3, <1>4, <1>7
  <2>2. Tail(out)[i] = out[i + 1]
    BY <1>7, <1>9
  <2>3. out[i + 1] = IF i + 1 <= n THEN s[i + 1] ELSE w[(i + 1) - n]
    <3>1. i + 1 \in 1..(n + l)
      BY <2>1
    <3> QED
      BY <1>3, <3>1
  <2>4. (t \o w)[i] = IF i <= n - 1 THEN t[i] ELSE w[i - (n - 1)]
    <3>1. i \in 1..(Len(t) + l)
      BY <2>1
    <3> QED
      BY <1>5, <2>1, <3>1
  <2>5. i <= n - 1 => t[i] = s[i + 1]
    <3>1. i <= n - 1 => i \in 1..(n - 1)
      BY <2>1
    <3> QED
      BY <1>2, <1>4, <3>1
  <2> HIDE DEF n, l
  <2>6. (i + 1 <= n <=> i <= n - 1) /\ (i + 1) - n = i - (n - 1)
    BY <2>1
  <2> QED
    BY <2>2, <2>3, <2>4, <2>5, <2>6
<1>10. Tail(out) = t \o w
  BY <1>5, <1>7, <1>8, <1>9, SeqEqual
<1>11. s[1] = out[1]
  <2>1. 1 \in 1..(Len(s) + Len(w)) /\ 1 <= Len(s)
    BY <1>2
  <2> QED
    BY <1>3, <2>1
<1> QED
  BY <1>2, <1>3, <1>4, <1>6, <1>10, <1>11 DEF S

\* How a client goes on: ph is where it is and msg what it reads, next where
\* it reads then and req what it sends; its modulus and number can change.
Moves(ph, num, own, msg, next, req, nextNum, nextOwn) ==
  \/ ph = "login" /\ next \in {"register", "allocation"} /\ req = <<next>> /\ nextNum = num /\ nextOwn = own
  \/ ph = "register" /\ next = "allocation" /\ req = <<next>> /\ nextNum = num /\ nextOwn = own
  \/ ph = "allocation" /\ msg.second = "ok" /\ next = "mod" /\ req = <<>> /\ nextNum = num /\ nextOwn = own
  \/ ph = "mod" /\ next = "mem_join" /\ req = <<next>> /\ nextNum = num /\ nextOwn = msg.num
  \/ ph = "mem_join" /\ msg.second = "ok" /\ next = "rekeying" /\ req = <<>> /\ nextNum = num /\ nextOwn = own
  \/ ph = "rekeying" /\ next = "randomNum" /\ req = <<>> /\ nextNum = msg.num /\ nextOwn = own
  \/ ph = "randomNum" /\ next = "rekeying" /\ req = <<>> /\ nextNum = num /\ nextOwn = own

\* A client reads the first message of a conversation under modulus k.
Reads(ph, num, own, k, key, out, next, req, nextNum, nextOwn, rest) ==
  /\ out \in Seq(Messages) /\ out # <<>> /\ rest = Tail(out)
  /\ InStep(ph, <<>>, num, out) /\ Holds(ph, own, k, key, out)
  /\ Moves(ph, num, own, out[1], next, req, nextNum, nextOwn)

\* What is true of the rest of it.
GoesOn(ph, num, own, k, key, out, next, req, nextNum, nextOwn, rest) ==
  /\ InStep(next, req, nextNum, rest)
  /\ Holds(next, nextOwn, k, key, rest)
  /\ Settled(ph, out) => Settled(next, rest) /\ req = <<>>
  /\ Joined(next, rest) => Joined(ph, out)
  /\ req \in {<<>>, <<"register">>, <<"allocation">>, <<"mem_join">>}
  /\ req = <<"mem_join">> => k = key /\ k # NoKey

\* The script and the server stay in step.
LEMMA MovesInStep ==
  ASSUME NEW ph, NEW num, NEW own, NEW k, NEW key, NEW out, NEW next, NEW req, NEW nextNum, NEW nextOwn, NEW rest,
         Reads(ph, num, own, k, key, out, next, req, nextNum, nextOwn, rest)
  PROVE  GoesOn(ph, num, own, k, key, out, next, req, nextNum, nextOwn, rest)
<1>0. /\ InStep(ph, <<>>, num, out) /\ Holds(ph, own, k, key, out)
      /\ out \in Seq(Messages) /\ out # <<>> /\ rest = Tail(out)
      /\ Moves(ph, num, own, out[1], next, req, nextNum, nextOwn)
  BY DEF Reads
<1>1. /\ rest \in Seq(Messages) /\ Chain(rest)
      /\ rest = <<>> => Complete(out[1])
      /\ rest # <<>> => Follows(out[1], rest[1]) /\ rest[Len(rest)] = out[Len(out)]
      /\ \A i \in 1..Len(rest) : i + 1 \in 1..Len(out) /\ rest[i] = out[i + 1]
  BY <1>0, ChainTail DEF InStep
<1>2. \A i \in 1..Len(rest) : rest[i].first = "mod" => rest[i].num = k /\ k = key /\ k # NoKey
  BY <1>0, <1>1 DEF Holds
<1>3. out[1].first = "mod" => out[1].num = k /\ k = key /\ k # NoKey
  <2>1. 1 \in 1..Len(out)
    BY <1>0, EmptySeq, LenProperties
  <2> QED
    BY <1>0, <2>1 DEF Holds
<1>4. Fits(ph, num, out[1])
  BY <1>0 DEF InStep
<1>5. Settled(ph, out) => ph \in Joins /\ (rest # <<>> => rest[Len(rest)].first = "randomNum")
  BY <1>0, <1>1 DEF Settled
<1>6. /\ <<"register">> # <<>> /\ <<"allocation">> # <<>> /\ <<"mem_join">> # <<>>
      /\ <<"mem_join">> # <<"register">> /\ <<"mem_join">> # <<"allocation">> /\ <<"mem_join">> # <<"mod">>
  OBVIOUS
<1> DEFINE Goal == /\ InStep(next, req, nextNum, rest)
                   /\ Holds(next, nextOwn, k, key, rest)
                   /\ Settled(ph, out) => Settled(next, rest) /\ req = <<>>
                   /\ Joined(next, rest) => Joined(ph, out)
                   /\ req \in {<<>>, <<"register">>, <<"allocation">>, <<"mem_join">>}
                   /\ req = <<"mem_join">> => k = key /\ k # NoKey
<1>7. ASSUME ph \in {"login", "register"}, next \in {"register", "allocation"}, req = <<next>>
      PROVE  Goal
  <2>1. out[1].first = "login" /\ ~Settled(ph, out)
    BY <1>4, <1>5, <1>7 DEF Fits, Joins
  <2>2. rest = <<>>
    BY <1>1, <2>1 DEF Follows
  <2>3. req # <<>> /\ req # <<"mem_join">>
    BY <1>6, <1>7
  <2>4. InStep(next, req, nextNum, rest)
    BY <1>1, <1>7, <2>2, <2>3 DEF InStep, Scripted
  <2>5. Holds(next, nextOwn, k, key, rest)
    BY <1>2, <1>7 DEF Holds, Joins
  <2>6. ~Joined(next, rest)
    BY <1>7, <2>2 DEF Joined, InLoop
  <2> QED
    BY <1>7, <2>1, <2>3, <2>4, <2>5, <2>6
<1>8. ASSUME ph = "allocation", out[1].second = "ok", next = "mod", req = <<>>
      PROVE  Goal
  <2>1. out[1].first = "allocation" /\ ~Settled(ph, out)
    BY <1>4, <1>5, <1>8 DEF Fits, Joins
  <2>2. rest # <<>> /\ rest[1].first = "mod" /\ rest[1].second = "number"
    BY <1>1, <1>8, <2>1 DEF Follows, Complete
  <2>3. InStep(next, req, nextNum, rest)
    BY <1>1, <1>8, <2>2 DEF InStep, Scripted, Fits
  <2>4. Holds(next, nextOwn, k, key, rest)
    BY <1>2, <1>8 DEF Holds, Joins
  <2>5. ~Joined(next, rest)
    BY <1>8, <2>2 DEF Joined, InLoop
  <2> QED
    BY <1>6, <1>8, <2>1, <2>3, <2>4, <2>5
<1>9. ASSUME ph = "mod", next = "mem_join", req = <<next>>, nextOwn = out[1].num
      PROVE  Goal
  <2>1. out[1].first = "mod" /\ ~Settled(ph, out)
    BY <1>4, <1>5, <1>9 DEF Fits, Joins
  <2>2. rest = <<>>
    BY <1>1, <2>1 DEF Follows
  <2>3. InStep(next, req, nextNum, rest)
    BY <1>1, <1>6, <1>9, <2>2 DEF InStep, Scripted
  <2>4. Holds(next, nextOwn, k, key, rest)
    BY <1>2, <1>3, <1>9, <2>1 DEF Holds
  <2>5. ~Joined(next, rest)
    BY <1>9, <2>2 DEF Joined, InLoop
  <2> QED
    BY <1>3, <1>6, <1>9, <2>1, <2>3, <2>4, <2>5
<1>10. ASSUME ph \in Joins, next \in InLoop, req = <<>>, nextOwn = own,
              IF rest = <<>> THEN next = "rekeying" ELSE Fits(next, nextNum, rest[1]),
              Joined(ph, out)
       PROVE  Goal
  <2>1. InStep(next, req, nextNum, rest)
    BY <1>1, <1>10 DEF InStep, Scripted, InLoop
  <2>2. Holds(next, nextOwn, k, key, rest)
    BY <1>0, <1>2, <1>10 DEF Holds, Joins, InLoop
  <2>3. Settled(ph, out) => Settled(next, rest)
    BY <1>5, <1>10 DEF Settled, Joins, InLoop
  <2> QED
    BY <1>6, <1>10, <2>1, <2>2, <2>3
<1>11. ASSUME ph = "mem_join", out[1].second = "ok", next = "rekeying", req = <<>>, nextOwn = own
       PROVE  Goal
  <2>1. out[1].first = "mem_join" /\ Joined(ph, out)
    BY <1>0, <1>4, <1>11 DEF Fits, Joined
  <2>2. rest # <<>> => Fits(next, nextNum, rest[1])
    BY <1>1, <1>11, <2>1 DEF Follows, Fits
  <2>3. ph \in Joins /\ next \in InLoop
    BY <1>11 DEF Joins, InLoop
  <2> QED
    BY <1>10, <1>11, <2>1, <2>2, <2>3
<1>12. ASSUME ph = "rekeying", next = "randomNum", req = <<>>, nextNum = out[1].num, nextOwn = own
       PROVE  Goal
  <2>1. out[1].first = "rekeying"
    BY <1>4, <1>12 DEF Fits
  <2>2. rest # <<>> /\ Fits(next, nextNum, rest[1])
    BY <1>1, <1>12, <2>1 DEF Follows, Complete, Fits
  <2>3. ph \in Joins /\ next \in InLoop /\ Joined(ph, out)
    BY <1>12 DEF Joins, InLoop, Joined
  <2> QED
    BY <1>10, <1>12, <2>2, <2>3
<1>13. ASSUME ph = "randomNum", next = "rekeying", req = <<>>, nextOwn = own
       PROVE  Goal
  <2>1. out[1].first = "randomNum"
    BY <1>4, <1>13 DEF Fits
  <2>2. rest # <<>> => Fits(next, nextNum, rest[1])
    BY <1>1, <1>13, <2>1 DEF Follows, Fits
  <2>3. ph \in Joins /\ next \in InLoop /\ Joined(ph, out)
    BY <1>13 DEF Joins, InLoop, Joined
  <2> QED
    BY <1>10, <1>13, <2>2, <2>3
<1> QED
  <2>1. Goal
    BY <1>0, <1>7, <1>8, <1>9, <1>11, <1>12, <1>13 DEF Moves
  <2> QED
    BY <2>1 DEF GoesOn

\* Only the process itself changes with one of its steps.
LEMMA OnlyTheProcess ==
  ASSUME TypeInv, NEW p \in Procs, Die(p) \/ ClientStep(p)
  PROVE  /\ link[p] = "open" /\ UNCHANGED <<conn, batch, active, userKey>>
         /\ \A q \in Procs : q # p =>
              /\ link'[q] = link[q] /\ s2c'[q] = s2c[q] /\ c2s'[q] = c2s[q]
              /\ phase'[q] = phase[q] /\ mod'[q] = mod[q] /\ cipher'[q] = cipher[q]
<1>1. /\ link \in [Procs -> Links] /\ s2c \in [Procs -> Seq(Messages)] /\ c2s \in [Procs -> Seq(Requests)]
      /\ phase \in [Procs -> Phases] /\ mod \in [Procs -> Nat] /\ cipher \in [Procs -> [num : Nat, for : SUBSET Keys]]
  BY DEF TypeInv, GroupSystemTypeOK, GroupServerTypeOK
<1>2. link[p] = "open" /\ UNCHANGED <<conn, batch, active, userKey>>
  BY ClientLeaves DEF Die, connVars, keyVars, dbVars, groupVars
<1> DEFINE Socket == \A q \in Procs : q # p =>
                       link'[q] = link[q] /\ s2c'[q] = s2c[q] /\ c2s'[q] = c2s[q] /\ phase'[q] = phase[q]
<1>3. ASSUME NEW unread, Disconnect(p, unread) PROVE Socket
  BY <1>1, <1>3 DEF Disconnect
<1>4. ASSUME NEW requests, NEW next, Continue(p, requests, next) PROVE Socket
  BY <1>1, <1>4 DEF Continue
<1>5. Socket
  <2>1. CASE Die(p)
    BY <1>3, <2>1 DEF Die
  <2>2. CASE ClientStep(p)
    BY <1>3, <1>4, <2>2, ClientGoesOn, Zenon DEF Return
  <2> QED
    BY <2>1, <2>2
<1>6. \A q \in Procs : q # p => mod'[q] = mod[q] /\ cipher'[q] = cipher[q]
  <2>1. mod' = mod \/ mod' = [mod EXCEPT ![p] = Msg(p).num]
    BY DEF Die, ClientStep, ReadLogin, ReadRegister, ReadAllocation, ReadMod, ReadMemJoin, ReadRekeying, ReadRandomNum
  <2>2. cipher' = cipher \/ \E c : cipher' = [cipher EXCEPT ![p] = c]
    BY DEF Die, ClientStep, ReadLogin, ReadRegister, ReadAllocation, ReadMod, ReadMemJoin, ReadRekeying, ReadRandomNum
  <2> QED
    BY <1>1, <2>1, <2>2
<1> QED
  BY <1>2, <1>5, <1>6

\* A client that reads what the script expects goes on, or closes its socket.
LEMMA ClientMoves ==
  ASSUME Clients, NEW p \in Procs, ClientStep(p), c2s[p] = <<>>,
         phase[p] = "mod" => Msg(p).second = "number",
         phase[p] = "rekeying" => Msg(p).first = "rekeying"
  PROVE  \/ Return(p)
         \/ /\ Moves(phase[p], cipher[p].num, mod[p], Msg(p), phase'[p], c2s'[p], cipher'[p].num, mod'[p])
            /\ s2c'[p] = Tail(s2c[p]) /\ link'[p] = "open"
<1>1. /\ link \in [Procs -> Links] /\ s2c \in [Procs -> Seq(Messages)] /\ c2s \in [Procs -> Seq(Requests)]
      /\ phase \in [Procs -> Phases] /\ mod \in [Procs -> Nat] /\ cipher \in [Procs -> [num : Nat, for : SUBSET Keys]]
  BY DEF Clients, KnownInv, TypeInv, GroupSystemTypeOK, GroupServerTypeOK
<1>2. link[p] = "open"
  BY ClientLeaves
<1>3. ASSUME NEW requests \in {<<>>, <<"register">>, <<"allocation">>, <<"mem_join">>}, NEW next,
             Continue(p, requests, next)
      PROVE  s2c'[p] = Tail(s2c[p]) /\ c2s'[p] = requests /\ phase'[p] = next /\ link'[p] = "open"
  <2>1. c2s'[p] = <<>> \o requests
    BY <1>1, <1>3 DEF Continue
  <2>2. \A r \in {<<>>, <<"register">>, <<"allocation">>, <<"mem_join">>} : <<>> \o r = r
    OBVIOUS
  <2> QED
    BY <1>1, <1>2, <1>3, <2>1, <2>2 DEF Continue
<1> DEFINE Goal == \/ Return(p)
                   \/ /\ Moves(phase[p], cipher[p].num, mod[p], Msg(p), phase'[p], c2s'[p], cipher'[p].num, mod'[p])
                      /\ s2c'[p] = Tail(s2c[p]) /\ link'[p] = "open"
<1>4. ASSUME ReadLogin(p) PROVE Goal
  <2>1. /\ phase[p] = "login" /\ UNCHANGED <<mod, cipher>>
        /\ Return(p) \/ Continue(p, <<"register">>, "register") \/ Continue(p, <<"allocation">>, "allocation")
    BY <1>4 DEF ReadLogin, ReadFd
  <2> QED
    BY <1>3, <2>1 DEF Moves
<1>5. ASSUME ReadRegister(p) PROVE Goal
  <2>1. /\ phase[p] = "register" /\ UNCHANGED <<mod, cipher>>
        /\ Return(p) \/ Continue(p, <<"allocation">>, "allocation")
    BY <1>5 DEF ReadRegister, ReadFd
  <2> QED
    BY <1>3, <2>1 DEF Moves
<1>6. ASSUME ReadAllocation(p) PROVE Goal
  <2>1. /\ phase[p] = "allocation" /\ UNCHANGED <<mod, cipher>>
        /\ Return(p) \/ (Msg(p).second = "ok" /\ Continue(p, <<>>, "mod"))
    BY <1>6 DEF ReadAllocation, ReadFd
  <2> QED
    BY <1>3, <2>1 DEF Moves
<1>7. ASSUME ReadMod(p) PROVE Goal
  <2>1. /\ phase[p] = "mod" /\ UNCHANGED cipher
        /\ mod' = [mod EXCEPT ![p] = Msg(p).num] /\ Continue(p, <<"mem_join">>, "mem_join")
    BY <1>7 DEF ReadMod, ReadFd
  <2>2. mod'[p] = Msg(p).num
    BY <1>1, <2>1
  <2> QED
    BY <1>3, <2>1, <2>2 DEF Moves
<1>8. ASSUME ReadMemJoin(p) PROVE Goal
  <2>1. /\ phase[p] = "mem_join" /\ UNCHANGED <<mod, cipher>>
        /\ Return(p) \/ (Msg(p).second = "ok" /\ Continue(p, <<>>, "rekeying"))
    BY <1>8 DEF ReadMemJoin, ReadFd
  <2> QED
    BY <1>3, <2>1 DEF Moves
<1>9. ASSUME ReadRekeying(p) PROVE Goal
  <2>1. /\ phase[p] = "rekeying" /\ UNCHANGED mod /\ Continue(p, <<>>, "randomNum")
        /\ cipher' = [cipher EXCEPT ![p] = IF Msg(p).first = "rekeying"
                                           THEN [num |-> Msg(p).num, for |-> Msg(p).for] ELSE cipher[p]]
    BY <1>9 DEF ReadRekeying, ReadFd
  <2>2. cipher'[p].num = Msg(p).num
    BY <1>1, <2>1
  <2> QED
    BY <1>3, <2>1, <2>2 DEF Moves
<1>10. ASSUME ReadRandomNum(p) PROVE Goal
  <2>1. phase[p] = "randomNum" /\ UNCHANGED <<mod, cipher>> /\ Continue(p, <<>>, "rekeying")
    BY <1>10 DEF ReadRandomNum, ReadFd
  <2> QED
    BY <1>3, <2>1 DEF Moves
<1> QED
  BY <1>4, <1>5, <1>6, <1>7, <1>8, <1>9, <1>10 DEF ClientStep

\* A socket that is closed.
LEMMA GoneConn ==
  ASSUME Clients, NEW p \in Procs, NEW unread, Disconnect(p, unread), UNCHANGED <<conn, batch, userKey>>,
         NEW f \in Fds, Open(f), conn[f].proc = p
  PROVE  ConnInv(f)'
<1>1. /\ GroupServerTypeOK /\ ServedRightly(f) /\ conn'[f] = conn[f] /\ batch' = batch /\ userKey' = userKey
  BY ClientFacts
<1>2. link'[p] # "open"
  BY <1>1 DEF Disconnect, Endings, GroupServerTypeOK
<1>3. c2s'[p] = c2s[p] \/ c2s'[p] = <<>>
  BY <1>1 DEF Disconnect, GroupServerTypeOK
<1>4. ServedRightly(f)'
  <2>1. c2s'[p] # <<>> => c2s'[p] = c2s[p]
    BY <1>3
  <2>2. c2s'[p] = <<"mem_join">> => c2s[p] = <<"mem_join">>
    <3>1. <<"mem_join">> # <<>>
      OBVIOUS
    <3> QED
      BY <1>3, <3>1
  <2> QED
    BY <1>1, <1>3, <2>1, <2>2 DEF ServedRightly
<1> QED
  BY <1>1, <1>2, <1>4 DEF ConnInv

\* A client that is served reads the next message of its script.
LEMMA ReaderConn ==
  ASSUME Clients, [GroupSystemNext]_sysVars, NEW p \in Procs, ClientStep(p), NEW f \in Fds, Open(f), conn[f].proc = p
  PROVE  ConnInv(f)'
<1> DEFINE c == conn[f]
<1>1. /\ link[p] = "open" /\ UNCHANGED <<conn, batch, active, userKey>> /\ s2c[p] # <<>>
  BY OnlyTheProcess, ClientLeaves DEF Clients, KnownInv
<1>2. /\ ServedRightly(f) /\ s2c[p] \in Seq(Messages) /\ c.wbuf \in Seq(Messages) /\ Conversing(p, c, Out(f))
  BY <1>1, ClientFacts
<1>3. PICK out \in Seq(Messages) : out = s2c[p] \o c.wbuf
  <2>1. Out(f) \in Seq(Messages)
    BY ClientFacts
  <2> QED
    BY <2>1 DEF Out
<1>4. /\ out # <<>> /\ Head(s2c[p]) = out[1] /\ Tail(s2c[p]) \in Seq(Messages) /\ Tail(out) = Tail(s2c[p]) \o c.wbuf
  <2>1. \A s, w \in Seq(Messages) : s # <<>> => \A o : o = s \o w =>
          /\ o # <<>> /\ Head(s) = o[1] /\ Tail(s) \in Seq(Messages) /\ Tail(o) = Tail(s) \o w
    BY HeadOfOut
  <2>2. PICK s \in Seq(Messages), w \in Seq(Messages) : s = s2c[p] /\ w = c.wbuf
    BY <1>2
  <2>3. s # <<>> /\ out = s \o w
    BY <1>1, <1>3, <2>2
  <2>4. out # <<>> /\ Head(s) = out[1] /\ Tail(s) \in Seq(Messages) /\ Tail(out) = Tail(s) \o w
    BY <2>1, <2>3
  <2> QED
    BY <2>2, <2>4
<1>5. Out(f) = out /\ Msg(p) = out[1]
  BY <1>3, <1>4 DEF Out, Msg
<1>6. c2s[p] = <<>> /\ Fits(phase[p], cipher[p].num, out[1])
  BY <1>2, <1>4, <1>5 DEF Conversing, InStep
<1>7. CASE Return(p)
  BY <1>1, <1>7, GoneConn DEF Return
<1>8. CASE /\ Moves(phase[p], cipher[p].num, mod[p], Msg(p), phase'[p], c2s'[p], cipher'[p].num, mod'[p])
           /\ s2c'[p] = Tail(s2c[p]) /\ link'[p] = "open"
  <2>1. PICK rest : rest = Tail(out)
    OBVIOUS
  <2>2. GoesOn(phase[p], cipher[p].num, mod[p], c.mod, userKey[Acct[p]], out,
               phase'[p], c2s'[p], cipher'[p].num, mod'[p], rest)
    <3>1. InStep(phase[p], <<>>, cipher[p].num, out) /\ Holds(phase[p], mod[p], c.mod, userKey[Acct[p]], out)
      BY <1>2, <1>5, <1>6 DEF Conversing
    <3>2. Moves(phase[p], cipher[p].num, mod[p], out[1], phase'[p], c2s'[p], cipher'[p].num, mod'[p])
      BY <1>5, <1>8
    <3>3. Reads(phase[p], cipher[p].num, mod[p], c.mod, userKey[Acct[p]], out,
               phase'[p], c2s'[p], cipher'[p].num, mod'[p], rest)
      BY <1>4, <2>1, <3>1, <3>2 DEF Reads
    <3> QED
      BY <3>3, MovesInStep
  <2>3. Out(f)' = rest
    BY <1>1, <1>4, <1>8, <2>1 DEF Out
  <2>4. Alone(p)' => Alone(p)
    BY StartedForEver DEF Clients, KnownInv
  <2>5. ServedRightly(f)'
    <3>1. c.act => c2s'[p] = <<>>
      BY <1>2, <1>5, <2>2 DEF Conversing, GoesOn
    <3> QED
      BY <1>1, <1>2, <2>2, <3>1 DEF ServedRightly, GoesOn
  <2>6. Conversing(conn[f].proc, conn[f], Out(f))'
    <3>1. Alone(p) /\ Joined(phase[p], out) => c.act
      BY <1>2, <1>5 DEF Conversing
    <3>2. Alone(conn[f].proc)' => Alone(p)
      BY <1>1, <2>4
    <3>3. c.act => Settled(phase'[p], rest)
      BY <1>2, <1>5, <2>2 DEF Conversing, GoesOn
    <3> QED
      BY <1>1, <2>2, <2>3, <3>1, <3>2, <3>3 DEF Conversing, GoesOn
  <2> QED
    BY <2>5, <2>6 DEF ConnInv
<1> QED
  BY <1>5, <1>6, <1>7, <1>8, ClientMoves DEF Fits

\* A process dies or reads a message.
LEMMA ProcessStep ==
  ASSUME Clients, [GroupSystemNext]_sysVars, NEW p \in Procs, Die(p) \/ ClientStep(p)
  PROVE  ClientInv'
<1>1. /\ UNCHANGED <<conn, batch, active, userKey>>
      /\ \A q \in Procs : q # p =>
           /\ link'[q] = link[q] /\ s2c'[q] = s2c[q] /\ c2s'[q] = c2s[q]
           /\ phase'[q] = phase[q] /\ mod'[q] = mod[q] /\ cipher'[q] = cipher[q]
  BY OnlyTheProcess DEF Clients, KnownInv
<1>2. \A o \in Procs : Alone(o)' => Alone(o)
  BY StartedForEver DEF Clients, KnownInv
<1>3. ASSUME NEW g \in Fds, Open(g)
      PROVE  ConnInv(g)'
  <2>1. /\ GroupServerTypeOK /\ ConnInv(g) /\ ServedRightly(g) /\ conn[g].proc \in Procs
    BY <1>3, ClientFacts
  <2>2. CASE conn[g].proc # p
    <3>1. Untouched(g)
      BY <1>1, <1>2, <2>1, <2>2 DEF Untouched, ServedRightly
    <3> QED
      BY <1>1, <1>3, <2>1, <3>1, SameConn
  <2>3. CASE conn[g].proc = p /\ Die(p)
    BY <1>1, <1>3, <2>3, GoneConn DEF Die
  <2>4. CASE conn[g].proc = p /\ ClientStep(p)
    BY <1>3, <2>4, ReaderConn
  <2> QED
    BY <2>2, <2>3, <2>4
<1>4. \A g \in Fds : IF Open(g)' THEN ConnInv(g)' ELSE Idle(g)'
  BY <1>1, <1>3 DEF Clients, ClientInv, Open, Idle
<1>5. ActiveAgrees'
  BY <1>1 DEF Clients, ClientInv, ActiveAgrees
<1> QED
  BY <1>4, <1>5 DEF ClientInv

\* A process connects: nobody serves it yet.
LEMMA ConnectStep ==
  ASSUME Clients, [GroupSystemNext]_sysVars, NEW p \in Procs, Connect(p)
  PROVE  ClientInv'
<1>1. /\ link \in [Procs -> Links] /\ c2s \in [Procs -> Seq(Requests)] /\ phase \in [Procs -> Phases]
  BY DEF Clients, KnownInv, TypeInv, GroupSystemTypeOK, GroupServerTypeOK
<1>2. /\ UNCHANGED <<conn, batch, active, userKey, s2c, mod, cipher>> /\ link[p] = "none"
      /\ \A q \in Procs : q # p => link'[q] = link[q] /\ c2s'[q] = c2s[q] /\ phase'[q] = phase[q]
  BY <1>1 DEF Connect, connVars, keyVars, dbVars, groupVars
<1>3. \A o \in Procs : Alone(o)' => Alone(o)
  BY StartedForEver DEF Clients, KnownInv
<1>4. ASSUME NEW g \in Fds, Open(g)
      PROVE  ConnInv(g)'
  <2>1. /\ GroupServerTypeOK /\ ConnInv(g) /\ ServedRightly(g) /\ conn[g].proc \in Procs
    BY <1>4, ClientFacts
  <2>2. conn[g].proc # p
    BY <1>2, <1>4 DEF Clients, KnownInv, ConnsDiffer, Connected
  <2>3. Untouched(g)
    BY <1>2, <1>3, <2>1, <2>2 DEF Untouched, ServedRightly
  <2> QED
    BY <1>2, <1>4, <2>1, <2>3, SameConn
<1>5. \A g \in Fds : IF Open(g)' THEN ConnInv(g)' ELSE Idle(g)'
  BY <1>2, <1>4 DEF Clients, ClientInv, Open, Idle
<1>6. ActiveAgrees'
  BY <1>2 DEF Clients, ClientInv, ActiveAgrees
<1> QED
  BY <1>5, <1>6 DEF ClientInv

\* Every step, as long as no peer has connected.
LEMMA ClientInvStep ==
  ASSUME Clients, KnownInv', [GroupSystemNext]_sysVars
  PROVE  ClientInv'
<1>1. GroupServerTypeOK
  BY DEF Clients, KnownInv, TypeInv, GroupSystemTypeOK
<1>2. CASE Server
  <2>1. KeyStep
    BY <1>1, GroupKeys
  <2> QED
    BY <1>2, <2>1, HandlerStep, WaitStep, ListenStep DEF Server, ServerStep
<1>3. ASSUME NEW p \in Procs, Connect(p) \/ Die(p) \/ ClientStep(p)
      PROVE  ClientInv'
  BY <1>3, ProcessStep, ConnectStep
<1>4. ASSUME NEW p \in Peers, PeerReads(p) \/ \E r \in Requests : PeerSends(p, r)
      PROVE  FALSE
  BY <1>4 DEF PeerReads, PeerSends, Clients, OnlyClients
<1>5. CASE UNCHANGED sysVars
  <2>1. /\ UNCHANGED <<conn, batch, active, userKey, link, s2c, c2s, phase, mod, cipher>>
    BY <1>5 DEF sysVars, clientVars, serverVars, keyVars, dbVars, groupVars, connVars, socketVars
  <2>2. ASSUME NEW g \in Fds, Open(g)
        PROVE  ConnInv(g)'
    <3>1. ConnInv(g) /\ ServedRightly(g)
      BY <2>2, ClientFacts
    <3>2. Untouched(g)
      BY <2>1, <3>1 DEF Untouched, ServedRightly, Alone
    <3> QED
      BY <1>1, <2>1, <2>2, <3>1, <3>2, SameConn
  <2>3. \A g \in Fds : IF Open(g)' THEN ConnInv(g)' ELSE Idle(g)'
    BY <2>1, <2>2 DEF Clients, ClientInv, Open, Idle
  <2>4. ActiveAgrees'
    BY <2>1 DEF Clients, ClientInv, ActiveAgrees
  <2> QED
    BY <2>3, <2>4 DEF ClientInv
<1> QED
  BY <1>2, <1>3, <1>4, <1>5 DEF GroupSystemNext

\* Nobody is connected at first.
LEMMA ClientInvInit ==
  ASSUME GroupSystemInit
  PROVE  ClientInv
<1>1. /\ active = {}
      /\ \A f \in Fds : conn[f] = [proc |-> NoProc, user |-> NoUser, mod |-> NoKey,
                                   act |-> FALSE, rbuf |-> <<>>, wbuf |-> <<>>]
  BY DEF GroupSystemInit, GroupServerInit
<1>2. \A f \in Fds : ~Open(f) /\ Idle(f)
  BY <1>1 DEF Open, Idle
<1>3. ActiveAgrees
  BY <1>1 DEF ActiveAgrees
<1> QED
  BY <1>2, <1>3 DEF ClientInv

\* The conversations of the clients are in order until a peer connects.
LEMMA ClientInvHolds == GroupSystemSpec => [](KnownInv /\ (OnlyClients => ClientInv))
<1>1. GroupSystemInit => (OnlyClients => ClientInv)
  BY ClientInvInit
<1>2. KnownInv /\ KnownInv' /\ (OnlyClients => ClientInv) /\ [GroupSystemNext]_sysVars => (OnlyClients => ClientInv)'
  <2> SUFFICES ASSUME KnownInv, KnownInv', OnlyClients => ClientInv, [GroupSystemNext]_sysVars, OnlyClients'
               PROVE  ClientInv'
    OBVIOUS
  <2>1. OnlyClients
    BY StartedForEver DEF KnownInv
  <2> QED
    BY <2>1, ClientInvStep DEF Clients
<1> QED
  BY <1>1, <1>2, KnownHolds, PTL DEF GroupSystemSpec

-----------------------------------------------------------------------------
(* The properties.                                                         *)

\* server.cpp:59: while only clients of the repository connect, every modulus
\* of the active group belongs to a connection that is open and active.
THEOREM GroupIsConnected == GroupSystemSpec => []ActiveIsConnected
<1>1. KnownInv /\ (OnlyClients => ClientInv) => ActiveIsConnected
  BY DEF ActiveIsConnected, ClientInv, ActiveAgrees, Idle
<1> QED
  BY <1>1, ClientInvHolds, PTL

\* And to no other: the first login of an account to join is the member.
THEOREM OneMemberPerModulus == GroupSystemSpec => []OneConnPerModulus
<1>1. KnownInv /\ (OnlyClients => ClientInv) => OneConnPerModulus
  BY DEF OneConnPerModulus, ClientInv, ActiveAgrees
<1> QED
  BY <1>1, ClientInvHolds, PTL

\* The connection of a client that has something to read or has joined.
LEMMA ClientIsServed ==
  ASSUME KnownInv, OnlyClients, ClientInv, NEW p \in Procs \ Peers, phase[p] # "ended",
         s2c[p] # <<>> \/ phase[p] \in InLoop
  PROVE  /\ link[p] = "open"
         /\ \E f \in Fds : Open(f) /\ conn[f].proc = p /\ Conversing(p, conn[f], Out(f))
<1>1. link \in [Procs -> Links] /\ phase \in [Procs -> Phases]
  BY DEF KnownInv, TypeInv, GroupSystemTypeOK, GroupServerTypeOK
<1>2. phase[p] # "off"
  BY DEF KnownInv, LinksAgree, ConnsDiffer, InLoop
<1>3. link[p] = "open"
  BY <1>2 DEF KnownInv, LinksAgree
<1>4. ~Waiting(p)
  BY <1>3 DEF KnownInv, WaitersWait, InLoop
<1>5. PICK f \in Fds : conn[f].proc = p
  BY <1>3, <1>4 DEF KnownInv, ConnsDiffer, Connected, ServedBy
<1>6. Open(f)
  BY <1>5, GroupServerAssumption DEF Open
<1> QED
  BY <1>3, <1>5, <1>6 DEF ClientInv, ConnInv

\* Client::start reads the messages of its script in their order: a broadcast
\* never overtakes an answer, and a random number follows its ciphertext.
THEOREM ClientsFollowScript == GroupSystemSpec => []ScriptIsFollowed
<1>1. ASSUME KnownInv, OnlyClients, ClientInv, NEW p \in Procs \ Peers, phase[p] # "ended", s2c[p] # <<>>
      PROVE  Fits(phase[p], cipher[p].num, Head(s2c[p]))
  <2>1. PICK f \in Fds : Open(f) /\ conn[f].proc = p /\ Conversing(p, conn[f], Out(f))
    BY <1>1, ClientIsServed
  <2>2. s2c[p] \in Seq(Messages) /\ conn[f].wbuf \in Seq(Messages)
    BY <1>1, <2>1, OutTypes DEF KnownInv, TypeInv, GroupSystemTypeOK
  <2>3. Out(f) # <<>> /\ Head(s2c[p]) = Out(f)[1]
    <3>1. Out(f) = s2c[p] \o conn[f].wbuf
      BY <2>1 DEF Out
    <3> QED
      <4>1. \A s, w \in Seq(Messages) : s # <<>> => \A o : o = s \o w => o # <<>> /\ Head(s) = o[1]
        BY HeadOfOut
      <4>2. PICK s \in Seq(Messages), w \in Seq(Messages), o \in {Out(f)} : s = s2c[p] /\ w = conn[f].wbuf /\ o = Out(f)
        BY <2>2
      <4>3. s # <<>> /\ o = s \o w
        BY <1>1, <3>1, <4>2
      <4>4. o # <<>> /\ Head(s) = o[1]
        BY <4>1, <4>3
      <4> QED
        BY <4>2, <4>4
  <2> QED
    BY <2>1, <2>3 DEF Conversing, InStep
<1>2. KnownInv /\ (OnlyClients => ClientInv) => ScriptIsFollowed
  BY <1>1 DEF ScriptIsFollowed, Fits
<1> QED
  BY <1>2, ClientInvHolds, PTL

\* A new group key is written to every active connection, behind what its
\* buffer holds.
LEMMA KeyWritten ==
  ASSUME Clients, KnownInv', [GroupSystemNext]_sysVars, gen' # gen, NEW g \in Fds, Open(g)', conn'[g].act
  PROVE  \E w \in Seq(Messages) : conn'[g].wbuf = w \o <<Rekeying(gen', rekey'), RandomNum(gen')>>
<1> DEFINE pair == <<Rekeying(gen', rekey'), RandomNum(gen')>>
           Goal == \E w \in Seq(Messages) : conn'[g].wbuf = w \o pair
<1>1. /\ conn \in [Fds -> Conns] /\ GroupServerTypeOK
  BY DEF Clients, KnownInv, TypeInv, GroupSystemTypeOK, GroupServerTypeOK
<1>2. ASSUME NEW cs \in [Fds -> Conns], NEW as, OnWriteNewKey(cs, as)
      PROVE  Goal
  <2>1. conn'[g] = IF IsMember(cs[g]) THEN TheKey(cs[g]) ELSE cs[g]
    BY <1>2, BroadcastConns
  <2>2. conn'[g] = TheKey(cs[g])
    BY <2>1 DEF IsMember, Open
  <2>3. cs[g] \in Conns /\ cs[g].wbuf \in Seq(Messages)
    BY DEF Conns
  <2>4. conn'[g].wbuf = cs[g].wbuf \o pair
    BY <2>2, <2>3 DEF TheKey, Conns
  <2> QED
    BY <2>3, <2>4
<1>3. PICK f \in Fds : (DealRead(f) \/ DealHup(f)) /\ UNCHANGED clientVars
  BY ClientLeaves DEF GroupSystemNext, Server, ServerStep, Wait, DealListen, DealWrite, Connect, Die, PeerReads,
                      PeerSends, connVars, sysVars, serverVars
<1>4. conn[f] \in Conns /\ conn[f].act \in BOOLEAN
  BY <1>1, ConnTypes
<1>5. CASE DealHup(f)
  <2> DEFINE a == conn[f].mod \notin active
             left == Closed([conn[f] EXCEPT !.act = a])
  <2>1. OnWriteNewKey([conn EXCEPT ![f] = left], [armed EXCEPT ![f] = "none"])
    BY <1>5 DEF DealHup
  <2>2. a \in BOOLEAN
    OBVIOUS
  <2> HIDE DEF a
  <2>3. left \in Conns
    BY <1>4, <2>2, ConnChanges
  <2> HIDE DEF left
  <2>4. [conn EXCEPT ![f] = left] \in [Fds -> Conns]
    BY <1>1, <2>3
  <2> QED
    BY <1>2, <2>1, <2>4
<1>6. CASE DealRead(f)
  <2>1. OnReadMemberJoin(f) \/ OnReadMemberLeave(f)
    BY <1>6 DEF DealRead, DealReadError, DealReadPart, OnReadUserVerify, OnReadAllocation, OnReadError,
                DealReadDamaged, Answer
  <2>2. ~OnReadMemberLeave(f)
    BY ReadForm DEF OnReadMemberLeave
  <2>3. OnReadMemberJoin(f)
    BY <2>1, <2>2
  <2> DEFINE a == conn[f].act \/ (conn[f].mod \in members /\ conn[f].mod \notin active)
  <2>4. a \in BOOLEAN
    BY <1>4
  <2> HIDE DEF a
  <2>5. [conn[f] EXCEPT !.act = a] \in Conns
    BY <1>4, <2>4, ConnChanges
  <2>6. Activated(conn[f]) \in Conns
    BY <2>5 DEF Activated, a
  <2>7. OnWriteNewKey(Answered(f, Activated(conn[f]), <<Word("mem_join", "ok")>>), [armed EXCEPT ![f] = "out"])
    BY <2>3, JoinFacts
  <2>8. PICK ms : ms = <<Word("mem_join", "ok")>>
    OBVIOUS
  <2>9. ms \in Seq(Messages)
    BY <2>8, WordFacts
  <2>10. Whole(f) # <<>> /\ Open(f)
    BY <2>3, ReadForm DEF OnReadMemberJoin
  <2>11. Answered(f, Activated(conn[f]), ms) \in [Fds -> Conns]
    BY <1>1, <2>6, <2>9, <2>10, AnsweredTypes
  <2> QED
    BY <1>2, <2>7, <2>8, <2>11
<1> QED
  BY <1>3, <1>5, <1>6

\* What a message pair leaves at the end of a buffer.
LEMMA PairLast ==
  ASSUME NEW w \in Seq(Messages), NEW a \in Messages, NEW b \in Messages
  PROVE  w \o <<a, b>> # <<>> /\ Last(w \o <<a, b>>) = b
<1> DEFINE S == Messages
<1>1. w \in Seq(S)
  OBVIOUS
<1>2. PICK pair \in Seq(S) : pair = <<a, b>> /\ Len(pair) = 2 /\ pair[2] = b
  <2>1. <<a, b>> \in Seq(Messages) /\ Len(<<a, b>>) = 2 /\ <<a, b>>[2] = b
    BY ShortSeqs
  <2> QED
    BY <2>1
<1> HIDE DEF S
<1>3. /\ w \o pair \in Seq(S) /\ Len(w \o pair) = Len(w) + Len(pair)
      /\ \A i \in 1..(Len(w) + Len(pair)) : (w \o pair)[i] = IF i <= Len(w) THEN w[i] ELSE pair[i - Len(w)]
  BY <1>1, ConcatProperties
<1>4. Len(w) \in Nat
  BY <1>1, LenProperties
<1> DEFINE n == Len(w)
<1>5. n + 2 \in 1..(n + 2) /\ ~(n + 2 <= n) /\ (n + 2) - n = 2
  BY <1>4
<1> HIDE DEF n
<1>6. Len(w \o pair) = n + 2 /\ (w \o pair)[n + 2] = b
  BY <1>2, <1>3, <1>5 DEF n
<1>7. w \o pair # <<>>
  BY <1>3, <1>4, <1>6, EmptySeq DEF n
<1> QED
  BY <1>2, <1>6, <1>7 DEF Last

\* The active moduli are those of the connections a new key is last for.
KeyGoesToGroup ==
  active' = {conn'[f].mod : f \in {g \in Fds : conn'[g].wbuf # <<>>
                                             /\ Last(conn'[g].wbuf) = RandomNum(gen')}}

\* It is so after every new key.
LEMMA KeyReaches ==
  ASSUME Clients, KnownInv', [GroupSystemNext]_sysVars, gen' # gen
  PROVE  KeyGoesToGroup
<1>1. /\ ClientInv' /\ conn' \in [Fds -> Conns] /\ gen' \in Nat /\ rekey' \in SUBSET Keys
  BY ClientInvStep DEF KnownInv, TypeInv, GroupSystemTypeOK, GroupServerTypeOK, KeyStoreTypeOK
<1> DEFINE Last2(f) == conn'[f].wbuf # <<>> /\ Last(conn'[f].wbuf) = RandomNum(gen')
<1>2. ASSUME NEW f \in Fds, conn'[f].act
      PROVE  Last2(f)
  <2>1. Open(f)'
    BY <1>1, <1>2 DEF ClientInv, Idle
  <2>2. PICK w \in Seq(Messages) : conn'[f].wbuf = w \o <<Rekeying(gen', rekey'), RandomNum(gen')>>
    BY <1>2, <2>1, KeyWritten
  <2>3. Rekeying(gen', rekey') \in Messages /\ RandomNum(gen') \in Messages
    BY <1>1 DEF Rekeying, RandomNum, Messages
  <2> QED
    BY <2>2, <2>3, PairLast
<1>3. ASSUME NEW f \in Fds, Last2(f)
      PROVE  conn'[f].act
  <2> DEFINE w == conn'[f].wbuf
  <2>1. w \in Seq(Messages) /\ w # <<>>
    BY <1>1, <1>3 DEF Conns
  <2>2. Len(w) \in 1..Len(w)
    BY <2>1, EmptySeq, LenProperties
  <2>3. w[Len(w)].first = "randomNum"
    BY <1>3 DEF Last, RandomNum
  <2>4. Open(f)' /\ ServedRightly(f)'
    BY <1>1, <1>3 DEF ClientInv, Idle, ConnInv
  <2> QED
    BY <2>2, <2>3, <2>4 DEF ServedRightly
<1>4. /\ \A f \in Fds : conn'[f].act => conn'[f].mod \in active'
      /\ \A k \in active' : \E f \in Fds : conn'[f].act /\ conn'[f].mod = k
  BY <1>1 DEF ClientInv, ActiveAgrees
<1> QED
  BY <1>2, <1>3, <1>4 DEF KeyGoesToGroup

\* server.h:38: a new group key is written to the connections of the group
\* and to no others, while only clients of the repository connect.
THEOREM EachKeyGoesToGroup ==
  GroupSystemSpec => [][gen' # gen /\ OnlyClients => KeyGoesToGroup]_gen
<1> DEFINE I == KnownInv /\ (OnlyClients => ClientInv)
<1>1. I /\ I' /\ [GroupSystemNext]_sysVars => [gen' # gen /\ OnlyClients => KeyGoesToGroup]_gen
  BY KeyReaches DEF Clients
<1>2. GroupSystemSpec => []I
  BY ClientInvHolds
<1> HIDE DEF I
<1> QED
  BY <1>1, <1>2, PTL DEF GroupSystemSpec

\* While no query fails, they are also the ones that can decrypt it.
THEOREM NewKeysReachMembers == QueryMayFail = FALSE /\ GroupSystemSpec => NewKeyReachesMembers
<1> SUFFICES ASSUME QueryMayFail = FALSE PROVE GroupSystemSpec => NewKeyReachesMembers
  OBVIOUS
<1> DEFINE I == KnownInv /\ (OnlyClients => ClientInv) /\ RekeyCoversGroup
           A == rekey' = {conn'[f].mod : f \in {g \in Fds : conn'[g].wbuf # <<>>
                                                         /\ Last(conn'[g].wbuf) = RandomNum(gen')}}
<1>1. I /\ I' /\ [GroupSystemNext]_sysVars => [gen' # gen /\ OnlyClients => A]_gen
  BY KeyReaches DEF Clients, RekeyCoversGroup, KeyGoesToGroup
<1>2. NewKeyReachesMembers <=> [][gen' # gen /\ OnlyClients => A]_gen
  BY DEF NewKeyReachesMembers
<1> HIDE DEF A
<1>3. GroupSystemSpec => []I
  BY ClientInvHolds, GroupRekeyCoversGroup, PTL
<1> HIDE DEF I
<1> QED
  BY <1>1, <1>2, <1>3, PTL DEF GroupSystemSpec

-----------------------------------------------------------------------------
(* A client that has its account for itself, whoever else has connected.   *)
(* Its descriptor can be one that a peer left active, so that group keys   *)
(* are written to it before it has joined; it takes the first of them for  *)
(* an answer and ends.  AloneInv says that until then it is on course, and *)
(* that nobody else has had its modulus.                                   *)

\* What XH_Cipher has handed out.
Held == members \ available

\* The readFds before the one of mem_join.
Early  == {"login", "register", "allocation", "mod"}
Openers == {"login", "register", "allocation"}

IsNumber(msg) == msg.second = "number"

\* Nothing, or at least one group key.
Broadcasts(out) == out # <<>> => Len(out) > 1 /\ IsNumber(out[1]) /\ IsNumber(out[2])

\* The client reads a group key where it expects an answer, and will return
\* within two messages.
Lost(ph, out) ==
  /\ out # <<>>
  /\ \/ ph \in {"login", "register"} /\ Broadcasts(out)
     \/ ph = "allocation" /\ IsNumber(out[1])

\* The Conn holds the modulus on record and is not active yet, or it is and
\* the client holds the modulus as well; group is the active group.
Allotted(k, act, key)             == k = key /\ key # NoKey /\ ~act
BelongsTo(own, k, act, key, group) == k = key /\ key # NoKey /\ own = key /\ act /\ key \in group

\* The script and the server are at the same place; ph, req, own and out as
\* in InStep and Holds.
OnCourse(ph, req, own, k, act, key, group, out) ==
  \/ ph \in Openers /\ req = <<ph>> /\ out = <<>>
  \/ ph \in {"login", "register"} /\ req = <<>> /\ out # <<>> /\ ~IsNumber(out[1]) /\ Broadcasts(Tail(out))
  \/ ph = "allocation" /\ req = <<>> /\ out # <<>> /\ out[1].second = "bad"
  \/ ph = "allocation" /\ req = <<>> /\ out = <<Word("allocation", "ok"), Mod(key)>> /\ Allotted(k, act, key)
  \/ ph = "mod" /\ req = <<>> /\ out = <<Mod(key)>> /\ Allotted(k, act, key)
  \/ /\ ph = "mem_join" /\ req = <<ph>> /\ out = <<>>
     /\ Allotted(k, act, key) /\ own = key /\ key \notin group
  \/ ph \in Joins /\ req = <<>> /\ BelongsTo(own, k, act, key, group)

Talk(ph, req, own, k, act, key, group, out) ==
  \/ Lost(ph, out) /\ req \in Seq(Openers)
  \/ OnCourse(ph, req, own, k, act, key, group, out)

Talks(p, f) ==
  Talk(phase[p], Whole(f), mod[p], conn[f].mod, conn[f].act, userKey[Acct[p]], active, Out(f))

\* A connection logs in to the account of its process only.
UsersAgree == \A f \in Fds : Open(f) => conn[f].user \in {NoUser, Acct[conn[f].proc]}

\* Every modulus of a Conn and of the group was handed out.
ModsHeld ==
  /\ \A f \in Fds : conn[f].mod \in Held \cup {NoKey}
  /\ active \subseteq Held

\* Nobody has seen the modulus of an account before the account logs in.
InUse(k)     == k \in active \/ \E g \in Fds : conn[g].mod = k
Started(u)   == \E o \in Procs : Acct[o] = u /\ phase[o] # "off"
OwnersStarted == \A u \in Users : userKey[u] # NoKey /\ InUse(userKey[u]) => Started(u)

\* The modulus of p is with p only, and in the group when p has joined.
KeyIsMine(p) ==
  LET key == userKey[Acct[p]]
  IN  key # NoKey => /\ \A g \in Fds : conn[g].mod = key => conn[g].proc = p
                     /\ phase[p] \in Early => key \notin active

Mine(p) == KeyIsMine(p) /\ \A f \in ServedBy(p) : Talks(p, f)

AloneInv ==
  /\ UsersAgree /\ ModsHeld /\ OwnersStarted
  /\ \A p \in Procs \ Peers : Alone(p) /\ link[p] = "open" => Mine(p)

\* Everything that is known here.
Known == KnownInv /\ AloneInv

-----------------------------------------------------------------------------
(* The conversation.                                                       *)

\* What is written behind a message that is there.
LEMMA BehindOut ==
  ASSUME NEW out \in Seq(Messages), NEW ms \in Seq(Messages), out # <<>>, NEW new, new = out \o ms
  PROVE  /\ new \in Seq(Messages) /\ new # <<>> /\ new[1] = out[1] /\ Tail(new) = Tail(out) \o ms
         /\ Len(new) >= Len(out) /\ Len(out) > 1 => new[2] = out[2]
<1>1. /\ Len(out) \in Nat /\ Len(ms) \in Nat /\ Len(out) # 0
  BY LenProperties, EmptySeq
<1>2. new \in Seq(Messages) /\ Len(new) = Len(out) + Len(ms)
      /\ \A i \in 1..(Len(out) + Len(ms)) : new[i] = IF i <= Len(out) THEN out[i] ELSE ms[i - Len(out)]
  BY ConcatProperties
<1>3. Tail(new) = Tail(out) \o ms /\ new # <<>> /\ Head(out) = out[1] /\ new[1] = out[1]
  BY HeadOfOut
<1>4. Len(out) > 1 => new[2] = out[2]
  BY <1>1, <1>2
<1> QED
  BY <1>1, <1>2, <1>3, <1>4

\* Group keys with more behind them.
LEMMA MoreBroadcasts ==
  ASSUME NEW out \in Seq(Messages), NEW ms \in Seq(Messages), Broadcasts(out), Broadcasts(ms), NEW new, new = out \o ms
  PROVE  Broadcasts(new)
<1>1. CASE out = <<>>
  <2>1. \A s \in Seq(Messages) : <<>> \o s = s
    BY ConcatEmptySeq
  <2> QED
    BY <1>1, <2>1
<1>2. CASE out # <<>>
  <2>1. /\ new # <<>> /\ new[1] = out[1] /\ Len(new) >= Len(out) /\ Len(out) > 1 => new[2] = out[2]
        /\ Len(new) \in Nat /\ Len(out) \in Nat
    BY <1>2, BehindOut, LenProperties
  <2> QED
    BY <1>2, <2>1 DEF Broadcasts
<1> QED
  BY <1>1, <1>2

\* The new group key is one.
LEMMA KeyIsBroadcast ==
  ASSUME NEW g \in Nat, NEW ks \in SUBSET Keys
  PROVE  /\ <<Rekeying(g, ks), RandomNum(g)>> \in Seq(Messages) /\ <<Rekeying(g, ks), RandomNum(g)>> # <<>>
         /\ Broadcasts(<<Rekeying(g, ks), RandomNum(g)>>)
<1> DEFINE pair == <<Rekeying(g, ks), RandomNum(g)>>
<1>1. pair \in Seq(Messages) /\ Len(pair) = 2 /\ pair[1] = Rekeying(g, ks) /\ pair[2] = RandomNum(g)
  BY MessageTypes
<1>2. IsNumber(Rekeying(g, ks)) /\ IsNumber(RandomNum(g))
  BY DEF IsNumber, Rekeying, RandomNum
<1> HIDE DEF pair
<1>3. pair # <<>>
  <2>1. \A s \in Seq(Messages) : s = <<>> <=> Len(s) = 0
    BY EmptySeq
  <2>2. Len(pair) # 0
    BY <1>1
  <2> QED
    BY <1>1, <2>1, <2>2, Zenon
<1>4. Broadcasts(pair)
  BY <1>1, <1>2 DEF Broadcasts
<1> QED
  BY <1>1, <1>3, <1>4 DEF pair

\* Who is lost stays lost, whatever comes.
LEMMA StaysLost ==
  ASSUME NEW ph, NEW out \in Seq(Messages), NEW ms \in Seq(Messages), Lost(ph, out), NEW new, new = out \o ms
  PROVE  Lost(ph, new)
<1>1. /\ new # <<>> /\ new[1] = out[1] /\ Len(new) >= Len(out) /\ Len(out) > 1 => new[2] = out[2]
      /\ Len(new) \in Nat /\ Len(out) \in Nat /\ out # <<>>
  BY BehindOut, LenProperties DEF Lost
<1> QED
  BY <1>1 DEF Lost, Broadcasts

\* A group key is written to an active Conn.
LEMMA TalkGoesOn ==
  ASSUME NEW ph, NEW req, NEW own, NEW k, NEW act, NEW key, NEW group, NEW out \in Seq(Messages), act,
         Talk(ph, req, own, k, act, key, group, out),
         NEW ms \in Seq(Messages), Broadcasts(ms), ms # <<>>, NEW new, new = out \o ms
  PROVE  Talk(ph, req, own, k, act, key, group, new)
<1>1. ASSUME Lost(ph, out) PROVE Lost(ph, new)
  BY <1>1, StaysLost
<1>2. out # <<>> => /\ new # <<>> /\ new[1] = out[1] /\ Tail(new) = Tail(out) \o ms
                    /\ Tail(out) \in Seq(Messages)
  BY BehindOut, HeadTailProperties
<1>3. ASSUME ph \in Openers, req = <<ph>>, out = <<>>
      PROVE  Lost(ph, new) /\ req \in Seq(Openers)
  <2>1. new = ms
    BY <1>3, ConcatEmptySeq
  <2>2. req \in Seq(Openers)
    BY <1>3, ShortSeqs
  <2> QED
    BY <1>3, <2>1, <2>2 DEF Lost, Broadcasts, Openers
<1>4. ASSUME out # <<>>, Broadcasts(Tail(out)) PROVE Broadcasts(Tail(new))
  BY <1>2, <1>4, MoreBroadcasts
<1>5. CASE Lost(ph, out) /\ req \in Seq(Openers)
  BY <1>1, <1>5 DEF Talk
<1>6. CASE OnCourse(ph, req, own, k, act, key, group, out)
  BY <1>2, <1>3, <1>4, <1>6 DEF Talk, OnCourse, Allotted
<1> QED
  BY <1>5, <1>6 DEF Talk

\* What is next for a client in the readFd ph that reads msg and does not
\* return: the readFd next, after the requests sent.
Goes(ph, own, msg, next, sent, nextOwn) ==
  \/ /\ ph = "login" /\ next = (IF msg.second = "bad" THEN "register" ELSE "allocation")
     /\ sent = <<next>> /\ nextOwn = own
  \/ ph = "register" /\ next = "allocation" /\ sent = <<next>> /\ nextOwn = own
  \/ ph = "allocation" /\ msg.second = "ok" /\ next = "mod" /\ sent = <<>> /\ nextOwn = own
  \/ ph = "mod" /\ next = "mem_join" /\ sent = <<next>> /\ nextOwn = msg.num
  \/ ph \in Joins /\ next \in InLoop /\ sent = <<>> /\ nextOwn = own

\* A client on course that reads a message stays on it, or is lost.
LEMMA TalkIsRead ==
  ASSUME NEW ph, NEW req \in Seq(Requests), NEW own, NEW k, NEW act, NEW key \in Keys \cup {NoKey}, NEW group,
         NEW out \in Seq(Messages), out # <<>>,
         Talk(ph, req, own, k, act, key, group, out), ph = "mod" => key \notin group,
         NEW next, NEW sent, NEW nextOwn, Goes(ph, own, out[1], next, sent, nextOwn),
         NEW new, new = req \o sent, NEW rest, rest = Tail(out)
  PROVE  Talk(next, new, nextOwn, k, act, key, group, rest)
<1>1. rest \in Seq(Messages) /\ Len(rest) = Len(out) - 1 /\ Len(out) \in Nat
      /\ (rest = <<>> <=> Len(rest) = 0) /\ \A i \in 1..Len(rest) : rest[i] = out[i + 1]
  BY HeadTailProperties, EmptySeq, LenProperties
<1>2. req \o <<>> = req /\ (sent \in Seq(Requests) => <<>> \o sent = sent)
  BY ConcatEmptySeq
<1>3. CASE Lost(ph, out) /\ req \in Seq(Openers)
  <2>1. /\ ph \in Openers /\ next \in Openers /\ sent = <<next>>
        /\ ph # "allocation" /\ Broadcasts(out) /\ next = "allocation"
    BY <1>3 DEF Lost, Goes, Openers, IsNumber, Joins, Broadcasts
  <2>2. Len(rest) \in Nat \ {0} /\ rest[1] = out[2] /\ IsNumber(out[2])
    BY <1>1, <1>3, <2>1 DEF Broadcasts
  <2>3. Lost(next, rest)
    BY <1>1, <2>1, <2>2 DEF Lost
  <2>4. new \in Seq(Openers)
    <3>1. sent \in Seq(Openers)
      BY <2>1, ShortSeqs
    <3> QED
      BY <1>3, <3>1, ConcatProperties
  <2> QED
    BY <2>3, <2>4 DEF Talk
<1>4. CASE ph \in {"login", "register"} /\ req = <<>> /\ ~IsNumber(out[1]) /\ Broadcasts(Tail(out))
  <2>1. next \in {"register", "allocation"} /\ sent = <<next>>
    BY <1>4 DEF Goes, Joins
  <2>2. sent \in Seq(Requests) /\ sent \in Seq(Openers)
    BY <2>1, ShortSeqs DEF Requests, Openers
  <2>3. new = <<next>> /\ new \in Seq(Openers)
    BY <1>2, <1>4, <2>1, <2>2
  <2>4. CASE rest = <<>>
    BY <2>1, <2>3, <2>4 DEF Talk, OnCourse, Openers
  <2>5. CASE rest # <<>>
    BY <1>4, <2>1, <2>3, <2>5 DEF Talk, Lost, Broadcasts
  <2> QED
    BY <2>4, <2>5
<1>5. CASE ph = "allocation" /\ req = <<>> /\ out[1].second = "bad"
  BY <1>5 DEF Goes, Joins
<1>6. CASE ph = "allocation" /\ req = <<>> /\ out = <<Word("allocation", "ok"), Mod(key)>> /\ Allotted(k, act, key)
  <2>1. rest = <<Mod(key)>>
    BY <1>6
  <2>2. next = "mod" /\ new = <<>>
    BY <1>2, <1>6 DEF Goes, Joins
  <2> QED
    BY <1>6, <2>1, <2>2 DEF Talk, OnCourse
<1>7. CASE ph = "mod" /\ req = <<>> /\ out = <<Mod(key)>> /\ Allotted(k, act, key)
  <2>1. rest = <<>> /\ out[1].num = key
    BY <1>7 DEF Mod
  <2>2. next = "mem_join" /\ sent = <<next>> /\ nextOwn = key
    BY <1>7, <2>1 DEF Goes, Joins
  <2>3. sent \in Seq(Requests)
    BY <2>2, ShortSeqs DEF Requests
  <2>4. new = <<next>>
    BY <1>2, <1>7, <2>2, <2>3
  <2> QED
    BY <1>7, <2>1, <2>2, <2>4 DEF Talk, OnCourse
<1>8. CASE ph \in Joins /\ req = <<>> /\ BelongsTo(own, k, act, key, group)
  <2>1. next \in Joins /\ new = <<>> /\ nextOwn = own
    BY <1>2, <1>8 DEF Goes, Joins, InLoop
  <2> QED
    BY <1>8, <2>1 DEF Talk, OnCourse
<1> QED
  BY <1>3, <1>4, <1>5, <1>6, <1>7, <1>8 DEF Talk, OnCourse

-----------------------------------------------------------------------------
(* What a handler does to the keys and the group.                          *)

\* The modulus of an account was handed out.
LEMMA RecordsHeld ==
  ASSUME KnownInv
  PROVE  /\ \A u \in Users : userKey[u] \in Held \cup {NoKey}
         /\ NoKey \notin members /\ NoKey \notin active
<1>1. KeyStoreTypeOK /\ RecordsAgree /\ AvailableIsUnowned /\ up
  BY DEF KnownInv, TypeInv, GroupSystemTypeOK, GroupServerTypeOK, KeyInv, Ownership
<1>2. \A u \in Users : userKey[u] \in dbKeys \cup {NoKey} /\ userKey[u] \notin available
  BY <1>1 DEF RecordsAgree, AvailableIsUnowned
<1>3. dbKeys \subseteq members
  BY <1>1 DEF RecordsAgree
<1> QED
  BY <1>1, <1>2, <1>3, NoKeyIsNotAKey DEF Held, KeyStoreTypeOK

\* An allocation hands out a key that was not.
LEMMA KeyHandedOut ==
  ASSUME KnownInv, NEW u \in Users, NEW k \in Keys, NEW stop \in Stops, AllocateNew(u, k, stop)
  PROVE  /\ Held \subseteq Held' /\ k \in Held' /\ k \notin Held
         /\ active' = active /\ userKey[u] = NoKey
         /\ userKey' = userKey \/ userKey' = [userKey EXCEPT ![u] = k]
<1>1. KeyStoreTypeOK /\ RecordsAgree /\ up
  BY DEF KnownInv, TypeInv, GroupSystemTypeOK, GroupServerTypeOK, KeyInv
<1>2. /\ k \in available \cup NewKeys /\ available' = (available \cup NewKeys) \ {k}
      /\ members' = members \cup NewKeys /\ lowerBound + Cardinality(NewKeys) <= MaxKey
  BY DEF AllocateNew, CipherAllocation, NewKeys, Erase
<1>3. active' = active /\ userKey[u] = NoKey /\ (userKey' = userKey \/ userKey' = [userKey EXCEPT ![u] = k])
  BY DEF AllocateNew, IsNew, RecordAllocation, groupVars
<1>4. \A n \in NewKeys : n \notin members
  <2>1. NewKeys \subseteq Keys /\ \A n \in NewKeys : lowerBound < n
    BY <1>1, <1>2, NewKeysFacts
  <2>2. \A n \in members : n <= lowerBound
    BY <1>1 DEF RecordsAgree
  <2>3. lowerBound \in Int /\ Keys \subseteq Int
    BY <1>1 DEF KeyStoreTypeOK, Keys
  <2> QED
    BY <2>1, <2>2, <2>3
<1>5. available \subseteq members
  BY <1>1 DEF RecordsAgree
<1> QED
  BY <1>2, <1>3, <1>4, <1>5 DEF Held

\* One that fails inside sys_extend_Db hands out none.
LEMMA NoKeyHandedOut ==
  ASSUME KnownInv, NEW u \in Users, NEW rows \in 0..MaxKey, AllocateNoKey(u, rows)
  PROVE  Held \subseteq Held' /\ active' = active /\ userKey' = userKey
<1>1. KeyStoreTypeOK /\ RecordsAgree /\ up
  BY DEF KnownInv, TypeInv, GroupSystemTypeOK, GroupServerTypeOK, KeyInv
<1>2. /\ members \subseteq members' /\ available' = InitMembers(rows + 1)
      /\ active' = active /\ userKey' = userKey
  BY DEF AllocateNoKey, SysExtendDbFails, groupVars
<1>3. \A n \in InitMembers(rows + 1) : n \notin members
  <2>1. \A n \in InitMembers(rows + 1) : lowerBound < n
    BY <1>1 DEF InitMembers, KeyStoreTypeOK
  <2>2. \A n \in members : n <= lowerBound
    BY <1>1 DEF RecordsAgree
  <2>3. lowerBound \in Int /\ members \subseteq Int /\ InitMembers(rows + 1) \subseteq Int
    BY <1>1 DEF KeyStoreTypeOK, Keys, InitMembers
  <2> QED
    BY <2>1, <2>2, <2>3
<1> QED
  BY <1>2, <1>3 DEF Held

\* The keys and the group after a handler of f: only the modulus of its Conn
\* and the account of its process are concerned.
KeysBy(f) ==
  LET k == conn'[f].mod
      u == Acct[conn[f].proc]
  IN  /\ Held \subseteq Held'
      /\ \A j \in active' : j \in active \/ (j = conn[f].mod /\ j \in members)
      /\ \A j \in active : j \in active' \/ j = conn[f].mod
      /\ \A v \in Users : v # u => userKey'[v] = userKey[v]
      /\ \/ k = conn[f].mod /\ userKey'[u] = userKey[u]
         \/ k \in Held' /\ k \notin Held /\ userKey[u] = NoKey /\ userKey'[u] \in {NoKey, k} /\ active' = active
         \/ k = userKey[u] /\ k # NoKey /\ userKey'[u] = userKey[u] /\ active' = active

\* Its own Conn is closed or serves the same process, and the others at most
\* get a group key.
ConnBy(f) ==
  \/ conn'[f].proc = NoProc
  \/ conn'[f].proc = conn[f].proc /\ conn'[f].user \in {NoUser, Acct[conn[f].proc]}

HandledBy(f) == KeysBy(f) /\ ConnBy(f) /\ \A g \in Fds : g # f => Bystander(g)

\* Nothing about the keys changes.
LEMMA KeysAlone ==
  ASSUME NEW f \in Fds, UNCHANGED keyVars, conn'[f].mod = conn[f].mod
  PROVE  KeysBy(f)
BY DEF KeysBy, keyVars, cipherVars, groupVars, dbVars, Held

\* The group changes by the modulus of f.
LEMMA KeysOfGroup ==
  ASSUME NEW f \in Fds, conn'[f].mod = conn[f].mod,
         LET k == conn[f].mod IN Join(k) \/ Leave(k) \/ Drop(k)
  PROVE  KeysBy(f)
<1> DEFINE k == conn[f].mod
<1>1. /\ UNCHANGED <<members, available, userKey>>
      /\ active' = active \/ active' = active \ {k} \/ (k \in members /\ active' = active \cup {k})
  BY DEF Join, Leave, Drop, MemberJoin, MemberLeave, cipherVars, dbVars
<1> QED
  BY <1>1 DEF KeysBy, Held

\* A Conn that is handed an answer, with a group key or without.
LEMMA AnswerMade ==
  ASSUME GroupServerTypeOK, NEW f \in Fds, Open(f), NEW r, Received(f, r),
         NEW c \in Conns, c.proc = conn[f].proc, NEW ms \in Seq(Messages), NEW as,
         Answer(f, c, ms) \/ OnWriteNewKey(Answered(f, c, ms), as)
  PROVE  /\ conn'[f].proc = c.proc /\ conn'[f].user = c.user /\ conn'[f].mod = c.mod /\ conn'[f].act = c.act
         /\ conn'[f].rbuf = Tail(Whole(f))
         /\ \A g \in Fds : g # f => Bystander(g)
<1> DEFINE d == [c EXCEPT !.rbuf = Tail(Whole(f)), !.wbuf = @ \o ms]
           cs == Answered(f, c, ms)
<1>1. conn \in [Fds -> Conns]
  BY DEF GroupServerTypeOK
<1>2. /\ d.proc = c.proc /\ d.user = c.user /\ d.mod = c.mod /\ d.act = c.act
      /\ d.rbuf = Tail(Whole(f))
  BY DEF Conns
<1>3. cs[f] = d /\ \A g \in Fds : g # f => cs[g] = conn[g]
  BY <1>1 DEF Answered
<1>4. /\ TheKey(d).proc = d.proc /\ TheKey(d).user = d.user /\ TheKey(d).mod = d.mod /\ TheKey(d).act = d.act
      /\ TheKey(d).rbuf = d.rbuf
  BY DEF TheKey, Conns
<1>5. CASE Answer(f, c, ms)
  BY <1>2, <1>3, <1>5 DEF Answer, Bystander
<1>6. CASE OnWriteNewKey(cs, as)
  <2>1. \A g \in Fds : conn'[g] = IF IsMember(cs[g]) THEN TheKey(cs[g]) ELSE cs[g]
    BY <1>6, BroadcastConns
  <2> HIDE DEF d, cs
  <2> QED
    BY <1>2, <1>3, <1>4, <2>1 DEF Bystander
<1> QED
  BY <1>5, <1>6

\* The connection of an event.
LEMMA EventConn ==
  ASSUME Known, NEW f \in Fds, NEW ev \in Events, <<f, ev>> \in batch
  PROVE  /\ GroupServerTypeOK /\ Open(f) /\ conn[f] \in Conns /\ conn[f].proc \in Procs
         /\ Acct[conn[f].proc] \in Users /\ conn[f].user \in {NoUser, Acct[conn[f].proc]}
         /\ conn[f].wbuf \in Seq(Messages) /\ s2c[conn[f].proc] \in Seq(Messages) /\ Out(f) \in Seq(Messages)
<1>1. GroupServerTypeOK /\ Open(f)
  BY DEF Known, KnownInv, TypeInv, GroupSystemTypeOK, BatchIsOpen
<1> QED
  BY <1>1, OutTypes, ConnTypes DEF Known, AloneInv, UsersAgree

\* That of a request.
LEMMA ReadConn ==
  ASSUME Known, NEW f \in Fds, NEW r, Received(f, r)
  PROVE  /\ GroupServerTypeOK /\ Open(f) /\ conn[f] \in Conns /\ conn[f].proc \in Procs
         /\ Acct[conn[f].proc] \in Users /\ conn[f].user \in {NoUser, Acct[conn[f].proc]}
         /\ conn[f].wbuf \in Seq(Messages) /\ s2c[conn[f].proc] \in Seq(Messages) /\ Out(f) \in Seq(Messages)
  BY EventConn DEF Received, Event, Events

\* What onRead_userVerify comes to: c is the Conn after it.
Verified(f, c, word) ==
  /\ c.proc = conn[f].proc /\ c.mod = conn[f].mod /\ c.act = conn[f].act /\ c.wbuf = conn[f].wbuf
  /\ c.user \in {NoUser, Acct[conn[f].proc]}
  /\ Answer(f, c, <<Word("login", word)>>)

LEMMA VerifyForm ==
  ASSUME Known, NEW f \in Fds, NEW isLogin \in BOOLEAN, OnReadUserVerify(f, isLogin)
  PROVE  /\ \E c \in Conns, word \in {"ok", "bad", "pwd"} : Verified(f, c, word)
         /\ Received(f, IF isLogin THEN "login" ELSE "register") /\ UNCHANGED keyVars
<1> DEFINE c == conn[f]
           u == Acct[c.proc]
           User(v) == [c EXCEPT !.user = v]
           Result(con, word) == Answer(f, con, <<Word("login", word)>>)
           Goal == \E con \in Conns, word \in {"ok", "bad", "pwd"} : Verified(f, con, word)
<1>1. Received(f, IF isLogin THEN "login" ELSE "register") /\ UNCHANGED keyVars
  BY DEF OnReadUserVerify
<1>2. c \in Conns /\ u \in Users /\ c.user \in {NoUser, u}
  BY <1>1, ReadConn
<1>3. \A v \in Users \cup {NoUser} :
        /\ User(v) \in Conns /\ User(v).proc = c.proc /\ User(v).mod = c.mod /\ User(v).act = c.act
        /\ User(v).wbuf = c.wbuf /\ User(v).user = v
  BY <1>2 DEF Conns
<1>4. ASSUME NEW con \in {c, User(u), User(NoUser)}, NEW word \in {"ok", "bad", "pwd"}, Result(con, word)
      PROVE  Goal
  <2> HIDE DEF User
  <2>1. \A v \in {u, NoUser} : con = User(v) => con \in Conns /\ Verified(f, con, word)
    BY <1>2, <1>3, <1>4 DEF Verified
  <2>2. con = c => con \in Conns /\ Verified(f, con, word)
    BY <1>2, <1>4 DEF Verified
  <2> QED
    BY <1>4, <2>1, <2>2
<1>5. \E con \in {c, User(u), User(NoUser)}, word \in {"ok", "bad", "pwd"} : Result(con, word)
  BY DEF OnReadUserVerify
<1> HIDE DEF Goal, Result, User
<1>6. Goal
  BY <1>4, <1>5
<1> QED
  BY <1>1, <1>6 DEF Goal

\* The same of onRead_allocation.
Allocated(f, c, ms) ==
  /\ c.proc = conn[f].proc /\ c.user = conn[f].user /\ c.wbuf = conn[f].wbuf
  /\ Answer(f, c, ms) /\ ms \in Seq(Messages)
  /\ \/ ms = <<Word("allocation", "bad")>>
     \/ /\ ms = <<Word("allocation", "ok"), Mod(c.mod)>>
        /\ Allotted(c.mod, c.act, userKey'[Acct[conn[f].proc]])

LEMMA AllocateForm ==
  ASSUME Known, NEW f \in Fds, OnReadAllocation(f)
  PROVE  /\ \E c \in Conns : \E ms : Allocated(f, c, ms) /\ KeysBy(f)
         /\ Received(f, "allocation")
<1> DEFINE c == conn[f]
           u == Acct[conn[f].proc]
           bad == <<Word("allocation", "bad")>>
           Given(k, a) == [c EXCEPT !.mod = k, !.act = a]
           Ok(k) == <<Word("allocation", "ok"), Mod(k)>>
           Goal == \E con \in Conns : \E ms : Allocated(f, con, ms) /\ KeysBy(f)
<1>1. Received(f, "allocation")
  BY DEF OnReadAllocation
<1>2. /\ c \in Conns /\ u \in Users /\ c.user \in {NoUser, u} /\ userKey \in [Users -> Keys \cup {NoKey}]
      /\ GroupServerTypeOK /\ Open(f) /\ KnownInv /\ active \subseteq Held
  BY <1>1, ReadConn DEF GroupServerTypeOK, KeyStoreTypeOK, Known, AloneInv, ModsHeld
<1>3. bad \in Seq(Messages) /\ \A k \in Keys \cup {NoKey} : Ok(k) \in Seq(Messages)
  BY MessageTypes
<1>4. \A k \in Keys \cup {NoKey}, a \in BOOLEAN :
        /\ Given(k, a) \in Conns /\ Given(k, a).mod = k /\ Given(k, a).act = a
        /\ Given(k, a).proc = c.proc /\ Given(k, a).user = c.user /\ Given(k, a).wbuf = c.wbuf
  BY <1>2 DEF Conns
<1>5. ASSUME NEW con \in Conns, con.proc = c.proc, con.user = c.user, con.wbuf = c.wbuf,
             NEW ms \in Seq(Messages), Answer(f, con, ms), con.mod = conn'[f].mod => KeysBy(f),
             ms = bad \/ (ms = Ok(con.mod) /\ Allotted(con.mod, con.act, userKey'[u]))
      PROVE  Goal
  <2>1. conn'[f].mod = con.mod
    BY <1>1, <1>2, <1>5, AnswerMade
  <2>2. Allocated(f, con, ms)
    BY <1>5 DEF Allocated
  <2> QED
    BY <1>5, <2>1, <2>2
<1>6. ASSUME Answer(f, c, bad), UNCHANGED keyVars PROVE Goal
  BY <1>2, <1>3, <1>5, <1>6, KeysAlone
<1>7. ASSUME c.user = u, NEW k \in Keys, NEW stop \in Stops, AllocateNew(u, k, stop),
             NEW a, a = (k \in active), NEW con, con = Given(k, a),
             IF stop = "none" THEN Answer(f, con, Ok(con.mod)) ELSE Answer(f, con, bad)
      PROVE  Goal
  <2>1. /\ Held \subseteq Held' /\ k \in Held' /\ k \notin Held /\ active' = active /\ userKey[u] = NoKey
        /\ userKey' = userKey \/ userKey' = [userKey EXCEPT ![u] = k]
    BY <1>2, <1>7, KeyHandedOut
  <2>2. a = FALSE /\ k # NoKey
    <3>1. k \notin active
      BY <1>2, <2>1
    <3>2. k # NoKey
      BY NoKeyIsNotAKey
    <3>3. (k \in active) = FALSE
      BY <3>1
    <3>4. a = FALSE
      BY <1>7, <3>3, Zenon
    <3> QED
      BY <3>2, <3>4
  <2>3. /\ con \in Conns /\ con.mod = k /\ ~con.act
        /\ con.proc = c.proc /\ con.user = c.user /\ con.wbuf = c.wbuf
    BY <1>4, <1>7, <2>2
  <2>4. con.mod = conn'[f].mod => KeysBy(f)
    BY <1>2, <2>1, <2>3 DEF KeysBy
  <2>5. stop = "none" => userKey'[u] = k
    BY <1>2, <1>7 DEF AllocateNew, RecordAllocation
  <2>6. stop = "none" => Allotted(con.mod, con.act, userKey'[u])
    BY <2>2, <2>3, <2>5 DEF Allotted
  <2> HIDE DEF Given, Ok, bad, Goal
  <2> QED
    BY <1>3, <1>5, <1>7, <2>3, <2>4, <2>6
<1>8. ASSUME c.user = u, NEW rows \in 0..MaxKey, AllocateNoKey(u, rows), Answer(f, c, bad)
      PROVE  Goal
  <2>1. Held \subseteq Held' /\ active' = active /\ userKey' = userKey
    BY <1>2, <1>8, NoKeyHandedOut
  <2>2. c.mod = conn'[f].mod => KeysBy(f)
    BY <2>1 DEF KeysBy
  <2> QED
    BY <1>2, <1>3, <1>5, <1>8, <2>2
<1>9. ASSUME c.user = u, AllocateAgain(u), NEW con, con = Given(userKey[u], FALSE), Answer(f, con, Ok(con.mod))
      PROVE  Goal
  <2>1. UNCHANGED <<members, available, active, userKey>> /\ userKey[u] # NoKey
    BY <1>9 DEF AllocateAgain, IsNew, dbVars, cipherVars, groupVars
  <2>2. /\ con \in Conns /\ con.mod = userKey[u] /\ ~con.act
        /\ con.proc = c.proc /\ con.user = c.user /\ con.wbuf = c.wbuf
    BY <1>2, <1>4, <1>9
  <2>3. con.mod = conn'[f].mod => KeysBy(f)
    BY <2>1, <2>2 DEF KeysBy, Held
  <2>4. Allotted(con.mod, con.act, userKey'[u]) /\ con.mod \in Keys \cup {NoKey}
    BY <1>2, <2>1, <2>2 DEF Allotted
  <2> HIDE DEF Given, Ok, bad, Goal
  <2> QED
    BY <1>3, <1>5, <1>9, <2>2, <2>3, <2>4
<1>10. ASSUME c.user = NoUser PROVE Goal
  BY <1>6, <1>10 DEF OnReadAllocation
<1>11. ASSUME c.user = u, u # NoUser PROVE Goal
  <2>1. \/ Answer(f, c, bad) /\ UNCHANGED keyVars
        \/ \E k \in Keys, stop \in Stops : \E a, con :
             /\ AllocateNew(u, k, stop) /\ a = (k \in active) /\ con = Given(k, a)
             /\ IF stop = "none" THEN Answer(f, con, Ok(con.mod)) ELSE Answer(f, con, bad)
        \/ (\E rows \in 0..MaxKey : AllocateNoKey(u, rows)) /\ Answer(f, c, bad)
        \/ AllocateAgain(u) /\ \E con : con = Given(userKey[u], FALSE) /\ Answer(f, con, Ok(con.mod))
    BY <1>11, Zenon DEF OnReadAllocation
  <2> HIDE DEF Given, Ok, bad, Goal
  <2>2. CASE \E k \in Keys, stop \in Stops : \E a, con :
               /\ AllocateNew(u, k, stop) /\ a = (k \in active) /\ con = Given(k, a)
               /\ IF stop = "none" THEN Answer(f, con, Ok(con.mod)) ELSE Answer(f, con, bad)
    BY <1>7, <1>11, <2>2
  <2>3. CASE (\E rows \in 0..MaxKey : AllocateNoKey(u, rows)) /\ Answer(f, c, bad)
    BY <1>8, <1>11, <2>3
  <2>4. CASE AllocateAgain(u) /\ \E con : con = Given(userKey[u], FALSE) /\ Answer(f, con, Ok(con.mod))
    BY <1>9, <1>11, <2>4
  <2> QED
    BY <1>6, <2>1, <2>2, <2>3, <2>4, Zenon
<1>12. Goal
  BY <1>2, <1>10, <1>11, GroupServerAssumption
<1> QED
  BY <1>1, <1>12

\* A handler that closes the connection or leaves it to the process.
LEMMA SameHandled ==
  ASSUME Known, NEW f \in Fds, conn \in [Fds -> Conns], UNCHANGED keyVars,
         NEW c, conn' = [conn EXCEPT ![f] = c], c.mod = conn[f].mod,
         c.proc = NoProc \/ (c.proc = conn[f].proc /\ c.user \in {NoUser, Acct[conn[f].proc]})
  PROVE  HandledBy(f)
<1>1. conn'[f] = c /\ \A g \in Fds : g # f => conn'[g] = conn[g]
  OBVIOUS
<1>2. KeysBy(f)
  BY <1>1, KeysAlone
<1>3. ConnBy(f)
  BY <1>1 DEF ConnBy
<1>4. \A g \in Fds : g # f => Bystander(g)
  BY <1>1 DEF Bystander
<1> QED
  BY <1>2, <1>3, <1>4 DEF HandledBy

\* A handler that answers, with a group key or without.
LEMMA AnswerHandledBy ==
  ASSUME Known, NEW f \in Fds, NEW r, Received(f, r),
         NEW c \in Conns, c.proc = conn[f].proc, c.user \in {NoUser, Acct[conn[f].proc]},
         NEW ms \in Seq(Messages), NEW as,
         Answer(f, c, ms) \/ OnWriteNewKey(Answered(f, c, ms), as),
         c.mod = conn'[f].mod => KeysBy(f)
  PROVE  HandledBy(f)
<1>1. /\ conn'[f].proc = c.proc /\ conn'[f].user = c.user /\ conn'[f].mod = c.mod
      /\ \A g \in Fds : g # f => Bystander(g)
  BY ReadConn, AnswerMade
<1> QED
  BY <1>1 DEF HandledBy, ConnBy

\* onRead_member_join and onRead_member_leave.
LEMMA GroupHandled ==
  ASSUME Known, NEW f \in Fds, OnReadMemberJoin(f) \/ OnReadMemberLeave(f)
  PROVE  HandledBy(f)
<1> DEFINE c == conn[f]
           as == [armed EXCEPT ![f] = "out"]
           Made(r, d, ms) == Answer(f, d, ms) \/ OnWriteNewKey(Answered(f, d, ms), as)
<1>1. PICK r \in {"mem_join", "mem_leave"} : /\ Received(f, r)
                                             /\ Join(c.mod) \/ Leave(c.mod)
  BY DEF OnReadMemberJoin, OnReadMemberLeave
<1>2. c \in Conns /\ c.user \in {NoUser, Acct[c.proc]}
  BY <1>1, ReadConn
<1>3. \A word \in {"ok", "bad"} : /\ <<Word("mem_join", word)>> \in Seq(Messages)
                                  /\ <<Word("mem_leave", word)>> \in Seq(Messages)
  BY MessageTypes
<1>4. c.mod = conn'[f].mod => KeysBy(f)
  BY <1>1, KeysOfGroup
<1>5. /\ Activated(c) \in Conns /\ Activated(c).proc = c.proc /\ Activated(c).user = c.user
      /\ Activated(c).mod = c.mod
  BY <1>2 DEF Activated, Conns
<1>6. /\ [c EXCEPT !.act = FALSE] \in Conns /\ [c EXCEPT !.act = FALSE].proc = c.proc
      /\ [c EXCEPT !.act = FALSE].user = c.user /\ [c EXCEPT !.act = FALSE].mod = c.mod
  BY <1>2 DEF Conns
<1>7. ASSUME NEW d \in Conns, d.proc = c.proc, d.user = c.user, d.mod = c.mod,
             NEW ms \in Seq(Messages), Made(r, d, ms)
      PROVE  HandledBy(f)
  BY <1>1, <1>2, <1>4, <1>7, AnswerHandledBy
<1>8. CASE OnReadMemberJoin(f)
  <2>1. \/ Made(r, Activated(c), <<Word("mem_join", "ok")>>)
        \/ Made(r, c, <<Word("mem_join", "bad")>>)
    BY <1>8 DEF OnReadMemberJoin
  <2> HIDE DEF Made
  <2> QED
    BY <1>2, <1>3, <1>5, <1>7, <2>1
<1>9. CASE OnReadMemberLeave(f)
  <2> DEFINE left == [c EXCEPT !.act = FALSE]
  <2>1. \/ Made(r, left, <<Word("mem_leave", "ok")>>)
        \/ Made(r, c, <<Word("mem_leave", "bad")>>)
    BY <1>9 DEF OnReadMemberLeave
  <2>2. left \in Conns /\ left.proc = c.proc /\ left.user = c.user /\ left.mod = c.mod
    BY <1>6
  <2> HIDE DEF Made, left
  <2> QED
    BY <1>2, <1>3, <1>7, <2>1, <2>2
<1> QED
  BY <1>8, <1>9

\* dealRead.
LEMMA ReadHandledBy ==
  ASSUME Known, NEW f \in Fds, DealRead(f)
  PROVE  HandledBy(f)
<1> DEFINE c == conn[f]
<1>1. conn \in [Fds -> Conns]
  BY DEF Known, KnownInv, TypeInv, GroupSystemTypeOK, GroupServerTypeOK
<1>2. CASE DealReadError(f)
  <2>1. conn' = [conn EXCEPT ![f] = Closed(c)] /\ UNCHANGED keyVars
    BY <1>2 DEF DealReadError
  <2>2. Closed(c).proc = NoProc /\ Closed(c).mod = c.mod
    BY <1>1 DEF Closed, Conns
  <2> QED
    BY <1>1, <2>1, <2>2, SameHandled
<1>3. CASE DealReadPart(f)
  <2> DEFINE d == [c EXCEPT !.rbuf = <<Part>>]
  <2>1. conn' = [conn EXCEPT ![f] = d] /\ UNCHANGED keyVars /\ <<f, "in">> \in batch
    BY <1>1, <1>3 DEF DealReadPart, Event
  <2>2. d.proc = c.proc /\ d.mod = c.mod /\ d.user = c.user
    BY <1>1 DEF Conns
  <2>3. c.user \in {NoUser, Acct[c.proc]}
    BY <2>1, EventConn DEF Events
  <2> HIDE DEF d
  <2> QED
    BY <1>1, <2>1, <2>2, <2>3, SameHandled
<1>4. CASE \E isLogin \in BOOLEAN : OnReadUserVerify(f, isLogin)
  <2>1. PICK isLogin \in BOOLEAN : OnReadUserVerify(f, isLogin)
    BY <1>4
  <2>2. PICK d \in Conns, word \in {"ok", "bad", "pwd"} : Verified(f, d, word)
    BY <2>1, VerifyForm
  <2>3. UNCHANGED keyVars /\ Received(f, IF isLogin THEN "login" ELSE "register")
    BY <2>1, VerifyForm
  <2>4. <<Word("login", word)>> \in Seq(Messages)
    BY MessageTypes
  <2>5. d.mod = conn'[f].mod => KeysBy(f)
    BY <2>2, <2>3, KeysAlone DEF Verified
  <2> QED
    BY <2>2, <2>3, <2>4, <2>5, AnswerHandledBy DEF Verified
<1>5. CASE OnReadAllocation(f)
  <2>1. PICK d \in Conns : \E ms : Allocated(f, d, ms) /\ KeysBy(f)
    BY <1>5, AllocateForm
  <2>2. PICK ms : Allocated(f, d, ms) /\ KeysBy(f)
    BY <2>1
  <2>3. Received(f, "allocation")
    BY <1>5, AllocateForm
  <2>4. c.user \in {NoUser, Acct[c.proc]}
    BY <2>3, ReadConn
  <2> QED
    BY <2>2, <2>3, <2>4, AnswerHandledBy DEF Allocated
<1>6. CASE OnReadMemberJoin(f) \/ OnReadMemberLeave(f)
  BY <1>6, GroupHandled
<1>7. CASE OnReadError(f)
  <2>1. Received(f, "other") /\ Answer(f, c, <<Word("err", "Unexpected behaviour!")>>) /\ UNCHANGED keyVars
    BY <1>7 DEF OnReadError
  <2>2. <<Word("err", "Unexpected behaviour!")>> \in Seq(Messages)
    BY MessageTypes
  <2>3. c \in Conns /\ c.user \in {NoUser, Acct[c.proc]}
    BY <2>1, ReadConn
  <2>4. c.mod = conn'[f].mod => KeysBy(f)
    BY <2>1, KeysAlone
  <2> QED
    BY <2>1, <2>2, <2>3, <2>4, AnswerHandledBy
<1>8. CASE DealReadDamaged(f)
  <2> DEFINE ms == <<Word("err", "message damaged")>>
             answered == Answered(f, c, ms)
             d == [c EXCEPT !.rbuf = Tail(Whole(f)), !.wbuf = @ \o ms]
             e == [d EXCEPT !.rbuf = Whole(f)]
  <2>1. PICK r \in Damaged : /\ Received(f, r) /\ UNCHANGED keyVars
                             /\ conn' = IF r = "unframed" THEN [answered EXCEPT ![f].rbuf = Whole(f)] ELSE answered
    BY <1>8 DEF DealReadDamaged
  <2>2. c \in Conns /\ c.user \in {NoUser, Acct[c.proc]}
    BY <2>1, ReadConn
  <2>3. /\ d.proc = c.proc /\ d.mod = c.mod /\ d.user = c.user
        /\ e.proc = c.proc /\ e.mod = c.mod /\ e.user = c.user
    BY <2>2 DEF Conns
  <2>4. conn' = [conn EXCEPT ![f] = e] \/ conn' = [conn EXCEPT ![f] = d]
    BY <1>1, <2>1 DEF Answered
  <2> HIDE DEF d, e
  <2> QED
    BY <1>1, <2>1, <2>2, <2>3, <2>4, SameHandled
<1> QED
  BY <1>2, <1>3, <1>4, <1>5, <1>6, <1>7, <1>8 DEF DealRead

\* Every handler.
LEMMA EventHandledBy ==
  ASSUME Known, NEW f \in Fds, DealRead(f) \/ DealWrite(f) \/ DealHup(f)
  PROVE  HandledBy(f)
<1> DEFINE c == conn[f]
<1>1. conn \in [Fds -> Conns]
  BY DEF Known, KnownInv, TypeInv, GroupSystemTypeOK, GroupServerTypeOK
<1>2. CASE DealWrite(f)
  <2>1. <<f, "out">> \in batch /\ UNCHANGED keyVars
    BY <1>2 DEF DealWrite, Event
  <2>2. c.user \in {NoUser, Acct[c.proc]}
    BY <2>1, EventConn DEF Events
  <2>3. \E w : conn' = [conn EXCEPT ![f] = [c EXCEPT !.wbuf = w]]
    <3>1. conn = [conn EXCEPT ![f] = [c EXCEPT !.wbuf = c.wbuf]]
      BY <1>1 DEF Conns
    <3>2. CASE link[c.proc] = "rst"
      BY <1>2, <3>1, <3>2 DEF DealWrite
    <3>3. CASE link[c.proc] = "fin"
      BY <1>1, <1>2, <3>3 DEF DealWrite
    <3>4. CASE link[c.proc] \notin {"rst", "fin"}
      BY <1>1, <1>2, <3>4 DEF DealWrite
    <3> QED
      BY <3>2, <3>3, <3>4
  <2>4. PICK w : conn' = [conn EXCEPT ![f] = [c EXCEPT !.wbuf = w]]
    BY <2>3
  <2> DEFINE d == [c EXCEPT !.wbuf = w]
  <2>5. d.proc = c.proc /\ d.mod = c.mod /\ d.user = c.user
    BY <1>1 DEF Conns
  <2> HIDE DEF d
  <2> QED
    BY <1>1, <2>1, <2>2, <2>4, <2>5, SameHandled DEF d
<1>3. CASE DealHup(f)
  <2> DEFINE a == c.mod \notin active
             left == Closed([c EXCEPT !.act = a])
             cs == [conn EXCEPT ![f] = left]
  <2>1. CASE ~MustLeave(c)
    <3>1. conn' = [conn EXCEPT ![f] = Closed(c)] /\ UNCHANGED keyVars
      BY <1>3, <2>1 DEF DealHup
    <3>2. Closed(c).proc = NoProc /\ Closed(c).mod = c.mod
      BY <1>1 DEF Closed, Conns
    <3> QED
      BY <1>1, <3>1, <3>2, SameHandled
  <2>2. CASE MustLeave(c)
    <3>1. Drop(c.mod) /\ OnWriteNewKey(cs, [armed EXCEPT ![f] = "none"])
      BY <1>3, <2>2 DEF DealHup
    <3>2. left.proc = NoProc /\ left.mod = c.mod
      BY <1>1 DEF Closed, Conns
    <3>3. cs[f] = left /\ \A g \in Fds : g # f => cs[g] = conn[g]
      BY <1>1
    <3>4. \A g \in Fds : conn'[g] = IF IsMember(cs[g]) THEN TheKey(cs[g]) ELSE cs[g]
      BY <3>1, BroadcastConns
    <3> HIDE DEF cs, left
    <3>5. conn'[f] = left /\ \A g \in Fds : g # f => Bystander(g)
      BY <3>2, <3>3, <3>4 DEF IsMember, Bystander
    <3>6. KeysBy(f)
      BY <3>1, <3>2, <3>5, KeysOfGroup
    <3> QED
      BY <3>2, <3>5, <3>6 DEF HandledBy, ConnBy
  <2> QED
    BY <2>1, <2>2
<1> QED
  BY <1>2, <1>3, ReadHandledBy

-----------------------------------------------------------------------------
(* What that means for the moduli of the others.                           *)

\* A connection that gets a group key or nothing.
LEMMA BystanderFields ==
  ASSUME NEW g \in Fds, conn[g] \in Conns, Bystander(g)
  PROVE  /\ conn'[g].proc = conn[g].proc /\ conn'[g].user = conn[g].user /\ conn'[g].mod = conn[g].mod
         /\ conn'[g].act = conn[g].act /\ conn'[g].rbuf = conn[g].rbuf
         /\ \/ conn'[g].wbuf = conn[g].wbuf
            \/ conn[g].act /\ conn'[g].wbuf = conn[g].wbuf \o <<Rekeying(gen', rekey'), RandomNum(gen')>>
<1>1. conn'[g] = conn[g] \/ (conn[g].act /\ conn'[g] = TheKey(conn[g]))
  BY DEF Bystander, IsMember
<1> QED
  BY <1>1 DEF TheKey, Conns

\* The process of a connection has started.
LEMMA ServedHasStarted ==
  ASSUME Known, NEW f \in Fds, Open(f)
  PROVE  phase[conn[f].proc] # "off" /\ conn[f].proc \in Procs /\ Started(Acct[conn[f].proc])
<1>1. conn[f].proc \in Procs /\ Connected(conn[f].proc)
  BY OutTypes DEF Known, KnownInv, TypeInv, GroupSystemTypeOK, ConnsDiffer
<1>2. phase[conn[f].proc] # "off"
  BY <1>1 DEF Known, KnownInv, ConnsDiffer, Connected
<1> QED
  BY <1>1, <1>2 DEF Started

\* The invariants that are not about one process.
LEMMA HandledKeeps ==
  ASSUME Known, NEW f \in Fds, Open(f), HandledBy(f), phase' = phase
  PROVE  UsersAgree' /\ ModsHeld' /\ OwnersStarted'
<1> DEFINE q == conn[f].proc
           k == conn'[f].mod
           u == Acct[q]
<1>1. /\ conn \in [Fds -> Conns] /\ userKey \in [Users -> Keys \cup {NoKey}]
  BY DEF Known, KnownInv, TypeInv, GroupSystemTypeOK, GroupServerTypeOK, KeyStoreTypeOK
<1>2. q \in Procs /\ u \in Users /\ Started(u)
  BY ServedHasStarted, GroupServerAssumption
<1>3. /\ \A v \in Users : userKey[v] \in Held \cup {NoKey}
      /\ NoKey \notin members
  BY RecordsHeld DEF Known
<1>4. \A g \in Fds : g # f => /\ conn'[g].proc = conn[g].proc /\ conn'[g].user = conn[g].user
                              /\ conn'[g].mod = conn[g].mod
  BY <1>1, BystanderFields DEF HandledBy
<1>5. KeysBy(f) /\ ConnBy(f)
  BY DEF HandledBy
<1>6. /\ \A g \in Fds : Open(g) => conn[g].user \in {NoUser, Acct[conn[g].proc]}
      /\ \A g \in Fds : conn[g].mod \in Held \cup {NoKey}
      /\ active \subseteq Held
      /\ \A v \in Users : userKey[v] # NoKey /\ InUse(userKey[v]) => Started(v)
  BY DEF Known, AloneInv, UsersAgree, ModsHeld, OwnersStarted
<1>7. UsersAgree'
  <2> SUFFICES ASSUME NEW g \in Fds, Open(g)'
               PROVE  conn'[g].user \in {NoUser, Acct[conn'[g].proc]}
    BY DEF UsersAgree
  <2>1. CASE g = f
    BY <1>5, <2>1 DEF ConnBy, Open
  <2>2. CASE g # f
    BY <1>4, <1>6, <2>2 DEF Open
  <2> QED
    BY <2>1, <2>2
<1>8. /\ Held \subseteq Held'
      /\ \A j \in active' : j \in active \/ (j = conn[f].mod /\ j \in members)
      /\ \A v \in Users : v # u => userKey'[v] = userKey[v]
      /\ \/ k = conn[f].mod
         \/ k \in Held' /\ k \notin Held
         \/ k = userKey[u] /\ k # NoKey
  BY <1>5 DEF KeysBy
<1>9. ModsHeld'
  <2>1. \A g \in Fds : conn'[g].mod \in Held' \cup {NoKey}
    <3> SUFFICES ASSUME NEW g \in Fds PROVE conn'[g].mod \in Held' \cup {NoKey}
      OBVIOUS
    <3>1. CASE g = f
      BY <1>2, <1>3, <1>6, <1>8, <3>1
    <3>2. CASE g # f
      BY <1>4, <1>6, <1>8, <3>2
    <3> QED
      BY <3>1, <3>2
  <2>2. active' \subseteq Held'
    <3> SUFFICES ASSUME NEW j \in active' PROVE j \in Held'
      OBVIOUS
    <3>1. j \in active \/ (j \in Held \cup {NoKey} /\ j \in members)
      BY <1>6, <1>8
    <3> QED
      BY <1>3, <1>6, <1>8, <3>1
  <2> QED
    BY <2>1, <2>2 DEF ModsHeld
<1>10. OwnersStarted'
  <2> SUFFICES ASSUME NEW v \in Users, userKey'[v] # NoKey, InUse(userKey[v])'
               PROVE  Started(v)
    BY DEF OwnersStarted, Started
  <2>1. CASE v = u
    BY <1>2, <2>1
  <2>2. CASE v # u
    <3> DEFINE key == userKey[v]
    <3>1. userKey'[v] = key /\ key # NoKey /\ key \in Held
      BY <1>3, <1>8, <2>2
    <3>2. key # userKey[u]
      BY <1>2, <2>2, <3>1 DEF Known, KnownInv, KeyInv, Ownership, KeysUnique
    <3>3. key \in active' \/ \E g \in Fds : conn'[g].mod = key
      BY <3>1 DEF InUse
    <3>4. CASE key \in active'
      <4>1. key \in active \/ conn[f].mod = key
        BY <1>8, <3>4
      <4>2. InUse(key)
        BY <4>1 DEF InUse
      <4> QED
        BY <1>6, <3>1, <4>2
    <3>5. CASE \E g \in Fds : conn'[g].mod = key
      <4>1. PICK g \in Fds : conn'[g].mod = key
        BY <3>5
      <4>2. conn[g].mod = key
        <5>1. CASE g = f
          BY <1>8, <3>1, <3>2, <4>1, <5>1
        <5>2. CASE g # f
          BY <1>4, <4>1, <5>2
        <5> QED
          BY <5>1, <5>2
      <4>3. InUse(key)
        BY <4>2 DEF InUse
      <4> QED
        BY <1>6, <3>1, <4>3
    <3> QED
      BY <3>3, <3>4, <3>5
  <2> QED
    BY <2>1, <2>2
<1> QED
  BY <1>7, <1>9, <1>10

\* The modulus of p stays its own when another connection is handled, and
\* whether it is in the group stays the same.
LEMMA KeyStaysMine ==
  ASSUME Known, NEW f \in Fds, Open(f), HandledBy(f), phase' = phase,
         NEW p \in Procs, Acct[p] # Acct[conn[f].proc], KeyIsMine(p)
  PROVE  /\ KeyIsMine(p)' /\ userKey'[Acct[p]] = userKey[Acct[p]]
         /\ userKey[Acct[p]] # NoKey => (userKey[Acct[p]] \in active' <=> userKey[Acct[p]] \in active)
<1> DEFINE q == conn[f].proc
           k == conn'[f].mod
           u == Acct[q]
           v == Acct[p]
           key == userKey[v]
<1>1. /\ conn \in [Fds -> Conns] /\ u \in Users /\ v \in Users /\ u # v /\ p # q
  BY ServedHasStarted, GroupServerAssumption DEF Known, KnownInv, TypeInv, GroupSystemTypeOK, GroupServerTypeOK
<1>2. /\ \A g \in Fds : g # f => conn'[g].proc = conn[g].proc /\ conn'[g].mod = conn[g].mod
  BY <1>1, BystanderFields DEF HandledBy
<1>3. /\ \A j \in active' : j \in active \/ j = conn[f].mod
      /\ \A j \in active : j \in active' \/ j = conn[f].mod
      /\ userKey'[v] = key
      /\ \/ k = conn[f].mod
         \/ k \notin Held
         \/ k = userKey[u] /\ k # NoKey
  BY <1>1 DEF HandledBy, KeysBy
<1>4. ASSUME key # NoKey
      PROVE  /\ \A g \in Fds : conn[g].mod = key => conn[g].proc = p
             /\ phase[p] \in Early => key \notin active
  BY <1>4 DEF KeyIsMine
<1>5. ASSUME key # NoKey
      PROVE  conn[f].mod # key /\ k # key
  <2>1. conn[f].mod # key
    BY <1>1, <1>4, <1>5
  <2>2. key \in Held
    BY <1>1, <1>5, RecordsHeld DEF Known
  <2>3. key # userKey[u]
    BY <1>1, <1>5 DEF Known, KnownInv, KeyInv, Ownership, KeysUnique
  <2> QED
    BY <1>3, <2>1, <2>2, <2>3
<1>6. ASSUME key # NoKey PROVE key \in active' <=> key \in active
  BY <1>3, <1>5, <1>6
<1>7. ASSUME key # NoKey, NEW g \in Fds, conn'[g].mod = key
      PROVE  conn'[g].proc = p
  <2>1. g # f
    BY <1>5, <1>7
  <2> QED
    BY <1>2, <1>4, <1>7, <2>1
<1>8. KeyIsMine(p)'
  BY <1>3, <1>4, <1>6, <1>7 DEF KeyIsMine
<1> QED
  BY <1>3, <1>6, <1>8

\* The same when the handled connection is that of p.
LEMMA KeyStaysWith ==
  ASSUME Known, NEW f \in Fds, Open(f), HandledBy(f), phase' = phase,
         NEW p \in Procs, p = conn[f].proc, KeyIsMine(p), conn'[f].proc = p,
         phase[p] \in Early => active' = active
  PROVE  KeyIsMine(p)'
<1> DEFINE k == conn'[f].mod
           v == Acct[p]
           key == userKey'[v]
<1>1. conn \in [Fds -> Conns] /\ v \in Users
  BY GroupServerAssumption DEF Known, KnownInv, TypeInv, GroupSystemTypeOK, GroupServerTypeOK
<1>2. /\ \A g \in Fds : g # f => conn'[g].proc = conn[g].proc /\ conn'[g].mod = conn[g].mod
  BY <1>1, BystanderFields DEF HandledBy
<1>3. \/ key = userKey[v]
      \/ k \notin Held /\ key = k
  BY DEF HandledBy, KeysBy
<1>4. active \subseteq Held /\ \A g \in Fds : conn[g].mod \in Held \cup {NoKey}
  BY DEF Known, AloneInv, ModsHeld
<1>5. CASE key = userKey[v]
  BY <1>2, <1>5 DEF KeyIsMine
<1>6. CASE k \notin Held /\ key = k
  <2>1. key # NoKey => \A g \in Fds : conn'[g].mod = key => g = f
    BY <1>2, <1>4, <1>6
  <2>2. phase[p] \in Early => key \notin active'
    BY <1>4, <1>6
  <2> QED
    BY <2>1, <2>2 DEF KeyIsMine
<1> QED
  BY <1>3, <1>5, <1>6

\* Of the group a conversation shows whether the modulus is in it.
LEMMA TalkInGroup ==
  ASSUME NEW ph, NEW req, NEW own, NEW k, NEW act, NEW key, NEW group, NEW out, NEW next,
         Talk(ph, req, own, k, act, key, group, out), key # NoKey => (key \in next <=> key \in group)
  PROVE  Talk(ph, req, own, k, act, key, next, out)
BY DEF Talk, OnCourse, BelongsTo, Allotted

\* A connection that is not handled.
LEMMA OthersTalk ==
  ASSUME Known, gen' \in Nat, rekey' \in SUBSET Keys, NEW g \in Fds, NEW p \in Procs, Open(g), conn[g].proc = p,
         Talks(p, g), Bystander(g),
         s2c'[p] = s2c[p], c2s'[p] = c2s[p], phase'[p] = phase[p], mod'[p] = mod[p],
         userKey'[Acct[p]] = userKey[Acct[p]],
         userKey[Acct[p]] # NoKey => (userKey[Acct[p]] \in active' <=> userKey[Acct[p]] \in active)
  PROVE  Talks(p, g)'
<1> DEFINE pair == <<Rekeying(gen', rekey'), RandomNum(gen')>>
<1>1. /\ GroupServerTypeOK /\ conn[g] \in Conns /\ conn[g].wbuf \in Seq(Messages) /\ s2c[p] \in Seq(Messages)
      /\ Out(g) \in Seq(Messages)
  BY OutTypes, ConnTypes DEF Known, KnownInv, TypeInv, GroupSystemTypeOK
<1>2. /\ conn'[g].proc = p /\ conn'[g].mod = conn[g].mod /\ conn'[g].act = conn[g].act
      /\ conn'[g].rbuf = conn[g].rbuf
      /\ conn'[g].wbuf = conn[g].wbuf \/ (conn[g].act /\ conn'[g].wbuf = conn[g].wbuf \o pair)
  BY <1>1, BystanderFields
<1>3. Whole(g)' = Whole(g)
  BY <1>2 DEF Whole
<1>4. pair \in Seq(Messages) /\ pair # <<>> /\ Broadcasts(pair)
  BY KeyIsBroadcast
<1> HIDE DEF pair
<1>5. \/ Out(g)' = Out(g)
      \/ conn[g].act /\ Out(g)' = Out(g) \o pair
  <2>1. CASE conn'[g].wbuf = conn[g].wbuf
    BY <1>2, <2>1 DEF Out
  <2>2. CASE conn[g].act /\ conn'[g].wbuf = conn[g].wbuf \o pair
    <3>1. Out(g)' = s2c[p] \o (conn[g].wbuf \o pair)
      BY <1>2, <2>2 DEF Out
    <3>2. s2c[p] \o (conn[g].wbuf \o pair) = (s2c[p] \o conn[g].wbuf) \o pair
      <4>1. \A a, b, c \in Seq(Messages) : a \o (b \o c) = (a \o b) \o c
        BY MessagesConcat
      <4> QED
        BY <1>1, <1>4, <4>1, Zenon
    <3> QED
      BY <2>2, <3>1, <3>2 DEF Out
  <2> QED
    BY <1>2, <2>1, <2>2
<1>6. Talk(phase[p], Whole(g), mod[p], conn[g].mod, conn[g].act, userKey[Acct[p]], active', Out(g))
  BY TalkInGroup DEF Talks
<1>7. Talk(phase[p], Whole(g), mod[p], conn[g].mod, conn[g].act, userKey[Acct[p]], active', Out(g)')
  <2>1. CASE Out(g)' = Out(g)
    BY <1>6, <2>1
  <2>2. CASE conn[g].act /\ Out(g)' = Out(g) \o pair
    <3>1. PICK new : new = Out(g)'
      OBVIOUS
    <3>2. new = Out(g) \o pair /\ conn[g].act
      BY <2>2, <3>1
    <3>3. Talk(phase[p], Whole(g), mod[p], conn[g].mod, conn[g].act, userKey[Acct[p]], active', new)
      BY <1>1, <1>4, <1>6, <3>2, TalkGoesOn
    <3> QED
      BY <3>1, <3>3
  <2> QED
    BY <1>5, <2>1, <2>2
<1> QED
  BY <1>2, <1>3, <1>7 DEF Talks

-----------------------------------------------------------------------------
(* The handler of the connection of a client that has its account alone.   *)

\* The first segment is not a request.
LEMMA PartIsNone ==
  ASSUME NEW s \in Seq(Requests)
  PROVE  (IF s = <<Part>> THEN <<>> ELSE s) \o <<>> = s
<1>1. s # <<Part>>
  <2>1. ASSUME s = <<Part>> PROVE FALSE
    <3>1. Len(s) = 1 /\ s[1] = Part
      BY <2>1
    <3>2. s[1] \in Requests
      BY <3>1, ElementOfSeq
    <3> QED
      BY <3>1, <3>2 DEF Part, Requests, Damaged
  <2> QED
    BY <2>1
<1> QED
  BY <1>1, ConcatEmptySeq

\* What is left of the requests when one was answered.
LEMMA RestOfRequests ==
  ASSUME GroupServerTypeOK, NEW f \in Fds, Open(f), NEW r, Received(f, r),
         conn'[f].proc = conn[f].proc, conn'[f].rbuf = Tail(Whole(f))
  PROVE  /\ Whole(f)' = Tail(Whole(f)) /\ s2c'[conn[f].proc] = s2c[conn[f].proc]
         /\ link' = link
<1> DEFINE p == conn[f].proc
<1>1. Tail(Whole(f)) \in Seq(Requests)
  BY WholeTypes DEF Received
<1>2. c2s'[p] = <<>> /\ s2c'[p] = s2c[p] /\ link' = link
  <2>1. p \in Procs /\ c2s \in [Procs -> Seq(Requests)]
    BY ConnTypes DEF GroupServerTypeOK
  <2> QED
    BY <2>1 DEF Received, socketVars
<1>3. Whole(f)' = (IF conn'[f].rbuf = <<Part>> THEN <<>> ELSE conn'[f].rbuf) \o c2s'[conn'[f].proc]
  BY DEF Whole
<1>4. PICK s \in Seq(Requests) : s = Tail(Whole(f))
  BY <1>1
<1>5. Whole(f)' = (IF s = <<Part>> THEN <<>> ELSE s) \o <<>>
  BY <1>2, <1>3, <1>4
<1> QED
  BY <1>2, <1>4, <1>5, PartIsNone

\* The messages after an answer.
LEMMA OutAnswered ==
  ASSUME GroupServerTypeOK, NEW f \in Fds, Open(f), NEW r, Received(f, r),
         NEW c \in Conns, c.proc = conn[f].proc, c.wbuf = conn[f].wbuf, NEW ms \in Seq(Messages), Answer(f, c, ms)
  PROVE  Out(f)' = Out(f) \o ms
<1> DEFINE p == conn[f].proc
<1>1. /\ conn \in [Fds -> Conns] /\ conn[f].wbuf \in Seq(Messages) /\ s2c[p] \in Seq(Messages)
  BY OutTypes DEF GroupServerTypeOK
<1>2. conn'[f].proc = p /\ conn'[f].wbuf = conn[f].wbuf \o ms
  BY <1>1 DEF Answer, Answered, Conns
<1>3. s2c'[p] = s2c[p]
  BY DEF Received, socketVars
<1>4. Out(f)' = s2c[p] \o (conn[f].wbuf \o ms)
  BY <1>2, <1>3 DEF Out
<1>5. \A a, b, d \in Seq(Messages) : a \o (b \o d) = (a \o b) \o d
  BY MessagesConcat
<1>6. s2c[p] \o (conn[f].wbuf \o ms) = (s2c[p] \o conn[f].wbuf) \o ms
  BY <1>1, <1>5, Zenon
<1> QED
  BY <1>4, <1>6 DEF Out

\* A client that is on course or lost sends these requests only.
LEMMA OwnRequest ==
  ASSUME NEW ph, NEW req, NEW own, NEW k, NEW act, NEW key, NEW group, NEW out,
         Talk(ph, req, own, k, act, key, group, out), req # <<>>, NEW r, Head(req) = r
  PROVE  \/ Lost(ph, out) /\ r \in Openers /\ Tail(req) \in Seq(Openers)
         \/ ph = r /\ r \in Openers /\ Tail(req) = <<>> /\ out = <<>>
         \/ /\ ph = r /\ r = "mem_join" /\ Tail(req) = <<>>
            /\ Allotted(k, act, key) /\ own = key /\ key \notin group
<1>1. CASE Lost(ph, out) /\ req \in Seq(Openers)
  BY <1>1, HeadTailProperties
<1>2. CASE req = <<ph>> /\ ph \in Openers /\ out = <<>>
  BY <1>2
<1>3. CASE /\ req = <<ph>> /\ ph = "mem_join"
           /\ Allotted(k, act, key) /\ own = key /\ key \notin group
  BY <1>3
<1> QED
  BY <1>1, <1>2, <1>3 DEF Talk, OnCourse

\* The answer to an opener.
LEMMA TalkAnswered ==
  ASSUME NEW ph, NEW req, NEW own, NEW k, NEW act, NEW key, NEW group, NEW out \in Seq(Messages),
         NEW r \in Openers,
         \/ Lost(ph, out) /\ Tail(req) \in Seq(Openers)
         \/ ph = r /\ Tail(req) = <<>> /\ out = <<>>,
         NEW ms \in Seq(Messages), NEW new, new = out \o ms,
         \/ r \in {"login", "register"} /\ \E word \in {"ok", "bad", "pwd"} : ms = <<Word("login", word)>>
         \/ r = "allocation" /\ ms = <<Word("allocation", "bad")>>
         \/ r = "allocation" /\ ms = <<Word("allocation", "ok"), Mod(k)>> /\ Allotted(k, act, key)
  PROVE  Talk(ph, Tail(req), own, k, act, key, group, new)
<1>1. CASE Lost(ph, out) /\ Tail(req) \in Seq(Openers)
  BY <1>1, StaysLost DEF Talk
<1>2. CASE ph = r /\ Tail(req) = <<>> /\ out = <<>>
  <2>1. new = ms
    BY <1>2, ConcatEmptySeq
  <2>2. ASSUME NEW word \in {"ok", "bad", "pwd"}, ms = <<Word("login", word)>>
        PROVE  ms # <<>> /\ ~IsNumber(ms[1]) /\ Broadcasts(Tail(ms))
    <3>1. ms # <<>> /\ ms[1] = Word("login", word) /\ Tail(ms) = <<>>
      BY <2>2
    <3> QED
      BY <3>1 DEF IsNumber, Word, Broadcasts
  <2>3. ms = <<Word("allocation", "bad")>> => ms # <<>> /\ ms[1].second = "bad"
    BY DEF Word
  <2>4. CASE r \in {"login", "register"} /\ \E word \in {"ok", "bad", "pwd"} : ms = <<Word("login", word)>>
    BY <1>2, <2>1, <2>2, <2>4 DEF Talk, OnCourse
  <2>5. CASE r = "allocation" /\ ms = <<Word("allocation", "bad")>>
    BY <1>2, <2>1, <2>3, <2>5 DEF Talk, OnCourse
  <2>6. CASE r = "allocation" /\ ms = <<Word("allocation", "ok"), Mod(k)>> /\ Allotted(k, act, key)
    <3>1. new = <<Word("allocation", "ok"), Mod(key)>>
      BY <2>1, <2>6 DEF Allotted
    <3> QED
      BY <1>2, <2>6, <3>1 DEF Talk, OnCourse
  <2> QED
    BY <2>4, <2>5, <2>6
<1> QED
  BY <1>1, <1>2

\* The connection f of p, and how a handler leaves it.
OwnConn(p, f) ==
  /\ Known /\ p \in Procs \ Peers /\ f \in Fds /\ Open(f) /\ conn[f].proc = p
  /\ link[p] = "open" /\ KeyIsMine(p) /\ Talks(p, f) /\ UNCHANGED clientVars

LeftTalking(p, f) ==
  /\ conn'[f].proc = p /\ Talks(p, f)'
  /\ phase[p] \in Early => active' = active

\* What is known then.
LEMMA OwnFacts ==
  ASSUME NEW p, NEW f, OwnConn(p, f)
  PROVE  /\ Known /\ GroupServerTypeOK /\ f \in Fds /\ Open(f) /\ conn \in [Fds -> Conns] /\ conn[f].proc = p /\ p \in Procs
         /\ Acct[p] \in Users /\ conn[f].wbuf \in Seq(Messages) /\ s2c[p] \in Seq(Messages) /\ Out(f) \in Seq(Messages)
         /\ phase' = phase /\ mod' = mod /\ link[p] = "open"
         /\ Talk(phase[p], Whole(f), mod[p], conn[f].mod, conn[f].act, userKey[Acct[p]], active, Out(f))
<1>1. GroupServerTypeOK /\ f \in Fds /\ Open(f) /\ conn[f].proc = p /\ conn \in [Fds -> Conns]
  BY DEF OwnConn, Known, KnownInv, TypeInv, GroupSystemTypeOK, GroupServerTypeOK
<1> QED
  BY <1>1, OutTypes DEF OwnConn, Talks, clientVars

\* Nothing of the conversation changes.
LEMMA SameTalk ==
  ASSUME NEW p, NEW f, OwnConn(p, f), UNCHANGED keyVars, Whole(f)' = Whole(f), Out(f)' = Out(f),
         conn'[f].proc = p, conn'[f].mod = conn[f].mod, conn'[f].act = conn[f].act
  PROVE  LeftTalking(p, f)
BY OwnFacts DEF LeftTalking, Talks, keyVars, groupVars, dbVars

\* Only the first segment is there.
LEMMA OwnPart ==
  ASSUME NEW p, NEW f, OwnConn(p, f), DealReadPart(f)
  PROVE  LeftTalking(p, f)
<1>1. conn \in [Fds -> Conns] /\ f \in Fds /\ conn[f].proc = p /\ p \in Procs /\ c2s \in [Procs -> Seq(Requests)]
  BY OwnFacts DEF GroupServerTypeOK
<1>2. /\ conn' = [conn EXCEPT ![f].rbuf = <<Part>>] /\ conn[f].rbuf = <<>>
      /\ UNCHANGED <<keyVars, s2c, c2s>>
  BY DEF DealReadPart, socketVars
<1>3. /\ conn'[f].proc = p /\ conn'[f].mod = conn[f].mod /\ conn'[f].act = conn[f].act
      /\ conn'[f].rbuf = <<Part>> /\ conn'[f].wbuf = conn[f].wbuf
  BY <1>1, <1>2 DEF Conns
<1>4. Out(f)' = Out(f)
  BY <1>1, <1>2, <1>3 DEF Out
<1>5. Whole(f)' = Whole(f)
  <2>1. Whole(f) = <<>> \o c2s[p]
    BY <1>1, <1>2 DEF Whole
  <2>2. Whole(f)' = <<>> \o c2s[p]
    BY <1>2, <1>3 DEF Whole
  <2> QED
    BY <2>1, <2>2
<1> QED
  BY <1>2, <1>3, <1>4, <1>5, SameTalk

\* dealWrite.
LEMMA OwnWrite ==
  ASSUME NEW p, NEW f, OwnConn(p, f), DealWrite(f)
  PROVE  LeftTalking(p, f)
<1> DEFINE w == conn[f].wbuf
<1>1. /\ conn \in [Fds -> Conns] /\ f \in Fds /\ conn[f].proc = p /\ p \in Procs /\ s2c \in [Procs -> Seq(Messages)]
      /\ w \in Seq(Messages) /\ link[p] = "open" /\ Taken(f) \in 0..Len(w) /\ s2c[p] \in Seq(Messages)
  BY OwnFacts, TakenTypes DEF GroupServerTypeOK
<1>2. /\ conn' = [conn EXCEPT ![f].wbuf = SubSeq(@, Taken(f) + 1, Len(@))]
      /\ s2c' = [s2c EXCEPT ![p] = @ \o SubSeq(w, 1, Taken(f))]
      /\ UNCHANGED <<keyVars, c2s>>
  BY <1>1 DEF DealWrite
<1>3. /\ conn'[f].proc = p /\ conn'[f].mod = conn[f].mod /\ conn'[f].act = conn[f].act
      /\ conn'[f].rbuf = conn[f].rbuf /\ conn'[f].wbuf = SubSeq(w, Taken(f) + 1, Len(w))
      /\ s2c'[p] = s2c[p] \o SubSeq(w, 1, Taken(f))
  BY <1>1, <1>2 DEF Conns
<1>4. Out(f)' = Out(f)
  <2>1. Out(f)' = (s2c[p] \o SubSeq(w, 1, Taken(f))) \o SubSeq(w, Taken(f) + 1, Len(w))
    BY <1>3 DEF Out
  <2>2. (s2c[p] \o SubSeq(w, 1, Taken(f))) \o SubSeq(w, Taken(f) + 1, Len(w)) = s2c[p] \o w
    BY <1>1, TakenOut
  <2> QED
    BY <1>1, <2>1, <2>2 DEF Out
<1>5. Whole(f)' = Whole(f)
  BY <1>1, <1>2, <1>3 DEF Whole
<1> QED
  BY <1>2, <1>3, <1>4, <1>5, SameTalk

\* An answer to an opener.
LEMMA OwnAnswer ==
  ASSUME NEW p, NEW f, OwnConn(p, f), NEW r, Received(f, r), r # "mem_join",
         NEW c \in Conns, c.proc = p, c.wbuf = conn[f].wbuf, NEW ms \in Seq(Messages), Answer(f, c, ms),
         active' = active,
         \/ /\ r \in {"login", "register"} /\ \E word \in {"ok", "bad", "pwd"} : ms = <<Word("login", word)>>
            /\ c.mod = conn[f].mod /\ c.act = conn[f].act /\ userKey' = userKey
         \/ r = "allocation" /\ ms = <<Word("allocation", "bad")>>
         \/ r = "allocation" /\ ms = <<Word("allocation", "ok"), Mod(c.mod)>> /\ Allotted(c.mod, c.act, userKey'[Acct[p]])
  PROVE  LeftTalking(p, f)
<1>1. /\ GroupServerTypeOK /\ f \in Fds /\ Open(f) /\ conn[f].proc = p /\ phase' = phase /\ mod' = mod
      /\ Out(f) \in Seq(Messages)
      /\ Talk(phase[p], Whole(f), mod[p], conn[f].mod, conn[f].act, userKey[Acct[p]], active, Out(f))
  BY OwnFacts
<1>2. conn'[f].proc = p /\ conn'[f].mod = c.mod /\ conn'[f].act = c.act /\ conn'[f].rbuf = Tail(Whole(f))
  BY <1>1, AnswerMade
<1>3. Whole(f)' = Tail(Whole(f)) /\ Out(f)' = Out(f) \o ms
  BY <1>1, <1>2, RestOfRequests, OutAnswered
<1>4. PICK new : new = Out(f)'
  OBVIOUS
<1>5. /\ r \in Openers
      /\ \/ Lost(phase[p], Out(f)) /\ Tail(Whole(f)) \in Seq(Openers)
         \/ phase[p] = r /\ Tail(Whole(f)) = <<>> /\ Out(f) = <<>>
  BY <1>1, OwnRequest DEF Received
<1>6. Talk(phase[p], Tail(Whole(f)), mod[p], c.mod, c.act, userKey'[Acct[p]], active, new)
  <2>1. PICK out \in Seq(Messages) : out = Out(f)
    BY <1>1
  <2>2. new = out \o ms
    BY <1>3, <1>4, <2>1
  <2>3. \/ Lost(phase[p], out) /\ Tail(Whole(f)) \in Seq(Openers)
        \/ phase[p] = r /\ Tail(Whole(f)) = <<>> /\ out = <<>>
    BY <1>5, <2>1
  <2> QED
    BY <1>5, <2>2, <2>3, TalkAnswered
<1>7. Talks(p, f)'
  BY <1>1, <1>2, <1>3, <1>4, <1>6 DEF Talks
<1> QED
  BY <1>2, <1>7 DEF LeftTalking

\* onRead_member_join.
LEMMA OwnJoin ==
  ASSUME NEW p, NEW f, OwnConn(p, f), OnReadMemberJoin(f)
  PROVE  LeftTalking(p, f)
<1> DEFINE c == conn[f]
           key == userKey[Acct[p]]
<1>1. /\ GroupServerTypeOK /\ f \in Fds /\ Open(f) /\ c.proc = p /\ phase' = phase /\ mod' = mod /\ Acct[p] \in Users
      /\ conn \in [Fds -> Conns] /\ Known
      /\ Talk(phase[p], Whole(f), mod[p], c.mod, c.act, key, active, Out(f))
  BY OwnFacts
<1>2. Received(f, "mem_join") /\ Join(c.mod)
  BY DEF OnReadMemberJoin
<1>3. /\ phase[p] = "mem_join" /\ Tail(Whole(f)) = <<>>
      /\ Allotted(c.mod, c.act, key) /\ mod[p] = key /\ key \notin active
  BY <1>1, <1>2, OwnRequest DEF Received, Openers
<1>4. c.mod = key /\ key # NoKey /\ key \in members
  <2>1. key \in Held
    BY <1>1, <1>3, RecordsHeld DEF Known, Allotted
  <2> QED
    BY <1>3, <2>1 DEF Allotted, Held
<1>5. userKey' = userKey /\ active' = active \cup {key}
  BY <1>2, <1>3, <1>4 DEF Join, MemberJoin, dbVars
<1>6. OnWriteNewKey(Answered(f, Activated(c), <<Word("mem_join", "ok")>>), [armed EXCEPT ![f] = "out"])
  BY <1>4 DEF OnReadMemberJoin, JoinReturnsOk
<1>7. Activated(c) \in Conns /\ Activated(c).proc = p /\ Activated(c).mod = key /\ Activated(c).act
  BY <1>1, <1>3, <1>4 DEF Activated, Conns
<1>8. <<Word("mem_join", "ok")>> \in Seq(Messages)
  BY MessageTypes
<1>9. conn'[f].proc = p /\ conn'[f].mod = key /\ conn'[f].act /\ conn'[f].rbuf = Tail(Whole(f))
  BY <1>1, <1>2, <1>6, <1>7, <1>8, AnswerMade
<1>10. Whole(f)' = <<>>
  BY <1>1, <1>2, <1>3, <1>9, RestOfRequests
<1>11. BelongsTo(mod[p], conn'[f].mod, conn'[f].act, key, active')
  BY <1>3, <1>4, <1>5, <1>9 DEF BelongsTo
<1>12. Talks(p, f)'
  BY <1>1, <1>3, <1>5, <1>9, <1>10, <1>11 DEF Talks, Talk, OnCourse, Joins
<1> QED
  BY <1>3, <1>9, <1>12 DEF LeftTalking, Early

\* Every handler.
LEMMA OwnHandled ==
  ASSUME NEW p, NEW f, OwnConn(p, f), DealRead(f) \/ DealWrite(f) \/ DealHup(f)
  PROVE  LeftTalking(p, f)
<1>1. /\ Known /\ GroupServerTypeOK /\ f \in Fds /\ Open(f) /\ conn[f].proc = p /\ link[p] = "open" /\ Acct[p] \in Users
      /\ Talk(phase[p], Whole(f), mod[p], conn[f].mod, conn[f].act, userKey[Acct[p]], active, Out(f))
  BY OwnFacts
<1>2. \A r : Received(f, r) => r \in Openers \cup {"mem_join"}
  BY <1>1, OwnRequest DEF Received
<1>3. CASE DealReadError(f)
  BY <1>1, <1>3 DEF DealReadError
<1>4. CASE DealHup(f)
  BY <1>1, <1>4 DEF DealHup, Event, Known, KnownInv, LinksAgree, Gone
<1>5. CASE \E isLogin \in BOOLEAN : OnReadUserVerify(f, isLogin)
  <2>1. PICK isLogin \in BOOLEAN : OnReadUserVerify(f, isLogin)
    BY <1>5
  <2>2. PICK c \in Conns, word \in {"ok", "bad", "pwd"} : Verified(f, c, word)
    BY <1>1, <2>1, VerifyForm
  <2>3. PICK r \in {"login", "register"} : Received(f, r)
    BY <1>1, <2>1, VerifyForm
  <2>4. UNCHANGED keyVars
    BY <1>1, <2>1, VerifyForm
  <2>5. <<Word("login", word)>> \in Seq(Messages)
    BY MessageTypes
  <2>6. active' = active /\ userKey' = userKey
    BY <2>4 DEF keyVars, groupVars, dbVars
  <2>7. PICK ms \in Seq(Messages) : ms = <<Word("login", word)>>
    BY <2>5
  <2> QED
    BY <1>1, <2>2, <2>3, <2>6, <2>7, OwnAnswer DEF Verified
<1>6. CASE OnReadAllocation(f)
  <2>1. PICK c \in Conns : \E ms : Allocated(f, c, ms) /\ KeysBy(f)
    BY <1>1, <1>6, AllocateForm
  <2>2. PICK ms : Allocated(f, c, ms) /\ KeysBy(f)
    BY <2>1
  <2>3. Received(f, "allocation")
    BY <1>1, <1>6, AllocateForm
  <2>4. active' = active
    BY <1>6 DEF OnReadAllocation, AllocateNew, AllocateNoKey, AllocateAgain, groupVars, keyVars
  <2> QED
    BY <1>1, <2>2, <2>3, <2>4, OwnAnswer DEF Allocated
<1>7. CASE OnReadMemberLeave(f) \/ OnReadError(f) \/ DealReadDamaged(f)
  <2>1. PICK r \in {"mem_leave", "other"} \cup Damaged : Received(f, r)
    BY <1>7 DEF OnReadMemberLeave, OnReadError, DealReadDamaged
  <2>2. r \in Openers \cup {"mem_join"}
    BY <1>2, <2>1
  <2> QED
    BY <2>1, <2>2 DEF Openers, Damaged
<1> QED
  BY <1>3, <1>4, <1>5, <1>6, <1>7, OwnPart, OwnWrite, OwnJoin DEF DealRead

-----------------------------------------------------------------------------
(* Every step.                                                             *)

\* A handler of an event.
LEMMA AloneHandled ==
  ASSUME Known, KnownInv', NEW f \in Fds, DealRead(f) \/ DealWrite(f) \/ DealHup(f), UNCHANGED clientVars
  PROVE  AloneInv'
<1> DEFINE q == conn[f].proc
<1>1. /\ Open(f) /\ q \in Procs /\ phase' = phase /\ mod' = mod /\ TypeInv /\ ConnsDiffer /\ LinksAgree
      /\ \A p \in Procs : p # q => link'[p] = link[p] /\ s2c'[p] = s2c[p] /\ c2s'[p] = c2s[p]
      /\ \/ link'[q] = link[q]
         \/ Gone(q) /\ link'[q] \in {"rst", "closed"}
  BY HandlerSockets DEF Known, KnownInv, clientVars
<1>2. HandledBy(f) /\ phase[q] # "off" /\ conn \in [Fds -> Conns] /\ gen' \in Nat /\ rekey' \in SUBSET Keys
  BY <1>1, EventHandledBy, ServedHasStarted DEF KnownInv, TypeInv, GroupSystemTypeOK, GroupServerTypeOK, KeyStoreTypeOK
<1>3. UsersAgree' /\ ModsHeld' /\ OwnersStarted'
  BY <1>1, <1>2, HandledKeeps
<1>4. \A g \in Fds : g # f => conn'[g].proc = conn[g].proc
  BY <1>2, BystanderFields DEF HandledBy
<1>5. ASSUME NEW p \in Procs \ Peers, Alone(p)', link'[p] = "open"
      PROVE  Mine(p)'
  <2>1. Alone(p) /\ link[p] = "open"
    BY <1>1, <1>5 DEF Alone, Gone
  <2>2. KeyIsMine(p) /\ \A g \in ServedBy(p) : Talks(p, g)
    BY <2>1 DEF Known, AloneInv, Mine
  <2>3. CASE p = q
    <3>1. OwnConn(p, f)
      BY <1>1, <2>1, <2>2, <2>3 DEF OwnConn, ServedBy
    <3>2. LeftTalking(p, f)
      BY <3>1, OwnHandled
    <3>3. KeyIsMine(p)'
      BY <1>1, <1>2, <2>2, <2>3, <3>2, KeyStaysWith DEF LeftTalking
    <3>4. \A g \in ServedBy(p)' : g = f
      <4> SUFFICES ASSUME NEW g \in Fds, conn'[g].proc = p, g # f PROVE FALSE
        BY DEF ServedBy
      <4>1. conn[g].proc = p
        BY <1>4
      <4> QED
        BY <1>1, <2>3, <4>1 DEF ConnsDiffer
    <3> QED
      BY <3>2, <3>3, <3>4 DEF Mine, LeftTalking
  <2>4. CASE p # q
    <3>1. Acct[p] # Acct[q]
      BY <1>1, <1>2, <2>1, <2>4 DEF Alone
    <3>2. /\ KeyIsMine(p)' /\ userKey'[Acct[p]] = userKey[Acct[p]]
          /\ userKey[Acct[p]] # NoKey => (userKey[Acct[p]] \in active' <=> userKey[Acct[p]] \in active)
      BY <1>1, <1>2, <2>2, <3>1, KeyStaysMine
    <3>3. ASSUME NEW g \in ServedBy(p)'
          PROVE  Talks(p, g)'
      <4>1. g \in Fds /\ conn'[g].proc = p
        BY <3>3 DEF ServedBy
      <4>2. g # f
        BY <1>2, <2>4, <4>1, GroupServerAssumption DEF HandledBy, ConnBy
      <4>3. conn[g].proc = p /\ Open(g)
        BY <1>4, <4>1, <4>2, GroupServerAssumption DEF Open
      <4>4. Talks(p, g) /\ Bystander(g)
        BY <1>2, <2>2, <4>1, <4>2, <4>3 DEF ServedBy, HandledBy
      <4> QED
        BY <1>1, <1>2, <2>4, <3>2, <4>1, <4>3, <4>4, OthersTalk
    <3> QED
      BY <3>2, <3>3 DEF Mine
  <2> QED
    BY <2>3, <2>4
<1> QED
  BY <1>3, <1>5 DEF AloneInv

\* What is known of a process that nothing happens to.
LEMMA MineStays ==
  ASSUME NEW p \in Procs, Mine(p), UNCHANGED <<conn, keyVars>>,
         s2c'[p] = s2c[p], c2s'[p] = c2s[p], phase'[p] = phase[p], mod'[p] = mod[p]
  PROVE  Mine(p)'
<1>1. KeyIsMine(p)'
  BY DEF Mine, KeyIsMine, keyVars, dbVars, groupVars
<1>2. ServedBy(p)' = ServedBy(p)
  BY DEF ServedBy
<1>3. ASSUME NEW g \in ServedBy(p)
      PROVE  Talks(p, g)'
  <2>1. Out(g)' = Out(g) /\ Whole(g)' = Whole(g)
    BY <1>3 DEF Out, Whole, ServedBy
  <2>2. Talks(p, g)
    BY <1>3 DEF Mine
  <2> QED
    BY <2>1, <2>2 DEF Talks, keyVars, dbVars, groupVars
<1> QED
  BY <1>1, <1>2, <1>3 DEF Mine

\* A step of one process, which leaves the server alone.
LEMMA AloneProcess ==
  ASSUME Known, UNCHANGED <<conn, keyVars>>,
         \A o \in Procs : phase'[o] = "off" => phase[o] = "off",
         NEW q \in Procs,
         \A p \in Procs : p # q => /\ link'[p] = link[p] /\ s2c'[p] = s2c[p] /\ c2s'[p] = c2s[p]
                                   /\ phase'[p] = phase[p] /\ mod'[p] = mod[p],
         q \in Peers \/ link'[q] # "open" \/ (Alone(q)' => Mine(q)')
  PROVE  AloneInv'
<1>1. UsersAgree /\ ModsHeld /\ OwnersStarted
  BY DEF Known, AloneInv
<1>2. UsersAgree' /\ ModsHeld'
  BY <1>1 DEF UsersAgree, ModsHeld, Open, Held, keyVars, cipherVars, groupVars
<1>3. OwnersStarted'
  <2>1. \A u \in Users : Started(u) => Started(u)'
    BY DEF Started
  <2>2. \A u \in Users : userKey'[u] = userKey[u] /\ (InUse(userKey[u])' <=> InUse(userKey[u]))
    BY DEF InUse, keyVars, groupVars, dbVars
  <2> QED
    BY <1>1, <2>1, <2>2 DEF OwnersStarted
<1>4. ASSUME NEW p \in Procs \ Peers, Alone(p)', link'[p] = "open"
      PROVE  Mine(p)'
  <2>1. CASE p = q
    BY <1>4, <2>1
  <2>2. CASE p # q
    <3>1. Alone(p) /\ link[p] = "open"
      BY <1>4, <2>2 DEF Alone
    <3>2. Mine(p)
      BY <3>1 DEF Known, AloneInv
    <3> QED
      BY <2>2, <3>2, MineStays
  <2> QED
    BY <2>1, <2>2
<1> QED
  BY <1>2, <1>3, <1>4 DEF AloneInv

\* A step that changes nothing of all this.
LEMMA AloneSame ==
  ASSUME Known, UNCHANGED <<conn, keyVars, link, s2c, c2s, phase, mod>>
  PROVE  AloneInv'
<1>1. UsersAgree /\ ModsHeld /\ OwnersStarted /\ \A p \in Procs \ Peers : Alone(p) /\ link[p] = "open" => Mine(p)
  BY DEF Known, AloneInv
<1>2. UsersAgree' /\ ModsHeld' /\ OwnersStarted'
  BY <1>1 DEF UsersAgree, ModsHeld, OwnersStarted, Started, InUse, Open, Held, keyVars, cipherVars, groupVars, dbVars
<1>3. \A p \in Procs \ Peers : Alone(p)' /\ link'[p] = "open" => Mine(p)'
  BY <1>1, MineStays DEF Alone
<1> QED
  BY <1>2, <1>3 DEF AloneInv

-----------------------------------------------------------------------------
(* The steps of the processes.                                             *)

\* A client that reads a message goes on with its script or returns.
LEMMA ClientReads ==
  ASSUME TypeInv, NEW p \in Procs, ClientStep(p)
  PROVE  \/ Return(p)
         \/ \E sent \in Seq(Requests) :
              /\ Goes(phase[p], mod[p], Msg(p), phase'[p], sent, mod'[p])
              /\ c2s'[p] = c2s[p] \o sent /\ s2c'[p] = Tail(s2c[p])
<1>1. /\ s2c \in [Procs -> Seq(Messages)] /\ c2s \in [Procs -> Seq(Requests)]
      /\ phase \in [Procs -> Phases] /\ mod \in [Procs -> Nat]
  BY DEF TypeInv, GroupSystemTypeOK, GroupServerTypeOK
<1>2. <<>> \in Seq(Requests) /\ <<"register">> \in Seq(Requests) /\ <<"allocation">> \in Seq(Requests)
      /\ <<"mem_join">> \in Seq(Requests)
  BY ShortSeqs, EmptyTypes DEF Requests
<1>3. ASSUME NEW sent, NEW next, Continue(p, sent, next)
      PROVE  c2s'[p] = c2s[p] \o sent /\ s2c'[p] = Tail(s2c[p]) /\ phase'[p] = next
  BY <1>1, <1>3 DEF Continue
<1> DEFINE Goal == \/ Return(p)
                   \/ \E sent \in Seq(Requests) :
                        /\ Goes(phase[p], mod[p], Msg(p), phase'[p], sent, mod'[p])
                        /\ c2s'[p] = c2s[p] \o sent /\ s2c'[p] = Tail(s2c[p])
<1>4. ASSUME NEW sent \in Seq(Requests), NEW next, Continue(p, sent, next),
             Goes(phase[p], mod[p], Msg(p), next, sent, mod'[p])
      PROVE  Goal
  BY <1>3, <1>4
<1> HIDE DEF Goal
<1>5. Return(p) => Goal
  BY DEF Goal
<1>6. ASSUME ReadLogin(p) PROVE Goal
  <2>1. /\ phase[p] = "login" /\ mod'[p] = mod[p]
        /\ \/ Return(p)
           \/ Msg(p).second = "bad" /\ Continue(p, <<"register">>, "register")
           \/ Msg(p).second # "bad" /\ Continue(p, <<"allocation">>, "allocation")
    BY <1>6 DEF ReadLogin, ReadFd
  <2>2. Msg(p).second = "bad" => Goes(phase[p], mod[p], Msg(p), "register", <<"register">>, mod'[p])
    BY <2>1 DEF Goes
  <2>3. Msg(p).second # "bad" => Goes(phase[p], mod[p], Msg(p), "allocation", <<"allocation">>, mod'[p])
    BY <2>1 DEF Goes
  <2> QED
    BY <1>2, <1>4, <1>5, <2>1, <2>2, <2>3
<1>7. ASSUME ReadRegister(p) PROVE Goal
  <2>1. /\ phase[p] = "register" /\ mod'[p] = mod[p]
        /\ Return(p) \/ Continue(p, <<"allocation">>, "allocation")
    BY <1>7 DEF ReadRegister, ReadFd
  <2>2. Goes(phase[p], mod[p], Msg(p), "allocation", <<"allocation">>, mod'[p])
    BY <2>1 DEF Goes
  <2> QED
    BY <1>2, <1>4, <1>5, <2>1, <2>2
<1>8. ASSUME ReadAllocation(p) PROVE Goal
  <2>1. /\ phase[p] = "allocation" /\ mod'[p] = mod[p]
        /\ Return(p) \/ (Msg(p).second = "ok" /\ Continue(p, <<>>, "mod"))
    BY <1>8 DEF ReadAllocation, ReadFd
  <2>2. Msg(p).second = "ok" => Goes(phase[p], mod[p], Msg(p), "mod", <<>>, mod'[p])
    BY <2>1 DEF Goes
  <2> QED
    BY <1>2, <1>4, <1>5, <2>1, <2>2
<1>9. ASSUME ReadMod(p) PROVE Goal
  <2>1. /\ phase[p] = "mod"
        /\ \/ Return(p)
           \/ mod' = [mod EXCEPT ![p] = Msg(p).num] /\ Continue(p, <<"mem_join">>, "mem_join")
    BY <1>9 DEF ReadMod, ReadFd
  <2>2. mod' = [mod EXCEPT ![p] = Msg(p).num]
          => Goes(phase[p], mod[p], Msg(p), "mem_join", <<"mem_join">>, mod'[p])
    BY <1>1, <2>1 DEF Goes
  <2> QED
    BY <1>2, <1>4, <1>5, <2>1, <2>2
<1>10. ASSUME ReadMemJoin(p) \/ ReadRekeying(p) \/ ReadRandomNum(p) PROVE Goal
  <2>1. /\ phase[p] \in Joins /\ mod'[p] = mod[p]
        /\ Return(p) \/ \E next \in InLoop : Continue(p, <<>>, next)
    BY <1>10 DEF ReadMemJoin, ReadRekeying, ReadRandomNum, ReadFd, Joins, InLoop
  <2>2. \A next \in InLoop : Goes(phase[p], mod[p], Msg(p), next, <<>>, mod'[p])
    BY <2>1 DEF Goes
  <2> QED
    BY <1>2, <1>4, <1>5, <2>1, <2>2
<1> QED
  BY <1>6, <1>7, <1>8, <1>9, <1>10 DEF ClientStep, Goal

\* Requests behind requests behind requests.
LEMMA RequestsConcat ==
  ASSUME NEW a \in Seq(Requests), NEW b \in Seq(Requests), NEW c \in Seq(Requests)
  PROVE  a \o (b \o c) = (a \o b) \o c
<1> DEFINE S == Requests
<1> HIDE DEF S
<1>1. a \in Seq(S) /\ b \in Seq(S) /\ c \in Seq(S)
  BY DEF S
<1> QED
  BY <1>1, ConcatAssociative

\* The connection of the client that reads.
LEMMA ReaderTalks ==
  ASSUME TypeInv, NEW p \in Procs, NEW f \in Fds, conn[f].proc = p, Talks(p, f), KeyIsMine(p),
         s2c[p] # <<>>, UNCHANGED <<conn, keyVars>>,
         NEW sent \in Seq(Requests), Goes(phase[p], mod[p], Msg(p), phase'[p], sent, mod'[p]),
         c2s'[p] = c2s[p] \o sent, s2c'[p] = Tail(s2c[p])
  PROVE  Talks(p, f)'
<1> DEFINE key == userKey[Acct[p]]
           c == conn[f]
<1>1. /\ GroupServerTypeOK /\ Open(f) /\ conn' = conn /\ userKey' = userKey /\ active' = active
      /\ key \in Keys \cup {NoKey}
  BY GroupServerAssumption
  DEF TypeInv, GroupSystemTypeOK, GroupServerTypeOK, KeyStoreTypeOK, Open, keyVars, dbVars, groupVars
<1>2. s2c[p] \in Seq(Messages) /\ c.wbuf \in Seq(Messages) /\ c2s[p] \in Seq(Requests)
  BY <1>1, OutTypes DEF GroupServerTypeOK
<1>3. PICK out \in Seq(Messages) : out = s2c[p] \o c.wbuf
  BY <1>1, OutTypes DEF Out
<1>4. out # <<>> /\ Msg(p) = out[1] /\ Tail(out) = Tail(s2c[p]) \o c.wbuf
  <2>1. \A s, w \in Seq(Messages) : s # <<>> => \A o : o = s \o w =>
          o # <<>> /\ Head(s) = o[1] /\ Tail(o) = Tail(s) \o w
    BY HeadOfOut
  <2>2. PICK s \in Seq(Messages), w \in Seq(Messages) : s = s2c[p] /\ w = c.wbuf
    BY <1>2
  <2>3. s # <<>> /\ out = s \o w
    BY <1>3, <2>2
  <2>4. out # <<>> /\ Head(s) = out[1] /\ Tail(out) = Tail(s) \o w
    BY <2>1, <2>3
  <2> QED
    BY <2>2, <2>4 DEF Msg
<1>5. PICK req \in Seq(Requests) : req = Whole(f)
  BY <1>1, WholeTypes
<1>6. Whole(f)' = req \o sent
  <2>1. PICK buf \in Seq(Requests) : buf = IF c.rbuf = <<Part>> THEN <<>> ELSE c.rbuf
    BY <1>1, ConnTypes, EmptyTypes
  <2>2. req = buf \o c2s[p]
    BY <1>5, <2>1 DEF Whole
  <2>3. Whole(f)' = buf \o (c2s[p] \o sent)
    BY <1>1, <2>1 DEF Whole
  <2>4. \A a, b, d \in Seq(Requests) : a \o (b \o d) = (a \o b) \o d
    BY RequestsConcat
  <2>5. PICK sents \in Seq(Requests) : sents = c2s[p]
    BY <1>2
  <2>6. buf \o (sents \o sent) = (buf \o sents) \o sent
    BY <2>4, Zenon
  <2> QED
    BY <2>2, <2>3, <2>5, <2>6
<1>7. Out(f) = out /\ Out(f)' = Tail(out)
  BY <1>1, <1>3, <1>4 DEF Out
<1>8. Talk(phase[p], req, mod[p], c.mod, c.act, key, active, out)
  BY <1>5, <1>7 DEF Talks
<1>9. phase[p] = "mod" => key \notin active
  <2>1. NoKey \notin active
    BY <1>1, KeyStoreAssumption DEF GroupServerTypeOK, KeyStoreTypeOK, Keys, NoKey
  <2> QED
    BY <2>1 DEF KeyIsMine, Early
<1>10. Goes(phase[p], mod[p], out[1], phase'[p], sent, mod'[p])
  BY <1>4
<1>11. PICK new, rest : new = req \o sent /\ rest = Tail(out)
  OBVIOUS
<1>12. Talk(phase'[p], new, mod'[p], c.mod, c.act, key, active, rest)
  BY <1>1, <1>4, <1>8, <1>9, <1>10, <1>11, TalkIsRead
<1> QED
  BY <1>1, <1>6, <1>7, <1>11, <1>12 DEF Talks

\* A client reads a message.
LEMMA AloneReads ==
  ASSUME Known, [GroupSystemNext]_sysVars, NEW p \in Procs, ClientStep(p)
  PROVE  AloneInv'
<1>1. /\ TypeInv /\ UNCHANGED <<conn, keyVars>> /\ link[p] = "open" /\ s2c[p] # <<>>
      /\ userKey' = userKey /\ active' = active
  BY ClientLeaves DEF Known, KnownInv, connVars, keyVars, dbVars, groupVars
<1>2. \A q \in Procs : q # p => /\ link'[q] = link[q] /\ s2c'[q] = s2c[q] /\ c2s'[q] = c2s[q]
                                /\ phase'[q] = phase[q] /\ mod'[q] = mod[q]
  BY <1>1, OnlyTheProcess
<1>3. \A o \in Procs : phase'[o] = "off" => phase[o] = "off"
  BY <1>1, StartedForEver
<1>4. ASSUME p \notin Peers, link'[p] = "open", Alone(p)'
      PROVE  Mine(p)'
  <2>1. Alone(p)
    BY <1>1, <1>4, StartedForEver
  <2>2. KeyIsMine(p) /\ \A f \in ServedBy(p) : Talks(p, f)
    BY <1>1, <1>4, <2>1 DEF Known, AloneInv, Mine
  <2>3. ~Return(p)
    <3>1. ASSUME NEW end \in {"fin", "rst"}, link' = [link EXCEPT ![p] = end] PROVE FALSE
      BY <1>1, <1>4, <3>1 DEF TypeInv, GroupSystemTypeOK, GroupServerTypeOK
    <3> QED
      BY <1>1, <3>1, DisconnectTypes DEF Return, TypeInv, GroupSystemTypeOK
  <2>4. PICK sent \in Seq(Requests) :
          /\ Goes(phase[p], mod[p], Msg(p), phase'[p], sent, mod'[p])
          /\ c2s'[p] = c2s[p] \o sent /\ s2c'[p] = Tail(s2c[p])
    BY <1>1, <2>3, ClientReads
  <2>5. phase'[p] \in Early => phase[p] \in Early
    BY <2>4 DEF Goes, Early, Joins, InLoop
  <2>6. KeyIsMine(p)'
    BY <1>1, <2>2, <2>5 DEF KeyIsMine
  <2>7. ASSUME NEW f \in ServedBy(p)
        PROVE  Talks(p, f)'
    BY <1>1, <2>2, <2>4, <2>7, ReaderTalks DEF ServedBy
  <2>8. ServedBy(p)' = ServedBy(p)
    BY <1>1 DEF ServedBy
  <2> QED
    BY <2>6, <2>7, <2>8 DEF Mine
<1> QED
  BY <1>1, <1>2, <1>3, <1>4, AloneProcess

\* Accepting a connection leaves its Conn the modulus of the one before.
LEMMA AcceptedMods ==
  ASSUME TypeInv, DealListen
  PROVE  /\ \A f \in Fds : conn'[f].mod = conn[f].mod
         /\ \A f \in Fds : Accepts(f) => ~Open(f) /\ conn'[f].user = NoUser /\ conn'[f].act = conn[f].act
                                         /\ conn'[f].rbuf = <<>> /\ conn'[f].wbuf = <<>>
                                         /\ conn'[f].proc \in Procs /\ Waiting(conn'[f].proc)
         /\ \A f \in Fds : ~Accepts(f) => conn'[f] = conn[f]
<1>1. /\ GroupServerTypeOK /\ conn \in [Fds -> Conns]
      /\ conn' = [f \in Fds |-> IF Accepts(f) THEN Inited(conn[f], backlog[PlaceAmongFree(f)]) ELSE conn[f]]
  BY DEF TypeInv, GroupSystemTypeOK, GroupServerTypeOK, DealListen
<1>2. ASSUME NEW f \in Fds, Accepts(f)
      PROVE  /\ ~Open(f) /\ conn'[f].user = NoUser /\ conn'[f].act = conn[f].act /\ conn'[f].mod = conn[f].mod
             /\ conn'[f].rbuf = <<>> /\ conn'[f].wbuf = <<>>
             /\ conn'[f].proc \in Procs /\ Waiting(conn'[f].proc)
  <2>1. PICK p \in Procs : p = backlog[PlaceAmongFree(f)] /\ Waiting(p)
    BY <1>1, <1>2, AcceptTypes DEF Waiting
  <2>2. conn'[f] = Inited(conn[f], p) /\ conn[f] \in Conns
    BY <1>1, <1>2, <2>1
  <2> QED
    BY <1>2, <2>1, <2>2 DEF Inited, Conns, Accepts
<1> QED
  BY <1>1, <1>2

\* Connections are accepted.
LEMMA AloneListen ==
  ASSUME Known, DealListen, UNCHANGED clientVars
  PROVE  AloneInv'
<1>1. /\ TypeInv /\ UNCHANGED <<keyVars, link, s2c, c2s, phase, mod>>
      /\ userKey' = userKey /\ active' = active /\ members' = members /\ available' = available
  BY DEF Known, KnownInv, DealListen, clientVars, keyVars, dbVars, groupVars, cipherVars
<1>2. UsersAgree /\ ModsHeld /\ OwnersStarted
  BY DEF Known, AloneInv
<1>3. /\ \A f \in Fds : conn'[f].mod = conn[f].mod
      /\ \A f \in Fds : ~Accepts(f) => conn'[f] = conn[f]
      /\ \A f \in Fds : Accepts(f) => conn'[f].user = NoUser /\ ~Open(f)
  BY <1>1, AcceptedMods
<1>4. UsersAgree'
  BY <1>2, <1>3 DEF UsersAgree, Open
<1>5. ModsHeld' /\ OwnersStarted'
  BY <1>1, <1>2, <1>3 DEF ModsHeld, Held, OwnersStarted, InUse, Started
<1>6. ASSUME NEW p \in Procs \ Peers, Alone(p)', link'[p] = "open"
      PROVE  Mine(p)'
  <2>1. Mine(p) /\ link[p] = "open"
    BY <1>1, <1>6 DEF Known, AloneInv, Alone
  <2>2. KeyIsMine(p)'
    <3>1. \A g \in Fds : conn[g].proc = p => conn'[g].proc = p
      BY <1>3, GroupServerAssumption DEF Open
    <3> QED
      BY <1>1, <1>3, <2>1, <3>1 DEF Mine, KeyIsMine
  <2>3. ASSUME NEW g \in ServedBy(p)'
        PROVE  Talks(p, g)'
    <3>1. g \in Fds /\ conn'[g].proc = p
      BY <2>3 DEF ServedBy
    <3>2. CASE ~Accepts(g)
      <4>1. conn'[g] = conn[g] /\ Talks(p, g)
        BY <1>3, <2>1, <3>1, <3>2 DEF Mine, ServedBy
      <4>2. Out(g)' = Out(g) /\ Whole(g)' = Whole(g)
        BY <1>1, <4>1 DEF Out, Whole
      <4> QED
        BY <1>1, <4>1, <4>2 DEF Talks
    <3>3. CASE Accepts(g)
      <4>1. Waiting(p) /\ conn'[g].rbuf = <<>> /\ conn'[g].wbuf = <<>>
        BY <1>1, <3>1, <3>3, AcceptedMods
      <4>2. s2c[p] = <<>> /\ phase[p] = "login" /\ c2s[p] = <<"login">>
        BY <2>1, <4>1 DEF Known, KnownInv, WaitersWait
      <4>3. Out(g)' = <<>>
        BY <1>1, <3>1, <4>1, <4>2 DEF Out
      <4>4. Whole(g)' = <<"login">>
        <5>1. Whole(g)' = <<>> \o <<"login">>
          BY <1>1, <3>1, <4>1, <4>2 DEF Whole
        <5> QED
          BY <5>1
      <4>5. phase'[p] = "login"
        BY <1>1, <4>2
      <4> QED
        BY <4>3, <4>4, <4>5 DEF Talks, Talk, OnCourse, Openers
    <3> QED
      BY <3>2, <3>3
  <2> QED
    BY <2>2, <2>3 DEF Mine
<1> QED
  BY <1>4, <1>5, <1>6 DEF AloneInv

\* A process connects: nobody serves it yet, and nobody has seen its modulus.
LEMMA AloneConnect ==
  ASSUME Known, [GroupSystemNext]_sysVars, NEW p \in Procs, Connect(p)
  PROVE  AloneInv'
<1>1. /\ TypeInv /\ link \in [Procs -> Links] /\ c2s \in [Procs -> Seq(Requests)] /\ phase \in [Procs -> Phases]
      /\ ConnsDiffer
  BY DEF Known, KnownInv, TypeInv, GroupSystemTypeOK, GroupServerTypeOK
<1>2. /\ UNCHANGED <<conn, keyVars, s2c, mod>> /\ link[p] = "none" /\ userKey' = userKey /\ active' = active
      /\ \A q \in Procs : q # p => link'[q] = link[q] /\ c2s'[q] = c2s[q] /\ phase'[q] = phase[q]
  BY <1>1 DEF Connect, connVars, keyVars, dbVars, groupVars
<1>3. \A o \in Procs : phase'[o] = "off" => phase[o] = "off"
  BY <1>1, StartedForEver
<1>4. ASSUME Alone(p)' PROVE Mine(p)'
  <2>1. Alone(p) /\ phase[p] = "off"
    BY <1>1, <1>2, <1>4, StartedForEver DEF ConnsDiffer
  <2>2. ~Started(Acct[p])
    BY <2>1 DEF Started, Alone
  <2>3. userKey[Acct[p]] # NoKey => ~InUse(userKey[Acct[p]])
    BY <2>2, GroupServerAssumption DEF Known, AloneInv, OwnersStarted
  <2>4. KeyIsMine(p)'
    BY <1>2, <2>3 DEF KeyIsMine, InUse
  <2>5. \A g \in Fds : conn'[g].proc # p
    BY <1>1, <1>2, GroupServerAssumption DEF ConnsDiffer, Connected, Open
  <2> QED
    BY <2>4, <2>5 DEF Mine, ServedBy
<1> QED
  BY <1>2, <1>3, <1>4, AloneProcess

\* A process dies, or a peer does something.
LEMMA AloneOthers ==
  ASSUME Known, [GroupSystemNext]_sysVars, NEW p \in Procs,
         Die(p) \/ (p \in Peers /\ (PeerReads(p) \/ \E r \in Requests : PeerSends(p, r)))
  PROVE  AloneInv'
<1>1. /\ TypeInv /\ link \in [Procs -> Links] /\ s2c \in [Procs -> Seq(Messages)] /\ c2s \in [Procs -> Seq(Requests)]
  BY DEF Known, KnownInv, TypeInv, GroupSystemTypeOK, GroupServerTypeOK
<1>2. \A o \in Procs : phase'[o] = "off" => phase[o] = "off"
  BY <1>1, StartedForEver
<1>3. UNCHANGED <<conn, keyVars>>
  BY DEF Die, PeerReads, PeerSends, connVars
<1>4. CASE Die(p)
  <2>1. \A q \in Procs : q # p => /\ link'[q] = link[q] /\ s2c'[q] = s2c[q] /\ c2s'[q] = c2s[q]
                                  /\ phase'[q] = phase[q] /\ mod'[q] = mod[q]
    BY <1>1, <1>4, OnlyTheProcess
  <2>2. link'[p] # "open"
    BY <1>1, <1>4 DEF Die, Disconnect, Endings
  <2> QED
    BY <1>2, <1>3, <2>1, <2>2, AloneProcess
<1>5. CASE p \in Peers /\ (PeerReads(p) \/ \E r \in Requests : PeerSends(p, r))
  <2>1. \A q \in Procs : q # p => /\ link'[q] = link[q] /\ s2c'[q] = s2c[q] /\ c2s'[q] = c2s[q]
                                  /\ phase'[q] = phase[q] /\ mod'[q] = mod[q]
    BY <1>1, <1>5 DEF PeerReads, PeerSends, clientVars, socketVars
  <2> QED
    BY <1>2, <1>3, <1>5, <2>1, AloneProcess
<1> QED
  BY <1>4, <1>5

\* Whatever anybody does.
LEMMA AloneStep ==
  ASSUME Known, KnownInv', [GroupSystemNext]_sysVars
  PROVE  AloneInv'
<1>1. CASE Server
  <2>1. UNCHANGED clientVars
    BY <1>1 DEF Server
  <2>2. CASE Wait
    BY <2>1, <2>2, AloneSame DEF Wait, clientVars, socketVars
  <2>3. CASE DealListen
    BY <2>1, <2>3, AloneListen
  <2>4. ASSUME NEW f \in Fds, DealRead(f) \/ DealWrite(f) \/ DealHup(f)
        PROVE  AloneInv'
    BY <2>1, <2>4, AloneHandled
  <2> QED
    BY <1>1, <2>2, <2>3, <2>4 DEF Server, ServerStep
<1>2. CASE UNCHANGED sysVars
  BY <1>2, AloneSame DEF sysVars, serverVars, connVars, socketVars, clientVars
<1>3. ASSUME NEW p \in Procs, Connect(p) \/ Die(p) \/ ClientStep(p)
      PROVE  AloneInv'
  BY <1>3, AloneConnect, AloneOthers, AloneReads
<1>4. ASSUME NEW p \in Peers, PeerReads(p) \/ \E r \in Requests : PeerSends(p, r)
      PROVE  AloneInv'
  BY <1>4, AloneOthers, GroupSystemAssumption
<1> QED
  BY <1>1, <1>2, <1>3, <1>4 DEF GroupSystemNext

\* Nobody has connected.
LEMMA AloneInit ==
  ASSUME GroupSystemInit
  PROVE  AloneInv
<1>1. /\ \A f \in Fds : conn[f].mod = NoKey /\ ~Open(f)
      /\ \A u \in Users : userKey[u] = NoKey
      /\ active = {} /\ link = [p \in Procs |-> "none"]
  BY DEF GroupSystemInit, GroupServerInit, Open
<1> QED
  BY <1>1 DEF AloneInv, UsersAgree, ModsHeld, OwnersStarted

\* A client that has its account for itself is on course or lost.
LEMMA AloneHolds == GroupSystemSpec => []Known
<1>1. GroupSystemInit => AloneInv
  BY AloneInit
<1>2. KnownInv /\ KnownInv' /\ AloneInv /\ [GroupSystemNext]_sysVars => AloneInv'
  BY AloneStep DEF Known
<1> QED
  BY <1>1, <1>2, KnownHolds, PTL DEF GroupSystemSpec, Known

-----------------------------------------------------------------------------
(* The property.                                                           *)

\* A client of the repository that was told it has joined and has its account
\* for itself is a member on all sides, whatever peers and deaths do to the
\* descriptors: onRead_member_join answers ok to the holder of the modulus,
\* and nothing but the end of the connection takes that away (server.cpp:59).
THEOREM JoinedClientsAreMembers == GroupSystemSpec => []JoinedIsMember
<1>1. ASSUME Known, NEW p \in Procs \ Peers, phase[p] \in InLoop, link[p] = "open", Alone(p)
      PROVE  \E f \in ServedBy(p) : conn[f].act /\ conn[f].mod = mod[p] /\ mod[p] \in active
  <2>1. Mine(p) /\ ConnsDiffer /\ WaitersWait
    BY <1>1 DEF Known, KnownInv, AloneInv
  <2>2. ~Waiting(p)
    BY <1>1, <2>1 DEF WaitersWait, InLoop
  <2>3. PICK f \in ServedBy(p) : Talks(p, f)
    BY <1>1, <2>1, <2>2 DEF ConnsDiffer, Connected, Mine
  <2>4. BelongsTo(mod[p], conn[f].mod, conn[f].act, userKey[Acct[p]], active)
    BY <1>1, <2>3 DEF Talks, Talk, Lost, OnCourse, InLoop, Openers
  <2> QED
    BY <2>3, <2>4 DEF BelongsTo
<1>2. Known => JoinedIsMember
  BY <1>1 DEF JoinedIsMember
<1> QED
  BY <1>2, AloneHolds, PTL
=============================================================================
