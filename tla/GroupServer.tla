----------------------------- MODULE GroupServer -----------------------------
(***************************************************************************)
(* The event loop of the server, its connections and the sockets under     *)
(* them, on top of KeyStore.  One turn of Server::start is Wait, which     *)
(* takes the ready descriptors from epoll, and then one handler per event  *)
(* of that batch.  The events are a snapshot: the peers go on sending and  *)
(* dying while the batch is worked off, and a handler can close, re-arm or *)
(* write to a connection whose own event is still to come.                 *)
(*                                                                         *)
(* A connection is registered one-shot: an event taken by Wait disarms it  *)
(* until a handler calls modFd.  A peer is a process that connects once.   *)
(* The server process does not restart in this module; KeyStore does that. *)
(*                                                                         *)
(* As in KeyStore, an operator written just above another one with the     *)
(* same parameters is a slip of it: ForAnyLogin, NotArmed, KeyFirst,       *)
(* ClosedOnly, Forgotten, NotActive, ActiveAnyway, Everything, ReadsAgain, *)
(* WritesAgain.                                                            *)
(***************************************************************************)
EXTENDS KeyStore, Sequences, SequencesExt

CONSTANTS
  Procs,      \* the client processes
  NoProc,     \* no process: the Conn is closed, its fd_ is -1
  Acct,       \* Acct[p]: the account p logs in with
  Pwd,        \* Pwd[p]: the password it gives
  NoPwd,      \* the account has no row in users
  NoUser,     \* getUserDbid() = -1: not logged in
  MaxFd,      \* bound: the descriptors accept can return
  SockBuf,    \* bound: messages a socket holds before write returns EAGAIN
  Splits      \* the processes whose requests can arrive in two segments

Fds    == 1..MaxFd
Listen == 0

ASSUME GroupServerAssumption ==
  /\ MaxFd \in Nat /\ SockBuf \in Nat \ {0}
  /\ Acct \in [Procs -> Users]
  /\ NoProc \notin Procs /\ NoUser \notin Users
  /\ NoPwd \notin {Pwd[p] : p \in Procs}
  /\ Splits \subseteq Procs

VARIABLES
  conn,     \* clients_: the Conn of each descriptor, kept when it is closed
  armed,    \* what epoll watches a descriptor for: "in", "out" or "none"
  batch,    \* the events of the last epoll_wait not handled yet
  gen,      \* number of the group key gk_
  passwd,   \* users.password of each account
  link,     \* the connection of each process, as its socket sees it
  backlog,  \* connections that accept has not returned yet
  c2s,      \* what a process has sent and the server has not read
  s2c       \* what the server has written and the process has not read

connVars   == <<conn, armed, gen>>
socketVars == <<link, backlog, s2c>>
serverVars == <<keyVars, connVars, batch, passwd, socketVars, c2s>>

Damaged  == {"unframed", "undelimited"}   \* does not start with #, has no : in it
Requests == {"login", "register", "allocation", "mem_join", "mem_leave", "other"} \cup Damaged
Part     == "part"    \* the first segment of a request
Links    == {"none", "open", "fin", "rst", "closed"}

\* The messages of the server.  A number stands for its digits, and a
\* rekeying message carries the moduli it decrypts under.
Word(first, second) == [first |-> first, second |-> second, num |-> 0, for |-> {}]
Mod(k)              == [first |-> "mod", second |-> "number", num |-> k, for |-> {}]
Rekeying(g, ks)     == [first |-> "rekeying", second |-> "number", num |-> g, for |-> ks]
RandomNum(g)        == [first |-> "randomNum", second |-> "number", num |-> g, for |-> {}]

Messages ==
  [first  : {"login", "allocation", "mod", "mem_join", "mem_leave", "rekeying",
             "randomNum", "err"},
   second : {"ok", "bad", "pwd", "Unexpected behaviour!", "message damaged", "number"},
   num    : Nat,
   for    : SUBSET Keys]

Conns ==
  [proc : Procs \cup {NoProc}, user : Users \cup {NoUser},
   mod  : Keys \cup {NoKey},   act  : BOOLEAN,
   rbuf : Seq(Requests) \cup {<<Part>>}, wbuf : Seq(Messages)]

GroupServerTypeOK ==
  /\ KeyStoreTypeOK
  /\ conn \in [Fds -> Conns]
  /\ armed \in [Fds -> {"in", "out", "none"}]
  /\ batch \subseteq (Fds \X {"in", "out", "hup"}) \cup {<<Listen, "in">>}
  /\ gen \in Nat
  /\ passwd \in [Users -> {Pwd[p] : p \in Procs} \cup {NoPwd}]
  /\ link \in [Procs -> Links]
  /\ backlog \in Seq(Procs)
  /\ c2s \in [Procs -> Seq(Requests)]
  /\ s2c \in [Procs -> Seq(Messages)] /\ \A p \in Procs : Len(s2c[p]) <= SockBuf

Open(f) == conn[f].proc # NoProc

\* The server has started on an empty database, with no account.
GroupServerInit ==
  /\ dbKeys = 1..InitM /\ dbUsed = {}
  /\ userKey = [u \in Users |-> NoKey]
  /\ told = [u \in Users |-> NoKey]
  /\ up = TRUE
  /\ members = 1..InitM /\ available = 1..InitM /\ modProd = 1..InitM
  /\ active = {} /\ activeProd = {} /\ rekey = {}
  /\ lowerBound = InitM /\ m = InitM
  /\ conn = [f \in Fds |-> [proc |-> NoProc, user |-> NoUser, mod |-> NoKey,
                            act |-> FALSE, rbuf |-> <<>>, wbuf |-> <<>>]]
  /\ armed = [f \in Fds |-> "none"]
  /\ batch = {} /\ gen = 0
  /\ passwd = [u \in Users |-> NoPwd]
  /\ link = [p \in Procs |-> "none"] /\ backlog = <<>>
  /\ c2s = [p \in Procs |-> <<>>] /\ s2c = [p \in Procs |-> <<>>]

-----------------------------------------------------------------------------
(* epoll.                                                                  *)

\* What epoll reports of a descriptor, in the order the loop looks at it.
EventOf(f) ==
  LET p == conn[f].proc
  IN  IF ~Open(f) \/ armed[f] = "none" THEN "none"
      ELSE IF link[p] \in {"fin", "rst"} THEN "hup"
      ELSE IF armed[f] = "in" /\ c2s[p] # <<>> THEN "in"
      ELSE IF armed[f] = "out" /\ Len(s2c[p]) < SockBuf THEN "out"
      ELSE "none"

Wait ==
  LET ready == {f \in Fds : EventOf(f) # "none"}
  IN  /\ batch = {}
      /\ ready # {} \/ backlog # <<>>
      /\ batch' = {<<f, EventOf(f)>> : f \in ready}
                    \cup (IF backlog # <<>> THEN {<<Listen, "in">>} ELSE {})
      /\ armed' = [f \in Fds |-> IF f \in ready THEN "none" ELSE armed[f]]
  /\ UNCHANGED <<keyVars, conn, gen, passwd, socketVars, c2s>>

\* The loop comes to the event of f.
Event(f, ev) ==
  /\ <<f, ev>> \in batch
  /\ batch' = batch \ {<<f, ev>>}

-----------------------------------------------------------------------------
(* Opening and closing.                                                    *)

\* Conn::init clears the buffers and islogin_ but not cipher_member_.
Inited(c, p)    == [c EXCEPT !.proc = p, !.user = NoUser, !.rbuf = <<>>, !.wbuf = <<>>]

\* closeConn and closeFd; init clears the buffers, here they go at once.
Closed(c) == [c EXCEPT !.proc = NoProc, !.user = NoUser, !.rbuf = <<>>, !.wbuf = <<>>]

\* accept returns the lowest free descriptor: the place of f among them.
PlaceAmongFree(f) == Cardinality({g \in Fds : ~Open(g) /\ g < f}) + 1
Accepts(f)        == ~Open(f) /\ PlaceAmongFree(f) <= Len(backlog)

\* Every waiting connection is accepted, in order.
DealListen ==
  /\ Event(Listen, "in")
  /\ Len(backlog) <= Cardinality({f \in Fds : ~Open(f)})
  /\ conn' = [f \in Fds |-> IF Accepts(f) THEN Inited(conn[f], backlog[PlaceAmongFree(f)]) ELSE conn[f]]
  /\ armed' = [f \in Fds |-> IF Accepts(f) THEN "in" ELSE armed[f]]
  /\ backlog' = <<>>
  /\ UNCHANGED <<keyVars, gen, passwd, link, s2c, c2s>>

\* What closeConn does around the connection itself.
CloseSocket(f) ==
  /\ link' = [link EXCEPT ![conn[f].proc] = "closed"]
  /\ c2s' = [c2s EXCEPT ![conn[f].proc] = <<>>]
  /\ UNCHANGED <<passwd, backlog, s2c>>

-----------------------------------------------------------------------------
(* onWrite_newKey: a new group key for every Conn that is active.  A Conn  *)
(* left active after it was closed has no descriptor to write to.          *)

ForAnyLogin(c) == c.user # NoUser /\ c.proc # NoProc
IsMember(c)    == c.act /\ c.proc # NoProc

\* modFd(EPOLLOUT) for each of them.
NotArmed(cs, as)   == as
ArmMembers(cs, as) == [f \in Fds |-> IF IsMember(cs[f]) THEN "out" ELSE as[f]]

\* addMessage puts the new key behind what the buffer already holds.
KeyFirst(wbuf, key) == key \o wbuf
KeyAfter(wbuf, key) == wbuf \o key

\* cs and as are the connections and the armed events before the broadcast.
OnWriteNewKey(cs, as) ==
  /\ gen' = gen + 1
  /\ conn' = [f \in Fds |->
                IF IsMember(cs[f])
                THEN [cs[f] EXCEPT !.wbuf = KeyAfter(@, <<Rekeying(gen', rekey'), RandomNum(gen')>>)]
                ELSE cs[f]]
  /\ armed' = ArmMembers(cs, as)

-----------------------------------------------------------------------------
(* dealRead.                                                               *)

\* The whole requests among what was read before and what can be read now.
Whole(f) == (IF conn[f].rbuf = <<Part>> THEN <<>> ELSE conn[f].rbuf) \o c2s[conn[f].proc]

\* dealRead obtains request r; what follows it stays in the read buffer.
Received(f, r) ==
  /\ Event(f, "in")
  /\ link[conn[f].proc] # "rst"
  /\ Whole(f) # <<>> /\ Head(Whole(f)) = r
  /\ c2s' = [c2s EXCEPT ![conn[f].proc] = <<>>]
  /\ UNCHANGED socketVars

\* The connections once c, the Conn of f, has been handed the messages ms.
Answered(f, c, ms) ==
  [conn EXCEPT ![f] = [c EXCEPT !.rbuf = Tail(Whole(f)), !.wbuf = @ \o ms]]

\* addMessage and modFd(EPOLLOUT) with nothing else to do.
Answer(f, c, ms) ==
  /\ conn' = Answered(f, c, ms)
  /\ armed' = [armed EXCEPT ![f] = "out"]
  /\ UNCHANGED gen

\* A reset arrived between epoll_wait and readv: closeConn and nothing else.
DealReadError(f) ==
  /\ Event(f, "in")
  /\ link[conn[f].proc] = "rst"
  /\ conn' = [conn EXCEPT ![f] = Closed(@)]
  /\ armed' = [armed EXCEPT ![f] = "none"]
  /\ CloseSocket(f)
  /\ UNCHANGED <<keyVars, gen>>

\* Only the first segment of the request is there: wait for the rest.
Forgotten(f) == armed
AwaitRest(f) == [armed EXCEPT ![f] = "in"]

DealReadPart(f) ==
  /\ conn[f].proc \in Splits
  /\ Event(f, "in")
  /\ link[conn[f].proc] # "rst"
  /\ conn[f].rbuf = <<>> /\ Head(c2s[conn[f].proc]) # "unframed"
  /\ conn' = [conn EXCEPT ![f].rbuf = <<Part>>]
  /\ armed' = AwaitRest(f)
  /\ UNCHANGED <<keyVars, gen, passwd, socketVars, c2s>>

\* onRead_userVerify and Conn::userVerify.
OnReadUserVerify(f, isLogin) ==
  LET c == conn[f]  u == Acct[c.proc]
      in     == [c EXCEPT !.user = u]
      out    == [c EXCEPT !.user = NoUser]
      result(con, word) == Answer(f, con, <<Word("login", word)>>)
  IN  /\ Received(f, IF isLogin THEN "login" ELSE "register")
      /\ \/ /\ QueryMayFail
            /\ result(c, "bad") /\ UNCHANGED passwd
         \/ /\ isLogin /\ passwd[u] = Pwd[c.proc]
            /\ result(in, "ok") /\ UNCHANGED passwd
         \/ /\ isLogin /\ passwd[u] # Pwd[c.proc]
            /\ result(out, IF passwd[u] = NoPwd THEN "bad" ELSE "pwd")
            /\ UNCHANGED passwd
         \/ /\ ~isLogin /\ passwd[u] = NoPwd
            /\ passwd' = [passwd EXCEPT ![u] = Pwd[c.proc]]
            /\ \/ result(in, "ok")
               \/ QueryMayFail /\ result(c, "bad")
         \/ /\ ~isLogin
            /\ passwd[u] # NoPwd \/ QueryMayFail
            /\ result(out, "bad") /\ UNCHANGED passwd
      /\ UNCHANGED keyVars

\* onRead_allocation.  `new_register = _members[t]' copies _isactive too.
OnReadAllocation(f) ==
  LET c == conn[f]
      given(con) == Answer(f, con, <<Word("allocation", "ok"), Mod(con.mod)>>)
      refused(con) == Answer(f, con, <<Word("allocation", "bad")>>)
  IN  /\ Received(f, "allocation")
      /\ \/ /\ c.user = NoUser \/ QueryMayFail
            /\ refused(c) /\ UNCHANGED keyVars
         \/ /\ c.user # NoUser
            /\ \E k \in Keys, stop \in Stops :
                 LET con == [c EXCEPT !.mod = k, !.act = k \in active]
                 IN  /\ AllocateNew(c.user, k, stop)
                     /\ IF stop = "none" THEN given(con) ELSE refused(con)
         \/ /\ c.user # NoUser
            /\ \E rows \in 0..MaxKey : AllocateNoKey(c.user, rows)
            /\ refused(c)
         \/ /\ c.user # NoUser
            /\ AllocateAgain(c.user)
            /\ given([c EXCEPT !.mod = userKey[c.user], !.act = FALSE])
      /\ UNCHANGED passwd

\* member_join's joiner.active(), reached when the modulus was added.
NotActive(c)    == c
ActiveAnyway(c) == [c EXCEPT !.act = TRUE]
Activated(c)    == [c EXCEPT !.act = @ \/ (c.mod \in members /\ c.mod \notin active)]

\* onRead_member_join.  A modulus that is active already is answered ok, and
\* only a Conn whose own modulus was added becomes active.
OnReadMemberJoin(f) ==
  LET c == conn[f]
  IN  /\ Received(f, "mem_join")
      /\ Join(c.mod)
      /\ IF JoinReturnsOk(c.mod)
         THEN OnWriteNewKey(Answered(f, Activated(c), <<Word("mem_join", "ok")>>),
                            [armed EXCEPT ![f] = "out"])
         ELSE Answer(f, c, <<Word("mem_join", "bad")>>)
      /\ UNCHANGED passwd

\* onRead_member_leave
OnReadMemberLeave(f) ==
  LET c == conn[f]
  IN  /\ Received(f, "mem_leave")
      /\ Leave(c.mod)
      /\ IF LeaveReturnsOk(c.mod)
         THEN OnWriteNewKey(Answered(f, [c EXCEPT !.act = FALSE], <<Word("mem_leave", "ok")>>),
                            [armed EXCEPT ![f] = "out"])
         ELSE Answer(f, c, <<Word("mem_leave", "bad")>>)
      /\ UNCHANGED passwd

\* onRead_error
OnReadError(f) ==
  /\ Received(f, "other")
  /\ Answer(f, conn[f], <<Word("err", "Unexpected behaviour!")>>)
  /\ UNCHANGED <<keyVars, passwd>>

\* getMessage takes a message without a delimiter from the buffer before it
\* calls it damaged, but leaves one without a border where it is: that one
\* stands before whatever the connection sends from then on.
DealReadDamaged(f) ==
  \E r \in Damaged :
    LET answered == Answered(f, conn[f], <<Word("err", "message damaged")>>)
    IN  /\ Received(f, r)
        /\ conn' = IF r = "unframed" THEN [answered EXCEPT ![f].rbuf = Whole(f)] ELSE answered
        /\ armed' = [armed EXCEPT ![f] = "out"]
        /\ UNCHANGED <<keyVars, gen, passwd>>

-----------------------------------------------------------------------------
(* dealWrite and the branch of a connection that is gone.                  *)

\* How many messages a write to an open connection takes, and what epoll
\* watches for after it.
Everything(f) == Len(conn[f].wbuf)
Taken(f) ==
  LET room == SockBuf - Len(s2c[conn[f].proc])
  IN  IF Len(conn[f].wbuf) <= room THEN Len(conn[f].wbuf) ELSE room

ReadsAgain(f)  == "in"
WritesAgain(f) == "out"
ArmedAfter(f)  == IF Taken(f) = Len(conn[f].wbuf) THEN "in" ELSE "out"

\* write on a connection that was reset returns an error; the test is
\* `err & EAGAIN', so ECONNRESET arms EPOLLOUT and EPIPE arms EPOLLIN (the
\* MySQL client library has SIGPIPE ignored).
DealWrite(f) ==
  LET p == conn[f].proc
  IN  /\ Event(f, "out")
      /\ CASE link[p] = "rst" ->
                /\ \E ev \in {"in", "out"} : armed' = [armed EXCEPT ![f] = ev]
                /\ UNCHANGED <<conn, socketVars>>
           [] link[p] = "fin" ->
                /\ armed' = [armed EXCEPT ![f] = "in"]
                /\ conn' = [conn EXCEPT ![f].wbuf = <<>>]
                /\ link' = [link EXCEPT ![p] = "rst"]
                /\ UNCHANGED <<backlog, s2c>>
           [] OTHER ->
                /\ s2c' = [s2c EXCEPT ![p] = @ \o SubSeq(conn[f].wbuf, 1, Taken(f))]
                /\ conn' = [conn EXCEPT ![f].wbuf = SubSeq(@, Taken(f) + 1, Len(@))]
                /\ armed' = [armed EXCEPT ![f] = ArmedAfter(f)]
                /\ UNCHANGED <<link, backlog>>
      /\ UNCHANGED <<keyVars, gen, passwd, c2s>>

\* start's test for a connection that is gone.
ClosedOnly(c) == FALSE
MustLeave(c)  == c.act

\* An active member that is gone leaves the group before its Conn is closed.
\* When member_leave does not find it, the Conn stays active.
DealHup(f) ==
  LET c == conn[f]
      left == Closed([c EXCEPT !.act = c.mod \notin active])
  IN  /\ Event(f, "hup")
      /\ IF MustLeave(c)
         THEN /\ Drop(c.mod)
              /\ OnWriteNewKey([conn EXCEPT ![f] = left], [armed EXCEPT ![f] = "none"])
         ELSE /\ conn' = [conn EXCEPT ![f] = Closed(@)]
              /\ armed' = [armed EXCEPT ![f] = "none"]
              /\ UNCHANGED <<keyVars, gen>>
      /\ CloseSocket(f)

-----------------------------------------------------------------------------
DealRead(f) ==
  \/ DealReadError(f)
  \/ DealReadPart(f)
  \/ \E isLogin \in BOOLEAN : OnReadUserVerify(f, isLogin)
  \/ OnReadAllocation(f)
  \/ OnReadMemberJoin(f)
  \/ OnReadMemberLeave(f)
  \/ OnReadError(f)
  \/ DealReadDamaged(f)

ServerStep ==
  \/ Wait
  \/ DealListen
  \/ \E f \in Fds : DealRead(f) \/ DealWrite(f) \/ DealHup(f)
=============================================================================
